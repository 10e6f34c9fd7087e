---------------------------- MODULE MCJoyLibrary ----------------------------
(***************************************************************************)
(* A small instance of JoyLibrary: the two directions of a conversation,   *)
(* features that are ready with one packet or with two, one that wraps and *)
(* that a collected flow brings, whose active timeout is over when it is   *)
(* seen again, and an application that moves the clock to 6, when every    *)
(* flow has expired.                                                       *)
(***************************************************************************)
EXTENDS JoyLibrary, TLC

Tuple(sa, da, sp, dp) == [sa |-> sa, da |-> da, sp |-> sp, dp |-> dp, prot |-> 6]

MCKeys == {Tuple(1, 2, 3, 4), Tuple(2, 1, 4, 3)}
MCMix(n) == n % 2
MCTimes == {1, 6}
MCPacketTimes == {1}
MCNewTimes == {6}
SomeExport == {<<1, 6>>}

MCFeatures == {"IDP", "TLS", "SPLT", "SALT", "BD"}
MCBitmasks == {{"IDP", "TLS"}, {"SPLT"}, {"SALT"}, {"BD"}}
MCThreshold == [f \in Features |-> IF f = "SPLT" THEN 2 ELSE 1]
MCCap == MCThreshold
MCSize == [f \in Features |-> IF f = "SPLT" THEN 3 ELSE 2]
MCWrapping == {"BD"}
MCOverflowing == {"SPLT", "BD"}
MCAmounts == {[f \in Features |-> IF f = "TLS" THEN t ELSE 1] : t \in {0, 1}}
MCCollected == {[f \in Features |-> IF f = "BD" THEN 1 ELSE 0]}
MCMins == [f \in Features |-> IF f = "SPLT" THEN {1, 2} ELSE {1}]
MCAges == {0}
=============================================================================
