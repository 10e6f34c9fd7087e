----------------------------- MODULE MCJoyOnline -----------------------------
(***************************************************************************)
(* Small instances of JoyOnline; the configurations give the values.       *)
(***************************************************************************)
EXTENDS JoyOnline
=============================================================================
