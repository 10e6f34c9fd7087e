-------------------------- MODULE JoyLibraryProofs --------------------------
(***************************************************************************)
(* Proofs about JoyLibrary, for any features, thresholds, packets and any  *)
(* order of the calls of an application.                                   *)
(*                                                                         *)
(* The calls of the library are steps of FlowTable, with the exception of  *)
(* the walks of joy_delete_flow_records and joy_purge_old_flow_records, so *)
(* its invariant IInv holds here too.  What is handed to the application   *)
(* is counted in `delivered' and remembered in `ext_processed': they agree *)
(* for as long as a record lives, and begin anew with its address.         *)
(***************************************************************************)
EXTENDS JoyLibrary, FlowTableProofs, FiniteSetTheorems

Deliveries ==
  /\ delivered \in [Rid -> [Features -> Nat]]
  /\ ext_processed \in [Rid -> SUBSET Features]
  /\ \A r \in Rid, f \in Features :
       delivered[r][f] = IF f \in ext_processed[r] THEN 1 ELSE 0

\* A walk of the library goes on exactly while its cursor is at a record.
Walking == cur = NULL <=> call = "none"

Asked == bitmask \subseteq Features /\ mask \subseteq Features

LibInv == IInv /\ Ordered /\ Walking /\ Deliveries /\ Asked

-----------------------------------------------------------------------------

LEMMA LibInitInv == LibInit => LibInv
<1> SUFFICES ASSUME LibInit PROVE LibInv
  OBVIOUS
<1>1. IInv
  BY InitInv DEF LibInit
<1>2. Ordered /\ Walking /\ Asked
  BY DEF LibInit, Init, Ordered, Walking, Asked
<1>3. Deliveries
  BY DEF LibInit, Deliveries, Nothing
<1> QED BY <1>1, <1>2, <1>3 DEF LibInv

\* Receive forgets the deliveries of the records that are gone.
LEMMA ReceiveKeepsDeliveries ==
  ASSUME Deliveries, NEW gone, NEW used, NEW x, NEW fromPacket,
         Receive(gone, used, x, fromPacket)
  PROVE  Deliveries'
<1>1. /\ delivered' = [r \in Rid |-> IF r \in gone THEN Nothing ELSE delivered[r]]
      /\ ext_processed' = [r \in Rid |-> IF r \in gone THEN {} ELSE ext_processed[r]]
  BY DEF Receive, Zeroize
<1>2. Nothing \in [Features -> Nat] /\ \A f \in Features : Nothing[f] = 0
  BY DEF Nothing
<1> QED BY <1>1, <1>2 DEF Deliveries

\* The steps that are steps of FlowTable.
LEMMA FlowTableStep ==
  ASSUME IInv, Ordered, [Next]_vars
  PROVE  IInv' /\ Ordered'
BY StepInv, OrderStep

\* The walks of joy_delete_flow_records and joy_purge_old_flow_records.
LEMMA DeleteOrPurgeKeepsLists ==
  ASSUME IInv, Ordered, DeleteOrPurgeStep
  PROVE  IInv' /\ Ordered'
<1>1. /\ cur # NULL /\ cur' = NextRecord
      /\ UNCHANGED records \/ DeleteWithTwin(cur)
      /\ UNCHANGED <<global_time, walk>>
  BY DEF DeleteOrPurgeStep
<1>2. IInv'
  <2>1. Lists' /\ TimesTyped' /\ cur' \in chrono' \cup {NULL}
    BY <1>1, WalkStepKeepsInv
  <2>2. global_time' \in Times \cup {0} /\ walk' \in WalkTypes
    BY <1>1 DEF IInv, TypeOK
  <2> QED BY <2>1, <2>2, InvFromParts
<1>3. Ordered'
  <2>1. CASE UNCHANGED records
    BY <2>1 DEF records, Ordered, IsOldest
  <2>2. CASE DeleteWithTwin(cur)
    BY <2>2, DeleteKeepsOrder DEF DeleteWithTwin, IInv, TypeOK
  <2> QED BY <1>1, <2>1, <2>2
<1> QED BY <1>2, <1>3

\* A walk begins at a record, for the list is not empty.
LEMMA WalkBegins ==
  ASSUME IInv, Ordered, chrono # {}
  PROVE  Oldest(chrono) \in chrono /\ Oldest(chrono) # NULL
<1>1. chrono \in SUBSET table /\ table \subseteq Rid
  BY DEF IInv, TypeOK, ListsOK, ListsTyped
<1> QED BY <1>1, OldestOf

\* The polls hand over what was not handed over before.
LEMMA PollStep ==
  ASSUME LibInv, NEW f \in Features, NEW min, external_processing(f, min)
  PROVE  LibInv'
<1> DEFINE due == {r \in chrono : NotYet(r, f) /\ IfCompleteOrExpired(r, f, min)}
<1>1. /\ UNCHANGED vars /\ UNCHANGED <<library, request>>
      /\ ext_processed' = [r \in Rid |-> ext_processed[r] \cup IF r \in due THEN {f} ELSE {}]
      /\ delivered' = [r \in Rid |-> IF r \in due THEN [delivered[r] EXCEPT ![f] = @ + 1]
                                                  ELSE delivered[r]]
  BY DEF external_processing, NoCall, NotWalking, vars
<1>2. IInv' /\ Ordered'
  BY <1>1, FlowTableStep DEF LibInv
<1>3. Walking' /\ Asked'
  BY <1>1 DEF LibInv, Walking, Asked, vars, library, request
<1>4. \A r \in due : f \notin ext_processed[r]
  BY DEF NotYet
<1>5. Deliveries'
  <2> HIDE DEF due
  <2>1. delivered' \in [Rid -> [Features -> Nat]] /\ ext_processed' \in [Rid -> SUBSET Features]
    BY <1>1 DEF LibInv, Deliveries
  <2>2. ASSUME NEW r \in Rid, NEW g \in Features
        PROVE  delivered'[r][g] = IF g \in ext_processed'[r] THEN 1 ELSE 0
    <3>1. CASE r \in due /\ g = f
      BY <1>1, <1>4, <3>1 DEF LibInv, Deliveries
    <3>2. CASE ~(r \in due /\ g = f)
      BY <1>1, <3>2 DEF LibInv, Deliveries
    <3> QED BY <3>1, <3>2
  <2> QED BY <2>1, <2>2 DEF Deliveries
<1> QED BY <1>2, <1>3, <1>5 DEF LibInv

\* A call of the library that is a step of FlowTable between two walks.
LEMMA CallStep ==
  ASSUME LibInv, [Next]_vars, NoCall, cur' = NULL, cur = NULL,
         NEW gone, NEW used, NEW x, NEW fromPacket, Receive(gone, used, x, fromPacket)
  PROVE  LibInv'
<1>1. IInv' /\ Ordered' /\ Deliveries'
  BY FlowTableStep, ReceiveKeepsDeliveries DEF LibInv
<1>2. Walking' /\ Asked'
  BY DEF LibInv, Walking, Asked, NoCall, library, request
<1> QED BY <1>1, <1>2 DEF LibInv

LEMMA BeginStep ==
  ASSUME LibInv, cur' = Oldest(chrono), chrono # {},
         UNCHANGED <<records, global_time, library, counters>>,
         walk' \in WalkTypes, call' # "none", mask' \subseteq Features
  PROVE  LibInv'
<1>1. cur' \in chrono /\ cur' # NULL
  BY WalkBegins DEF LibInv
<1>2. IInv'
  BY <1>1 DEF LibInv, IInv, TypeOK, records
<1>3. Ordered' /\ Walking' /\ Deliveries' /\ Asked'
  BY <1>1 DEF LibInv, Ordered, IsOldest, records, Walking, Deliveries, Asked, counters,
     library
<1> QED BY <1>2, <1>3 DEF LibInv

LEMMA EndOfCallKeeps ==
  ASSUME LibInv, call # "none", EndOfCall
  PROVE  Walking' /\ Asked'
BY DEF LibInv, Walking, Asked, EndOfCall, request, library

LEMMA LibStepInv == LibInv /\ [LibNext]_allVars => LibInv'
<1> SUFFICES ASSUME LibInv, [LibNext]_allVars PROVE LibInv'
  OBVIOUS
<1>1. PacketTimes \subseteq Times /\ NewTimes \subseteq Times
      /\ \A b \in Bitmasks : b \subseteq Features
  BY LibraryAssumption
<1>2. CASE UNCHANGED allVars
  <2>1. IInv' /\ Ordered'
    BY <1>2, FlowTableStep DEF allVars, LibInv
  <2>2. Walking' /\ Deliveries' /\ Asked'
    BY <1>2 DEF LibInv, Walking, Deliveries, Asked, allVars, libVars, library, request, counters, vars
  <2> QED BY <2>1, <2>2 DEF LibInv
<1>3. ASSUME NEW k \in Keys, NEW ts \in PacketTimes, NEW x, joy_process_packet(k, ts, x)
      PROVE  LibInv'
  BY <1>1, <1>3, CallStep DEF joy_process_packet, Next, process_packet, NotWalking
<1>4. ASSUME NEW k \in Keys, NEW ts \in PacketTimes, joy_process_retransmission(k, ts)
      PROVE  LibInv'
  BY <1>1, <1>4, CallStep DEF joy_process_retransmission, Next, process_retransmission, NotWalking
<1>5. ASSUME NEW k \in Keys, NEW t \in Exported, NEW x, joy_collect_flow(k, t, x)
      PROVE  LibInv'
  BY <1>5, CallStep DEF joy_collect_flow, Next, collect_flow, NotWalking
<1>6. ASSUME NEW t \in NewTimes, joy_update_ctx_global_time(t)
      PROVE  LibInv'
  <2>1. /\ NoCall /\ UNCHANGED <<records, counters, cur, walk>> /\ global_time' \in Times
    BY <1>1, <1>6 DEF joy_update_ctx_global_time, NotWalking
  <2> QED BY <2>1 DEF LibInv, IInv, TypeOK, Ordered, IsOldest, Walking, Deliveries, Asked,
          records, counters, NoCall, library, request
<1>7. ASSUME NEW f \in Features, NEW min, Process(f, min)
      PROVE  LibInv'
  BY <1>7, PollStep
  DEF Process, joy_idp_external_processing, joy_tls_external_processing,
      joy_splt_external_processing, joy_salt_external_processing, joy_bd_external_processing
<1>8. ASSUME NEW type \in WalkTypes, joy_print_flow_data(type) \/ joy_export_flows_ipfix(type)
      PROVE  LibInv'
  <2>1. /\ cur' = Oldest(chrono) /\ chrono # {} /\ walk' \in WalkTypes
        /\ UNCHANGED <<records, global_time, library, counters>>
        /\ call' # "none" /\ mask' \subseteq Features
    BY <1>8 DEF joy_print_flow_data, joy_export_flows_ipfix, StartWalk, Begin
  <2> QED BY <2>1, BeginStep
<1>9. ASSUME NEW m \in SUBSET bitmask, joy_delete_flow_records(m)
      PROVE  LibInv'
  <2>1. m \in SUBSET Features /\ walk \in WalkTypes
    BY DEF LibInv, Asked, IInv, TypeOK
  <2>2. /\ cur' = Oldest(chrono) /\ chrono # {} /\ walk' \in WalkTypes
        /\ UNCHANGED <<records, global_time, library, counters>>
        /\ call' # "none" /\ mask' \subseteq Features
    BY <1>9, <2>1 DEF joy_delete_flow_records, StartOwnWalk, Begin
  <2> QED BY <2>2, BeginStep
<1>10. ASSUME NEW a \in Ages, joy_purge_old_flow_records(a)
       PROVE  LibInv'
  <2>1. walk \in WalkTypes
    BY DEF LibInv, IInv, TypeOK
  <2>2. /\ cur' = Oldest(chrono) /\ chrono # {} /\ walk' \in WalkTypes
        /\ UNCHANGED <<records, global_time, library, counters>>
        /\ call' # "none" /\ mask' \subseteq Features
    BY <1>10, <2>1 DEF joy_purge_old_flow_records, StartOwnWalk, Begin
  <2> QED BY <2>2, BeginStep
<1>11. CASE PrintStep
  <2>1. IInv' /\ Ordered'
    BY <1>11, FlowTableStep DEF PrintStep, Next, LibInv
  <2>2. Deliveries'
    BY <1>11, ReceiveKeepsDeliveries DEF PrintStep, LibInv
  <2>3. call # "none" /\ EndOfCall
    BY <1>11 DEF PrintStep
  <2> QED BY <2>1, <2>2, <2>3, EndOfCallKeeps DEF LibInv
<1>12. CASE DeleteOrPurgeStep
  <2>1. IInv' /\ Ordered'
    BY <1>12, DeleteOrPurgeKeepsLists DEF LibInv
  <2>2. Deliveries'
    BY <1>12, ReceiveKeepsDeliveries DEF DeleteOrPurgeStep, LibInv
  <2>3. call # "none" /\ EndOfCall
    BY <1>12 DEF DeleteOrPurgeStep
  <2> QED BY <2>1, <2>2, <2>3, EndOfCallKeeps DEF LibInv
<1>13. CASE joy_context_cleanup
  BY <1>13, CallStep DEF joy_context_cleanup, Next, flow_record_list_free, NotWalking
<1>14. CASE joy_shutdown
  <2>1. bitmask' = {} /\ UNCHANGED request /\ cur = NULL /\ cur' = NULL
    BY <1>14 DEF joy_shutdown, flow_record_list_free, NotWalking
  <2>2. Walking' /\ Asked'
    BY <2>1 DEF LibInv, Walking, Asked, request
  <2>3. CASE UNCHANGED <<records, cur, walk, global_time, counters>>
    <3>1. IInv' /\ Ordered'
      BY <2>3, FlowTableStep DEF vars, LibInv
    <3>2. Deliveries'
      BY <2>3 DEF LibInv, Deliveries, counters
    <3> QED BY <3>1, <3>2, <2>2 DEF LibInv
  <2>4. CASE flow_record_list_free /\ Receive(table, NULL, Nothing, FALSE)
    <3>1. IInv' /\ Ordered' /\ Deliveries'
      BY <2>4, FlowTableStep, ReceiveKeepsDeliveries DEF Next, LibInv
    <3> QED BY <3>1, <2>2 DEF LibInv
  <2> QED BY <1>14, <2>3, <2>4 DEF joy_shutdown
<1>15. CASE joy_initialize
  <2>1. /\ UNCHANGED <<records, cur, walk, request, ext_processed, delivered>>
        /\ global_time' = 0 /\ bitmask' \in Bitmasks
    BY <1>15 DEF joy_initialize
  <2> QED BY <1>1, <2>1 DEF LibInv, IInv, TypeOK, Ordered, IsOldest, Walking, Deliveries, Asked,
          records, request
<1> QED
  BY <1>2, <1>3, <1>4, <1>5, <1>6, <1>7, <1>8, <1>9, <1>10, <1>11, <1>12, <1>13, <1>14, <1>15
  DEF LibNext

LEMMA LibInductive == LibSpec => []LibInv
BY LibInitInv, LibStepInv, PTL DEF LibSpec

(***************************************************************************)
(* The counters.  A record is counted when its flag is set and no longer   *)
(* counted when its data are deleted, so a flag must say what the data     *)
(* say.  It does for every feature that is not unnoticed; that the address *)
(* of a freed record has neither data nor flags holds of all of them.      *)
(***************************************************************************)
AmountsTyped ==
  /\ amount \in [Rid -> [Features -> Nat]]
  /\ feature_flags \in [Rid -> SUBSET Features]
  /\ recs_ready \in [Features -> Int]

Cleared == \A r \in Rid \ table : amount[r] = Nothing /\ feature_flags[r] = {}

FlagsAgree(f) == \A r \in Rid : f \in feature_flags[r] <=> f \in ReadyFeatures(amount[r])

CountExact(f) == recs_ready[f] = Cardinality(RecordsReady(f))

Counters ==
  /\ AmountsTyped /\ Cleared
  /\ \A f \in Features : f \in unnoticed \/ (FlagsAgree(f) /\ CountExact(f))

\* The contexts of a library that is not initialized hold no records.
EmptyBefore == ~ joy_library_initialized => table = {}

CountInv == LibInv /\ Counters /\ EmptyBefore

-----------------------------------------------------------------------------

LEMMA NothingReady ==
  /\ Nothing \in [Features -> Nat]
  /\ ReadyFeatures(Nothing) = {}
<1>1. \A f \in Features : Threshold[f] \in Nat \ {0} /\ Nothing[f] = 0
  BY LibraryAssumption DEF Nothing
<1> QED BY <1>1 DEF Nothing, ReadyFeatures

\* What is left of an amount once the records `gone' are deleted.
LEMMA AmountLeft ==
  ASSUME AmountsTyped, NEW gone, NEW r \in Rid
  PROVE  /\ Zeroize(amount, gone, Nothing)[r] = IF r \in gone THEN Nothing ELSE amount[r]
         /\ Zeroize(amount, gone, Nothing)[r] \in [Features -> Nat]
         /\ Zeroize(feature_flags, gone, {})[r] = IF r \in gone THEN {} ELSE feature_flags[r]
BY DEF Zeroize, Nothing, AmountsTyped

LEMMA GrownTyped ==
  ASSUME NEW a \in [Features -> Nat], NEW x \in [Features -> Nat], NEW f \in Features, NEW endless
  PROVE  Grown(a, x, f, endless) \in Nat
<1>1. a[f] \in Nat /\ x[f] \in Nat /\ Cap[f] \in Nat /\ Size[f] \in Nat \ {0}
  BY LibraryAssumption
<1>2. (a[f] + x[f]) % Size[f] \in Nat
  BY <1>1
<1> QED BY <1>1, <1>2 DEF Grown

LEMMA AddAmountTyped ==
  ASSUME NEW a \in [Features -> Nat], NEW x \in [Features -> Nat], NEW fromPacket
  PROVE  AddAmount(a, x, fromPacket) \in [Features -> Nat]
<1> SUFFICES ASSUME NEW f \in Features
             PROVE  (IF f \in bitmask
                     THEN Grown(a, x, f, IF fromPacket THEN Wrapping ELSE Overflowing)
                     ELSE a[f]) \in Nat
  BY DEF AddAmount
<1>1. Grown(a, x, f, Overflowing) \in Nat /\ Grown(a, x, f, Wrapping) \in Nat /\ a[f] \in Nat
  BY GrownTyped
<1> QED BY <1>1

\* There are no more ready records than a counter can count.
LEMMA ReadyRecords ==
  ASSUME table \subseteq Rid, NEW f \in Features
  PROVE  /\ IsFiniteSet(RecordsReady(f)) /\ Cardinality(RecordsReady(f)) \in Nat
         /\ Cardinality(RecordsReady(f)) < RecsMod
<1>1. RecordsReady(f) \subseteq Rid
  BY DEF RecordsReady
<1>2. IsFiniteSet(Rid) /\ Cardinality(Rid) \in Nat /\ RecsMod \in Nat /\ Cardinality(Rid) < RecsMod
  BY RecordsAssumption, FS_CardinalityType
<1>3. IsFiniteSet(RecordsReady(f)) /\ Cardinality(RecordsReady(f)) <= Cardinality(Rid)
  BY <1>1, <1>2, FS_Subset
<1>4. Cardinality(RecordsReady(f)) \in Nat
  BY <1>3, FS_CardinalityType
<1> QED BY <1>2, <1>3, <1>4

\* The counter of a feature follows the records that are deleted and the one
\* that receives something.
LEMMA ReceiveCounts ==
  ASSUME AmountsTyped, Cleared, table \subseteq Rid, NEW gone, gone \subseteq table,
         NEW used \in Rid \cup {NULL}, NEW x \in [Features -> Nat], NEW fromPacket \in BOOLEAN,
         table' = (table \ gone) \cup ({used} \ {NULL}),
         Receive(gone, used, x, fromPacket),
         NEW f \in Features, FlagsAgree(f), CountExact(f), f \notin unnoticed'
  PROVE  FlagsAgree(f)' /\ CountExact(f)'
<1> DEFINE left == Zeroize(amount, gone, Nothing)
           flags == Zeroize(feature_flags, gone, {})
           more == AddAmount(left[used], x, fromPacket)
           fresh == IF used = NULL \/ ~fromPacket THEN {}
                    ELSE flow_record_set_feature_ready_flags(more, flags[used])
           D == {r \in gone : f \in ReadyFeatures(amount[r])}
           kept == RecordsReady(f) \ D
           Ready(a) == f \in ReadyFeatures(a)
<1>1. /\ amount' = IF used = NULL THEN left ELSE [left EXCEPT ![used] = more]
      /\ feature_flags' = IF used = NULL THEN flags ELSE [flags EXCEPT ![used] = @ \cup fresh]
      /\ recs_ready'[f] = (recs_ready[f] - Cardinality(D) + IF f \in fresh THEN 1 ELSE 0) % RecsMod
      /\ used # NULL => f \notin Unnoticed(left[used], more, fromPacket)
  BY DEF Receive, flow_record_delete
<1>2. \A r \in Rid : /\ Ready(left[r]) <=> r \notin gone /\ Ready(amount[r])
                     /\ f \in flags[r] <=> Ready(left[r])
                     /\ r \notin table \ gone => ~Ready(left[r])
  <2> SUFFICES ASSUME NEW r \in Rid
               PROVE  /\ Ready(left[r]) <=> r \notin gone /\ Ready(amount[r])
                      /\ f \in flags[r] <=> Ready(left[r])
                      /\ r \notin table \ gone => ~Ready(left[r])
    OBVIOUS
  <2> HIDE DEF left, flags
  <2>1. /\ left[r] = IF r \in gone THEN Nothing ELSE amount[r]
        /\ flags[r] = IF r \in gone THEN {} ELSE feature_flags[r]
    BY AmountLeft DEF left, flags
  <2> QED BY <2>1, NothingReady DEF FlagsAgree, Cleared
<1>3. used # NULL => /\ Ready(left[used]) => Ready(more)
                     /\ ~fromPacket => (Ready(more) <=> Ready(left[used]))
  BY <1>1 DEF Unnoticed
<1>4. f \in fresh <=> used # NULL /\ fromPacket /\ Ready(more) /\ ~Ready(left[used])
  BY <1>2 DEF flow_record_set_feature_ready_flags
<1>5. /\ \A r \in Rid \ {used} : amount'[r] = left[r] /\ feature_flags'[r] = flags[r]
      /\ used # NULL => amount'[used] = more /\ feature_flags'[used] = flags[used] \cup fresh
  BY <1>1 DEF Zeroize
<1> HIDE DEF left, flags, more, fresh
<1>6. FlagsAgree(f)'
  <2> SUFFICES ASSUME NEW r \in Rid
               PROVE  f \in feature_flags'[r] <=> f \in ReadyFeatures(amount'[r])
    BY DEF FlagsAgree, ReadyFeatures
  <2>1. CASE r # used
    BY <1>2, <1>5, <2>1
  <2>2. CASE r = used
    BY <1>2, <1>3, <1>4, <1>5, <2>2, NullAssumption
  <2> QED BY <2>1, <2>2
<1>7. RecordsReady(f)' = kept \cup (IF used # NULL /\ Ready(more) THEN {used} ELSE {})
  <2>1. ASSUME NEW r
        PROVE  r \in RecordsReady(f)' <=> r \in table' /\ f \in ReadyFeatures(amount'[r])
    BY DEF RecordsReady, ReadyFeatures
  <2>2. ASSUME NEW r \in Rid
        PROVE  r \in kept <=> Ready(left[r])
    BY <1>2 DEF RecordsReady
  <2>3. ASSUME NEW r \in Rid \ {used}
        PROVE  r \in RecordsReady(f)' <=> r \in kept
    BY <1>2, <2>1, <2>2, <1>5
  <2>4. ASSUME used # NULL
        PROVE  /\ used \in RecordsReady(f)' <=> Ready(more)
               /\ used \in kept => Ready(more)
    BY <1>3, <1>5, <2>1, <2>2, <2>4
  <2>5. kept \subseteq Rid /\ RecordsReady(f)' \subseteq Rid
    BY DEF RecordsReady
  <2> QED BY <2>3, <2>4, <2>5, NullAssumption
<1>8. D \subseteq RecordsReady(f) /\ IsFiniteSet(RecordsReady(f)) /\ IsFiniteSet(kept)
      /\ Cardinality(kept) = Cardinality(RecordsReady(f)) - Cardinality(D)
  <2>1. D \subseteq RecordsReady(f)
    BY DEF RecordsReady
  <2>2. IsFiniteSet(RecordsReady(f))
    BY ReadyRecords
  <2>3. RecordsReady(f) \cap D = D
    BY <2>1
  <2> QED BY <2>1, <2>2, <2>3, FS_Difference
<1>9. used \in kept <=> used # NULL /\ Ready(left[used])
  BY <1>2, NullAssumption DEF RecordsReady
<1>10. IsFiniteSet(D) /\ Cardinality(D) \in Nat /\ Cardinality(kept) \in Nat
       /\ Cardinality(RecordsReady(f)) \in Nat
  BY <1>8, FS_Subset, FS_CardinalityType
<1>11. PICK n : n = Cardinality(kept) + IF f \in fresh THEN 1 ELSE 0
  OBVIOUS
<1>12. Cardinality(RecordsReady(f)') = n
  <2>1. CASE f \in fresh
    BY <1>4, <1>7, <1>8, <1>9, <1>11, <2>1, FS_AddElement
  <2>2. CASE f \notin fresh
    <3>1. used # NULL /\ Ready(more) => Ready(left[used])
      BY <1>3, <1>4, <2>2
    <3>2. RecordsReady(f)' = kept
      BY <1>7, <1>9, <3>1
    <3> QED BY <1>10, <1>11, <2>2, <3>2
  <2> QED BY <2>1, <2>2
<1>13. n \in Nat /\ n < RecsMod /\ RecsMod \in Nat
  <2>1. table' \subseteq Rid
    OBVIOUS
  <2>2. RecordsReady(f)' \subseteq Rid
    BY <2>1 DEF RecordsReady
  <2>3. Cardinality(RecordsReady(f)') <= Cardinality(Rid)
    BY <2>2, RecordsAssumption, FS_Subset
  <2>4. Cardinality(Rid) \in Nat /\ RecsMod \in Nat /\ Cardinality(Rid) < RecsMod
    BY RecordsAssumption, FS_CardinalityType
  <2>5. n \in Nat
    BY <1>10, <1>11
  <2> QED BY <1>12, <2>3, <2>4, <2>5
<1>14. recs_ready[f] - Cardinality(D) + (IF f \in fresh THEN 1 ELSE 0) = n
  BY <1>8, <1>10, <1>11 DEF CountExact
<1>15. n % RecsMod = n
  BY <1>13
<1>16. recs_ready'[f] = Cardinality(RecordsReady(f)')
  BY <1>1, <1>12, <1>14, <1>15
<1> QED BY <1>6, <1>16 DEF CountExact

LEMMA ReceiveTyped ==
  ASSUME AmountsTyped, Cleared, table \subseteq Rid, NEW gone, NEW used \in Rid \cup {NULL},
         NEW x \in [Features -> Nat], NEW fromPacket, gone \subseteq table,
         table' = (table \ gone) \cup ({used} \ {NULL}),
         Receive(gone, used, x, fromPacket)
  PROVE  AmountsTyped' /\ Cleared'
<1> DEFINE left == Zeroize(amount, gone, Nothing)
           flags == Zeroize(feature_flags, gone, {})
           more == AddAmount(left[used], x, fromPacket)
           fresh == IF used = NULL \/ ~fromPacket THEN {}
                    ELSE flow_record_set_feature_ready_flags(more, flags[used])
<1>1. left \in [Rid -> [Features -> Nat]] /\ flags \in [Rid -> SUBSET Features]
  BY DEF Zeroize, Nothing, AmountsTyped
<1>2. /\ amount' = IF used = NULL THEN left ELSE [left EXCEPT ![used] = more]
      /\ feature_flags' = IF used = NULL THEN flags ELSE [flags EXCEPT ![used] = @ \cup fresh]
      /\ recs_ready' = [f \in Features |->
           (recs_ready[f] - flow_record_delete(gone)[f] + IF f \in fresh THEN 1 ELSE 0) % RecsMod]
  BY DEF Receive
<1>3. fresh \subseteq Features
  BY DEF flow_record_set_feature_ready_flags, ReadyFeatures
<1>4. used # NULL => more \in [Features -> Nat]
  <2> SUFFICES ASSUME used # NULL PROVE more \in [Features -> Nat]
    OBVIOUS
  <2>1. left[used] \in [Features -> Nat]
    BY <1>1
  <2> HIDE DEF left
  <2> QED BY <2>1, AddAmountTyped
<1>5. \A f \in Features : flow_record_delete(gone)[f] \in Int
  <2> SUFFICES ASSUME NEW f \in Features
               PROVE  Cardinality({r \in gone : f \in ReadyFeatures(amount[r])}) \in Int
    BY DEF flow_record_delete
  <2> DEFINE D == {r \in gone : f \in ReadyFeatures(amount[r])}
  <2>1. D \subseteq Rid /\ IsFiniteSet(Rid)
    BY RecordsAssumption
  <2>2. Cardinality(D) \in Nat
    BY <2>1, FS_Subset, FS_CardinalityType
  <2> QED BY <2>2
<1>6. \A r \in Rid \ table' : left[r] = Nothing /\ flags[r] = {}
  <2> SUFFICES ASSUME NEW r \in Rid, r \notin table'
               PROVE  left[r] = Nothing /\ flags[r] = {}
    OBVIOUS
  <2> HIDE DEF left, flags
  <2>1. /\ left[r] = IF r \in gone THEN Nothing ELSE amount[r]
        /\ flags[r] = IF r \in gone THEN {} ELSE feature_flags[r]
    BY AmountLeft DEF left, flags
  <2> QED BY <2>1 DEF Cleared
<1> HIDE DEF left, flags, more, fresh
<1>7. amount' \in [Rid -> [Features -> Nat]] /\ feature_flags' \in [Rid -> SUBSET Features]
  BY <1>1, <1>2, <1>3, <1>4
<1>8. recs_ready' \in [Features -> Int]
  <2>1. RecsMod \in Nat \ {0}
    BY RecordsAssumption, FS_CardinalityType
  <2> SUFFICES ASSUME NEW f \in Features
               PROVE  (recs_ready[f] - flow_record_delete(gone)[f] +
                         IF f \in fresh THEN 1 ELSE 0) % RecsMod \in Int
    BY <1>2
  <2>2. PICK n \in Int : n = recs_ready[f] - flow_record_delete(gone)[f] +
                               IF f \in fresh THEN 1 ELSE 0
    BY <1>5 DEF AmountsTyped
  <2>3. n % RecsMod \in Int
    BY <2>1
  <2> QED BY <2>2, <2>3
<1>9. Cleared'
  BY <1>1, <1>2, <1>6, NullAssumption DEF Cleared, Nothing
<1> QED BY <1>7, <1>8, <1>9 DEF AmountsTyped

LEMMA ReceiveKeepsCounters ==
  ASSUME Counters, table \subseteq Rid, NEW gone, gone \subseteq table,
         NEW used \in Rid \cup {NULL}, NEW x \in [Features -> Nat], NEW fromPacket \in BOOLEAN,
         table' = (table \ gone) \cup ({used} \ {NULL}),
         Receive(gone, used, x, fromPacket)
  PROVE  Counters'
<1>1. AmountsTyped' /\ Cleared'
  BY ReceiveTyped DEF Counters
<1>2. unnoticed \subseteq unnoticed'
  BY DEF Receive
<1>3. ASSUME NEW f \in Features, f \notin unnoticed' PROVE FlagsAgree(f)' /\ CountExact(f)'
  BY <1>2, <1>3, ReceiveCounts DEF Counters
<1> QED BY <1>1, <1>3 DEF Counters

\* Where there are no records and nothing is counted, the counters are right.
NothingCounted == AmountsTyped /\ Cleared /\ table = {} /\ recs_ready = Nothing

LEMMA NoRecords == NothingCounted => Counters
<1> SUFFICES ASSUME NothingCounted, NEW f \in Features PROVE FlagsAgree(f) /\ CountExact(f)
  BY DEF Counters, NothingCounted
<1> USE DEF NothingCounted
<1>1. RecordsReady(f) = {} /\ recs_ready[f] = 0
  BY DEF RecordsReady, Nothing
<1>2. CountExact(f)
  BY <1>1, FS_EmptySet DEF CountExact
<1>3. FlagsAgree(f)
  BY NothingReady DEF Cleared, FlagsAgree
<1> QED BY <1>2, <1>3

LEMMA CountInit == LibInit => CountInv
<1> SUFFICES ASSUME LibInit PROVE CountInv
  OBVIOUS
<1>1. table = {} /\ amount = [r \in Rid |-> Nothing] /\ feature_flags = [r \in Rid |-> {}]
      /\ recs_ready = Nothing
  BY DEF LibInit, Init
<1>2. AmountsTyped /\ Cleared
  BY <1>1 DEF AmountsTyped, Cleared, Nothing
<1> QED BY <1>1, <1>2, NoRecords, LibInitInv DEF CountInv, EmptyBefore, NothingCounted

LEMMA UnchangedCounts ==
  ASSUME Counters, UNCHANGED <<table, amount, feature_flags, recs_ready, unnoticed>>
  PROVE  Counters'
<1>1. AmountsTyped' /\ Cleared'
  BY DEF Counters, AmountsTyped, Cleared
<1>2. ASSUME NEW f \in Features, f \notin unnoticed' PROVE FlagsAgree(f)' /\ CountExact(f)'
  BY <1>2 DEF Counters, FlagsAgree, CountExact, RecordsReady, ReadyFeatures
<1> QED BY <1>1, <1>2 DEF Counters

\* A packet or a collected flow: a step of the flow table that looks up a record.
LEMMA LookupCounts ==
  ASSUME CountInv, NEW k \in Keys, NEW expired, NEW refresh,
         NEW st \in Times \cup {0}, NEW en \in Times \cup {0},
         get_record(k, expired, st, en, refresh),
         NEW x \in [Features -> Nat], NEW fromPacket \in BOOLEAN,
         Receive(Preempted(k, expired), Used(k), x, fromPacket)
  PROVE  Counters'
<1>1. Lists /\ TimesTyped /\ table \subseteq Rid
  BY DEF CountInv, LibInv, IInv, TypeOK, Lists, TimesTyped
<1>2. PICK gone, u : gone = Preempted(k, expired) /\ u = Used(k)
  OBVIOUS
<1>3. /\ gone \subseteq table /\ u \in Rid \cup {NULL}
      /\ table' = (table \ gone) \cup ({u} \ {NULL})
  BY <1>1, <1>2, GetRecordTable
<1> QED BY <1>1, <1>2, <1>3, ReceiveKeepsCounters DEF CountInv

\* Records are deleted, by a walk or all at once.
LEMMA DeletionCounts ==
  ASSUME CountInv, NEW gone, gone \subseteq table, table' = table \ gone,
         Receive(gone, NULL, Nothing, FALSE)
  PROVE  Counters'
<1>1. table \subseteq Rid
  BY DEF CountInv, LibInv, IInv, TypeOK
<1>2. Nothing \in [Features -> Nat]
  BY NothingReady
<1>3. table' = (table \ gone) \cup ({NULL} \ {NULL})
  OBVIOUS
<1> QED BY <1>1, <1>2, <1>3, ReceiveKeepsCounters DEF CountInv

LEMMA CountStep == CountInv /\ [LibNext]_allVars => CountInv'
<1> SUFFICES ASSUME CountInv, [LibNext]_allVars PROVE Counters' /\ EmptyBefore'
  BY LibStepInv DEF CountInv
<1>1. /\ PacketTimes \subseteq Times
      /\ Amounts \subseteq [Features -> Nat] /\ Collected \subseteq [Features -> Nat]
      /\ Exported \subseteq (Times \cup {0}) \X (Times \cup {0})
  BY LibraryAssumption, ConfigAssumption
<1>2. Nothing \in [Features -> Nat]
  BY NothingReady
<1>3. /\ Counters /\ chrono \subseteq table /\ \A r \in chrono : WithTwin(r) \subseteq table
      /\ cur \in chrono \cup {NULL}
  BY DEF CountInv, LibInv, IInv, ListsOK, ListsTyped, WithTwin
<1>4. CASE UNCHANGED <<table, amount, feature_flags, recs_ready, unnoticed, joy_library_initialized>>
  BY <1>3, <1>4, UnchangedCounts DEF CountInv, EmptyBefore
<1>5. ASSUME NEW k \in Keys, NEW ts \in PacketTimes, NEW x \in Amounts, joy_process_packet(k, ts, x)
      PROVE  Counters' /\ EmptyBefore'
  <2>1. /\ get_record(k, active_expired(ts), ts, ts, TRUE) /\ joy_library_initialized'
        /\ Receive(Preempted(k, active_expired(ts)), Used(k), x, TRUE)
    BY <1>5 DEF joy_process_packet, process_packet, NoCall, library
  <2> QED BY <1>1, <2>1, LookupCounts DEF EmptyBefore
<1>6. ASSUME NEW k \in Keys, NEW ts \in PacketTimes, joy_process_retransmission(k, ts)
      PROVE  Counters' /\ EmptyBefore'
  <2>1. /\ get_record(k, active_expired(ts), 0, 0, FALSE) /\ joy_library_initialized'
        /\ Receive(Preempted(k, active_expired(ts)), Used(k), Nothing, FALSE)
    BY <1>6 DEF joy_process_retransmission, process_retransmission, NoCall, library
  <2> QED BY <1>2, <2>1, LookupCounts DEF EmptyBefore
<1>7. ASSUME NEW k \in Keys, NEW t \in Exported, NEW x \in Collected, joy_collect_flow(k, t, x)
      PROVE  Counters' /\ EmptyBefore'
  <2>1. /\ get_record(k, active_expired_no_header, t[1], t[2], FALSE) /\ joy_library_initialized'
        /\ Receive(Preempted(k, active_expired_no_header), Used(k), x, FALSE)
    BY <1>7 DEF joy_collect_flow, collect_flow, NoCall, library
  <2>2. t[1] \in Times \cup {0} /\ t[2] \in Times \cup {0} /\ x \in [Features -> Nat]
    BY <1>1
  <2> QED BY <2>1, <2>2, LookupCounts DEF EmptyBefore
<1>8. CASE PrintStep \/ DeleteOrPurgeStep
  <2>1. PICK gone : /\ \/ gone = {} /\ UNCHANGED records
                       \/ gone = WithTwin(cur) /\ DeleteWithTwin(cur)
                    /\ Receive(gone, NULL, Nothing, FALSE)
    BY <1>8 DEF PrintStep, WalkStep, DeleteOrPurgeStep
  <2>2. cur \in chrono /\ UNCHANGED joy_library_initialized
    BY <1>3, <1>8 DEF PrintStep, WalkStep, DeleteOrPurgeStep, EndOfCall, library
  <2>3. gone \subseteq table /\ table' = table \ gone
    BY <1>3, <2>1, <2>2 DEF records, DeleteWithTwin, Delete
  <2> QED BY <2>1, <2>2, <2>3, DeletionCounts DEF CountInv, EmptyBefore
<1>9. CASE flow_record_list_free /\ Receive(table, NULL, Nothing, FALSE)
  BY <1>9, DeletionCounts DEF flow_record_list_free, EmptyBefore
<1>10. CASE joy_initialize
  <2>1. /\ UNCHANGED <<table, amount, feature_flags>> /\ recs_ready' = Nothing
        /\ joy_library_initialized' /\ table = {}
    BY <1>10 DEF joy_initialize, records, CountInv, EmptyBefore
  <2>2. AmountsTyped' /\ Cleared'
    BY <1>2, <1>3, <2>1 DEF Counters, AmountsTyped, Cleared
  <2>3. Counters'
    <3>1. NothingCounted'
      BY <2>1, <2>2 DEF NothingCounted, Nothing
    <3> QED BY <3>1, NoRecords, PTL
  <2> QED BY <2>1, <2>3 DEF EmptyBefore
<1>11. CASE joy_context_cleanup \/ joy_shutdown
  <2>1. CASE flow_record_list_free /\ Receive(table, NULL, Nothing, FALSE)
    BY <1>9, <2>1
  <2>2. CASE table = {} /\ UNCHANGED <<records, counters>>
    <3>1. UNCHANGED <<table, amount, feature_flags, recs_ready, unnoticed>> /\ table' = {}
      BY <2>2 DEF records, counters
    <3> QED BY <1>3, <3>1, UnchangedCounts DEF EmptyBefore
  <2> QED BY <1>11, <2>1, <2>2 DEF joy_context_cleanup, joy_shutdown
<1>12. CASE UNCHANGED allVars
  BY <1>4, <1>12 DEF allVars, vars, records, libVars, counters, library
<1>13. ASSUME \/ \E t \in NewTimes : joy_update_ctx_global_time(t)
              \/ \E f \in Features : \E min \in Mins[f] : Process(f, min)
              \/ \E type \in WalkTypes : joy_print_flow_data(type) \/ joy_export_flows_ipfix(type)
              \/ \E m \in SUBSET bitmask : joy_delete_flow_records(m)
              \/ \E a \in Ages : joy_purge_old_flow_records(a)
       PROVE  Counters' /\ EmptyBefore'
  <2>1. UNCHANGED <<table, amount, feature_flags, recs_ready, unnoticed, joy_library_initialized>>
    BY <1>13 DEF joy_update_ctx_global_time, Process, joy_idp_external_processing,
       joy_tls_external_processing, joy_splt_external_processing, joy_salt_external_processing,
       joy_bd_external_processing, external_processing, joy_print_flow_data,
       joy_export_flows_ipfix, StartWalk, joy_delete_flow_records, joy_purge_old_flow_records,
       StartOwnWalk, Begin, NoCall, library, counters, records
  <2> QED BY <1>4, <2>1
<1> QED
  BY <1>5, <1>6, <1>7, <1>8, <1>9, <1>10, <1>11, <1>12, <1>13 DEF LibNext

(***************************************************************************)
(* The theorems.                                                           *)
(***************************************************************************)

\* However calls and walks of the library follow one another, no list, twin
\* pointer or cursor refers to a freed record.
THEOREM LibraryUsesNoFreedRecord == LibSpec => []LibNoDanglingPointer
<1>1. LibInv => LibNoDanglingPointer
  BY DEF LibInv, Walking, IInv, ListsOK, ListsTyped, NoDanglingPointer, LibNoDanglingPointer
<1> QED BY <1>1, LibInductive, PTL

\* The callback gets a feature of a flow at most once.
THEOREM HandedOverOnce == LibSpec => []DeliveredOnce
<1>1. LibInv => DeliveredOnce
  <2> SUFFICES ASSUME LibInv, NEW r \in table, NEW f \in Features PROVE delivered[r][f] <= 1
    BY DEF DeliveredOnce
  <2>1. r \in Rid
    BY DEF LibInv, IInv, TypeOK
  <2> QED BY <2>1 DEF LibInv, Deliveries
<1> QED BY <1>1, LibInductive, PTL

\* The counters joy_get_feature_counts returns are the numbers of ready records,
\* whichever of the calls creates, fills, prints, purges or frees them, and
\* across shutdown and initialization, for each feature until a collected flow
\* makes a record ready or a counter that wraps takes it back.
THEOREM CountersAgree == LibSpec => []CountsExact
<1>1. CountInv => CountsExact
  BY DEF CountInv, Counters, CountExact, CountsExact
<1> QED BY <1>1, CountInit, CountStep, PTL DEF LibSpec

\* joy_delete_flow_records deletes no record of which the application has not
\* had all the features it named.
THEOREM DeletedOnlyAfterDelivery == LibSpec => DeletedAfterDelivery
<1>1. LibInv /\ LibInv' /\ [LibNext]_allVars =>
        [call = "delete" =>
           \A r \in chrono \ chrono' : \A f \in mask : delivered[r][f] = 1]_allVars
  <2> SUFFICES ASSUME LibInv, LibInv', LibNext, call = "delete",
                      NEW r \in chrono \ chrono', NEW f \in mask
               PROVE  delivered[r][f] = 1
    OBVIOUS
  <2>1. cur # NULL
    BY DEF LibInv, Walking
  <2>2. CASE DeleteOrPurgeStep
    <3>1. CondBitmaskSet(cur) /\ r = cur
      BY <2>2 DEF DeleteOrPurgeStep, OkToDelete, DeleteWithTwin, Delete, records
    <3>2. f \in ext_processed[r] /\ f \in Features /\ r \in Rid
      BY <3>1 DEF CondBitmaskSet, LibInv, Asked, IInv, TypeOK
    <3> QED BY <3>2 DEF LibInv, Deliveries
  <2>3. CASE ~DeleteOrPurgeStep
    <3>1. UNCHANGED chrono
      BY <2>1, <2>3 DEF LibNext, joy_process_packet, process_packet, joy_process_retransmission,
         process_retransmission, joy_collect_flow, collect_flow, joy_update_ctx_global_time,
         Process, joy_idp_external_processing, joy_tls_external_processing,
         joy_splt_external_processing, joy_salt_external_processing,
         joy_bd_external_processing, external_processing, joy_print_flow_data,
         joy_export_flows_ipfix, StartWalk, joy_delete_flow_records,
         joy_purge_old_flow_records, StartOwnWalk, PrintStep, joy_context_cleanup,
         flow_record_list_free, joy_shutdown, joy_initialize, NotWalking, records
    <3> QED BY <3>1
  <2> QED BY <2>2, <2>3
<1> QED BY <1>1, LibInductive, PTL DEF LibSpec, DeletedAfterDelivery
=============================================================================
