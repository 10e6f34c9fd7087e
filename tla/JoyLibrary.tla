----------------------------- MODULE JoyLibrary -----------------------------
(***************************************************************************)
(* One context of the Joy library (joy/src/joy_api.c): the flow table of   *)
(* FlowTable, driven by an application that submits packets and polls for  *)
(* the data features that are ready.  A feature is ready once a record has *)
(* collected a minimum amount of it; the context counts the ready records, *)
(* hands each listed record to the application's callback once per         *)
(* feature, and deletes records when the application says so.              *)
(*                                                                         *)
(* A context is used by one thread at a time, so a call that only reads    *)
(* the chronological list is one step; the calls that delete records while *)
(* they walk it (print, export, delete, purge) take a step per record.     *)
(***************************************************************************)
EXTENDS FlowTable, FiniteSets

CONSTANTS
  Features,       \* the data features an application can poll for
  Bitmasks,       \* the sets of features that records can collect
  Threshold,      \* the amount at which a feature is ready (ETTA_MIN_...)
  Cap,            \* where packets no longer add to it
  Size,           \* the number of values its counter has
  Wrapping,       \* features packets add to without an end (ob)
  Overflowing,    \* features collected flows add to without an end (op, ob)
  Amounts,        \* what a packet can add to the amounts of its record
  Collected,      \* what a collected flow can add to them
  RecsMod,        \* recs_ready is taken modulo RecsMod (2^32)
  PacketTimes,    \* timestamps of packets
  NewTimes,       \* times the application passes to update_ctx_global_time
  Ages,           \* ages it passes to joy_purge_old_flow_records
  Mins,           \* min_pkts and min_octets it passes, per feature
  MaxRecords      \* glb_config->max_records; 0: no rotation

ASSUME LibraryAssumption ==
  /\ Threshold \in [Features -> Nat \ {0}] /\ Cap \in [Features -> Nat]
  /\ Size \in [Features -> Nat \ {0}] /\ Bitmasks \subseteq SUBSET Features
  /\ Amounts \subseteq [Features -> Nat] /\ Collected \subseteq [Features -> Nat]
  /\ PacketTimes \subseteq Times /\ NewTimes \subseteq Times
  /\ Ages \subseteq Nat /\ MaxRecords \in Nat

\* A process has no room for 2^32 records.
ASSUME RecordsAssumption ==
  RecsMod \in Nat /\ IsFiniteSet(Rid) /\ Cardinality(Rid) < RecsMod

VARIABLES
  joy_library_initialized,
  bitmask,        \* the features records collect: what glb_config turns on, op
                  \* and ob always.  Features do not act on one another: an
                  \* instance may follow any set of them.
  call,           \* the call whose walk is in progress
  mask,           \* its cond_bitmask
  rec_age,        \* its rec_age
  amount,         \* idp_len, done_handshake, op, salt->np, ob of a record
  feature_flags,  \* record->feature_flags
  ext_processed,  \* record->..._ext_processed
  recs_ready,     \* ctx->..._recs_ready
  records_in_file,
  delivered,      \* callbacks made for a record and a feature (history)
  unnoticed       \* features that became or ceased to be ready without the
                  \* flag of the record (history)

counters == <<amount, feature_flags, ext_processed, recs_ready, delivered, unnoticed>>
request == <<call, mask, rec_age>>
library == <<joy_library_initialized, bitmask>>
libVars == <<library, request, counters, records_in_file>>
allVars == <<vars, libVars>>

(***************************************************************************)
(* Features.                                                               *)
(***************************************************************************)
Nothing == [f \in Features |-> 0]

ReadyFeatures(a) == {f \in Features : a[f] >= Threshold[f]}

Grown(a, x, f, endless) ==
  IF f \in endless THEN (a[f] + x[f]) % Size[f]
  ELSE IF a[f] >= Cap[f] THEN a[f]
  ELSE IF a[f] + x[f] > Cap[f] THEN Cap[f] ELSE a[f] + x[f]

\* idp_len and done_handshake are as good as 1 once they are set, packets add
\* to op and salt->np up to the length of their arrays, to ob, which has 16
\* bits, always.  op has 8 bits, and collected flows add to it without a test.
AddAmount(a, x, fromPacket) ==
  [f \in Features |->
     IF f \in bitmask THEN Grown(a, x, f, IF fromPacket THEN Wrapping ELSE Overflowing) ELSE a[f]]

\* flow_record_delete looks at the data of the record, not at its flags.
flow_record_delete(gone) ==
  [f \in Features |-> Cardinality({r \in gone : f \in ReadyFeatures(amount[r])})]

SetWithoutTest(a, flags) == ReadyFeatures(a)

\* The features whose flag is set by this packet.
flow_record_set_feature_ready_flags(a, flags) == ReadyFeatures(a) \ flags

\* What a packet or a collected flow changes of a record that is not flagged:
\* a counter that wraps, or what is collected.
Unnoticed(before, after, fromPacket) ==
  (ReadyFeatures(before) \ ReadyFeatures(after)) \cup
    (IF fromPacket THEN {} ELSE ReadyFeatures(after) \ ReadyFeatures(before))

\* The records `gone' are deleted, then the record `used' (or NULL) receives
\* what a packet or a collected flow adds to it.
Receive(gone, used, x, fromPacket) ==
  LET now == Zeroize(amount, gone, Nothing)
      flags == Zeroize(feature_flags, gone, {})
      more == AddAmount(now[used], x, fromPacket)
      fresh == IF used = NULL \/ ~fromPacket THEN {}
               ELSE flow_record_set_feature_ready_flags(more, flags[used])
  IN  /\ amount' = IF used = NULL THEN now ELSE [now EXCEPT ![used] = more]
      /\ feature_flags' = IF used = NULL THEN flags ELSE [flags EXCEPT ![used] = @ \cup fresh]
      /\ recs_ready' =
           [f \in Features |-> (recs_ready[f] - flow_record_delete(gone)[f] +
                                  IF f \in fresh THEN 1 ELSE 0) % RecsMod]
      /\ unnoticed' = unnoticed \cup
           IF used = NULL THEN {} ELSE Unnoticed(now[used], more, fromPacket)
      /\ ext_processed' = Zeroize(ext_processed, gone, {})
      /\ delivered' = Zeroize(delivered, gone, Nothing)

\* records_in_file is only compared with MaxRecords and need not go beyond it.
OneMore == IF records_in_file < MaxRecords THEN records_in_file + 1 ELSE MaxRecords

PrintPreempted(gone) ==
  records_in_file' = IF gone = {} THEN records_in_file ELSE OneMore

(***************************************************************************)
(* Calls.                                                                  *)
(***************************************************************************)
NoCall == joy_library_initialized /\ UNCHANGED <<library, request>>

joy_process_packet(k, ts, x) ==
  LET gone == Preempted(k, active_expired(ts)) IN
  /\ NoCall
  /\ process_packet(k, ts)
  /\ Receive(gone, Used(k), x, TRUE)
  /\ PrintPreempted(gone)

\* process_packet returns at a retransmission before it sets any flag.
joy_process_retransmission(k, ts) ==
  LET gone == Preempted(k, active_expired(ts)) IN
  /\ NoCall
  /\ process_retransmission(k, ts)
  /\ Receive(gone, Used(k), Nothing, FALSE)
  /\ PrintPreempted(gone)

\* nfv9_process_flow_record and ipfix_process_flow_record fill in op, ob, idp
\* and tls of a collected flow without setting flags.
joy_collect_flow(k, t, x) ==
  LET gone == Preempted(k, active_expired_no_header) IN
  /\ NoCall
  /\ collect_flow(k, t[1], t[2])
  /\ Receive(gone, Used(k), x, FALSE)
  /\ PrintPreempted(gone)

joy_update_ctx_global_time(new_time) ==
  /\ NoCall /\ NotWalking
  /\ global_time' = new_time
  /\ UNCHANGED <<records, counters, records_in_file>>

EveryTime(r, f) == TRUE

NotYet(r, f) == f \notin ext_processed[r]

IfComplete(r, f, min) == amount[r][f] >= min

IfCompleteOrExpired(r, f, min) == amount[r][f] >= min \/ flow_record_is_expired(r)

\* The callback gets a record once: when it has enough of the feature, or has
\* expired and will not get more.
external_processing(f, min) ==
  LET due == {r \in chrono : NotYet(r, f) /\ IfCompleteOrExpired(r, f, min)} IN
  /\ f \in bitmask
  /\ NoCall /\ NotWalking
  /\ ext_processed' = [r \in Rid |-> ext_processed[r] \cup IF r \in due THEN {f} ELSE {}]
  /\ delivered' = [r \in Rid |-> IF r \in due THEN [delivered[r] EXCEPT ![f] = @ + 1]
                                              ELSE delivered[r]]
  /\ UNCHANGED <<records, global_time, amount, feature_flags, recs_ready, unnoticed,
                 records_in_file>>

joy_idp_external_processing == external_processing("IDP", 1)
joy_tls_external_processing == external_processing("TLS", 1)
joy_splt_external_processing(min_pkts) == external_processing("SPLT", min_pkts)
joy_salt_external_processing(min_pkts) == external_processing("SALT", min_pkts)
joy_bd_external_processing(min_octets) == external_processing("BD", min_octets)

\* The calls that walk the chronological list to its end.
Begin(c, m, a) ==
  /\ joy_library_initialized
  /\ call' = c /\ mask' = m /\ rec_age' = a
  /\ UNCHANGED <<library, counters, records_in_file>>

\* What flow_record_list_print_json and flow_record_export_as_ipfix take is
\* in FlowTable; the first record is read when the walk starts.
joy_print_flow_data(type) == StartWalk(type) /\ Begin("print", {}, 0)

joy_export_flows_ipfix(type) == StartWalk(type) /\ Begin("export", {}, 0)

StartOwnWalk == cur = NULL /\ chrono # {} /\ cur' = Oldest(chrono) /\ UNCHANGED <<records, global_time, walk>>

joy_delete_flow_records(cond_bitmask) == StartOwnWalk /\ Begin("delete", cond_bitmask, 0)

joy_purge_old_flow_records(age) == StartOwnWalk /\ Begin("purge", {}, age)

AnyProcessed(r) == mask \cap ext_processed[r] # {}

CondBitmaskSet(r) == mask \subseteq ext_processed[r]

OlderThanAge(r) == \A s \in WithTwin(r) : end[r] > start[s] + rec_age

OkToDelete(r) == IF call = "delete" THEN CondBitmaskSet(r) ELSE OlderThanAge(r)

\* The output file is replaced after a print if it has enough records.
RollOutputFile(written) ==
  records_in_file' = IF cur' = NULL /\ MaxRecords # 0 /\ written >= MaxRecords
                       THEN 0 ELSE written

EndOfCall ==
  /\ IF cur' = NULL THEN call' = "none" /\ mask' = {} /\ rec_age' = 0
                    ELSE UNCHANGED request
  /\ UNCHANGED library

PrintStep ==
  LET gone == IF Skipped(cur) THEN {} ELSE WithTwin(cur) IN
  /\ call \in {"print", "export"}
  /\ WalkStep
  /\ Receive(gone, NULL, Nothing, FALSE)
  /\ IF call = "export" THEN UNCHANGED records_in_file
     ELSE RollOutputFile(IF gone = {} THEN records_in_file ELSE OneMore)
  /\ EndOfCall

DeleteOrPurgeStep ==
  LET gone == IF OkToDelete(cur) THEN WithTwin(cur) ELSE {} IN
  /\ call \in {"delete", "purge"} /\ cur # NULL
  /\ cur' = NextRecord
  /\ IF OkToDelete(cur) THEN DeleteWithTwin(cur) ELSE UNCHANGED records
  /\ Receive(gone, NULL, Nothing, FALSE)
  /\ EndOfCall
  /\ UNCHANGED <<global_time, walk, records_in_file>>

joy_context_cleanup ==
  /\ NoCall
  /\ flow_record_list_free
  /\ Receive(table, NULL, Nothing, FALSE)
  /\ UNCHANGED records_in_file

\* All contexts are cleaned up and freed.
joy_shutdown ==
  /\ joy_library_initialized /\ cur = NULL
  /\ joy_library_initialized' = FALSE /\ bitmask' = {}
  /\ \/ table = {} /\ UNCHANGED <<records, cur, walk, global_time, counters>>
     \/ flow_record_list_free /\ Receive(table, NULL, Nothing, FALSE)
  /\ UNCHANGED <<request, records_in_file>>

\* The contexts are allocated anew, zeroized.
joy_initialize ==
  /\ ~joy_library_initialized
  /\ joy_library_initialized' = TRUE /\ bitmask' \in Bitmasks
  /\ global_time' = 0 /\ records_in_file' = 0 /\ recs_ready' = Nothing /\ unnoticed' = {}
  /\ UNCHANGED <<records, cur, walk, request, amount, feature_flags, ext_processed, delivered>>

LibInit ==
  /\ Init
  /\ joy_library_initialized = FALSE /\ bitmask = {}
  /\ call = "none" /\ mask = {} /\ rec_age = 0
  /\ amount = [r \in Rid |-> Nothing]
  /\ feature_flags = [r \in Rid |-> {}] /\ ext_processed = [r \in Rid |-> {}]
  /\ recs_ready = Nothing /\ records_in_file = 0
  /\ delivered = [r \in Rid |-> Nothing] /\ unnoticed = {}

Process(f, min) ==
  \/ f = "IDP" /\ joy_idp_external_processing
  \/ f = "TLS" /\ joy_tls_external_processing
  \/ f = "SPLT" /\ joy_splt_external_processing(min)
  \/ f = "SALT" /\ joy_salt_external_processing(min)
  \/ f = "BD" /\ joy_bd_external_processing(min)

LibNext ==
  \/ \E k \in Keys, ts \in PacketTimes, x \in Amounts : joy_process_packet(k, ts, x)
  \/ \E k \in Keys, ts \in PacketTimes : joy_process_retransmission(k, ts)
  \/ \E k \in Keys, t \in Exported, x \in Collected : joy_collect_flow(k, t, x)
  \/ \E t \in NewTimes : joy_update_ctx_global_time(t)
  \/ \E f \in Features : \E min \in Mins[f] : Process(f, min)
  \/ \E type \in WalkTypes : joy_print_flow_data(type) \/ joy_export_flows_ipfix(type)
  \/ \E m \in SUBSET bitmask : joy_delete_flow_records(m)
  \/ \E a \in Ages : joy_purge_old_flow_records(a)
  \/ PrintStep \/ DeleteOrPurgeStep
  \/ joy_context_cleanup \/ joy_shutdown \/ joy_initialize

\* The application polls in a loop, as joy_api_test.c does: every feature, then
\* a deletion of the records of which all features were taken; and it tells the
\* context how time passes.  A call begins between two others, hence SF.
LibSpec ==
  /\ LibInit /\ [][LibNext]_allVars
  /\ WF_allVars(PrintStep) /\ WF_allVars(DeleteOrPurgeStep)
  /\ \A f \in Features : SF_allVars(\E min \in Mins[f] : Process(f, min))
  /\ SF_allVars(joy_delete_flow_records(bitmask))
  /\ SF_allVars(\E t \in NewTimes : joy_update_ctx_global_time(t))

(***************************************************************************)
(* Properties.                                                             *)
(***************************************************************************)

\* The counters joy_get_feature_counts returns are incremented by the flags of
\* a record and decremented by its data, whichever way it is deleted.  They are
\* the numbers of ready records, for every feature of which no record became
\* ready by what was collected, or ceased to be because its counter wrapped,
\* since joy_initialize.
RecordsReady(f) == {r \in table : f \in ReadyFeatures(amount[r])}

CountsExact ==
  \A f \in Features : f \in unnoticed \/ recs_ready[f] = Cardinality(RecordsReady(f))

\* A feature of a flow is handed to the callback once, however the polls are
\* interleaved with packets, expiry and walks, and whatever minimum they use.
DeliveredOnce == \A r \in table, f \in Features : delivered[r][f] <= 1

\* joy_delete_flow_records takes a record off the list only after the callback
\* has had each feature of the mask; a twin goes with the record it belongs to.
DeletedAfterDelivery ==
  [][call = "delete" =>
       \A r \in chrono \ chrono' : \A f \in mask : delivered[r][f] = 1]_allVars

\* Neither the walks of the library nor those of FlowTable leave a freed
\* record behind in a list, a twin pointer or the cursor.
LibNoDanglingPointer == NoDanglingPointer /\ (cur = NULL <=> call = "none")

\* A polling application gets every feature of every flow, at the latest when
\* the flow has expired, and deletes it: records do not accumulate.  (A flow
\* that is collected after its active timeout gives way to a new record each
\* time, at an address that may be the same.)
Replaceable(r) == WithTwin(r) \cap active_expired_no_header # {}

FlowsReclaimed == \A r \in Rid : r \in table ~> r \notin table \/ Replaceable(r)
=============================================================================
