------------------------------ MODULE FlowTable ------------------------------
(***************************************************************************)
(* The flow table of one Joy context (joy/src/p2f.c, joy/src/include/p2f.h).*)
(*                                                                         *)
(* A unidirectional flow record lives in two doubly linked lists at once:  *)
(* its hash bucket in flow_record_list_array, to which it is prepended,    *)
(* and, unless it was stitched to a twin when it was created, the          *)
(* chronological list, to which it is appended.  Both lists are therefore  *)
(* ordered by creation, and the model keeps one creation order `older'     *)
(* instead of two sets of next/prev pointers: a bucket is read youngest    *)
(* first, the chronological list oldest first.                             *)
(*                                                                         *)
(* Deleting a record zeroizes and frees it, so its address may be handed   *)
(* out again by the next calloc; pointers TO it are left as they are.      *)
(***************************************************************************)
EXTENDS Integers

CONSTANTS
  Rid,            \* addresses calloc can return for a flow_record
  NULL,           \* the null pointer
  Keys,           \* the 5-tuples that occur in the traffic
  Mix(_),         \* the multiply-and-mask finish of flow_key_hash
  NearMatch,      \* glb_config->flow_key_match_method == NEAR_MATCH
  Bidir,          \* glb_config->bidir
  Preemptive,     \* glb_config->preemptive_timeout
  TimeWindow,     \* time_window: inactivity timeout
  ActiveTimeout,  \* active_timeout
  Times,          \* packet timestamps; 0 is an unset timeval
  Exported        \* <<start, end>> of collected flows; 0: not exported

ASSUME NullAssumption == NULL \notin Rid
ASSUME NullKeyAssumption == NULL \notin Keys
ASSUME KeysAssumption ==
  Keys \subseteq [sa: Nat, da: Nat, sp: Nat, dp: Nat, prot: Nat]
ASSUME ConfigAssumption ==
  /\ {NearMatch, Bidir, Preemptive} \subseteq BOOLEAN
  /\ TimeWindow \in Nat \ {0} /\ ActiveTimeout \in Nat \ {0}
  /\ Times \subseteq Nat \ {0}
  /\ Exported \subseteq (Times \cup {0}) \X (Times \cup {0})

VARIABLES
  table,          \* the live records: those in flow_record_list_array
  key,            \* record->key
  twin,           \* record->twin
  start,          \* record->start
  end,            \* record->end
  older,          \* older[r]: the live records created before r
  chrono,         \* the records on the chronological list
  global_time,    \* ctx->global_time
  cur,            \* the cursor `record' of a walk of the chrono list, or NULL
  walk            \* which walk: print expired flows or print all of them

records == <<table, key, twin, start, end, older, chrono>>
vars == <<records, global_time, cur, walk>>

ActiveMax == TimeWindow + ActiveTimeout
WalkTypes == {"JOY_EXPIRED_FLOWS", "JOY_ALL_FLOWS"}

TypeOK ==
  /\ table \subseteq Rid /\ chrono \subseteq Rid
  /\ key \in [Rid -> Keys \cup {NULL}]
  /\ twin \in [Rid -> Rid \cup {NULL}]
  /\ start \in [Rid -> Times \cup {0}] /\ end \in [Rid -> Times \cup {0}]
  /\ older \in [Rid -> SUBSET Rid]
  /\ global_time \in Times \cup {0}
  /\ cur \in Rid \cup {NULL}
  /\ walk \in WalkTypes

(***************************************************************************)
(* Keys.                                                                   *)
(***************************************************************************)
HashWithoutDstPort(k) ==
  IF NearMatch THEN Mix(k.sp + k.prot) ELSE Mix(k.sa + k.da + k.sp + k.prot)

flow_key_hash(k) ==
  IF NearMatch THEN Mix(k.sp + k.dp + k.prot)
               ELSE Mix(k.sa + k.da + k.sp + k.dp + k.prot)

flow_key_is_twin(a, b) ==
  /\ a.sp = b.dp /\ a.dp = b.sp /\ a.prot = b.prot
  /\ IF NearMatch THEN a.sa = b.da \/ a.da = b.sa
                  ELSE a.sa = b.da /\ a.da = b.sa

(***************************************************************************)
(* The lists.                                                              *)
(***************************************************************************)
\* In the creation order every non-empty set of live records has a youngest
\* and an oldest one; NULL stands for the end of a list.
IsYoungest(r, S) == \A s \in S \ {r} : s \in older[r]
IsOldest(r, S) == \A s \in S \ {r} : r \in older[s]

Youngest(S) ==
  IF \E r \in S : IsYoungest(r, S) THEN CHOOSE r \in S : IsYoungest(r, S) ELSE NULL

Oldest(S) ==
  IF \E r \in S : IsOldest(r, S) THEN CHOOSE r \in S : IsOldest(r, S) ELSE NULL

Bucket(T, k) == {r \in T : flow_key_hash(key[r]) = flow_key_hash(k)}

FindAtHeadOnly(T, k) ==
  LET head == Youngest(Bucket(T, k)) IN
  IF head # NULL /\ key[head] = k THEN head ELSE NULL

FindInBucket(T, k) == Youngest(Bucket(T, k))

find_record_by_key(T, k) == Youngest({r \in Bucket(T, k) : key[r] = k})

find_twin_by_key(T, k) ==
  Youngest({r \in Bucket(T, k) : flow_key_is_twin(k, key[r])})

(***************************************************************************)
(* Expiration: the set of records each test accepts.  A timeout counts     *)
(* only when the twin, if there is one, has passed it too.                 *)
(***************************************************************************)
WithTwin(r) == {r, twin[r]} \ {NULL}

\* flow_record_is_active_expired with a packet header; ts is header->ts.
active_expired(ts) ==
  {r \in table : Preemptive /\ \A s \in WithTwin(r) : ts > start[s] + ActiveMax}

\* Without one (NetFlow v9 and IPFIX collection): the record's own end time.
active_expired_no_header ==
  {r \in table : \A s \in WithTwin(r) : end[r] > start[s] + ActiveMax}

flow_record_is_expired(r) ==
  LET inactive_cutoff == global_time - TimeWindow
      active_cutoff == inactive_cutoff - ActiveTimeout
  IN  \/ \A s \in WithTwin(r) : start[s] < active_cutoff
      \/ \A s \in WithTwin(r) : end[s] < inactive_cutoff

(***************************************************************************)
(* Creation and deletion.                                                  *)
(***************************************************************************)
Zeroize(f, gone, zero) == [r \in Rid |-> IF r \in gone THEN zero ELSE f[r]]

\* flow_record_print_and_delete, the export walk and
\* remove_record_and_update_list: the twin is only deleted, the record is
\* unlinked from the chrono list and then deleted.
Delete(r, gone) ==
  /\ table' = table \ gone
  /\ key' = Zeroize(key, gone, NULL)
  /\ twin' = Zeroize(twin, gone, NULL)
  /\ start' = Zeroize(start, gone, 0)
  /\ end' = Zeroize(end, gone, 0)
  /\ older' = [s \in Rid |-> IF s \in gone THEN {} ELSE older[s] \ gone]
  /\ chrono' = chrono \ {r}

DeleteWithoutTwin(r) == Delete(r, {r})

DeleteWithTwin(r) == Delete(r, WithTwin(r))

\* What flow_key_get_record finds to stitch a new record at r to; the record
\* is already at the head of its bucket and can be its own twin.
flow_key_get_twin(T, r, k) ==
  IF ~Bidir THEN NULL
  ELSE IF flow_key_is_twin(k, k) THEN r ELSE find_twin_by_key(T, k)

\* The twin pointers are set unless the twin t found for r has one already,
\* which is also the case when t is r itself: r is then an orphan.
IsStitched(r, t) == t # NULL /\ t # r /\ twin[t] = NULL

\* A record that was not stitched goes to the end of the chronological list.
flow_record_chrono_list_append(kept, r, t) ==
  IF IsStitched(r, t) THEN kept ELSE kept \cup {r}

\* Create a record for k at address r, after `gone' was deleted (chrono list:
\* `kept') by a preemptive timeout, or with gone = {} and kept = chrono.
CreateRecord(r, k, gone, kept, st, en) ==
  LET T == table \ gone
      t == flow_key_get_twin(T, r, k)
      live == Zeroize(twin, gone, NULL)
  IN  /\ r \in Rid \ T
      /\ table' = T \cup {r}
      /\ key' = [Zeroize(key, gone, NULL) EXCEPT ![r] = k]
      /\ twin' = IF IsStitched(r, t) THEN [live EXCEPT ![t] = r, ![r] = t]
                                     ELSE [live EXCEPT ![r] = NULL]
      /\ start' = [Zeroize(start, gone, 0) EXCEPT ![r] = st]
      /\ end' = [Zeroize(end, gone, 0) EXCEPT ![r] = en]
      /\ older' = [s \in Rid |-> IF s = r THEN T
                                 ELSE IF s \in gone THEN {} ELSE older[s] \ gone]
      /\ chrono' = flow_record_chrono_list_append(kept, r, t)

(***************************************************************************)
(* flow_key_get_record with CREATE_RECORDS, followed by the timestamp      *)
(* update its caller makes: start is set to st while it is unset, end to   *)
(* en while it is unset or whenever `refresh' holds.  `expired' is the set *)
(* of records the caller's active-timeout test accepts.                    *)
(***************************************************************************)
UseExisting(k, expired, st, en, refresh) ==
  LET r == find_record_by_key(table, k) IN
  /\ r # NULL
  /\ r \notin chrono \cap expired
  /\ start' = [start EXCEPT ![r] = IF @ = 0 THEN st ELSE @]
  /\ end' = [end EXCEPT ![r] = IF @ = 0 \/ refresh THEN en ELSE @]
  /\ UNCHANGED <<table, key, twin, older, chrono>>

CreateNew(k, st, en) ==
  /\ find_record_by_key(table, k) = NULL
  /\ \E r \in Rid : CreateRecord(r, k, {}, chrono, st, en)

ReplaceExpired(k, expired, st, en) ==
  LET r == find_record_by_key(table, k) IN
  /\ r \in chrono \cap expired
  /\ \E n \in Rid : CreateRecord(n, k, WithTwin(r), chrono \ {r}, st, en)

\* calloc returns NULL: an expired record is gone all the same.
CreateFails(k, expired) ==
  LET r == find_record_by_key(table, k) IN
  \/ r = NULL /\ UNCHANGED records
  \/ r \in chrono \cap expired /\ DeleteWithTwin(r)

get_record(k, expired, st, en, refresh) ==
  \/ UseExisting(k, expired, st, en, refresh)
  \/ CreateNew(k, st, en)
  \/ ReplaceExpired(k, expired, st, en)
  \/ CreateFails(k, expired)

\* The record flow_key_get_record has returned.
Used(k) ==
  IF \E r \in table' : key'[r] = k THEN CHOOSE r \in table' : key'[r] = k ELSE NULL

\* The records a preemptive timeout deletes: they are printed first.
Preempted(k, expired) ==
  LET r == find_record_by_key(table, k) IN
  IF r \in chrono \cap expired THEN WithTwin(r) ELSE {}

(***************************************************************************)
(* Operations.                                                             *)
(***************************************************************************)
Init ==
  /\ table = {} /\ chrono = {}
  /\ key = [r \in Rid |-> NULL]
  /\ twin = [r \in Rid |-> NULL]
  /\ start = [r \in Rid |-> 0] /\ end = [r \in Rid |-> 0]
  /\ older = [r \in Rid |-> {}]
  /\ global_time = 0
  /\ cur = NULL /\ walk = "JOY_ALL_FLOWS"

NotWalking == cur = NULL /\ UNCHANGED <<cur, walk>>

AddTime(ts) == global_time' = global_time + ts

AdvanceTime(ts) == global_time' = IF global_time < ts THEN ts ELSE global_time

process_packet(k, ts) ==
  /\ NotWalking
  /\ AdvanceTime(ts)
  /\ get_record(k, active_expired(ts), ts, ts, TRUE)

\* A TCP segment process_tcp takes for a retransmission: process_packet
\* returns before it updates the timestamps, so a record created for it (its
\* retransmission buffer is all zeroes and the segment has sequence number 0)
\* stays without any.
process_retransmission(k, ts) ==
  /\ NotWalking
  /\ AdvanceTime(ts)
  /\ get_record(k, active_expired(ts), 0, 0, FALSE)

\* One flow of a NetFlow v9 or IPFIX data set: start and end are taken from
\* the exported fields st and en while they are unset.
collect_flow(k, st, en) ==
  /\ NotWalking
  /\ UNCHANGED global_time
  /\ get_record(k, active_expired_no_header, st, en, FALSE)

\* flow_record_list_print_json and flow_record_export_as_ipfix.
StartWalk(type) ==
  /\ cur = NULL
  /\ chrono # {}
  /\ cur' = Oldest(chrono)
  /\ walk' = type
  /\ UNCHANGED <<records, global_time>>

TimeNext(r) == Oldest({s \in chrono : r \in older[s]})

Skipped(r) == walk = "JOY_EXPIRED_FLOWS" /\ ~flow_record_is_expired(r)

NextReadAfterDelete == IF Skipped(cur) THEN TimeNext(cur) ELSE NULL

NextForgottenWhenSkipping == IF Skipped(cur) THEN cur ELSE TimeNext(cur)

\* The next record is read before the current one is deleted.
NextRecord == TimeNext(cur)

WalkStep ==
  /\ cur # NULL
  /\ cur' = NextRecord
  /\ IF Skipped(cur) THEN UNCHANGED records ELSE DeleteWithTwin(cur)
  /\ UNCHANGED <<global_time, walk>>

remove_record_and_update_list(r) ==
  /\ NotWalking
  /\ r \in chrono
  /\ DeleteWithTwin(r)
  /\ UNCHANGED global_time

flow_record_list_free ==
  /\ NotWalking
  /\ table # {}
  /\ table' = {} /\ chrono' = {}
  /\ key' = Zeroize(key, table, NULL)
  /\ twin' = Zeroize(twin, table, NULL)
  /\ start' = Zeroize(start, table, 0)
  /\ end' = Zeroize(end, table, 0)
  /\ older' = Zeroize(older, table, {})
  /\ UNCHANGED global_time

Next ==
  \/ \E k \in Keys, ts \in Times :
       process_packet(k, ts) \/ process_retransmission(k, ts)
  \/ \E k \in Keys, x \in Exported : collect_flow(k, x[1], x[2])
  \/ \E type \in WalkTypes : StartWalk(type)
  \/ WalkStep
  \/ \E r \in Rid : remove_record_and_update_list(r)
  \/ flow_record_list_free

Spec == Init /\ [][Next]_vars /\ WF_vars(WalkStep)

(***************************************************************************)
(* Properties.                                                             *)
(***************************************************************************)

\* The lists and the twin pointers never name a freed record, and neither
\* does the next pointer a walk saved before it deleted the current record:
\* flow_record_print_and_delete frees the twin without unlinking it from the
\* chronological list.
NoDanglingPointer ==
  /\ chrono \subseteq table
  /\ \A r \in table : twin[r] \in table \cup {NULL}
  /\ cur \in chrono \cup {NULL}

\* Stitching is symmetric and pairs two different records, of which the one
\* created first, and only that one, is on the chronological list.
TwinsPaired ==
  \A r \in table : twin[r] # NULL =>
    /\ twin[r] # r /\ twin[twin[r]] = r
    /\ r \in older[twin[r]] <=> r \in chrono
    /\ r \in chrono <=> twin[r] \notin chrono

\* Every record will be reported: it is on the chronological list, or goes
\* with the twin that is.  A record on neither would stay in its bucket for
\* ever, and swallow every later packet of its key.
NothingLeaks ==
  \A r \in table : r \in chrono \/ (twin[r] # NULL /\ twin[r] \in chrono)

\* No pointer of the table is wrong.
PointersSound == NoDanglingPointer /\ TwinsPaired /\ NothingLeaks

\* A lookup is unambiguous: flow_key_get_record never adds a second record
\* for a key that is in the table.
KeysUnique == \A r, s \in table : key[r] = key[s] => r = s

\* The remark on flow_key_get_record in p2f.h: the twin of a key has addresses
\* and ports swapped, and if its record exists "the pointer [...] of both that
\* record and its twin are set to point to each other".  Whatever was deleted
\* and recreated before, the two directions of a conversation are stitched.
IsReverse(a, b) ==
  a.prot = b.prot /\ <<a.sa, a.da, a.sp, a.dp>> = <<b.da, b.sa, b.dp, b.sp>>

DirectionsStitched ==
  Bidir => \A r, s \in table : r # s /\ IsReverse(key[r], key[s]) => twin[r] = s

\* A walk leaves nothing behind that it should have reported: no expired flow
\* after JOY_EXPIRED_FLOWS, no flow at all after JOY_ALL_FLOWS.
WalkIsComplete ==
  [][cur # NULL /\ cur' = NULL =>
       IF walk = "JOY_ALL_FLOWS" THEN table' = {}
       ELSE \A r \in chrono' : ~flow_record_is_expired(r)']_vars

\* Every walk of the chronological list comes to its end.
WalkTerminates == cur # NULL ~> cur = NULL

(***************************************************************************)
(* The table implements the set of flows of FlowStore: a flow is a record  *)
(* on the chronological list with the twin it may have.                    *)
(***************************************************************************)
FlowOf(r) ==
  [fwd |-> key[r], rev |-> IF twin[r] = NULL THEN NULL ELSE key[twin[r]]]

Store == INSTANCE FlowStore WITH
  Key <- Keys, TwinOf <- flow_key_is_twin,
  Stitch <- Bidir, AlwaysStitch <- ~NearMatch,
  flows <- {FlowOf(r) : r \in chrono}

\* The flow table behaves as a set of flows.
ImplementsFlowStore == Store!Spec
=============================================================================
