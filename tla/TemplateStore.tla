---------------------------- MODULE TemplateStore ----------------------------
(***************************************************************************)
(* The collector template store of joy/src/ipfix.c: a doubly linked list   *)
(* with a count.  The main thread renews the templates it finds and        *)
(* appends the others; it tests the count before it takes cts_lock.  The   *)
(* monitor thread holds cts_lock while it passes through the list and      *)
(* deletes what has expired; here a pass takes a step for each template,   *)
(* as the main thread may test the count in the middle of one.             *)
(***************************************************************************)
EXTENDS Integers, FiniteSets, Functions

CONSTANTS
  Templates,        \* addresses of templates in the heap
  TemplateKeys,     \* exporter, domain and id of a template
  NULL,
  MAX_IPFIX_TEMPLATES,
  CTS_EXPIRE_TIME,
  MaxTime           \* bound: time

VARIABLES
  now,              \* time(NULL)
  head, tail,       \* collect_template_store_head and _tail
  next, prev, template_key, last_seen,
  cts_count,
  adding,           \* the template the main thread did not find, or NULL
  room,             \* and cts_count left room for it
  cursor,           \* next_template of a pass, which holds cts_lock, or NULL
  current_time,     \* when the pass began
  exiting           \* the pass is that of ipfix_cts_cleanup, or it is over

links == <<head, tail, next, prev, template_key, cts_count>>
thread == <<adding, room>>
pass == <<cursor, current_time, exiting>>
storeVars == <<now, links, last_seen, thread, pass>>

NotLocked == cursor = NULL

\* What a loop meets that begins at `first' and follows `link'.
From(first, link) ==
  LET at[i \in 0..Cardinality(Templates)] ==
        IF i = 0 THEN first ELSE IF at[i - 1] = NULL THEN NULL ELSE link[at[i - 1]]
  IN  Range(at) \ {NULL}

Found(k) == {t \in From(head, next) : template_key[t] = k}

(***************************************************************************)
(* The main thread, for each template in a template set.                   *)
(***************************************************************************)
\* With flag_renew.
ipfix_cts_search(k) ==
  /\ NotLocked /\ adding = NULL /\ ~ exiting
  /\ IF Found(k) = {} THEN adding' = k /\ UNCHANGED last_seen
     ELSE /\ last_seen' = [t \in Templates |-> IF t \in Found(k) THEN now ELSE last_seen[t]]
          /\ UNCHANGED adding
  /\ UNCHANGED <<now, links, room, pass>>

\* When there is no room, or no memory, the template is lost.
TestCount ==
  /\ adding # NULL /\ ~ room
  /\ \/ cts_count < MAX_IPFIX_TEMPLATES - 1 /\ room' = TRUE /\ UNCHANGED adding
     \/ adding' = NULL /\ UNCHANGED room
  /\ UNCHANGED <<now, links, last_seen, pass>>

ipfix_cts_append ==
  /\ NotLocked /\ room
  /\ \E t \in Templates :
       /\ template_key[t] = NULL
       /\ template_key' = [template_key EXCEPT ![t] = adding]
       /\ last_seen' = [last_seen EXCEPT ![t] = now]
       /\ IF head = NULL
          THEN head' = t /\ UNCHANGED <<next, prev>>
          ELSE /\ next' = [next EXCEPT ![tail] = t]
               /\ prev' = [prev EXCEPT ![t] = tail]
               /\ UNCHANGED head
       /\ tail' = t
  /\ cts_count' = cts_count + 1
  /\ adding' = NULL /\ room' = FALSE
  /\ UNCHANGED <<now, pass>>

(***************************************************************************)
(* Deletion.                                                               *)
(***************************************************************************)
TailKept(t) == tail

\* The tail after template t was deleted.
TailWithout(t) == IF next[t] = NULL THEN prev[t] ELSE tail

ipfix_cts_delete(t) ==
  LET p == prev[t] n == next[t] IN
  /\ head' = IF p = NULL THEN n ELSE head
  /\ tail' = TailWithout(t)
  /\ next' = [a \in Templates |-> IF a = t THEN NULL ELSE IF a = p THEN n ELSE next[a]]
  /\ prev' = [a \in Templates |-> IF a = t THEN NULL ELSE IF a = n THEN p ELSE prev[a]]
  /\ template_key' = [template_key EXCEPT ![t] = NULL]
  /\ cts_count' = cts_count - 1

StartPass ==
  /\ NotLocked /\ ~ exiting /\ head # NULL
  /\ cursor' = head /\ current_time' = now
  /\ \/ exiting' = FALSE                          \* ipfix_cts_scan_expired
     \/ exiting' = TRUE /\ adding = NULL          \* ipfix_cts_cleanup
  /\ UNCHANGED <<now, links, last_seen, thread>>

Expired(t) == current_time - last_seen[t] > CTS_EXPIRE_TIME

\* The next template is read before the current one is deleted.
PassStep ==
  /\ cursor # NULL
  /\ cursor' = next[cursor]
  /\ IF exiting \/ Expired(cursor)
     THEN ipfix_cts_delete(cursor) /\ last_seen' = [last_seen EXCEPT ![cursor] = 0]
     ELSE UNCHANGED <<links, last_seen>>
  /\ UNCHANGED <<now, thread, current_time, exiting>>

Second ==
  /\ now < MaxTime /\ now' = now + 1
  /\ UNCHANGED <<links, last_seen, thread, pass>>

StoreInit ==
  /\ now = 1 /\ head = NULL /\ tail = NULL /\ cts_count = 0
  /\ next = [t \in Templates |-> NULL] /\ prev = [t \in Templates |-> NULL]
  /\ template_key = [t \in Templates |-> NULL] /\ last_seen = [t \in Templates |-> 0]
  /\ adding = NULL /\ room = FALSE
  /\ cursor = NULL /\ current_time = 0 /\ exiting = FALSE

StoreNext ==
  \/ \E k \in TemplateKeys : ipfix_cts_search(k)
  \/ TestCount \/ ipfix_cts_append
  \/ StartPass \/ PassStep \/ Second

(***************************************************************************)
(* Properties.                                                             *)
(***************************************************************************)
Stored == {t \in Templates : template_key[t] # NULL}

\* From head, and back from tail, the loops meet the stored templates, all of them.
Linked ==
  /\ From(head, next) = Stored /\ From(tail, prev) = Stored
  /\ \A t \in Stored : next[t] # NULL => prev[next[t]] = t

OneForEachKey == \A s, t \in Stored : template_key[s] = template_key[t] => s = t

\* What a pass has behind it has not expired: it skips no template, whichever it
\* deletes.
PassComplete == \A t \in Stored : cursor # NULL => t \in From(cursor, next) \/ ~ (exiting \/ Expired(t))

\* The list, of which pieces are cut out while the main thread is about to append
\* to it, stays whole; what expires makes room again, as cts_count is the number of
\* templates, which never exceeds MAX_IPFIX_TEMPLATES - 1 although it is tested
\* without the lock.
StoreSound ==
  /\ Linked /\ OneForEachKey /\ PassComplete
  /\ cts_count = Cardinality(Stored) /\ cts_count <= MAX_IPFIX_TEMPLATES - 1
=============================================================================
