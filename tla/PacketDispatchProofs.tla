------------------------ MODULE PacketDispatchProofs ------------------------
(***************************************************************************)
(* Proofs about PacketDispatch, for any packets, datagrams and exporters.  *)
(*                                                                         *)
(* That the carrier's record survives the flows its message reports rests  *)
(* on the flow table: a timeout deletes the record of the reported flow    *)
(* and its twin, and the key of a twin is always a reverse of the key, so  *)
(* none of the two is the carrier's unless the message reports itself.     *)
(***************************************************************************)
EXTENDS PacketDispatch, FlowTableProofs, FiniteSetTheorems, SequenceTheorems

TwinKeys == \A r \in table : twin[r] # NULL => flow_key_is_twin(key[r], key[twin[r]])

DatagramOK ==
  /\ datagram \in [key : Keys \cup {NULL}, version : {0, 9, 10}, source : {datagram.source},
                   left : Int, sets : Seq(FlowSets), ts : Times \cup {0}]
  /\ carrier # NULL => datagram.version # 0

\* The template of the data set that is being read is the one its exporter sent.
TemplateOK ==
  cur_template = NULL \/
    /\ datagram.sets # <<>> /\ datagram.version = 9 /\ Set.type = "data"
    /\ cur_template.layout = Layout(Sender, Set.id)

Indices == 0 .. num_templates - 1

TemplateKey(i) == <<v9_templates[i].src, v9_templates[i].template_id>>

\* The array of templates holds each template once, as it was announced, and
\* all of them as long as there was room.
ArrayOK ==
  /\ num_templates \in 0 .. MAX_TEMPLATES - 1
  /\ v9_templates = [i \in 0 .. MAX_TEMPLATES - 1 |-> v9_templates[i]]
  /\ \A i \in Indices :
       v9_templates[i].layout = Layout(v9_templates[i].src, v9_templates[i].template_id)
  /\ \A i, j \in Indices : TemplateKey(i) = TemplateKey(j) => i = j
  /\ IsFiniteSet(announced)
  /\ Cardinality(announced) < MAX_TEMPLATES =>
       /\ num_templates = Cardinality(announced)
       /\ \A a \in announced : \E i \in Indices : TemplateKey(i) = a
       /\ \A i \in Indices : TemplateKey(i) \in announced

DispatchInv ==
  IInv /\ TwinKeys /\ DatagramOK /\ CarrierKept /\ (self \/ (ArrayOK /\ TemplateOK)) /\ DecodedAsAnnounced

-----------------------------------------------------------------------------

(***************************************************************************)
(* The flow table under a carrier.                                         *)
(***************************************************************************)
LEMMA TwinSymmetric ==
  ASSUME NEW a, NEW b, flow_key_is_twin(a, b)
  PROVE  flow_key_is_twin(b, a)
BY DEF flow_key_is_twin

LEMMA DeleteKeepsTwinKeys ==
  ASSUME IInv, IInv', TwinKeys, NEW r, NEW gone, Delete(r, gone)
  PROVE  TwinKeys'
<1> SUFFICES ASSUME NEW s \in table', twin'[s] # NULL
             PROVE  flow_key_is_twin(key'[s], key'[twin'[s]])
  BY DEF TwinKeys
<1>1. /\ table' = table \ gone /\ table \subseteq Rid
      /\ key' = Zeroize(key, gone, NULL) /\ twin' = Zeroize(twin, gone, NULL)
  BY DEF Delete, IInv, TypeOK
<1>2. twin'[s] \in table'
  BY DEF IInv, ListsOK, ListsTyped
<1>3. twin'[s] = twin[s] /\ key'[s] = key[s] /\ key'[twin'[s]] = key[twin'[s]]
  BY <1>1, <1>2 DEF Zeroize
<1> QED BY <1>1, <1>3 DEF TwinKeys

LEMMA CreateKeepsTwinKeys ==
  ASSUME IInv, IInv', TwinKeys, NEW r, NEW k, NEW gone, NEW kept, NEW st, NEW en,
         CreateRecord(r, k, gone, kept, st, en)
  PROVE  TwinKeys'
<1> SUFFICES ASSUME NEW s \in table', twin'[s] # NULL
             PROVE  flow_key_is_twin(key'[s], key'[twin'[s]])
  BY DEF TwinKeys
<1> DEFINE T == table \ gone
           t == flow_key_get_twin(T, r, k)
           live == Zeroize(twin, gone, NULL)
<1>1. /\ table \subseteq Rid /\ twin \in [Rid -> Rid \cup {NULL}]
      /\ key \in [Rid -> Keys \cup {NULL}]
      /\ r \in Rid \ T /\ table' = T \cup {r} /\ s \in Rid
  BY DEF IInv, TypeOK, CreateRecord
<1>2. /\ key' = [Zeroize(key, gone, NULL) EXCEPT ![r] = k]
      /\ twin' = IF IsStitched(r, t) THEN [live EXCEPT ![t] = r, ![r] = t]
                                     ELSE [live EXCEPT ![r] = NULL]
  BY DEF CreateRecord
<1>3. /\ twin'[s] \in table' /\ twin'[s] # s
      /\ \A x \in table' : twin'[x] # NULL => twin'[twin'[x]] = x
  BY DEF IInv, ListsOK, ListsTyped, Paired
<1>4. key'[r] = k /\ \A x \in T : key'[x] = key[x]
  BY <1>1, <1>2 DEF Zeroize
<1>5. ASSUME IsStitched(r, t)
      PROVE  t \in T /\ flow_key_is_twin(k, key[t])
  BY <1>1, <1>5, StitchTarget
<1>6. live \in [Rid -> Rid \cup {NULL}]
  BY <1>1 DEF Zeroize
<1> HIDE DEF T, t, live
<1>7. CASE s = r
  <2>1. IsStitched(r, t)
    BY <1>1, <1>2, <1>6, <1>7
  <2>2. twin'[r] = t
    BY <1>1, <1>2, <1>6, <2>1
  <2> QED BY <1>4, <1>5, <1>7, <2>1, <2>2
<1>8. CASE s # r /\ twin'[s] = r
  <2>1. twin'[r] = s
    BY <1>3, <1>8
  <2>2. IsStitched(r, t)
    BY <1>1, <1>2, <1>6, <2>1, <1>8, NullAssumption
  <2>3. s = t
    BY <1>1, <1>2, <1>6, <2>1, <2>2
  <2> QED BY <1>4, <1>5, <1>8, <2>2, <2>3, TwinSymmetric
<1>9. CASE s # r /\ twin'[s] # r
  <2>1. s \in T /\ twin'[s] \in T
    BY <1>1, <1>3, <1>9
  <2>2. twin'[s] = live[s]
    BY <1>1, <1>2, <1>6, <1>9
  <2>3. live[s] = twin[s] /\ s \in table
    BY <1>1, <2>1 DEF live, T, Zeroize
  <2> QED BY <1>4, <2>1, <2>2, <2>3 DEF TwinKeys
<1> QED BY <1>7, <1>8, <1>9

LEMMA GetRecordKeepsTwinKeys ==
  ASSUME IInv, IInv', TwinKeys, NEW k, NEW expired, NEW st, NEW en, NEW refresh,
         get_record(k, expired, st, en, refresh)
  PROVE  TwinKeys'
<1>1. CASE UNCHANGED <<table, key, twin>>
  BY <1>1 DEF TwinKeys
<1>2. CASE \E r, gone, kept : CreateRecord(r, k, gone, kept, st, en)
  BY <1>2, CreateKeepsTwinKeys
<1>3. CASE \E r : DeleteWithTwin(r)
  BY <1>3, DeleteKeepsTwinKeys DEF DeleteWithTwin
<1> QED
  BY <1>1, <1>2, <1>3
  DEF get_record, UseExisting, CreateNew, ReplaceExpired, CreateFails, records

\* A record stays unless its own flow or a reverse of it is looked up.
LEMMA RecordStays ==
  ASSUME IInv, TwinKeys, NEW c \in table, NEW k \in Keys, key[c] # k,
         ~flow_key_is_twin(k, key[c]),
         NEW expired, NEW st, NEW en, NEW refresh, get_record(k, expired, st, en, refresh)
  PROVE  c \in table' /\ key'[c] = key[c]
<1> DEFINE e == find_record_by_key(table, k)
<1>1. table \subseteq Rid /\ Unique(table, key) /\ key \in [Rid -> Keys \cup {NULL}]
  BY DEF IInv, TypeOK, ListsOK
<1>2. e # NULL => e \in table /\ key[e] = k
  <2> HIDE DEF e
  <2>1. LET x == find_record_by_key(table, k) IN x # NULL => x \in table /\ key[x] = k
    BY <1>1, FindRecord
  <2> QED BY <2>1 DEF e
<1>3. e # NULL => c \notin WithTwin(e)
  BY <1>2 DEF WithTwin, TwinKeys
<1> HIDE DEF e
<1>4. CASE UNCHANGED <<table, key>>
  BY <1>4
<1>5. ASSUME NEW r, NEW gone, NEW kept, CreateRecord(r, k, gone, kept, st, en), c \notin gone
      PROVE  c \in table' /\ key'[c] = key[c]
  BY <1>1, <1>5 DEF CreateRecord, Zeroize
<1>6. CASE e # NULL /\ DeleteWithTwin(e)
  BY <1>1, <1>3, <1>6 DEF DeleteWithTwin, Delete, Zeroize
<1>7. CASE CreateNew(k, st, en)
  BY <1>5, <1>7 DEF CreateNew
<1>8. e \in chrono => e # NULL
  BY <1>1, NullAssumption DEF IInv, ListsOK, ListsTyped
<1>9. CASE ReplaceExpired(k, expired, st, en)
  BY <1>3, <1>5, <1>8, <1>9 DEF ReplaceExpired, e
<1>10. CASE CreateFails(k, expired)
  BY <1>4, <1>6, <1>8, <1>10 DEF CreateFails, e, records
<1> QED
  BY <1>4, <1>7, <1>9, <1>10 DEF get_record, UseExisting

LEMMA LookupKeepsInv ==
  ASSUME IInv, TwinKeys, NEW k \in Keys, NEW expired, NEW refresh,
         NEW st \in Times \cup {0}, NEW en \in Times \cup {0},
         get_record(k, expired, st, en, refresh),
         NotWalking, global_time' \in Times \cup {0}
  PROVE  IInv' /\ TwinKeys'
<1>1. Lists /\ TimesTyped /\ walk \in WalkTypes
  BY DEF IInv, TypeOK, Lists, TimesTyped
<1>2. Lists' /\ TimesTyped'
  BY <1>1, GetRecordStep
<1>3. IInv'
  BY <1>1, <1>2, InvFromParts DEF NotWalking
<1> QED BY <1>3, GetRecordKeepsTwinKeys

LEMMA TimeAdvances ==
  ASSUME IInv, NEW ts \in Times, AdvanceTime(ts)
  PROVE  global_time' \in Times \cup {0}
BY DEF IInv, TypeOK, AdvanceTime

-----------------------------------------------------------------------------

(***************************************************************************)
(* The steps of process_packet.                                            *)
(***************************************************************************)

\* Between two datagrams only the flow table matters.
LEMMA CollectorRests ==
  ASSUME DispatchInv, carrier = NULL, UNCHANGED collector, IInv', TwinKeys'
  PROVE  DispatchInv'
<1>1. /\ carrier' = NULL /\ datagram' = datagram /\ announced' = announced
      /\ decoded' = decoded /\ self' = self /\ cur_template' = cur_template
      /\ v9_templates' = v9_templates /\ num_templates' = num_templates
  BY DEF collector, nfv9
<1>2. DatagramOK' /\ CarrierKept'
  BY <1>1 DEF DispatchInv, DatagramOK, CarrierKept
<1>3. self' \/ (ArrayOK' /\ TemplateOK')
  BY <1>1 DEF DispatchInv, ArrayOK, Indices, TemplateKey, TemplateOK, Set, Sender
<1>4. DecodedAsAnnounced'
  BY <1>1 DEF DispatchInv, DecodedAsAnnounced
<1> QED BY <1>2, <1>3, <1>4 DEF DispatchInv

LEMMA PacketStep ==
  ASSUME DispatchInv, NEW p \in Packets, NEW ts \in Times,
         process_ip_packet(p, ts) \/ process_tcp_retransmission(p, ts)
  PROVE  DispatchInv'
<1> DEFINE k == PacketKey(p)
<1>1. IInv /\ TwinKeys /\ k \in Keys
  BY KeysOfPacketsAssumption DEF DispatchInv
<1> HIDE DEF k
<1>2. carrier = NULL /\ UNCHANGED collector
  BY DEF process_ip_packet, process_tcp_retransmission, NotCollecting
<1>3. CASE process_ip_packet(p, ts)
  <2>1. /\ NotWalking /\ AdvanceTime(ts)
        /\ get_record(k, Expired(p, ts), ts, ts, TRUE)
    BY <1>3 DEF process_ip_packet, k
  <2> QED BY <2>1, <1>1, <1>2, TimeAdvances, LookupKeepsInv, CollectorRests
<1>4. CASE process_tcp_retransmission(p, ts)
  <2>1. /\ NotWalking /\ AdvanceTime(ts)
        /\ get_record(k, active_expired(ts), 0, 0, FALSE)
    BY <1>4 DEF process_tcp_retransmission, process_retransmission, k
  <2> QED BY <2>1, <1>1, <1>2, TimeAdvances, LookupKeepsInv, CollectorRests
<1> QED BY <1>3, <1>4

LEMMA DatagramStep ==
  ASSUME DispatchInv, NEW d \in Messages, NEW ts \in Times, process_udp(d, ts)
  PROVE  DispatchInv'
<1>1. /\ d.key \in Keys /\ d.version \in {9, 10} /\ d.left \in Int /\ d.sets \in Seq(FlowSets)
      /\ IInv /\ TwinKeys
  BY DispatchAssumption DEF DispatchInv
<1>2. /\ NotWalking /\ AdvanceTime(ts)
      /\ get_record(d.key, active_expired(ts), 0, 0, FALSE)
      /\ Used(d.key) # NULL /\ carrier' = Used(d.key)
      /\ datagram' = [key |-> d.key, version |-> d.version, source |-> d.source,
                      left |-> d.left, sets |-> d.sets, ts |-> ts]
      /\ cur_template' = NULL
      /\ v9_templates' = v9_templates /\ num_templates' = num_templates
      /\ announced' = announced /\ decoded' = decoded /\ self' = self
  BY DEF process_udp, nfv9
<1>3. IInv' /\ TwinKeys'
  BY <1>1, <1>2, TimeAdvances, LookupKeepsInv
<1>4. DatagramOK'
  BY <1>1, <1>2 DEF DatagramOK
<1>5. CarrierKept'
  BY <1>2 DEF Used, CarrierKept
<1>6. self' \/ (ArrayOK' /\ TemplateOK')
  BY <1>2 DEF DispatchInv, ArrayOK, Indices, TemplateKey, TemplateOK
<1>7. DecodedAsAnnounced'
  BY <1>2 DEF DispatchInv, DecodedAsAnnounced
<1> QED BY <1>3, <1>4, <1>5, <1>6, <1>7 DEF DispatchInv

LEMMA SetTyped ==
  ASSUME DatagramOK, datagram.sets # <<>>
  PROVE  /\ Set \in FlowSets /\ Tail(datagram.sets) \in Seq(FlowSets)
         /\ Set.type = "data" => Set \in DataSets
         /\ Set.type = "template" => Set \in TemplateSets
<1>1. datagram.sets \in Seq(FlowSets)
  BY DEF DatagramOK
<1>2. Set \in FlowSets /\ Tail(datagram.sets) \in Seq(FlowSets)
  BY <1>1 DEF Set
<1> QED BY <1>2 DEF FlowSets, DataSets, TemplateSets

\* Steps that read a set of the datagram leave its identity alone.
Replaced(l, ss) ==
  [key |-> datagram.key, version |-> datagram.version, source |-> datagram.source,
   left |-> l, sets |-> ss, ts |-> datagram.ts]

LEMMA DatagramKept ==
  ASSUME DatagramOK, carrier' = carrier,
         NEW l \in Int, NEW ss \in Seq(FlowSets), datagram' = Replaced(l, ss)
  PROVE  /\ DatagramOK' /\ datagram'.sets = ss
         /\ datagram'.key = datagram.key /\ datagram'.source = datagram.source
         /\ datagram'.version = datagram.version
<1>1. /\ datagram'.sets = ss /\ datagram'.left = l /\ datagram'.key = datagram.key
      /\ datagram'.source = datagram.source /\ datagram'.version = datagram.version
      /\ datagram'.ts = datagram.ts
      /\ datagram' \in [key : Keys \cup {NULL}, version : {0, 9, 10}, source : {datagram.source},
                        left : Int, sets : Seq(FlowSets), ts : Times \cup {0}]
  BY DEF DatagramOK, Replaced
<1> QED BY <1>1 DEF DatagramOK

LEMMA BothReplaced ==
  ASSUME DatagramOK, NEW l, NEW ss
  PROVE  [datagram EXCEPT !.left = l, !.sets = ss] = Replaced(l, ss)
<1>1. PICK d : d = [datagram EXCEPT !.left = l]
  OBVIOUS
<1>2. d = Replaced(l, datagram.sets)
  BY <1>1 DEF DatagramOK, Replaced
<1>3. [d EXCEPT !.sets = ss] = Replaced(l, ss)
  BY <1>2 DEF Replaced
<1>4. [datagram EXCEPT !.left = l, !.sets = ss] = [d EXCEPT !.sets = ss]
  BY <1>1, Zenon
<1> QED BY <1>3, <1>4, Zenon

LEMMA OneReplaced ==
  ASSUME DatagramOK, NEW ss
  PROVE  [datagram EXCEPT !.sets = ss] = Replaced(datagram.left, ss)
BY DEF DatagramOK, Replaced

LEMMA SetsReplaced ==
  ASSUME DatagramOK, carrier' = carrier, NEW ss \in Seq(FlowSets),
         datagram' = [datagram EXCEPT !.sets = ss]
  PROVE  /\ DatagramOK' /\ datagram'.sets = ss
         /\ datagram'.key = datagram.key /\ datagram'.source = datagram.source
         /\ datagram'.version = datagram.version
<1>1. datagram.left \in Int
  BY DEF DatagramOK
<1>2. datagram' = Replaced(datagram.left, ss)
  BY OneReplaced
<1> QED BY <1>1, <1>2, DatagramKept

\* The first of the sets is replaced by what is left of it.
LEMMA SetShortened ==
  ASSUME DatagramOK, carrier' = carrier, datagram.sets # <<>>, NEW s \in FlowSets,
         datagram' = [datagram EXCEPT !.sets[1] = s]
  PROVE  /\ DatagramOK' /\ datagram'.sets # <<>> /\ Head(datagram'.sets) = s
         /\ datagram'.key = datagram.key /\ datagram'.source = datagram.source
         /\ datagram'.version = datagram.version
<1>1. PICK sets : sets = datagram.sets
  OBVIOUS
<1>2. sets \in Seq(FlowSets) /\ sets # <<>> /\ DOMAIN sets = 1 .. Len(sets) /\ Len(sets) \in Nat \ {0}
  BY <1>1 DEF DatagramOK
<1>3. PICK t : t = [sets EXCEPT ![1] = s]
  OBVIOUS
<1>4. t \in Seq(FlowSets) /\ Len(t) = Len(sets) /\ t[1] = s
  BY <1>2, <1>3, ExceptSeq
<1>5. t # <<>> /\ Head(t) = s
  BY <1>2, <1>4
<1>6. datagram' = [datagram EXCEPT !.sets = t]
  BY <1>1, <1>3
<1> QED BY <1>4, <1>5, <1>6, SetsReplaced

LEMMA NextSetKeeps ==
  ASSUME DatagramOK, carrier' = carrier, datagram.sets # <<>>, NextSet
  PROVE  /\ DatagramOK' /\ datagram'.key = datagram.key /\ cur_template' = NULL
<1>1. Set.length \in Nat /\ datagram.left \in Int
  <2>1. Set \in FlowSets
    BY SetTyped
  <2> QED BY <2>1 DEF FlowSets, DataSets, TemplateSets, DatagramOK
<1>2. PICK x \in Int : x = datagram.left - Set.length
  BY <1>1
<1>3. x % LenMod \in Int
  BY DispatchAssumption
<1>4. PICK l : l = LeftAfter(Set.length)
  OBVIOUS
<1>5. l = IF datagram.version = 9 THEN x ELSE x % LenMod
  BY <1>2, <1>4 DEF LeftAfter
<1>6. l \in Int
  <2>1. CASE datagram.version = 9
    BY <2>1, <1>2, <1>5
  <2>2. CASE datagram.version # 9
    BY <2>2, <1>3, <1>5
  <2> QED BY <2>1, <2>2
<1>7. PICK ss : ss = IF Set.length = 0 THEN datagram.sets ELSE Tail(datagram.sets)
  OBVIOUS
<1>8. ss \in Seq(FlowSets)
  <2>1. datagram.sets \in Seq(FlowSets) /\ Tail(datagram.sets) \in Seq(FlowSets)
    BY SetTyped DEF DatagramOK
  <2> QED BY <1>7, <2>1
<1>9. datagram' = [datagram EXCEPT !.left = l, !.sets = ss] /\ cur_template' = NULL
  BY <1>4, <1>7 DEF NextSet
<1>10. datagram' = Replaced(l, ss)
  BY <1>9, BothReplaced, Zenon
<1>11. DatagramOK' /\ datagram'.key = datagram.key
  BY <1>6, <1>8, <1>10, DatagramKept
<1> QED BY <1>9, <1>11

LEMMA IInvUnchanged ==
  ASSUME IInv, TwinKeys, UNCHANGED vars
  PROVE  IInv' /\ TwinKeys'
BY StepInv DEF TwinKeys, vars, records

\* The exporter's address is read from the carrier's record, which is still there.
LEMMA SenderIsRead ==
  ASSUME CarrierKept, ~self, carrier # NULL
  PROVE  nfv9_template_key_init = Sender
BY DEF CarrierKept, nfv9_template_key_init, Sender

-----------------------------------------------------------------------------

(***************************************************************************)
(* The array of NetFlow v9 templates.                                      *)
(***************************************************************************)
LEMMA NewTemplate ==
  ASSUME nfv9_template_key_init = Sender, ArrayOK, NEW id, KnownAt(id) = {},
         v9_templates' = [v9_templates EXCEPT ![num_templates] =
                            [template_id |-> id, src |-> Sender,
                             layout |-> Layout(Sender, id)]],
         num_templates' = (num_templates + 1) % MAX_TEMPLATES,
         announced' = announced \cup {<<Sender, id>>}
  PROVE  ArrayOK'
<1> DEFINE a == <<Sender, id>>
           t == [template_id |-> id, src |-> Sender,
                 layout |-> Layout(Sender, id)]
<1>0. PICK n : n = num_templates
  OBVIOUS
<1>1. MAX_TEMPLATES \in Nat \ {0} /\ n \in 0 .. MAX_TEMPLATES - 1
  BY <1>0, DispatchAssumption DEF ArrayOK
<1>2. /\ num_templates' = (IF n + 1 = MAX_TEMPLATES THEN 0 ELSE n + 1)
      /\ num_templates' \in 0 .. MAX_TEMPLATES - 1
  <2>1. CASE n + 1 = MAX_TEMPLATES
    <3>1. MAX_TEMPLATES % MAX_TEMPLATES = 0
      BY <1>1
    <3> QED BY <3>1, <2>1, <1>0, <1>1
  <2>2. CASE n + 1 # MAX_TEMPLATES
    <3>1. \A x \in Nat : x < MAX_TEMPLATES => x % MAX_TEMPLATES = x
      BY <1>1
    <3> QED BY <3>1, <2>2, <1>0, <1>1
  <2> QED BY <2>1, <2>2
<1>3. /\ v9_templates' = [i \in 0 .. MAX_TEMPLATES - 1 |-> v9_templates'[i]]
      /\ v9_templates'[n] = t
      /\ \A i \in Indices : v9_templates'[i] = v9_templates[i]
  <2>1. PICK f : f = v9_templates
    OBVIOUS
  <2>2. f = [i \in 0 .. MAX_TEMPLATES - 1 |-> f[i]] /\ v9_templates' = [f EXCEPT ![n] = t]
    BY <2>1, <1>0 DEF ArrayOK
  <2>3. DOMAIN f = 0 .. MAX_TEMPLATES - 1
    BY <2>2
  <2>4. \A i \in Indices : i \in 0 .. MAX_TEMPLATES - 1 /\ i # n
    BY <1>0, <1>1 DEF Indices
  <2> HIDE DEF t
  <2>5. v9_templates' = [i \in 0 .. MAX_TEMPLATES - 1 |-> IF i = n THEN t ELSE f[i]]
    BY <2>2, <2>3
  <2> QED BY <2>1, <2>4, <2>5, <1>1
<1>4. Indices' = IF n + 1 = MAX_TEMPLATES THEN {} ELSE Indices \cup {n}
  <2>1. Indices = 0 .. n - 1 /\ Indices' = 0 .. num_templates' - 1
    BY <1>0 DEF Indices
  <2>2. n \in Nat
    BY <1>1
  <2>3. 0 .. (n + 1) - 1 = (0 .. n - 1) \cup {n} /\ 0 .. 0 - 1 = {}
    BY <2>2
  <2> QED BY <2>1, <2>3, <1>2
<1>5. /\ TemplateKey(n)' = a
      /\ \A i \in Indices : TemplateKey(i)' = TemplateKey(i) /\ TemplateKey(i) # a
  BY <1>3 DEF TemplateKey, KnownAt, nfv9_template_key_cmp, Indices
<1>6. \A i \in Indices' :
        v9_templates'[i].layout = Layout(v9_templates'[i].src, v9_templates'[i].template_id)
  <2>1. v9_templates'[n].layout = Layout(v9_templates'[n].src, v9_templates'[n].template_id)
    BY <1>3
  <2>2. \A i \in Indices : v9_templates'[i].layout
                             = Layout(v9_templates'[i].src, v9_templates'[i].template_id)
    BY <1>3 DEF ArrayOK
  <2> QED BY <2>1, <2>2, <1>4
<1>7. \A i, j \in Indices' : TemplateKey(i)' = TemplateKey(j)' => i = j
  BY <1>4, <1>5 DEF ArrayOK
<1>8. IsFiniteSet(announced') /\ Cardinality(announced) \in Nat
  BY FS_AddElement, FS_CardinalityType DEF ArrayOK
<1>9. ASSUME Cardinality(announced') < MAX_TEMPLATES
      PROVE  /\ num_templates' = Cardinality(announced')
             /\ \A x \in announced' : \E i \in Indices' : TemplateKey(i)' = x
             /\ \A i \in Indices' : TemplateKey(i)' \in announced'
  <2>1. Cardinality(announced') =
          IF a \in announced THEN Cardinality(announced) ELSE Cardinality(announced) + 1
    BY FS_AddElement DEF ArrayOK
  <2>2. Cardinality(announced) < MAX_TEMPLATES
    BY <1>1, <1>8, <1>9, <2>1
  <2>3. /\ num_templates = Cardinality(announced)
        /\ \A x \in announced : \E i \in Indices : TemplateKey(i) = x
        /\ \A i \in Indices : TemplateKey(i) \in announced
    BY <2>2 DEF ArrayOK
  <2>4. a \notin announced
    BY <2>3, <1>5
  <2>A. n = Cardinality(announced)
    BY <2>3, <1>0
  <2>5. n + 1 = Cardinality(announced') /\ n + 1 # MAX_TEMPLATES
    BY <2>1, <2>4, <2>A, <1>1, <1>9
  <2>6. num_templates' = n + 1 /\ Indices' = Indices \cup {n}
    BY <1>2, <1>4, <2>5
  <2> QED BY <2>3, <2>5, <2>6, <1>5
<1> QED BY <1>2, <1>3, <1>6, <1>7, <1>8, <1>9 DEF ArrayOK, Indices, TemplateKey

LEMMA KnownTemplate ==
  ASSUME nfv9_template_key_init = Sender, ArrayOK, NEW id, KnownAt(id) # {}, UNCHANGED nfv9,
         announced' = announced \cup {<<Sender, id>>}
  PROVE  ArrayOK'
<1> DEFINE a == <<Sender, id>>
<1>1. /\ v9_templates' = v9_templates /\ num_templates' = num_templates
      /\ Indices' = Indices /\ \A i : TemplateKey(i)' = TemplateKey(i)
  BY DEF nfv9, Indices, TemplateKey
<1>2. PICK i \in Indices : TemplateKey(i) = a
  BY DEF KnownAt, nfv9_template_key_cmp, Indices, TemplateKey
<1>3. IsFiniteSet(announced') /\ Cardinality(announced) \in Nat
  BY FS_AddElement, FS_CardinalityType DEF ArrayOK
<1>4. ASSUME Cardinality(announced') < MAX_TEMPLATES
      PROVE  announced' = announced
  <2>1. Cardinality(announced') =
          IF a \in announced THEN Cardinality(announced) ELSE Cardinality(announced) + 1
    BY FS_AddElement DEF ArrayOK
  <2>2. Cardinality(announced) < MAX_TEMPLATES
    BY DispatchAssumption, <1>3, <1>4, <2>1
  <2> QED BY <1>2, <2>2 DEF ArrayOK
<1> QED BY <1>1, <1>3, <1>4 DEF ArrayOK

LEMMA TemplateStep ==
  ASSUME DispatchInv, process_nfv9_template
  PROVE  DispatchInv'
<1>1. PICK id, s : id = Head(Set.ids) /\ s = [Set EXCEPT !.ids = Tail(@)]
  OBVIOUS
<1>2. /\ datagram.sets # <<>> /\ Set.type = "template" /\ Set.ids # <<>> /\ carrier # NULL
      /\ announced' = announced \cup {<<Sender, id>>}
      /\ datagram' = [datagram EXCEPT !.sets[1] = s]
      /\ UNCHANGED vars /\ carrier' = carrier /\ self' = self /\ decoded' = decoded
      /\ cur_template' = cur_template
  BY <1>1 DEF process_nfv9_template, InSet, InMessage
<1>3. IInv' /\ TwinKeys'
  BY <1>2, IInvUnchanged DEF DispatchInv
<1>4. s \in FlowSets
  <2>1. Set \in TemplateSets
    BY <1>2, SetTyped DEF DispatchInv
  <2>2. Tail(Set.ids) \in Seq(Nat)
    BY <1>2, <2>1 DEF TemplateSets
  <2> QED BY <1>1, <2>1, <2>2 DEF FlowSets, TemplateSets
<1>5. DatagramOK' /\ datagram'.key = datagram.key
  BY <1>2, <1>4, SetShortened DEF DispatchInv
<1>6. CarrierKept'
  BY <1>2, <1>5 DEF DispatchInv, CarrierKept, vars, records
<1>7. DecodedAsAnnounced'
  BY <1>2 DEF DispatchInv, DecodedAsAnnounced
<1>8. self' \/ (ArrayOK' /\ TemplateOK')
  <2> SUFFICES ASSUME ~self PROVE ArrayOK' /\ TemplateOK'
    BY <1>2
  <2>1. nfv9_template_key_init = Sender /\ ArrayOK
    BY <1>2, SenderIsRead DEF DispatchInv
  <2>2. TemplateOK'
    <3>1. cur_template = NULL
      BY <1>2 DEF DispatchInv, TemplateOK
    <3> QED BY <1>2, <3>1 DEF TemplateOK
  <2>3. CASE Redundant(id)
    <3>1. UNCHANGED nfv9 /\ KnownAt(id) # {}
      BY <1>1, <2>3 DEF process_nfv9_template, Redundant
    <3> QED BY <3>1, <2>1, <2>2, <1>2, KnownTemplate
  <2>4. CASE ~Redundant(id)
    <3>1. /\ v9_templates' = [v9_templates EXCEPT ![num_templates] =
                                [template_id |-> id, src |-> Sender, layout |-> Layout(Sender, id)]]
          /\ num_templates' = (num_templates + 1) % MAX_TEMPLATES
          /\ KnownAt(id) = {}
      BY <1>1, <2>4, <2>1 DEF process_nfv9_template, Redundant
    <3> QED BY <3>1, <2>1, <2>2, <1>2, NewTemplate
  <2> QED BY <2>3, <2>4
<1> QED BY <1>3, <1>5, <1>6, <1>7, <1>8 DEF DispatchInv

LEMMA NextSetStep ==
  ASSUME DispatchInv, next_set
  PROVE  DispatchInv'
<1>1. /\ datagram.sets # <<>> /\ NextSet
      /\ announced' = announced /\ num_templates' = num_templates
      /\ v9_templates' = v9_templates
      /\ UNCHANGED vars /\ carrier' = carrier /\ self' = self /\ decoded' = decoded
  BY DEF next_set, InSet, nfv9
<1>2. IInv' /\ TwinKeys'
  BY <1>1, IInvUnchanged DEF DispatchInv
<1>3. DatagramOK' /\ datagram'.key = datagram.key /\ cur_template' = NULL
  BY <1>1, NextSetKeeps DEF DispatchInv
<1>4. CarrierKept' /\ DecodedAsAnnounced'
  BY <1>1, <1>3 DEF DispatchInv, CarrierKept, DecodedAsAnnounced, vars, records
<1>5. self' \/ (ArrayOK' /\ TemplateOK')
  BY <1>1, <1>3 DEF DispatchInv, ArrayOK, Indices, TemplateKey, TemplateOK
<1> QED BY <1>2, <1>3, <1>4, <1>5 DEF DispatchInv

LEMMA BehindStep ==
  ASSUME DispatchInv, read_behind
  PROVE  DispatchInv'
<1>1. PICK s \in Behind : datagram' = [datagram EXCEPT !.sets = <<s>>]
  BY DEF read_behind
<1>2. /\ datagram.sets = <<>>
      /\ announced' = announced /\ num_templates' = num_templates
      /\ v9_templates' = v9_templates /\ cur_template' = cur_template
      /\ UNCHANGED vars /\ carrier' = carrier /\ self' = self /\ decoded' = decoded
  BY DEF read_behind, nfv9
<1>3. IInv' /\ TwinKeys'
  BY <1>2, IInvUnchanged DEF DispatchInv
<1>4. DatagramOK' /\ datagram'.key = datagram.key
  <2>1. PICK sets : sets = <<s>>
    OBVIOUS
  <2>2. sets \in Seq(FlowSets)
    BY <2>1, DispatchAssumption
  <2> QED BY <1>1, <1>2, <2>1, <2>2, SetsReplaced DEF DispatchInv
<1>5. CarrierKept' /\ DecodedAsAnnounced'
  BY <1>2, <1>4 DEF DispatchInv, CarrierKept, DecodedAsAnnounced, vars, records
<1>6. self' \/ (ArrayOK' /\ TemplateOK')
  BY <1>2 DEF DispatchInv, ArrayOK, Indices, TemplateKey, TemplateOK
<1> QED BY <1>3, <1>4, <1>5, <1>6 DEF DispatchInv

\* The template that is found is the one this exporter announced.
LEMMA TemplateFound ==
  ASSUME nfv9_template_key_init = Sender, ArrayOK, NEW id, KnownAt(id) # {}
  PROVE  FoundTemplate(id).layout = Layout(Sender, id)
<1>1. PICK i \in KnownAt(id) : TRUE
  OBVIOUS
<1>2. /\ i \in Indices
      /\ v9_templates[i].template_id = id /\ v9_templates[i].src = Sender
  BY <1>1 DEF KnownAt, Indices, nfv9_template_key_cmp
<1>3. KnownAt(id) = {i}
  BY <1>1, <1>2 DEF ArrayOK, KnownAt, Indices, TemplateKey, nfv9_template_key_cmp
<1>4. i \in Int
  BY <1>2 DEF Indices, ArrayOK
<1>5. FirstOf({i}) = i
  BY <1>4 DEF FirstOf
<1>6. v9_templates[i].layout = Layout(Sender, id)
  BY <1>2 DEF ArrayOK
<1> QED BY <1>3, <1>5, <1>6 DEF FoundTemplate

LEMMA FindStep ==
  ASSUME DispatchInv, find_template
  PROVE  DispatchInv'
<1>1. /\ datagram.sets # <<>> /\ Set.type = "data" /\ carrier # NULL /\ datagram.version = 9
      /\ KnownAt(Set.id) # {} /\ cur_template = NULL
      /\ \/ datagram' = [datagram EXCEPT !.left = 0, !.sets = <<>>] /\ cur_template' = cur_template
         \/ cur_template' = FoundTemplate(Set.id) /\ datagram' = datagram
      /\ announced' = announced /\ num_templates' = num_templates
      /\ v9_templates' = v9_templates
      /\ UNCHANGED vars /\ carrier' = carrier /\ self' = self /\ decoded' = decoded
  BY DEF find_template, InSet, InMessage, nfv9
<1>2. IInv' /\ TwinKeys'
  BY <1>1, IInvUnchanged DEF DispatchInv
<1>3. DatagramOK' /\ datagram'.key = datagram.key
  <2>1. CASE datagram' = datagram
    BY <1>1, <2>1 DEF DispatchInv, DatagramOK
  <2>2. CASE datagram' = [datagram EXCEPT !.left = 0, !.sets = <<>>]
    <3>1. <<>> \in Seq(FlowSets) /\ 0 \in Int
      OBVIOUS
    <3>2. DatagramOK /\ datagram' = Replaced(0, <<>>)
      BY <2>2, BothReplaced, Zenon DEF DispatchInv
    <3> QED BY <1>1, <3>1, <3>2, DatagramKept
  <2> QED BY <1>1, <2>1, <2>2
<1>4. CarrierKept' /\ DecodedAsAnnounced'
  BY <1>1, <1>3 DEF DispatchInv, CarrierKept, DecodedAsAnnounced, vars, records
<1>5. self' \/ (ArrayOK' /\ TemplateOK')
  <2> SUFFICES ASSUME ~self PROVE ArrayOK' /\ TemplateOK'
    BY <1>1
  <2>1. ArrayOK /\ nfv9_template_key_init = Sender
    BY <1>1, SenderIsRead DEF DispatchInv
  <2>2. ArrayOK'
    BY <1>1, <2>1 DEF ArrayOK, Indices, TemplateKey
  <2>3. FoundTemplate(Set.id).layout = Layout(Sender, Set.id)
    BY <1>1, <2>1, TemplateFound
  <2>4. TemplateOK'
    BY <1>1, <2>3 DEF TemplateOK, Set, Sender
  <2> QED BY <2>2, <2>4
<1> QED BY <1>2, <1>3, <1>4, <1>5 DEF DispatchInv

-----------------------------------------------------------------------------

(***************************************************************************)
(* One record of a data set.                                               *)
(***************************************************************************)
LEMMA RecordOfSet ==
  ASSUME DatagramOK, datagram.sets # <<>>, Set.type = "data", Set.flows # <<>>
  PROVE  /\ Head(Set.flows) \in Keys
         /\ LET rest == [Set EXCEPT !.flows = Tail(@)] IN
            rest \in FlowSets /\ rest.type = "data" /\ rest.id = Set.id
<1>1. Set \in DataSets
  BY SetTyped
<1>2. Set.flows \in Seq(Keys)
  BY <1>1 DEF DataSets
<1>3. Head(Set.flows) \in Keys /\ Tail(Set.flows) \in Seq(Keys)
  BY <1>2
<1> QED BY <1>1, <1>3 DEF FlowSets, DataSets

LEMMA CollectStep ==
  ASSUME DispatchInv, NEW n \in Counts, collect_record(n)
  PROVE  DispatchInv'
<1>0. PICK k, rest : k = Head(Set.flows) /\ rest = [Set EXCEPT !.flows = Tail(@)]
  OBVIOUS
<1>1. /\ datagram.sets # <<>> /\ Set.type = "data" /\ Set.flows # <<>> /\ carrier # NULL
      /\ datagram.version = 9 => cur_template # NULL
      /\ \E x \in Exported : collect_flow(k, x[1], x[2])
      /\ datagram' = datagram \/ datagram' = [datagram EXCEPT !.sets[1] = rest]
      /\ self' = (self \/ k = datagram.key \/ flow_key_is_twin(k, datagram.key))
      /\ decoded' = IF datagram.version = 10 THEN decoded
                    ELSE [as |-> cur_template.layout, sent |-> Layout(Sender, Set.id)]
      /\ carrier' = carrier /\ announced' = announced /\ cur_template' = cur_template
      /\ v9_templates' = v9_templates /\ num_templates' = num_templates
  BY <1>0 DEF collect_record, InSet, InMessage, nfv9
<1>2. /\ IInv /\ TwinKeys /\ DatagramOK /\ CarrierKept /\ (self \/ (ArrayOK /\ TemplateOK))
      /\ DecodedAsAnnounced
  BY DEF DispatchInv
<1>3. k \in Keys /\ rest \in FlowSets /\ rest.type = "data" /\ rest.id = Set.id
  BY <1>0, <1>1, <1>2, RecordOfSet
<1>4. PICK x \in Exported : collect_flow(k, x[1], x[2])
  BY <1>1
<1>5. x[1] \in Times \cup {0} /\ x[2] \in Times \cup {0}
  BY ConfigAssumption
<1>6. /\ NotWalking /\ global_time' = global_time
      /\ get_record(k, active_expired_no_header, x[1], x[2], FALSE)
  BY <1>4 DEF collect_flow
<1>7. global_time' \in Times \cup {0}
  BY <1>2, <1>6 DEF IInv, TypeOK
<1>8. IInv' /\ TwinKeys'
  BY <1>2, <1>3, <1>5, <1>6, <1>7, LookupKeepsInv
<1>9. /\ DatagramOK' /\ datagram'.sets # <<>> /\ datagram'.version = datagram.version
      /\ Sender' = Sender /\ datagram'.key = datagram.key
      /\ Set'.type = "data" /\ Set'.id = Set.id
  <2>1. CASE datagram' = datagram
    BY <2>1, <1>1, <1>2 DEF DatagramOK, Set, Sender
  <2>2. CASE datagram' = [datagram EXCEPT !.sets[1] = rest]
    <3>1. /\ DatagramOK' /\ datagram'.sets # <<>> /\ Head(datagram'.sets) = rest
          /\ datagram'.key = datagram.key /\ datagram'.source = datagram.source
          /\ datagram'.version = datagram.version
      BY <2>2, <1>1, <1>2, <1>3, SetShortened
    <3> QED BY <3>1, <1>3 DEF Set, Sender
  <2> QED BY <2>1, <2>2, <1>1
<1>10. CarrierKept'
  <2> SUFFICES ASSUME carrier # NULL, ~self, k # datagram.key,
                      ~flow_key_is_twin(k, datagram.key)
               PROVE  carrier \in table' /\ key'[carrier] = datagram.key
    BY <1>1, <1>9 DEF CarrierKept
  <2>1. carrier \in table /\ key[carrier] = datagram.key
    BY <1>2 DEF CarrierKept
  <2> QED BY <2>1, <1>2, <1>3, <1>6, RecordStays
<1>11. self' \/ (ArrayOK' /\ TemplateOK')
  <2>1. self' \/ ArrayOK'
    BY <1>1, <1>2 DEF ArrayOK, Indices, TemplateKey
  <2>2. self' \/ TemplateOK'
    BY <1>1, <1>2, <1>9 DEF TemplateOK
  <2> QED BY <2>1, <2>2
<1>12. DecodedAsAnnounced'
  <2>1. CASE datagram.version = 10
    BY <2>1, <1>1, <1>2 DEF DecodedAsAnnounced
  <2>2. CASE datagram.version # 10
    <3>1. cur_template # NULL
      BY <2>2, <1>1, <1>2 DEF DatagramOK
    <3>2. self \/ cur_template.layout = Layout(Sender, Set.id)
      BY <3>1, <1>2 DEF TemplateOK
    <3> QED BY <3>2, <2>2, <1>1 DEF DecodedAsAnnounced
  <2> QED BY <2>1, <2>2
<1> QED BY <1>8, <1>9, <1>10, <1>11, <1>12 DEF DispatchInv

-----------------------------------------------------------------------------

LEMMA FinishStep ==
  ASSUME DispatchInv, finish_packet
  PROVE  DispatchInv'
<1>1. /\ carrier # NULL /\ NotWalking
      /\ \/ /\ start' = [start EXCEPT ![carrier] = IF @ = 0 THEN datagram.ts ELSE @]
            /\ end' = [end EXCEPT ![carrier] = datagram.ts]
         \/ UNCHANGED <<start, end>>
      /\ UNCHANGED <<table, key, twin, older, chrono, global_time>>
      /\ carrier' = NULL /\ datagram' = NoDatagram /\ decoded' = NULL
      /\ announced' = announced /\ self' = self /\ cur_template' = NULL
      /\ v9_templates' = v9_templates /\ num_templates' = num_templates
  BY DEF finish_packet, nfv9
<1>2. IInv /\ TwinKeys /\ (self \/ ArrayOK) /\ datagram.ts \in Times \cup {0}
  BY DEF DispatchInv, DatagramOK
<1>3. /\ Lists /\ TimesTyped /\ global_time \in Times \cup {0}
      /\ cur \in chrono \cup {NULL} /\ walk \in WalkTypes
  BY <1>2 DEF IInv, TypeOK, Lists, TimesTyped
<1>4. Lists' /\ TwinKeys'
  BY <1>1, <1>2, <1>3 DEF Lists, TwinKeys
<1>5. TimesTyped'
  BY <1>1, <1>2, <1>3 DEF TimesTyped
<1>6. IInv'
  BY <1>1, <1>3, <1>4, <1>5, InvFromParts DEF NotWalking
<1>7. DatagramOK'
  BY <1>1 DEF DatagramOK, NoDatagram
<1>8. CarrierKept' /\ DecodedAsAnnounced'
  BY <1>1 DEF CarrierKept, DecodedAsAnnounced
<1>9. self' \/ (ArrayOK' /\ TemplateOK')
  BY <1>1, <1>2 DEF ArrayOK, Indices, TemplateKey, TemplateOK
<1> QED BY <1>4, <1>6, <1>7, <1>8, <1>9 DEF DispatchInv

LEMMA ReportStep ==
  ASSUME DispatchInv, report_flows
  PROVE  DispatchInv'
<1>1. carrier = NULL /\ UNCHANGED collector /\ IInv /\ TwinKeys
  BY DEF report_flows, NotCollecting, DispatchInv
<1>2. StartWalk("JOY_EXPIRED_FLOWS") \/ WalkStep
  BY DEF report_flows
<1>3. IInv'
  BY <1>1, <1>2, StepInv DEF Next, WalkTypes
<1>4. TwinKeys'
  <2>1. CASE UNCHANGED records
    BY <2>1, <1>1 DEF TwinKeys, records
  <2>2. CASE DeleteWithTwin(cur)
    BY <2>2, <1>1, <1>3, DeleteKeepsTwinKeys DEF DeleteWithTwin
  <2> QED BY <2>1, <2>2, <1>2 DEF StartWalk, WalkStep
<1> QED BY <1>1, <1>3, <1>4, CollectorRests

LEMMA DispatchInitInv == DispatchInit => DispatchInv
<1> SUFFICES ASSUME DispatchInit PROVE DispatchInv
  OBVIOUS
<1>1. IInv
  BY InitInv DEF DispatchInit
<1>2. TwinKeys
  BY DEF DispatchInit, Init, TwinKeys
<1>3. DatagramOK
  BY DEF DispatchInit, DatagramOK, NoDatagram
<1>4. CarrierKept /\ DecodedAsAnnounced
  BY DEF DispatchInit, CarrierKept, DecodedAsAnnounced
<1>5. ArrayOK
  <2>1. num_templates = 0 /\ announced = {}
    BY DEF DispatchInit
  <2>2. v9_templates = [i \in 0 .. MAX_TEMPLATES - 1 |-> v9_templates[i]]
    BY DEF DispatchInit
  <2>3. num_templates \in 0 .. MAX_TEMPLATES - 1 /\ Indices = {}
    BY <2>1, DispatchAssumption DEF Indices
  <2>4. IsFiniteSet(announced) /\ Cardinality(announced) = 0
    BY <2>1, FS_EmptySet
  <2> QED BY <2>1, <2>2, <2>3, <2>4 DEF ArrayOK
<1>6. TemplateOK
  BY DEF DispatchInit, TemplateOK
<1> QED BY <1>1, <1>2, <1>3, <1>4, <1>5, <1>6 DEF DispatchInv

LEMMA DispatchStepInv == DispatchInv /\ [DispatchNext]_dispatchVars => DispatchInv'
<1> SUFFICES ASSUME DispatchInv, [DispatchNext]_dispatchVars PROVE DispatchInv'
  OBVIOUS
<1>1. CASE UNCHANGED dispatchVars
  <2>1. /\ UNCHANGED vars /\ carrier' = carrier /\ datagram' = datagram
        /\ self' = self /\ announced' = announced /\ decoded' = decoded
        /\ cur_template' = cur_template
        /\ v9_templates' = v9_templates /\ num_templates' = num_templates
    BY <1>1 DEF dispatchVars, collector, nfv9
  <2>2. IInv' /\ TwinKeys'
    BY <2>1, IInvUnchanged DEF DispatchInv
  <2>3. DatagramOK' /\ CarrierKept' /\ DecodedAsAnnounced'
    BY <2>1 DEF DispatchInv, DatagramOK, CarrierKept, DecodedAsAnnounced, vars, records
  <2>4. self' \/ (ArrayOK' /\ TemplateOK')
    BY <2>1 DEF DispatchInv, ArrayOK, Indices, TemplateKey, TemplateOK, Set, Sender
  <2> QED BY <2>2, <2>3, <2>4 DEF DispatchInv
<1> QED
  BY <1>1, PacketStep, DatagramStep, TemplateStep, FindStep, NextSetStep, BehindStep,
     CollectStep, FinishStep, ReportStep
  DEF DispatchNext, ReadDatagram

LEMMA DispatchInductive == DispatchSpec => []DispatchInv
BY DispatchInitInv, DispatchStepInv, PTL DEF DispatchSpec

(***************************************************************************)
(* Counting.  Each live record has counted the packets of its key, unless  *)
(* a message came back to it, a free address none, and none are expected   *)
(* of a key without a record.                                              *)
(***************************************************************************)
Small == 0 .. NpMod - 1

Agree ==
  /\ np \in [Rid -> Small] /\ expected \in [Keys -> Small]
  /\ \A r \in table : key[r] \in apart \/ np[r] = expected[key[r]]
  /\ \A r \in Rid \ table : np[r] = 0
  /\ \A x \in Keys : (\A r \in table : key[r] # x) => expected[x] = 0

\* prev_key is the flow that was counted last.
PrevOK ==
  /\ counted \in Seq(Keys)
  /\ prev_key = IF counted = <<>> THEN NULL ELSE counted[Len(counted)]

CountInv == PrevOK /\ (self \/ Agree)

LEMMA PlusSmall ==
  ASSUME NEW a \in Small, NEW n \in Nat
  PROVE  Plus(a, n) \in Small /\ Plus(a, 0) = a
<1>1. NpMod \in Nat \ {0} /\ a \in Nat /\ a < NpMod /\ a + n \in Nat
  BY DispatchAssumption DEF Small
<1>2. (a + n) % NpMod \in 0 .. NpMod - 1
  BY <1>1
<1>3. a % NpMod = a /\ a + 0 = a
  BY <1>1
<1> QED BY <1>2, <1>3 DEF Plus, Small

\* Counting in the record that was looked up, or in none.
LEMMA CountKeepsAgree ==
  ASSUME Agree, NEW gone \in SUBSET table, NEW k, NEW u, u = Used(k),
         table \subseteq Rid, NULL \notin Rid, \A s \in table : key[s] \in Keys,
         Unique(table, key), Unique(table', key'),
         table' = (table \ gone) \cup ({u} \ {NULL}),
         \A s \in table \ gone : key'[s] = key[s],
         u # NULL => k \in Keys /\ u \in Rid,
         NEW r, NEW n \in Nat, NEW due \in Nat, NEW again, Count(gone, r, n, k, due, again),
         \/ r = u /\ n = due
         \/ r = NULL /\ due = 0
         \/ r = u /\ (u = NULL \/ k \in again)
  PROVE  Agree'
<1> DEFINE now == Zeroize(np, gone, 0)
           forgotten == {key[s] : s \in gone}
           kept == [x \in Keys |-> IF x \in forgotten THEN 0 ELSE expected[x]]
<1>0. apart' = (apart \ forgotten) \cup again
  BY DEF Count
<1>1. /\ np' = IF r \in table' THEN [now EXCEPT ![r] = Plus(@, n)] ELSE now
      /\ expected' = IF u # NULL THEN [kept EXCEPT ![k] = Plus(@, due)] ELSE kept
  BY DEF Count
<1>2. u # NULL => u \in table' /\ key'[u] = k
  BY DEF Used
<1>3. 0 \in Small
  BY DispatchAssumption DEF Small
<1>4. now \in [Rid -> Small] /\ kept \in [Keys -> Small]
  BY <1>3 DEF Agree, Zeroize
<1>5. /\ \A s \in Rid : now[s] = IF s \in gone THEN 0 ELSE np[s]
      /\ \A x \in Keys : kept[x] = IF \E s \in gone : key[s] = x THEN 0 ELSE expected[x]
      /\ \A x : x \in forgotten <=> \E s \in gone : key[s] = x
  BY DEF Zeroize
<1>6. \A a \in Small : Plus(a, n) \in Small /\ Plus(a, due) \in Small /\ Plus(a, 0) = a
  BY PlusSmall
<1> HIDE DEF now, kept, forgotten
<1>7. np' \in [Rid -> Small] /\ expected' \in [Keys -> Small]
  <2>1. r \in table' => r \in Rid
    OBVIOUS
  <2>2. now[r] \in Small \/ r \notin Rid
    BY <1>4
  <2>3. kept[k] \in Small \/ u = NULL
    BY <1>4
  <2>4. np' \in [Rid -> Small]
    BY <1>1, <1>4, <1>6, <2>1, <2>2
  <2>5. expected' \in [Keys -> Small]
    BY <1>1, <1>4, <1>6, <2>3
  <2> QED BY <2>4, <2>5
<1>8. /\ \A s \in Rid : np'[s] = IF s = r /\ r \in table' THEN Plus(now[s], n) ELSE now[s]
      /\ \A x \in Keys : expected'[x] = IF x = k /\ u # NULL THEN Plus(kept[x], due) ELSE kept[x]
  BY <1>1, <1>4
<1>9. ASSUME NEW s \in table \ gone
      PROVE  key[s] \in apart' \/ now[s] = kept[key[s]]
  <2>1. ~ \E g \in gone : key[g] = key[s]
    BY DEF Unique
  <2>2. key[s] \in apart => key[s] \in apart'
    BY <1>0, <1>5, <2>1
  <2>3. np[s] = expected[key[s]] => now[s] = kept[key[s]]
    BY <1>5, <2>1
  <2> QED BY <2>2, <2>3 DEF Agree
<1>10. ASSUME u # NULL, u \notin table \ gone
       PROVE  now[u] = 0 /\ kept[k] = 0
  <2>1. now[u] = 0
    BY <1>5, <1>10 DEF Agree
  <2>2. \A s \in table \ gone : key[s] # k
    BY <1>2, <1>10 DEF Unique
  <2>3. (\E s \in gone : key[s] = k) \/ \A s \in table : key[s] # k
    BY <2>2
  <2> QED BY <1>5, <1>10, <2>1, <2>3 DEF Agree
<1>11. \A s \in table' : key'[s] \in apart' \/ np'[s] = expected'[key'[s]]
  <2> SUFFICES ASSUME NEW s \in table', key'[s] \notin apart' PROVE np'[s] = expected'[key'[s]]
    OBVIOUS
  <2>1. CASE s = u
    <3>1. u # NULL /\ key'[s] = k /\ k \in Keys /\ s \in Rid /\ k \notin again
      BY <1>0, <1>2, <2>1
    <3>2. now[s] = kept[k]
      BY <1>9, <1>10, <2>1, <3>1
    <3>3. kept[k] \in Small
      BY <1>4, <3>1
    <3>4. CASE r = u /\ n = due
      BY <1>8, <2>1, <3>1, <3>2, <3>4
    <3>5. CASE r = NULL /\ due = 0
      <4>1. np'[s] = now[s]
        BY <1>8, <3>1, <3>5
      <4>2. expected'[k] = Plus(kept[k], 0)
        BY <1>8, <3>1, <3>5
      <4> QED BY <1>6, <3>1, <3>2, <3>3, <4>1, <4>2
    <3> QED BY <3>1, <3>4, <3>5
  <2>2. CASE s # u
    <3>1. s \in table \ gone /\ key'[s] = key[s] /\ s \in Rid /\ key[s] \in Keys
      BY <2>2
    <3>2. u # NULL => key[s] # k
      BY <1>2, <2>2, <3>1 DEF Unique
    <3>3. np'[s] = now[s]
      BY <1>8, <2>2, <3>1
    <3>4. now[s] = kept[key[s]]
      BY <1>9, <3>1
    <3> QED BY <1>8, <3>1, <3>2, <3>3, <3>4
  <2> QED BY <2>1, <2>2
<1>12. \A s \in Rid \ table' : np'[s] = 0
  BY <1>5, <1>8 DEF Agree
<1>13. \A x \in Keys : (\A s \in table' : key'[s] # x) => expected'[x] = 0
  <2> SUFFICES ASSUME NEW x \in Keys, \A s \in table' : key'[s] # x PROVE expected'[x] = 0
    OBVIOUS
  <2>1. expected'[x] = kept[x]
    BY <1>2, <1>8
  <2>2. \A s \in table \ gone : key[s] # x
    OBVIOUS
  <2>3. (\E s \in gone : key[s] = x) \/ \A s \in table : key[s] # x
    BY <2>2
  <2> QED BY <1>5, <2>1, <2>3 DEF Agree
<1> QED BY <1>7, <1>11, <1>12, <1>13 DEF Agree

\* Counting in the record flow_key_get_record returned.
LEMMA LookupKeepsAgree ==
  ASSUME IInv, IInv', Agree, NEW k \in Keys, NEW expired, NEW refresh,
         NEW st \in Times \cup {0}, NEW en \in Times \cup {0},
         get_record(k, expired, st, en, refresh),
         NEW r, NEW n \in Nat, NEW due \in Nat, NEW again,
         Count(Preempted(k, expired), r, n, k, due, again),
         \/ r = Used(k) /\ n = due
         \/ r = NULL /\ due = 0
         \/ r = Used(k) /\ (Used(k) = NULL \/ k \in again)
  PROVE  Agree'
<1>1. PICK gone, u : gone = Preempted(k, expired) /\ u = Used(k)
  OBVIOUS
<1>2. /\ Lists /\ TimesTyped /\ table \subseteq Rid /\ NULL \notin Rid
      /\ \A s \in table : key[s] \in Keys
      /\ Unique(table, key) /\ Unique(table', key')
  BY NullAssumption DEF IInv, TypeOK, Lists, TimesTyped, ListsOK, ListsTyped
<1>3. /\ gone \subseteq table /\ (u # NULL => u \in Rid)
      /\ table' = (table \ gone) \cup ({u} \ {NULL})
  BY <1>1, <1>2, GetRecordTable
<1>4. \A s \in table \ gone : key'[s] = key[s]
  BY <1>1, <1>2, KeysStay
<1>5. /\ Count(gone, r, n, k, due, again)
      /\ (r = u /\ n = due) \/ (r = NULL /\ due = 0) \/ (r = u /\ (u = NULL \/ k \in again))
  BY <1>1
<1>6. gone \in SUBSET table
  BY <1>3
<1> QED BY <1>1, <1>2, <1>3, <1>4, <1>5, <1>6, CountKeepsAgree

LEMMA PacketCounts ==
  ASSUME DispatchInv, DispatchInv', CountInv, NEW p \in Packets, NEW ts \in Times,
         process_ip_packet(p, ts) \/ process_tcp_retransmission(p, ts)
  PROVE  CountInv'
<1> DEFINE k == PacketKey(p)
<1>1. /\ IInv /\ IInv' /\ k \in Keys /\ PrevOK /\ (self \/ Agree)
      /\ ts \in Times \cup {0} /\ 0 \in Times \cup {0}
  BY KeysOfPacketsAssumption DEF DispatchInv, CountInv
<1> HIDE DEF k
<1>2. prev_key' = prev_key /\ counted' = counted /\ self' = self
  BY DEF process_ip_packet, process_tcp_retransmission, collector
<1>3. PrevOK'
  BY <1>1, <1>2 DEF PrevOK
<1>4. ASSUME process_ip_packet(p, ts), Agree PROVE Agree'
  <2>1. /\ get_record(k, Expired(p, ts), ts, ts, TRUE)
        /\ Count(Preempted(k, Expired(p, ts)), Used(k), 1, k, 1, {})
    BY <1>4 DEF process_ip_packet, k
  <2>2. PICK x, r : x = Expired(p, ts) /\ r = Used(k)
    OBVIOUS
  <2>3. get_record(k, x, ts, ts, TRUE) /\ Count(Preempted(k, x), r, 1, k, 1, {}) /\ 1 \in Nat
    BY <2>1, <2>2
  <2> QED BY <1>1, <1>4, <2>2, <2>3, LookupKeepsAgree
<1>5. ASSUME process_tcp_retransmission(p, ts), Agree PROVE Agree'
  <2>1. /\ get_record(k, active_expired(ts), 0, 0, FALSE)
        /\ Count(Preempted(k, active_expired(ts)), NULL, 0, k, 0, {})
    BY <1>5 DEF process_tcp_retransmission, process_retransmission, k
  <2> QED BY <1>1, <1>5, <2>1, LookupKeepsAgree
<1> QED BY <1>1, <1>2, <1>3, <1>4, <1>5 DEF CountInv

LEMMA DatagramCounts ==
  ASSUME DispatchInv, DispatchInv', CountInv, NEW d \in Messages, NEW ts \in Times, process_udp(d, ts)
  PROVE  CountInv'
<1>1. /\ IInv /\ IInv' /\ d.key \in Keys /\ (self \/ Agree) /\ 0 \in Times \cup {0}
  BY DispatchAssumption DEF DispatchInv, CountInv
<1>2. /\ get_record(d.key, active_expired(ts), 0, 0, FALSE)
      /\ Count(Preempted(d.key, active_expired(ts)), NULL, 0, d.key, 0, {})
      /\ prev_key' = NULL /\ counted' = <<>> /\ self' = self
  BY DEF process_udp
<1>3. PrevOK'
  <2>1. <<>> \in Seq(Keys)
    OBVIOUS
  <2> QED BY <1>2, <2>1 DEF PrevOK
<1>4. Agree => Agree'
  BY <1>1, <1>2, LookupKeepsAgree
<1> QED BY <1>1, <1>2, <1>3, <1>4 DEF CountInv

\* Whatever is read between two records counts nothing.
LEMMA ReadCounts ==
  ASSUME CountInv, process_nfv9_template \/ find_template \/ next_set \/ read_behind
  PROVE  CountInv'
<1>1. /\ UNCHANGED <<table, key, np, expected, apart>>
      /\ prev_key' = prev_key /\ counted' = counted /\ self' = self
  BY DEF process_nfv9_template, find_template, next_set, read_behind, vars, records, counts
<1> QED BY <1>1 DEF CountInv, PrevOK, Agree

LEMMA CollectCounts ==
  ASSUME DispatchInv, DispatchInv', CountInv, NEW n \in Counts, collect_record(n)
  PROVE  CountInv'
<1>0. PICK k, u : k = Head(Set.flows) /\ u = Used(k)
  OBVIOUS
<1>1. /\ datagram.sets # <<>> /\ Set.type = "data" /\ Set.flows # <<>>
      /\ \E x \in Exported : collect_flow(k, x[1], x[2])
      /\ Count(Preempted(k, active_expired_no_header), u, PacketsToAdd(k, n), k,
               IF k \in Recorded THEN 0 ELSE n, IF u # NULL /\ ComesBack(k) THEN {k} ELSE {})
      /\ IF u = NULL THEN prev_key' = prev_key /\ counted' = counted
         ELSE prev_key' = k /\ counted' = Append(counted, k)
      /\ self => self'
  BY <1>0 DEF collect_record, InSet
<1>2. /\ IInv /\ IInv' /\ DatagramOK /\ PrevOK /\ (self \/ Agree) /\ n \in Nat /\ 0 \in Nat
  BY DispatchAssumption DEF DispatchInv, CountInv
<1>3. k \in Keys
  BY <1>0, <1>1, <1>2, RecordOfSet
<1>4. PrevOK'
  <2>1. CASE u = NULL
    BY <1>1, <1>2, <2>1 DEF PrevOK
  <2>2. CASE u # NULL
    <3>1. PICK c : c = Append(counted, k)
      OBVIOUS
    <3>2. counted \in Seq(Keys)
      BY <1>2 DEF PrevOK
    <3>3. c \in Seq(Keys) /\ c # <<>> /\ c[Len(c)] = k
      BY <1>3, <3>1, <3>2
    <3>4. prev_key' = k /\ counted' = c
      BY <1>1, <2>2, <3>1
    <3> QED BY <3>3, <3>4 DEF PrevOK
  <2> QED BY <2>1, <2>2
<1>5. ComesBack(k) \/ PacketsToAdd(k, n) = IF k \in Recorded THEN 0 ELSE n
  <2>1. CASE counted = <<>>
    <3>1. Recorded = {} /\ prev_key = NULL
      BY <1>2, <2>1 DEF Recorded, PrevOK
    <3> QED BY <1>3, <3>1, NullKeyAssumption DEF PacketsToAdd
  <2>2. CASE counted # <<>>
    <3>1. prev_key = counted[Len(counted)] /\ counted \in Seq(Keys)
      BY <1>2, <2>2 DEF PrevOK
    <3>2. Len(counted) \in DOMAIN counted
      BY <2>2, <3>1
    <3>3. prev_key \in Recorded
      BY <3>1, <3>2 DEF Recorded
    <3> QED BY <3>1, <3>3 DEF PacketsToAdd, ComesBack
  <2> QED BY <2>1, <2>2
<1>6. ASSUME Agree PROVE Agree'
  <2>1. PICK x \in Exported : collect_flow(k, x[1], x[2])
    BY <1>1
  <2>2. /\ get_record(k, active_expired_no_header, x[1], x[2], FALSE)
        /\ x[1] \in Times \cup {0} /\ x[2] \in Times \cup {0}
    BY <2>1, ConfigAssumption DEF collect_flow
  <2>3. PICK e, m, due, again :
          /\ e = active_expired_no_header /\ m = PacketsToAdd(k, n)
          /\ due = IF k \in Recorded THEN 0 ELSE n
          /\ again = IF u # NULL /\ ComesBack(k) THEN {k} ELSE {}
    OBVIOUS
  <2>4. m \in Nat /\ due \in Nat /\ (m = due \/ u = NULL \/ k \in again)
    BY <1>2, <1>5, <2>3 DEF PacketsToAdd
  <2>5. /\ get_record(k, e, x[1], x[2], FALSE) /\ Count(Preempted(k, e), u, m, k, due, again)
        /\ u = Used(k)
    BY <1>0, <1>1, <2>2, <2>3
  <2> QED BY <1>2, <1>3, <1>6, <2>2, <2>4, <2>5, LookupKeepsAgree
<1> QED BY <1>1, <1>2, <1>4, <1>6 DEF CountInv

LEMMA FinishCounts ==
  ASSUME DispatchInv, DispatchInv', CountInv, finish_packet
  PROVE  CountInv'
<1>1. /\ carrier # NULL /\ UNCHANGED <<table, key>>
      /\ Count({}, carrier, 1, datagram.key, 1, {})
      /\ prev_key' = NULL /\ counted' = <<>> /\ self' = self
  BY DEF finish_packet
<1>2. PrevOK'
  <2>1. <<>> \in Seq(Keys)
    OBVIOUS
  <2> QED BY <1>1, <2>1 DEF PrevOK
<1>3. ASSUME ~self, Agree PROVE Agree'
  <2>1. PICK k, u, gone : k = datagram.key /\ u = Used(k) /\ gone = {}
    OBVIOUS
  <2>2. /\ table \subseteq Rid /\ NULL \notin Rid /\ \A s \in table : key[s] \in Keys
        /\ Unique(table, key) /\ Unique(table', key')
        /\ carrier \in table /\ key[carrier] = k
    BY <1>1, <1>3, <2>1, NullAssumption
    DEF DispatchInv, IInv, TypeOK, ListsOK, ListsTyped, CarrierKept
  <2>3. u = carrier
    <3>1. u \in table /\ key[u] = k
      BY <1>1, <2>1, <2>2 DEF Used
    <3> QED BY <2>2, <3>1 DEF Unique
  <2>4. /\ gone \in SUBSET table /\ table' = (table \ gone) \cup ({u} \ {NULL})
        /\ \A s \in table \ gone : key'[s] = key[s]
        /\ u # NULL => k \in Keys /\ u \in Rid
        /\ Count(gone, u, 1, k, 1, {})
    BY <1>1, <2>1, <2>2, <2>3
  <2>5. 1 \in Nat
    OBVIOUS
  <2> QED BY <1>3, <2>1, <2>2, <2>4, <2>5, CountKeepsAgree
<1> QED BY <1>1, <1>2, <1>3 DEF CountInv

LEMMA ReportCounts ==
  ASSUME DispatchInv, DispatchInv', CountInv, report_flows
  PROVE  CountInv'
<1>1. prev_key' = prev_key /\ counted' = counted /\ self' = self
  BY DEF report_flows, collector
<1>2. PrevOK'
  BY <1>1 DEF CountInv, PrevOK
<1>3. ASSUME StartWalk("JOY_EXPIRED_FLOWS"), UNCHANGED counts, Agree PROVE Agree'
  BY <1>3 DEF StartWalk, records, counts, Agree
<1>4. ASSUME WalkStep, Count(table \ table', NULL, 0, NULL, 0, {}), Agree PROVE Agree'
  <2>1. PICK gone, u : gone = table \ table' /\ u = Used(NULL)
    OBVIOUS
  <2>2. /\ table \subseteq Rid /\ NULL \notin Rid /\ \A s \in table : key[s] \in Keys
        /\ Unique(table, key) /\ Unique(table', key') /\ \A s \in table' : key'[s] # NULL
    BY NullAssumption, NullKeyAssumption DEF DispatchInv, IInv, TypeOK, ListsOK, ListsTyped
  <2>3. u = NULL
    BY <2>1, <2>2 DEF Used
  <2>4. UNCHANGED records \/ DeleteWithTwin(cur)
    BY <1>4 DEF WalkStep
  <2>5. table' \subseteq table /\ \A s \in table \ gone : key'[s] = key[s]
    BY <2>1, <2>2, <2>4 DEF records, DeleteWithTwin, Delete, Zeroize
  <2>6. /\ gone \in SUBSET table /\ table' = (table \ gone) \cup ({u} \ {NULL})
        /\ Count(gone, NULL, 0, NULL, 0, {})
    BY <1>4, <2>1, <2>3, <2>5
  <2>7. 0 \in Nat
    OBVIOUS
  <2> QED BY <1>4, <2>1, <2>2, <2>3, <2>5, <2>6, <2>7, CountKeepsAgree
<1> QED BY <1>1, <1>2, <1>3, <1>4 DEF CountInv, report_flows

LEMMA CountInit == DispatchInit => CountInv
<1> SUFFICES ASSUME DispatchInit PROVE CountInv
  OBVIOUS
<1>1. 0 \in Small
  BY DispatchAssumption DEF Small
<1>2. Agree
  BY <1>1 DEF DispatchInit, Init, Agree
<1>3. <<>> \in Seq(Keys)
  OBVIOUS
<1>4. PrevOK
  BY <1>3 DEF DispatchInit, PrevOK
<1> QED BY <1>2, <1>4 DEF CountInv

LEMMA CountStep ==
  ASSUME DispatchInv, DispatchInv', CountInv, [DispatchNext]_dispatchVars
  PROVE  CountInv'
<1>1. CASE UNCHANGED dispatchVars
  <2>1. /\ prev_key' = prev_key /\ counted' = counted /\ self' = self
        /\ UNCHANGED <<table, key, np, expected, apart>>
    BY <1>1 DEF dispatchVars, collector, vars, records, counts
  <2> QED BY <2>1 DEF CountInv, PrevOK, Agree
<1> QED
  BY <1>1, PacketCounts, DatagramCounts, ReadCounts, CollectCounts, FinishCounts, ReportCounts
  DEF DispatchNext, ReadDatagram

-----------------------------------------------------------------------------

\* The record process_packet holds a pointer to while it collects the flows of
\* a datagram is not deleted under it, unless the datagram reports its own flow
\* or a reverse of it, whatever the flows, their order and the timeouts.
THEOREM CarrierSurvives == DispatchSpec => []CarrierKept
<1>1. DispatchInv => CarrierKept
  BY DEF DispatchInv
<1> QED BY <1>1, DispatchInductive, PTL

\* Packets, fragments, malformed segments, the carriers of datagrams and the flows
\* these report are each counted once, in the record of their own flow, whatever
\* the order of the records; only a flow that a message comes back to after another
\* is counted again, prev_key is all process_nfv9 and process_ipfix remember.
THEOREM EveryPacketCounted == DispatchSpec => []PacketsCounted
<1>1. DispatchInit => CountInv
  BY CountInit
<1>2. DispatchInv /\ DispatchInv' /\ CountInv /\ [DispatchNext]_dispatchVars => CountInv'
  BY CountStep
<1>3. CountInv => PacketsCounted
  BY DEF CountInv, Agree, PacketsCounted
<1> QED BY <1>1, <1>2, <1>3, DispatchInductive, PTL DEF DispatchSpec

\* nfv9_template_key_cmp keeps the templates of exporters that use the same ids
\* apart, before and after the array has wrapped round.
THEOREM DecodedRight == DispatchSpec => []DecodedAsAnnounced
<1>1. DispatchInv => DecodedAsAnnounced
  BY DEF DispatchInv
<1> QED BY <1>1, DispatchInductive, PTL

\* No template is forgotten while the array of MAX_TEMPLATES has room for all
\* that were ever announced, and each is found under its exporter's address.
THEOREM NoTemplateForgotten == DispatchSpec => []TemplatesKept
<1>1. ArrayOK \/ self => TemplatesKept
  <2> SUFFICES ASSUME ArrayOK \/ self, ~self, Cardinality(announced) < MAX_TEMPLATES, NEW a \in announced
               PROVE  \E i \in Indices : v9_templates[i].src = a[1]
                                        /\ v9_templates[i].template_id = a[2]
    BY DEF TemplatesKept, Indices
  <2> QED BY DEF ArrayOK, TemplateKey
<1>2. DispatchInv => TemplatesKept
  BY <1>1 DEF DispatchInv
<1> QED BY <1>2, DispatchInductive, PTL
=============================================================================
