-------------------------- MODULE FlowReportProofs ---------------------------
(***************************************************************************)
(* The report of a flow, for arrays of any length and any limits.          *)
(*                                                                         *)
(* Neither property is inductive: that no packet is out of order needs     *)
(* that what was printed is not later than anything that is still to be    *)
(* printed, on either side.  Collected says what the packets leave in the  *)
(* two records, Merged what the loop has done with them so far, Placed     *)
(* where the inter-packet times lead.                                      *)
(***************************************************************************)
EXTENDS FlowReport, SumsProofs, FiniteSetTheorems

Entries == [dir : {"<", ">"}, side : Sides, time : Times, ipt : Nat]

Cursor(s) == IF s = rec THEN i ELSE j

Collected ==
  /\ start \in [Sides -> Times \cup {0}] /\ end \in [Sides -> Times \cup {0}]
  /\ pkt_time \in [Sides -> Seq(Times)]
  /\ \A s \in Sides :
       /\ start[s] = 0 => end[s] = 0 /\ pkt_time[s] = <<>>
       /\ start[s] <= end[s]
       /\ \A a \in DOMAIN pkt_time[s] : start[s] <= pkt_time[s][a] /\ pkt_time[s][a] <= end[s]
       /\ \A a, b \in DOMAIN pkt_time[s] : a <= b => pkt_time[s][a] <= pkt_time[s][b]

\* What is still to be printed is not earlier than t.
NotBefore(t) == \A s \in Sides : \A a \in Cursor(s) + 1 .. AtMost(s) : t <= pkt_time[s][a]

Merged ==
  /\ out \in Seq(Entries)
  /\ rec \in Sides /\ i \in Nat /\ j \in Nat /\ pc \in {"collect", "print", "done"}
  /\ ~HasTwin => rec = "record"
  /\ pc = "collect" => out = <<>> /\ i = 0 /\ j = 0 /\ rec = "record"
  /\ pc = "done" => Exhausted
  /\ \A s \in Sides : Cursor(s) <= AtMost(s) /\ PrintedOf(s, Len(out)) = Cursor(s)
  /\ \A k \in DOMAIN out :
       /\ out[k].time = pkt_time[out[k].side][PrintedOf(out[k].side, k)]
       /\ NotBefore(out[k].time)
  /\ \A k \in 1..(Len(out) - 1) : out[k].time <= out[k + 1].time
  /\ HasTwin => \A k \in DOMAIN out : out[k].dir = ">" <=> out[k].side = rec

-----------------------------------------------------------------------------

(***************************************************************************)
(* Counting the entries of a side.                                         *)
(***************************************************************************)
CountOf(f, s, k) == Cardinality({m \in 1..k : f[m].side = s})

CountAppended(f, e, s, g) ==
  /\ \A k \in 0..Len(f) : CountOf(g, s, k) = CountOf(f, s, k)
  /\ CountOf(g, s, Len(f) + 1) = CountOf(f, s, Len(f)) + IF e.side = s THEN 1 ELSE 0

LEMMA CountAppend ==
  ASSUME NEW S, NEW f \in Seq(S), NEW e, NEW s, NEW g, g = Append(f, e)
  PROVE  CountAppended(f, e, s, g)
<1>1. PICK n : n = Len(f)
  OBVIOUS
<1>2. n \in Nat /\ g[n + 1] = e /\ \A k \in 1..n : g[k] = f[k]
  BY <1>1
<1>3. \A k \in 0..n : {m \in 1..k : g[m].side = s} = {m \in 1..k : f[m].side = s}
  <2> SUFFICES ASSUME NEW k \in 0..n
               PROVE  {m \in 1..k : g[m].side = s} = {m \in 1..k : f[m].side = s}
    OBVIOUS
  <2>1. \A m \in 1..k : m \in 1..n
    BY <1>2
  <2>2. \A m \in 1..k : g[m] = f[m]
    BY <1>2, <2>1
  <2> QED BY <2>2
<1>4. PICK C : C = {m \in 1..n : f[m].side = s}
  OBVIOUS
<1>5. {m \in 1..(n + 1) : g[m].side = s} = IF e.side = s THEN C \cup {n + 1} ELSE C
  <2>1. 1..(n + 1) = (1..n) \cup {n + 1}
    BY <1>2
  <2> QED BY <1>2, <1>4, <2>1
<1>6. IsFiniteSet(C) /\ n + 1 \notin C
  <2>1. IsFiniteSet(1..n)
    <3>1. 1 \in Int /\ n \in Int
      BY <1>2
    <3> QED BY <3>1, FS_Interval
  <2>2. C \subseteq 1..n
    BY <1>4
  <2>3. n + 1 \notin 1..n
    BY <1>2
  <2> QED BY <2>1, <2>2, <2>3, FS_Subset
<1>7. Cardinality(C \cup {n + 1}) = Cardinality(C) + 1 /\ Cardinality(C) \in Nat
  BY <1>6, FS_AddElement, FS_CardinalityType
<1>8. \A k \in 0..n : CountOf(g, s, k) = CountOf(f, s, k)
  BY <1>3 DEF CountOf
<1>9. CountOf(g, s, n + 1) = CountOf(f, s, n) + IF e.side = s THEN 1 ELSE 0
  <2>1. CountOf(f, s, n) = Cardinality(C)
    BY <1>4 DEF CountOf
  <2>2. CountOf(g, s, n + 1) = Cardinality(IF e.side = s THEN C \cup {n + 1} ELSE C)
    BY <1>5 DEF CountOf
  <2>3. CASE e.side = s
    BY <1>7, <2>1, <2>2, <2>3
  <2>4. CASE e.side # s
    BY <1>7, <2>1, <2>2, <2>4
  <2> QED BY <2>3, <2>4
<1> QED BY <1>1, <1>8, <1>9 DEF CountAppended

LEMMA CountNone ==
  ASSUME NEW f, NEW s
  PROVE  CountOf(f, s, 0) = 0
<1>1. {m \in 1..0 : f[m].side = s} = {}
  OBVIOUS
<1> QED BY <1>1, FS_EmptySet DEF CountOf

-----------------------------------------------------------------------------

(***************************************************************************)
(* Collecting packets.                                                     *)
(***************************************************************************)
LEMMA CollectInit == ReportInit => Collected /\ Merged
<1> SUFFICES ASSUME ReportInit PROVE Collected /\ Merged
  OBVIOUS
<1>1. /\ start = [s \in Sides |-> 0] /\ end = [s \in Sides |-> 0]
      /\ pkt_time = [s \in Sides |-> <<>>] /\ out = <<>> /\ i = 0 /\ j = 0
      /\ pc = "collect" /\ rec = "record"
  BY DEF ReportInit
<1>2. Collected
  BY <1>1 DEF Collected
<1>3. \A s \in Sides : Cursor(s) = 0 /\ AtMost(s) = 0 /\ PrintedOf(s, 0) = 0
  BY <1>1, CountNone, ReportAssumption DEF Cursor, AtMost, PrintedOf, CountOf
<1>4. Merged
  BY <1>1, <1>3 DEF Merged, Sides
<1> QED BY <1>2, <1>4

LEMMA TimesTyped ==
  ASSUME Collected, NEW s \in Sides
  PROVE  /\ start[s] \in Nat /\ end[s] \in Nat
         /\ pkt_time[s] \in Seq(Times) /\ \A a \in DOMAIN pkt_time[s] : pkt_time[s][a] \in Nat
<1>1. start[s] \in Times \cup {0} /\ end[s] \in Times \cup {0} /\ pkt_time[s] \in Seq(Times)
  BY DEF Collected
<1>2. \A a \in DOMAIN pkt_time[s] : pkt_time[s][a] \in Times
  BY <1>1
<1>3. Times \subseteq Nat
  BY TimesAssumption
<1>4. start[s] \in Nat /\ end[s] \in Nat
  <2>1. \A x \in Times \cup {0} : x \in Nat
    BY <1>3
  <2> QED BY <1>1, <2>1
<1>5. \A a \in DOMAIN pkt_time[s] : pkt_time[s][a] \in Nat
  BY <1>2, <1>3
<1> QED BY <1>1, <1>4, <1>5

LEMMA AtMostType ==
  ASSUME Collected, NEW s \in Sides
  PROVE  AtMost(s) \in Nat /\ AtMost(s) <= Len(pkt_time[s])
BY ReportAssumption DEF Collected, AtMost

LEMMA PacketCollected ==
  ASSUME Collected, Merged, NEW s \in Sides, NEW t \in Times, NEW data \in BOOLEAN,
         NEW fl, NEW d, RecordPacket(s, t, data, fl, d)
  PROVE  Collected' /\ Merged'
<1>1. /\ pc = "collect" /\ t >= Latest
      /\ start' = [start EXCEPT ![s] = IF @ = 0 THEN t ELSE @]
      /\ end' = [end EXCEPT ![s] = t]
      /\ pkt_time' = [pkt_time EXCEPT ![s] =
                        IF data /\ Len(@) < ReportPktLen THEN Append(@, t) ELSE @]
      /\ pc' = pc /\ rec' = rec /\ i' = i /\ j' = j /\ out' = out
  BY DEF RecordPacket, printer
<1>2. /\ start \in [Sides -> Times \cup {0}] /\ end \in [Sides -> Times \cup {0}]
      /\ pkt_time \in [Sides -> Seq(Times)] /\ t \in Nat \ {0} /\ Times \subseteq Nat
  BY TimesAssumption DEF Collected
<1>3. end[s] \in Nat /\ end[s] <= t
  <2>1. /\ "record" \in Sides /\ "twin" \in Sides /\ s \in {"record", "twin"}
    BY DEF Sides
  <2>2. PICK x \in Nat, y \in Nat : x = end["record"] /\ y = end["twin"]
    BY <2>1, TimesTyped
  <2>3. t >= IF x < y THEN y ELSE x
    BY <1>1, <2>2 DEF Latest
  <2>4. x <= t /\ y <= t
    BY <1>2, <2>3
  <2> QED BY <2>1, <2>2, <2>4
<1>4. PICK p, q, x :
        /\ p = pkt_time[s] /\ q = (IF data /\ Len(p) < ReportPktLen THEN Append(p, t) ELSE p)
        /\ x = IF start[s] = 0 THEN t ELSE start[s]
  OBVIOUS
<1>5. /\ p \in Seq(Times) /\ Len(p) \in Nat /\ DOMAIN p = 1..Len(p)
      /\ \A a \in DOMAIN p : p[a] \in Nat
      /\ start[s] = 0 => p = <<>>
      /\ start[s] <= end[s] /\ start[s] \in Nat
      /\ \A a \in DOMAIN p : start[s] <= p[a] /\ p[a] <= end[s]
      /\ \A a, b \in DOMAIN p : a <= b => p[a] <= p[b]
  <2>1. p \in Seq(Times)
    BY <1>2, <1>4
  <2>2. start[s] \in Nat
    BY TimesTyped
  <2>3. \A a \in DOMAIN p : p[a] \in Times
    BY <2>1
  <2>4. Len(p) \in Nat /\ DOMAIN p = 1..Len(p)
    BY <2>1
  <2> QED BY <1>2, <1>4, <2>1, <2>2, <2>3, <2>4 DEF Collected
<1>6. /\ q \in Seq(Times)
      /\ \A a \in DOMAIN q : (a \in DOMAIN p /\ q[a] = p[a]) \/ (a = Len(p) + 1 /\ q[a] = t)
  BY <1>4, <1>5
<1>7. x \in Times /\ x # 0 /\ x <= t /\ (start[s] # 0 => x = start[s])
  BY <1>2, <1>3, <1>4, <1>5
<1>8. \A a \in DOMAIN q : x <= q[a] /\ q[a] <= t
  <2> SUFFICES ASSUME NEW a \in DOMAIN q PROVE x <= q[a] /\ q[a] <= t
    OBVIOUS
  <2>1. CASE a \in DOMAIN p /\ q[a] = p[a]
    <3>1. start[s] # 0
      BY <1>5, <2>1
    <3>2. p[a] \in Nat /\ x <= p[a] /\ p[a] <= end[s]
      BY <1>5, <1>7, <2>1, <3>1
    <3> QED BY <1>2, <1>3, <2>1, <3>2
  <2>2. CASE q[a] = t
    BY <1>2, <1>7, <2>2
  <2> QED BY <1>6, <2>1, <2>2
<1>9. ASSUME NEW a \in DOMAIN q, NEW b \in DOMAIN q, a <= b PROVE q[a] <= q[b]
  <2>1. CASE q[b] = t
    BY <1>8, <2>1
  <2>2. CASE b \in DOMAIN p /\ q[b] = p[b]
    <3>1. a \in DOMAIN p /\ q[a] = p[a]
      BY <1>5, <1>6, <1>9, <2>2
    <3> QED BY <1>5, <1>9, <2>2, <3>1
  <2> QED BY <1>6, <2>1, <2>2
<1>10. /\ start' = [start EXCEPT ![s] = x] /\ end' = [end EXCEPT ![s] = t]
       /\ pkt_time' = [pkt_time EXCEPT ![s] = q]
  BY <1>1, <1>2, <1>4
<1>11. Collected'
  <2>1. /\ start' \in [Sides -> Times \cup {0}] /\ end' \in [Sides -> Times \cup {0}]
        /\ pkt_time' \in [Sides -> Seq(Times)]
    BY <1>2, <1>6, <1>7, <1>10
  <2>2. /\ start'[s] = x /\ end'[s] = t /\ pkt_time'[s] = q
        /\ \A y \in Sides : y # s =>
             start'[y] = start[y] /\ end'[y] = end[y] /\ pkt_time'[y] = pkt_time[y]
    BY <1>2, <1>10
  <2>3. ASSUME NEW y \in Sides
        PROVE  /\ start'[y] = 0 => end'[y] = 0 /\ pkt_time'[y] = <<>>
               /\ start'[y] <= end'[y]
               /\ \A a \in DOMAIN pkt_time'[y] :
                    start'[y] <= pkt_time'[y][a] /\ pkt_time'[y][a] <= end'[y]
               /\ \A a, b \in DOMAIN pkt_time'[y] : a <= b => pkt_time'[y][a] <= pkt_time'[y][b]
    <3>1. CASE y = s
      BY <1>7, <1>8, <1>9, <2>2, <3>1
    <3>2. CASE y # s
      BY <2>2, <3>2 DEF Collected
    <3> QED BY <3>1, <3>2
  <2> QED BY <2>1, <2>3 DEF Collected
<1>12. Merged'
  <2>1. out' = <<>> /\ i' = 0 /\ j' = 0 /\ pc' = "collect" /\ rec' = "record"
    BY <1>1 DEF Merged
  <2>2. \A y \in Sides : Cursor(y)' = 0 /\ AtMost(y)' \in Nat /\ PrintedOf(y, Len(out))' = 0
    <3>1. \A y \in Sides : AtMost(y)' \in Nat
      BY <1>11, ReportAssumption DEF Collected, AtMost
    <3> QED BY <2>1, <3>1, CountNone DEF Cursor, PrintedOf, CountOf
  <2> QED BY <2>1, <2>2 DEF Merged, Sides
<1> QED BY <1>11, <1>12

-----------------------------------------------------------------------------

(***************************************************************************)
(* Printing.                                                               *)
(***************************************************************************)
\* The next packet of a side, if none of the other side comes before it.
LEMMA PacketPrinted ==
  ASSUME Collected, Merged, UNCHANGED packets, rec' = rec, pc = "print", pc' = "print",
         NEW s \in Sides, Cursor(s) < AtMost(s),
         i' \in Nat, j' \in Nat,
         \A o \in Sides : Cursor(o)' = IF o = s THEN Cursor(o) + 1 ELSE Cursor(o),
         NEW e \in Entries, out' = Append(out, e), e.side = s,
         e.time = pkt_time[s][Cursor(s) + 1],
         \A o \in Sides : Cursor(o) < AtMost(o) => e.time <= pkt_time[o][Cursor(o) + 1],
         HasTwin => (e.dir = ">" <=> s = rec)
  PROVE  Merged' /\ NotBefore(e.time)'
<1>1. PICK f, n : f = out /\ n = Len(f)
  OBVIOUS
<1>2. /\ f \in Seq(Entries) /\ n \in Nat /\ DOMAIN f = 1..n
      /\ out' \in Seq(Entries) /\ Len(out') = n + 1 /\ DOMAIN out' = 1..(n + 1)
      /\ out'[n + 1] = e /\ \A k \in 1..n : out'[k] = f[k]
  BY <1>1 DEF Merged
<1>3. /\ \A o \in Sides : AtMost(o)' = AtMost(o) /\ AtMost(o) \in Nat /\ AtMost(o) <= Len(pkt_time[o])
      /\ pkt_time' = pkt_time /\ (HasTwin' <=> HasTwin)
  BY AtMostType DEF packets, AtMost, HasTwin
<1>4. \A o \in Sides : Cursor(o) \in Nat /\ Cursor(o) <= AtMost(o) /\ CountOf(f, o, n) = Cursor(o)
  <2>1. i \in Nat /\ j \in Nat
    BY DEF Merged
  <2>2. \A o \in Sides : Cursor(o) \in Nat
    BY <2>1 DEF Cursor
  <2>3. \A o \in Sides : Cursor(o) <= AtMost(o) /\ PrintedOf(o, n) = Cursor(o)
    BY <1>1 DEF Merged
  <2>4. \A o \in Sides : PrintedOf(o, n) = CountOf(f, o, n)
    BY <1>1 DEF PrintedOf, CountOf
  <2> QED BY <2>2, <2>3, <2>4
<1>5. \A o \in Sides : /\ \A k \in 0..n : CountOf(out', o, k) = CountOf(f, o, k)
                       /\ CountOf(out', o, n + 1) = CountOf(f, o, n) + IF o = s THEN 1 ELSE 0
  <2> SUFFICES ASSUME NEW o \in Sides
               PROVE  /\ \A k \in 0..n : CountOf(out', o, k) = CountOf(f, o, k)
                      /\ CountOf(out', o, n + 1) = CountOf(f, o, n) + IF o = s THEN 1 ELSE 0
    OBVIOUS
  <2>1. PICK g : g = out'
    OBVIOUS
  <2>2. g = Append(f, e) /\ f \in Seq(Entries) /\ n = Len(f)
    BY <1>1, <1>2, <2>1
  <2>3. CountAppended(f, e, o, g)
    BY <2>2, CountAppend
  <2> QED BY <2>1, <2>2, <2>3 DEF CountAppended
<1>6. \A o \in Sides : Cursor(o)' <= AtMost(o)' /\ PrintedOf(o, Len(out))' = Cursor(o)'
  <2> SUFFICES ASSUME NEW o \in Sides
               PROVE  Cursor(o)' <= AtMost(o) /\ CountOf(out', o, n + 1) = Cursor(o)'
    BY <1>2, <1>3 DEF PrintedOf, CountOf
  <2>1. PICK c \in Nat : c = Cursor(o)
    BY <1>4
  <2>2. Cursor(o)' = IF o = s THEN c + 1 ELSE c
    BY <2>1
  <2> QED BY <1>3, <1>4, <1>5, <2>1, <2>2
<1>7. ASSUME NEW t \in Nat, NotBefore(t) PROVE NotBefore(t)'
  <2> SUFFICES ASSUME NEW o \in Sides, NEW a \in Cursor(o)' + 1 .. AtMost(o)
               PROVE  t <= pkt_time[o][a]
    BY <1>3 DEF NotBefore
  <2>1. PICK c \in Nat : c = Cursor(o)
    BY <1>4
  <2>2. Cursor(o)' = IF o = s THEN c + 1 ELSE c
    BY <2>1
  <2>3. a \in c + 1 .. AtMost(o)
    BY <1>3, <2>1, <2>2
  <2> QED BY <1>7, <2>1, <2>3 DEF NotBefore
<1>8. NotBefore(e.time)'
  <2> SUFFICES ASSUME NEW o \in Sides, NEW a \in Cursor(o)' + 1 .. AtMost(o)
               PROVE  e.time <= pkt_time[o][a]
    BY <1>3 DEF NotBefore
  <2>1. PICK c \in Nat : c = Cursor(o)
    BY <1>4
  <2>2. Cursor(o)' = IF o = s THEN c + 1 ELSE c
    BY <2>1
  <2>3. c + 1 <= a /\ a \in Nat /\ c < AtMost(o) /\ a <= AtMost(o)
    BY <1>3, <2>1, <2>2
  <2>4. PICK p : p = pkt_time[o]
    OBVIOUS
  <2>5. p \in Seq(Times) /\ \A x \in DOMAIN p : p[x] \in Nat
    BY <2>4, TimesTyped
  <2>6. c + 1 \in DOMAIN p /\ a \in DOMAIN p
    BY <1>3, <2>3, <2>4, <2>5
  <2>7. p[c + 1] <= p[a] /\ e.time <= p[c + 1]
    BY <2>1, <2>3, <2>4, <2>6 DEF Collected
  <2>8. e.time \in Nat
    BY TimesAssumption DEF Entries
  <2> QED BY <2>4, <2>5, <2>6, <2>7, <2>8
<1>9. /\ \A k \in 1..n : /\ f[k].time = pkt_time[f[k].side][CountOf(f, f[k].side, k)]
                         /\ NotBefore(f[k].time) /\ f[k].time \in Nat /\ f[k].side \in Sides
      /\ \A k \in 1..(n - 1) : f[k].time <= f[k + 1].time
      /\ HasTwin => \A k \in 1..n : f[k].dir = ">" <=> f[k].side = rec
  <2>1. \A k \in 1..n : f[k] \in Entries
    BY <1>2
  <2>2. \A k \in 1..n : f[k].time \in Nat /\ f[k].side \in Sides
    BY <2>1, TimesAssumption DEF Entries
  <2>3. \A k \in 1..n : /\ f[k].time = pkt_time[f[k].side][PrintedOf(f[k].side, k)]
                         /\ NotBefore(f[k].time)
    BY <1>1, <1>2 DEF Merged
  <2>4. \A o, k : PrintedOf(o, k) = CountOf(f, o, k)
    BY <1>1 DEF PrintedOf, CountOf
  <2>5. \A k \in 1..n : f[k].time = pkt_time[f[k].side][CountOf(f, f[k].side, k)]
    BY <2>3, <2>4
  <2>6. \A k \in 1..(n - 1) : f[k].time <= f[k + 1].time
    BY <1>1 DEF Merged
  <2>7. HasTwin => \A k \in 1..n : f[k].dir = ">" <=> f[k].side = rec
    BY <1>1, <1>2 DEF Merged
  <2> QED BY <2>2, <2>3, <2>5, <2>6, <2>7
<1>10. ASSUME NEW k \in 1..(n + 1)
       PROVE  /\ out'[k].time = pkt_time'[out'[k].side][PrintedOf(out[k].side, k)']
              /\ NotBefore(out[k].time)'
              /\ HasTwin => (out'[k].dir = ">" <=> out'[k].side = rec)
  <2>1. CASE k = n + 1
    <3>1. CountOf(out', s, n + 1) = Cursor(s) + 1
      BY <1>4, <1>5
    <3> QED BY <1>2, <1>3, <1>8, <2>1, <3>1 DEF PrintedOf, CountOf, NotBefore
  <2>2. CASE k # n + 1
    <3>1. k \in 1..n /\ k \in 0..n
      BY <1>2, <2>2
    <3>2. PICK o \in Sides, t \in Nat : o = f[k].side /\ t = f[k].time
      BY <1>9, <3>1
    <3>3. out'[k].side = o /\ out'[k].time = t /\ out'[k].dir = f[k].dir
      BY <1>2, <3>1, <3>2
    <3>4. CountOf(out', o, k) = CountOf(f, o, k)
      BY <1>5, <3>1
    <3>5. NotBefore(t)'
      BY <1>7, <1>9, <3>1, <3>2
    <3>6. t = pkt_time[o][CountOf(f, o, k)]
      BY <1>9, <3>1, <3>2
    <3>7. PrintedOf(o, k)' = CountOf(out', o, k)
      BY DEF PrintedOf, CountOf
    <3>8. out'[k].time = pkt_time'[o][PrintedOf(o, k)']
      BY <1>3, <3>3, <3>4, <3>6, <3>7
    <3>9. HasTwin => (out'[k].dir = ">" <=> out'[k].side = rec)
      BY <1>9, <3>1, <3>2, <3>3
    <3>10. NotBefore(out[k].time)'
      BY <3>3, <3>5 DEF NotBefore
    <3>11. PrintedOf(out[k].side, k)' = PrintedOf(o, k)'
      BY <3>3 DEF PrintedOf
    <3> QED BY <3>3, <3>8, <3>9, <3>10, <3>11
  <2> QED BY <2>1, <2>2
<1>11. ASSUME NEW k \in 1..n PROVE out'[k].time <= out'[k + 1].time
  <2>1. CASE k = n
    <3>1. NotBefore(f[n].time) /\ out'[n].time = f[n].time /\ out'[n + 1].time = e.time
      BY <1>2, <1>9, <2>1
    <3>2. Cursor(s) + 1 \in Cursor(s) + 1 .. AtMost(s)
      BY <1>3, <1>4
    <3> QED BY <2>1, <3>1, <3>2 DEF NotBefore
  <2>2. CASE k # n
    <3>1. k \in 1..(n - 1) /\ k + 1 \in 1..n
      BY <1>2, <2>2
    <3> QED BY <1>2, <1>9, <3>1
  <2> QED BY <2>1, <2>2
<1>12. rec \in Sides /\ (~HasTwin => rec = "record")
  BY DEF Merged
<1>13. Merged'
  <2>1. DOMAIN out' = 1..(n + 1) /\ Len(out') = n + 1 /\ (n + 1) - 1 = n
    BY <1>2
  <2>2. /\ \A k \in DOMAIN out' :
             /\ out'[k].time = pkt_time'[out'[k].side][PrintedOf(out[k].side, k)']
             /\ NotBefore(out[k].time)'
        /\ HasTwin => \A k \in DOMAIN out' : out'[k].dir = ">" <=> out'[k].side = rec
    BY <1>10, <2>1
  <2>3. \A k \in 1..(Len(out') - 1) : out'[k].time <= out'[k + 1].time
    BY <1>11, <2>1
  <2> QED BY <1>2, <1>3, <1>6, <1>12, <2>2, <2>3 DEF Merged
<1> QED BY <1>8, <1>13

LEMMA EntryTyped ==
  ASSUME Collected, NEW s \in Sides, NEW n \in Nat, n < AtMost(s),
         NEW label \in {"<", ">"}, NEW last \in Nat, NEW e, e = Entry(s, n, label, last)
  PROVE  /\ e \in Entries /\ e.side = s /\ e.dir = label
         /\ e.time = pkt_time[s][n + 1] /\ e.time \in Times /\ e.time \in Nat
         /\ e.ipt = (e.time - last) % IptMod
<1>1. PICK t : t = pkt_time[s][n + 1]
  OBVIOUS
<1>2. t \in Times
  <2>1. pkt_time[s] \in Seq(Times)
    BY TimesTyped
  <2>2. AtMost(s) \in Nat /\ AtMost(s) <= Len(pkt_time[s])
    BY AtMostType
  <2>3. n + 1 \in 1..Len(pkt_time[s])
    BY <2>1, <2>2
  <2> QED BY <1>1, <2>1, <2>3
<1>3. t \in Nat
  BY <1>2, TimesAssumption
<1>4. (t - last) % IptMod \in Nat
  BY <1>3, ReportAssumption
<1>5. e = [dir |-> label, side |-> s, time |-> t, ipt |-> (t - last) % IptMod]
  BY <1>1 DEF Entry
<1> QED BY <1>1, <1>2, <1>3, <1>4, <1>5 DEF Entries

LEMMA OtherSide ==
  ASSUME NEW s \in Sides
  PROVE  Other(s) \in Sides /\ Other(s) # s /\ \A o \in Sides : o = s \/ o = Other(s)
BY DEF Sides, Other

LEMMA ClientIsSide == ClientSide \in Sides /\ (~HasTwin => ClientSide = "record")
<1>1. \A f, v : FirstWith(f, v) \in Sides /\ Other(FirstWith(f, v)) \in Sides
  BY DEF FirstWith, Other, Sides
<1>2. tcp_client_flow \in Sides \cup {"none"}
  BY <1>1 DEF tcp_client_flow
<1>3. get_client_flow \in Sides \cup {"none"}
  BY <1>1, <1>2 DEF get_client_flow
<1> QED BY <1>3 DEF ClientSide, EarlierSide, Sides

LEMMA ReportStarts ==
  ASSUME Collected, Merged, NEW x, flow_record_print_json(x)
  PROVE  Merged'
<1>1. /\ out' = <<>> /\ i' = 0 /\ j' = 0 /\ pc' = "print" /\ rec' = ClientSide
      /\ pkt_time' = pkt_time /\ start' = start
  BY DEF flow_record_print_json, packets, Merged
<1>2. \A y \in Sides : Cursor(y)' = 0 /\ AtMost(y)' \in Nat /\ PrintedOf(y, Len(out))' = 0
  <2>1. \A y \in Sides : AtMost(y)' \in Nat
    BY <1>1, AtMostType DEF AtMost
  <2> QED BY <1>1, <2>1, CountNone DEF Cursor, PrintedOf, CountOf
<1>3. rec' \in Sides /\ (~HasTwin' => rec' = "record")
  BY <1>1, ClientIsSide DEF HasTwin
<1> QED BY <1>1, <1>2, <1>3 DEF Merged

LEMMA TwinPrinted ==
  ASSUME Collected, Merged, ts_last \in Nat, PrintTwinPacket
  PROVE  /\ Merged' /\ ts_last' \in Times /\ NotBefore(ts_last)'
         /\ \E e \in Entries : /\ out' = Append(out, e) /\ e.time = ts_last'
                             /\ e.ipt = (ts_last' - ts_last) % IptMod
         /\ \E s \in Sides : Cursor(s) < AtMost(s) /\ ts_last' = pkt_time[s][Cursor(s) + 1]
<1>1. PICK s : s = Other(rec)
  OBVIOUS
<1>2. rec \in Sides /\ s \in Sides /\ s # rec /\ (\A o \in Sides : o = s \/ o = rec)
  BY <1>1, OtherSide DEF Merged
<1>3. /\ pc = "print" /\ pc' = "print" /\ HasTwin /\ j < jmax /\ (i < imax => TwinFirst)
      /\ j' = j + 1 /\ i' = i /\ rec' = rec /\ UNCHANGED packets
      /\ ts_last' = pkt_time[s][j + 1] /\ i \in Nat /\ j \in Nat
  BY <1>1 DEF PrintTwinPacket, TakeFromTwin, Merged
<1>4. Cursor(s) = j /\ Cursor(rec) = i /\ jmax = AtMost(s) /\ imax = AtMost(rec)
  BY <1>1, <1>2, <1>3 DEF Cursor, jmax, imax
<1>5. PICK e : e = Entry(s, j, DirOf(s), ts_last)
  OBVIOUS
<1>6. out' = Append(out, e) /\ DirOf(s) = "<"
  BY <1>1, <1>2, <1>5 DEF PrintTwinPacket, DirOf
<1>7. /\ e \in Entries /\ e.side = s /\ e.dir = "<"
      /\ e.time = pkt_time[s][j + 1] /\ e.time \in Times /\ e.ipt = (e.time - ts_last) % IptMod
  BY <1>2, <1>3, <1>4, <1>5, <1>6, EntryTyped
<1>8. \A o \in Sides : Cursor(o)' = IF o = s THEN Cursor(o) + 1 ELSE Cursor(o)
  BY <1>2, <1>3 DEF Cursor
<1>9. \A o \in Sides : Cursor(o) < AtMost(o) => e.time <= pkt_time[o][Cursor(o) + 1]
  <2>1. e.time \in Nat
    BY <1>7, TimesAssumption
  <2>2. e.time <= pkt_time[s][Cursor(s) + 1]
    BY <1>4, <1>7, <2>1
  <2>3. ASSUME Cursor(rec) < AtMost(rec) PROVE e.time <= pkt_time[rec][Cursor(rec) + 1]
    <3>1. pkt_time[rec][i + 1] >= pkt_time[s][j + 1]
      BY <1>1, <1>3, <1>4, <2>3 DEF TwinFirst
    <3> QED BY <1>4, <1>7, <3>1
  <2> QED BY <1>2, <2>2, <2>3
<1>10. Merged' /\ NotBefore(e.time)'
  <2>1. Cursor(s) < AtMost(s) /\ i' \in Nat /\ j' \in Nat /\ e.time = pkt_time[s][Cursor(s) + 1]
    BY <1>3, <1>4, <1>7
  <2>2. HasTwin => (e.dir = ">" <=> s = rec)
    BY <1>2, <1>7
  <2> QED BY <1>2, <1>3, <1>6, <1>7, <1>8, <1>9, <2>1, <2>2, PacketPrinted
<1>11. e.time = ts_last'
  BY <1>3, <1>7
<1>12. NotBefore(ts_last)'
  BY <1>10, <1>11 DEF NotBefore
<1> QED BY <1>2, <1>3, <1>4, <1>6, <1>7, <1>10, <1>11, <1>12

LEMMA RecPrinted ==
  ASSUME Collected, Merged, ts_last \in Nat, PrintRecPacket
  PROVE  /\ Merged' /\ ts_last' \in Times /\ NotBefore(ts_last)'
         /\ \E e \in Entries : /\ out' = Append(out, e) /\ e.time = ts_last'
                             /\ e.ipt = (ts_last' - ts_last) % IptMod
         /\ \E s \in Sides : Cursor(s) < AtMost(s) /\ ts_last' = pkt_time[s][Cursor(s) + 1]
<1>1. PICK o : o = Other(rec)
  OBVIOUS
<1>2. rec \in Sides /\ o \in Sides /\ o # rec /\ (\A s \in Sides : s = o \/ s = rec)
  BY <1>1, OtherSide DEF Merged
<1>3. /\ pc = "print" /\ pc' = "print" /\ HasTwin /\ ~Exhausted /\ ~TakeFromTwin
      /\ i' = i + 1 /\ j' = j /\ rec' = rec /\ UNCHANGED packets
      /\ ts_last' = pkt_time[rec][i + 1] /\ i \in Nat /\ j \in Nat
  BY DEF PrintRecPacket, Merged
<1>4. Cursor(o) = j /\ Cursor(rec) = i /\ jmax = AtMost(o) /\ imax = AtMost(rec)
  BY <1>1, <1>2, <1>3 DEF Cursor, jmax, imax
<1>5. /\ AtMost(o) \in Nat /\ AtMost(rec) \in Nat
      /\ AtMost(o) <= Len(pkt_time[o]) /\ AtMost(rec) <= Len(pkt_time[rec])
  BY <1>2, AtMostType
<1>6. i < AtMost(rec) /\ (j < AtMost(o) => ~TwinFirst)
  BY <1>3, <1>4, <1>5 DEF Exhausted, TakeFromTwin
<1>7. PICK e : e = Entry(rec, i, DirOf(rec), ts_last)
  OBVIOUS
<1>8. out' = Append(out, e) /\ DirOf(rec) = ">"
  BY <1>7 DEF PrintRecPacket, DirOf
<1>9. /\ e \in Entries /\ e.side = rec /\ e.dir = ">"
      /\ e.time = pkt_time[rec][i + 1] /\ e.time \in Times /\ e.ipt = (e.time - ts_last) % IptMod
  BY <1>2, <1>3, <1>6, <1>7, <1>8, EntryTyped
<1>10. \A s \in Sides : Cursor(s)' = IF s = rec THEN Cursor(s) + 1 ELSE Cursor(s)
  BY <1>2, <1>3 DEF Cursor
<1>11. \A s \in Sides : Cursor(s) < AtMost(s) => e.time <= pkt_time[s][Cursor(s) + 1]
  <2>1. e.time \in Nat
    BY <1>9, TimesAssumption
  <2>2. e.time <= pkt_time[rec][Cursor(rec) + 1]
    BY <1>4, <1>9, <2>1
  <2>3. ASSUME Cursor(o) < AtMost(o) PROVE e.time <= pkt_time[o][Cursor(o) + 1]
    <3>1. ~(pkt_time[rec][i + 1] >= pkt_time[o][j + 1])
      BY <1>1, <1>4, <1>6, <2>3 DEF TwinFirst
    <3>2. pkt_time[o] \in Seq(Times)
      BY <1>2, TimesTyped
    <3>3. j + 1 \in DOMAIN pkt_time[o]
      BY <1>3, <1>4, <1>5, <2>3, <3>2
    <3>4. pkt_time[o][j + 1] \in Nat
      BY <1>2, <3>3, TimesTyped
    <3> QED BY <1>4, <1>9, <2>1, <3>1, <3>4
  <2> QED BY <1>2, <2>2, <2>3
<1>12. Merged' /\ NotBefore(e.time)'
  <2>1. Cursor(rec) < AtMost(rec) /\ i' \in Nat /\ j' \in Nat /\ e.time = pkt_time[rec][Cursor(rec) + 1]
    BY <1>3, <1>4, <1>6, <1>9
  <2>2. PICK r : r = rec
    OBVIOUS
  <2>3. HasTwin => (e.dir = ">" <=> r = rec)
    BY <1>9, <2>2
  <2>4. /\ r \in Sides /\ Cursor(r) < AtMost(r) /\ e.side = r
        /\ e.time = pkt_time[r][Cursor(r) + 1]
        /\ \A s \in Sides : Cursor(s)' = IF s = r THEN Cursor(s) + 1 ELSE Cursor(s)
    BY <1>2, <1>9, <1>10, <2>1, <2>2
  <2> QED BY <1>3, <1>8, <1>9, <1>11, <2>1, <2>3, <2>4, PacketPrinted
<1>13. e.time = ts_last'
  BY <1>3, <1>9
<1>14. NotBefore(ts_last)'
  BY <1>12, <1>13 DEF NotBefore
<1> QED BY <1>2, <1>3, <1>4, <1>6, <1>8, <1>9, <1>12, <1>13, <1>14

LEMMA UnidirectionalPrinted ==
  ASSUME Collected, Merged, PrintUnidirectional
  PROVE  Merged'
<1>1. /\ pc = "print" /\ pc' = "print" /\ ~HasTwin /\ i < imax
      /\ i' = i + 1 /\ j' = j /\ rec' = rec /\ UNCHANGED packets
      /\ i \in Nat /\ j \in Nat /\ rec = "record"
  BY DEF PrintUnidirectional, Merged
<1>2. Cursor("record") = i /\ Cursor("twin") = j /\ imax = AtMost("record")
  BY <1>1 DEF Cursor, imax
<1>3. "record" \in Sides /\ "twin" \in Sides /\ \A o \in Sides : o = "record" \/ o = "twin"
  BY DEF Sides
<1>4. AtMost("twin") = 0
  <2>1. pkt_time["twin"] = <<>>
    BY <1>1, <1>3 DEF Collected, HasTwin
  <2> QED BY <2>1, ReportAssumption DEF AtMost
<1>5. PICK last : last = IF i = 0 THEN pkt_time["record"][1] ELSE pkt_time["record"][i]
  OBVIOUS
<1>6. last \in Nat
  <2>1. pkt_time["record"] \in Seq(Times) /\ \A a \in DOMAIN pkt_time["record"] : pkt_time["record"][a] \in Nat
    BY <1>3, TimesTyped
  <2>2. AtMost("record") \in Nat /\ AtMost("record") <= Len(pkt_time["record"])
    BY <1>3, AtMostType
  <2>3. 1 \in DOMAIN pkt_time["record"] /\ (i # 0 => i \in DOMAIN pkt_time["record"])
    BY <1>1, <1>2, <2>1, <2>2
  <2> QED BY <1>5, <2>1, <2>3
<1>7. PICK e : e = Entry("record", i, "<", last)
  OBVIOUS
<1>8. out' = Append(out, e)
  BY <1>1, <1>5, <1>7 DEF PrintUnidirectional
<1>9. e \in Entries /\ e.side = "record" /\ e.time = pkt_time["record"][i + 1] /\ e.time \in Nat
  BY <1>1, <1>2, <1>3, <1>6, <1>7, EntryTyped
<1>10. \A o \in Sides : Cursor(o)' = IF o = "record" THEN Cursor(o) + 1 ELSE Cursor(o)
  BY <1>1 DEF Cursor
<1>11. ~(Cursor("twin") < AtMost("twin"))
  BY <1>1, <1>2, <1>4
<1>12. \A o \in Sides : Cursor(o) < AtMost(o) => e.time <= pkt_time[o][Cursor(o) + 1]
  <2>1. e.time <= pkt_time["record"][Cursor("record") + 1]
    BY <1>2, <1>9
  <2> QED BY <1>3, <1>11, <2>1
<1>13. /\ Cursor("record") < AtMost("record") /\ i' \in Nat /\ j' \in Nat
       /\ e.time = pkt_time["record"][Cursor("record") + 1]
  BY <1>1, <1>2, <1>9
<1> QED BY <1>1, <1>3, <1>8, <1>9, <1>10, <1>12, <1>13, PacketPrinted

LEMMA MergeUnchanged ==
  ASSUME Merged, UNCHANGED <<packets, rec, i, j, out>>, pc' = pc \/ (pc' = "done" /\ pc = "print" /\ Exhausted)
  PROVE  Merged'
<1>1. /\ \A s \in Sides : AtMost(s)' = AtMost(s) /\ Cursor(s)' = Cursor(s)
      /\ \A s, k : PrintedOf(s, k)' = PrintedOf(s, k)
      /\ pkt_time' = pkt_time /\ (HasTwin' <=> HasTwin) /\ (Exhausted' <=> Exhausted)
      /\ rec' = rec /\ i' = i /\ j' = j /\ out' = out
  BY DEF packets, AtMost, Cursor, PrintedOf, HasTwin, Exhausted, imax, jmax
<1>2. \A t : NotBefore(t)' <=> NotBefore(t)
  BY <1>1 DEF NotBefore
<1>3. \A k \in DOMAIN out' : /\ out'[k].time = pkt_time'[out'[k].side][PrintedOf(out[k].side, k)']
                              /\ NotBefore(out[k].time)'
  <2>1. \A k \in DOMAIN out : /\ out[k].time = pkt_time[out[k].side][PrintedOf(out[k].side, k)]
                              /\ NotBefore(out[k].time)
    BY DEF Merged
  <2>2. \A k : PrintedOf(out[k].side, k)' = PrintedOf(out[k].side, k)
    BY <1>1 DEF PrintedOf
  <2>3. \A k : NotBefore(out[k].time)' <=> NotBefore(out[k].time)
    BY <1>1 DEF NotBefore
  <2> QED BY <1>1, <2>1, <2>2, <2>3
<1>4. \A s \in Sides : Cursor(s)' <= AtMost(s)' /\ PrintedOf(s, Len(out))' = Cursor(s)'
  <2>1. \A s \in Sides : PrintedOf(s, Len(out))' = PrintedOf(s, Len(out))
    BY <1>1 DEF PrintedOf
  <2> QED BY <1>1, <2>1 DEF Merged
<1>5. pc' = "collect" => pc = "collect"
  OBVIOUS
<1>6. pc' \in {"collect", "print", "done"} /\ (pc' = "done" => Exhausted')
  BY <1>1 DEF Merged
<1> QED BY <1>1, <1>3, <1>4, <1>5, <1>6 DEF Merged

-----------------------------------------------------------------------------

(***************************************************************************)
(* Where the inter-packet times lead.                                      *)
(***************************************************************************)
\* No flow lasts so long that a difference of two times wraps.
ShortFlows == \A t, u \in Times : t - u < IptMod

FirstToSend == start[rec] <= start[Other(rec)]

Placed ==
  /\ ts_last \in Nat
  /\ pc # "collect" =>
       /\ rec = ClientSide /\ start["record"] # 0
       /\ ts_start = start[rec] /\ ts_start \in Times /\ ts_last \in Times
       /\ ~Identified => ts_end = Latest
       /\ ShortFlows /\ HasTwin /\ FirstToSend =>
            /\ \A k \in DOMAIN out : ts_start + IptSum(k) = out[k].time
            /\ ts_last = ts_start + IptSum(Len(out))
            /\ NotBefore(ts_last)

LEMMA IptSumAppend ==
  ASSUME out \in Seq(Entries), NEW e \in Entries, out' = Append(out, e)
  PROVE  /\ \A k \in 0..Len(out) : IptSum(k)' = IptSum(k) /\ IptSum(k) \in Int
         /\ IptSum(Len(out))' = IptSum(Len(out)) + e.ipt
<1>1. PICK f, g, n : f = out /\ g = out' /\ n = Len(f)
  OBVIOUS
<1>2. n \in Nat /\ g[n + 1] = e /\ (\A m \in 1..n : g[m] = f[m] /\ f[m] \in Entries) /\ e.ipt \in Int
  <2>1. f \in Seq(Entries) /\ g = Append(f, e)
    BY <1>1
  <2>2. n \in Nat /\ g[n + 1] = e /\ \A m \in 1..n : g[m] = f[m] /\ f[m] \in Entries
    BY <1>1, <2>1
  <2>3. e.ipt \in Int
    BY DEF Entries
  <2> QED BY <2>2, <2>3
<1>3. ASSUME NEW k \in 0..n PROVE IptSum(k)' = IptSum(k) /\ IptSum(k) \in Int
  <2>1. \A m \in 1..k : m \in 1..n
    BY <1>2
  <2>2. [m \in 1..k |-> g[m].ipt] = [m \in 1..k |-> f[m].ipt]
    BY <1>2, <2>1
  <2>3. \A m \in 1..k : f[m].ipt \in Int
    BY <1>2, <2>1 DEF Entries
  <2>4. [m \in 1..k |-> f[m].ipt] \in [1..k -> Int] /\ k \in Nat
    BY <1>2, <2>3
  <2>5. [m \in 1..k |-> f[m].ipt] \in Seq(Int)
    BY <2>4, SeqDef
  <2>6. SumOf(0, [m \in 1..k |-> f[m].ipt]) \in Int
    BY <2>5, SumType
  <2> QED BY <1>1, <2>2, <2>6 DEF IptSum
<1>4. PICK a, b : a = [m \in 1..n |-> f[m].ipt] /\ b = [m \in 1..(n + 1) |-> g[m].ipt]
  OBVIOUS
<1>5. a \in Seq(Int) /\ Len(a) = n
  <2>1. \A m \in 1..n : f[m].ipt \in Int
    BY <1>2 DEF Entries
  <2>2. a \in [1..n -> Int]
    BY <1>4, <2>1
  <2>3. a \in Seq(Int)
    BY <1>2, <2>2, SeqDef
  <2> QED BY <1>2, <2>2, <2>3
<1>6. b = Append(a, e.ipt)
  <2>1. /\ DOMAIN b = 1..(n + 1) /\ b[n + 1] = e.ipt /\ \A m \in 1..n : b[m] = a[m]
    BY <1>2, <1>4
  <2>2. b = [m \in 1..(n + 1) |-> b[m]]
    BY <1>4
  <2>3. Append(a, e.ipt) = [m \in 1..(n + 1) |-> IF m = n + 1 THEN e.ipt ELSE a[m]]
    BY <1>2, <1>5
  <2>4. \A m \in 1..(n + 1) : b[m] = IF m = n + 1 THEN e.ipt ELSE a[m]
    BY <1>2, <2>1
  <2> QED BY <2>2, <2>3, <2>4
<1>7. SumOf(0, b) = SumOf(0, a) + e.ipt
  BY <1>2, <1>5, <1>6, SumOfAppend
<1>8. IptSum(n + 1)' = SumOf(0, b) /\ IptSum(n) = SumOf(0, a)
  BY <1>1, <1>4 DEF IptSum
<1>9. Len(out') = n + 1 /\ Len(out) = n
  BY <1>1
<1>10. IptSum(Len(out))' = IptSum(n + 1)'
  BY <1>9 DEF IptSum
<1>11. \A k \in 0..Len(out) : IptSum(k)' = IptSum(k) /\ IptSum(k) \in Int
  BY <1>3, <1>9
<1>12. IptSum(Len(out)) = IptSum(n)
  BY <1>9
<1> QED BY <1>7, <1>8, <1>10, <1>11, <1>12

LEMMA PrinterPlaced ==
  ASSUME Collected, Merged, Placed, Merged', PrintTwinPacket \/ PrintRecPacket
  PROVE  Placed'
<1>1. /\ pc = "print" /\ HasTwin /\ UNCHANGED <<packets, pc, rec, ts_start, ts_end>>
      /\ ts_last \in Nat
  BY DEF PrintTwinPacket, PrintRecPacket, Placed
<1>2. PICK e \in Entries, s \in Sides :
        /\ ts_last' \in Times /\ NotBefore(ts_last)' /\ out' = Append(out, e) /\ e.time = ts_last'
        /\ e.ipt = (ts_last' - ts_last) % IptMod
        /\ Cursor(s) < AtMost(s) /\ ts_last' = pkt_time[s][Cursor(s) + 1]
  <2>1. CASE PrintTwinPacket
    BY <1>1, <2>1, TwinPrinted
  <2>2. CASE PrintRecPacket
    BY <1>1, <2>2, RecPrinted
  <2> QED BY <2>1, <2>2
<1>3. /\ rec = ClientSide /\ start["record"] # 0 /\ ts_start = start[rec]
      /\ ts_start \in Times /\ ts_last \in Times /\ (~Identified => ts_end = Latest)
  BY <1>1 DEF Placed
<1>4. /\ rec' = ClientSide' /\ start'["record"] # 0 /\ ts_start' = start'[rec']
      /\ ts_start' \in Times /\ (~Identified' => ts_end' = Latest')
  <2>1. ClientSide' = ClientSide /\ Latest' = Latest /\ (Identified' <=> Identified)
    BY <1>1 DEF packets, ClientSide, Latest, Identified, HasTwin, get_client_flow,
                tcp_client_flow, FirstWith, EarlierSide
  <2> QED BY <1>1, <1>3, <2>1 DEF packets
<1>5. ts_last' \in Nat
  BY <1>2, TimesAssumption
<1>6. ASSUME ShortFlows, FirstToSend
      PROVE  /\ \A k \in DOMAIN out' : ts_start + IptSum(k)' = out'[k].time
             /\ ts_last' = ts_start + IptSum(Len(out))'
  <2>1. /\ \A k \in DOMAIN out : ts_start + IptSum(k) = out[k].time
        /\ ts_last = ts_start + IptSum(Len(out))
        /\ NotBefore(ts_last)
    BY <1>1, <1>6 DEF Placed
  <2>2. ts_last <= ts_last'
    <3>1. Cursor(s) \in Nat /\ AtMost(s) \in Nat
      BY AtMostType DEF Merged, Cursor
    <3>2. Cursor(s) + 1 \in Cursor(s) + 1 .. AtMost(s)
      BY <1>2, <3>1
    <3> QED BY <1>2, <2>1, <3>2 DEF NotBefore
  <2>3. e.ipt = ts_last' - ts_last
    <3>1. ts_last' - ts_last < IptMod
      BY <1>2, <1>3, <1>6 DEF ShortFlows
    <3>2. PICK x \in Nat : x = ts_last
      BY <1>1
    <3>3. PICK y \in Nat : y = ts_last'
      BY <1>5
    <3>4. x <= y /\ y - x < IptMod
      BY <2>2, <3>1, <3>2, <3>3
    <3>5. (y - x) % IptMod = y - x
      <4>1. IptMod \in Nat /\ IptMod > 0
        BY ReportAssumption
      <4> QED BY <3>4, <4>1
    <3> QED BY <1>2, <3>2, <3>3, <3>5
  <2>4. /\ out \in Seq(Entries) /\ \A k \in 0..Len(out) : IptSum(k)' = IptSum(k) /\ IptSum(k) \in Int
        /\ IptSum(Len(out))' = IptSum(Len(out)) + e.ipt
    BY <1>2, IptSumAppend DEF Merged
  <2>5. PICK n, f : f = out /\ n = Len(f) /\ n \in Nat /\ DOMAIN f = 1..n
    BY <2>4
  <2>6. /\ DOMAIN out' = 1..(n + 1) /\ Len(out') = n + 1 /\ out'[n + 1] = e
        /\ \A k \in 1..n : out'[k] = f[k]
    BY <1>2, <2>4, <2>5
  <2>7. ts_last' = ts_start + IptSum(Len(out))'
    <3>1. PICK y \in Int : y = IptSum(Len(out))
      BY <2>4, <2>5
    <3>2. ts_start \in Nat
      BY <1>3, TimesAssumption
    <3>3. PICK z \in Nat, w \in Nat : z = ts_last' /\ w = ts_start
      BY <1>5, <3>2
    <3>4. ts_last = w + y /\ e.ipt = z - (w + y) /\ IptSum(Len(out))' = y + e.ipt
      BY <2>1, <2>3, <2>4, <3>1, <3>3
    <3>5. z = w + (y + (z - (w + y)))
      BY <3>1, <3>3
    <3> QED BY <3>3, <3>4, <3>5
  <2>8. ASSUME NEW k \in DOMAIN out' PROVE ts_start + IptSum(k)' = out'[k].time
    <3>1. CASE k = n + 1
      <4>1. IptSum(k)' = IptSum(Len(out))'
        BY <2>6, <3>1 DEF IptSum
      <4> QED BY <1>2, <2>6, <2>7, <3>1, <4>1
    <3>2. CASE k # n + 1
      <4>1. k \in 1..n /\ k \in 0..n
        BY <2>5, <2>6, <3>2
      <4>2. IptSum(k)' = IptSum(k)
        BY <2>4, <2>5, <4>1
      <4>3. ts_start + IptSum(k) = f[k].time
        BY <2>1, <2>5, <4>1
      <4> QED BY <2>6, <4>1, <4>2, <4>3
    <3> QED BY <3>1, <3>2
  <2> QED BY <2>7, <2>8
<1>7. (FirstToSend' <=> FirstToSend) /\ ts_start' = ts_start
  BY <1>1 DEF FirstToSend, packets, Other
<1> QED BY <1>2, <1>4, <1>5, <1>6, <1>7 DEF Placed

LEMMA ReportPlaced ==
  ASSUME Collected, Merged, Placed, Merged', NEW x, flow_record_print_json(x)
  PROVE  Placed'
<1>1. /\ start["record"] # 0 /\ rec' = ClientSide /\ UNCHANGED packets /\ out' = <<>>
      /\ ts_start' = start[ClientSide] /\ ts_end' = EndTime /\ ts_last' = start[ClientSide]
      /\ i' = 0 /\ j' = 0
  BY DEF flow_record_print_json, Merged
<1>2. ClientSide \in Sides /\ (~HasTwin => ClientSide = "record") /\ "record" \in Sides /\ "twin" \in Sides
  BY ClientIsSide DEF Sides
<1>3. start[ClientSide] \in Times
  <2>1. start[ClientSide] # 0
    BY <1>1, <1>2 DEF HasTwin, Sides
  <2>2. start[ClientSide] \in Times \cup {0}
    BY <1>2 DEF Collected
  <2> QED BY <2>1, <2>2
<1>4. ts_last' \in Nat
  BY <1>1, <1>3, TimesAssumption
<1>5. ClientSide' = ClientSide /\ Latest' = Latest /\ (Identified' <=> Identified) /\ (HasTwin' <=> HasTwin)
  BY <1>1 DEF packets, ClientSide, Latest, Identified, HasTwin, get_client_flow,
              tcp_client_flow, FirstWith, EarlierSide
<1>6. ~Identified => EndTime = Latest
  <2>1. CASE HasTwin
    BY <2>1 DEF Identified, EndTime
  <2>2. CASE ~HasTwin
    <3>1. end["twin"] = 0
      BY <1>2, <2>2 DEF HasTwin, Collected
    <3>2. end["record"] \in Nat
      BY <1>2, TimesTyped
    <3> QED BY <2>2, <3>1, <3>2 DEF EndTime, Latest
  <2> QED BY <2>1, <2>2
<1>7. ASSUME HasTwin, FirstToSend' PROVE NotBefore(ts_last)'
  <2> SUFFICES ASSUME NEW s \in Sides, NEW a \in Cursor(s)' + 1 .. AtMost(s)'
               PROVE  ts_last' <= pkt_time'[s][a]
    BY DEF NotBefore
  <2>1. PICK c : c = ClientSide
    OBVIOUS
  <2>2. /\ c \in Sides /\ Other(c) \in Sides /\ (s = c \/ s = Other(c))
        /\ start[c] <= start[Other(c)] /\ ts_last' = start[c] /\ pkt_time' = pkt_time
    BY <1>1, <1>2, <1>7, <2>1, OtherSide DEF FirstToSend, packets, Other
  <2>3. AtMost(s)' = AtMost(s) /\ Cursor(s)' = 0
    BY <1>1 DEF AtMost, packets, Cursor
  <2>4. AtMost(s) \in Nat /\ AtMost(s) <= Len(pkt_time[s]) /\ pkt_time[s] \in Seq(Times)
    BY AtMostType, TimesTyped
  <2>5. a \in DOMAIN pkt_time[s]
    BY <2>3, <2>4
  <2>6. start[s] <= pkt_time[s][a] /\ pkt_time[s][a] \in Nat
    BY <2>5, TimesTyped DEF Collected
  <2>7. start[c] \in Nat /\ start[Other(c)] \in Nat
    BY <2>2, TimesTyped
  <2> QED BY <2>2, <2>6, <2>7
<1>8. ts_last' = ts_start' + IptSum(Len(out))'
  <2>1. IptSum(Len(out))' = SumOf(0, [m \in 1..0 |-> out'[m].ipt])
    BY <1>1 DEF IptSum
  <2>2. [m \in 1..0 |-> out'[m].ipt] = <<>>
    OBVIOUS
  <2>3. IptSum(Len(out))' = 0
    BY <2>1, <2>2, SumOfEmpty
  <2> QED BY <1>1, <1>4, <2>3
<1>9. rec' = ClientSide' /\ start'["record"] # 0 /\ ts_start' = start'[rec'] /\ ts_start' \in Times
      /\ ts_last' \in Times /\ (~Identified' => ts_end' = Latest') /\ DOMAIN out' = {}
  BY <1>1, <1>3, <1>5, <1>6 DEF packets
<1> QED BY <1>4, <1>5, <1>7, <1>8, <1>9 DEF Placed

LEMMA PlacedUnchanged ==
  ASSUME Placed, UNCHANGED <<packets, rec, i, j, ts_start, ts_end, ts_last, out>>,
         pc' = pc \/ pc = "print"
  PROVE  Placed'
<1>1. /\ ClientSide' = ClientSide /\ Latest' = Latest /\ (Identified' <=> Identified)
      /\ (HasTwin' <=> HasTwin) /\ (FirstToSend' <=> FirstToSend)
      /\ rec' = rec /\ start' = start /\ ts_start' = ts_start /\ ts_end' = ts_end
      /\ ts_last' = ts_last /\ out' = out
  BY DEF packets, ClientSide, Latest, Identified, HasTwin, get_client_flow, FirstToSend, Other,
         tcp_client_flow, FirstWith, EarlierSide
<1>2. NotBefore(ts_last)' <=> NotBefore(ts_last)
  BY DEF packets, NotBefore, Cursor, AtMost
<1>3. /\ \A k : IptSum(k)' = IptSum(k)
      /\ IptSum(Len(out))' = IptSum(Len(out))
  BY DEF IptSum
<1>4. pc' # "collect" => pc # "collect"
  OBVIOUS
<1> QED BY <1>1, <1>2, <1>3, <1>4 DEF Placed

-----------------------------------------------------------------------------

ReportIInv == Collected /\ Merged /\ Placed

LEMMA ReportInitial == ReportInit => ReportIInv
<1> SUFFICES ASSUME ReportInit PROVE ReportIInv
  OBVIOUS
<1>1. ts_last = 0 /\ pc = "collect"
  BY DEF ReportInit
<1> QED BY <1>1, CollectInit DEF ReportIInv, Placed

LEMMA ReportSteps == ReportIInv /\ [ReportNext]_reportVars => ReportIInv'
<1> SUFFICES ASSUME ReportIInv, [ReportNext]_reportVars PROVE ReportIInv'
  OBVIOUS
<1>1. Collected /\ Merged /\ Placed
  BY DEF ReportIInv
<1>2. ASSUME UNCHANGED packets PROVE Collected'
  BY <1>1, <1>2 DEF packets, Collected
<1>3. ASSUME NEW s \in Sides, NEW t \in Times, NEW data \in BOOLEAN,
             NEW fl, NEW d, RecordPacket(s, t, data, fl, d)
      PROVE  ReportIInv'
  <2>1. Collected' /\ Merged'
    BY <1>1, <1>3, PacketCollected
  <2>2. pc' = "collect" /\ ts_last' = ts_last
    BY <1>3 DEF RecordPacket, printer
  <2> QED BY <1>1, <2>1, <2>2 DEF ReportIInv, Placed
<1>4. ASSUME NEW x, flow_record_print_json(x) PROVE ReportIInv'
  <2>1. Collected'
    BY <1>2, <1>4 DEF flow_record_print_json
  <2>2. Merged'
    BY <1>1, <1>4, ReportStarts
  <2> QED BY <1>1, <1>4, <2>1, <2>2, ReportPlaced DEF ReportIInv
<1>5. CASE PrintTwinPacket
  <2>1. Collected'
    BY <1>2, <1>5 DEF PrintTwinPacket
  <2>2. Merged'
    BY <1>1, <1>5, TwinPrinted DEF Placed
  <2> QED BY <1>1, <1>5, <2>1, <2>2, PrinterPlaced DEF ReportIInv
<1>6. CASE PrintRecPacket
  <2>1. Collected'
    BY <1>2, <1>6 DEF PrintRecPacket
  <2>2. Merged'
    BY <1>1, <1>6, RecPrinted DEF Placed
  <2> QED BY <1>1, <1>6, <2>1, <2>2, PrinterPlaced DEF ReportIInv
<1>7. CASE PrintUnidirectional
  <2>1. UNCHANGED <<packets, pc, rec, ts_start, ts_end, ts_last>> /\ ~HasTwin
    BY <1>7 DEF PrintUnidirectional
  <2>2. Collected' /\ Merged'
    BY <1>1, <1>2, <1>7, <2>1, UnidirectionalPrinted
  <2>3. ClientSide' = ClientSide /\ Latest' = Latest /\ (Identified' <=> Identified) /\ ~HasTwin' /\ start' = start
    BY <2>1 DEF packets, ClientSide, Latest, Identified, HasTwin
  <2>4. Placed'
    BY <1>1, <2>1, <2>3 DEF Placed
  <2> QED BY <2>2, <2>4 DEF ReportIInv
<1>8. CASE Finish
  <2>1. /\ UNCHANGED <<packets, rec, i, j, ts_start, ts_end, ts_last, out>>
        /\ pc = "print" /\ pc' = "done" /\ Exhausted
    BY <1>8 DEF Finish
  <2> QED BY <1>1, <1>2, <2>1, MergeUnchanged, PlacedUnchanged DEF ReportIInv
<1>9. CASE UNCHANGED reportVars
  <2>1. UNCHANGED <<packets, rec, i, j, ts_start, ts_end, ts_last, out>> /\ pc' = pc
    BY <1>9 DEF reportVars, printer
  <2> QED BY <1>1, <1>2, <2>1, MergeUnchanged, PlacedUnchanged DEF ReportIInv
<1> QED BY <1>3, <1>4, <1>5, <1>6, <1>7, <1>8, <1>9 DEF ReportNext, PrintStep

LEMMA EachOnce == ReportIInv => EveryPacketOnce
<1> SUFFICES ASSUME ReportIInv PROVE EveryPacketOnce
  OBVIOUS
<1>1. Collected /\ Merged
  BY DEF ReportIInv
<1>2. ASSUME pc = "done", NEW s \in Sides
      PROVE  PrintedOf(s, Len(out)) = IF Len(pkt_time[s]) < num_pkts THEN Len(pkt_time[s]) ELSE num_pkts
  <2>1. Exhausted /\ rec \in Sides /\ i \in Nat /\ j \in Nat /\ (~HasTwin => rec = "record")
    BY <1>1, <1>2 DEF Merged
  <2>2. \A o \in Sides : AtMost(o) \in Nat
    BY <1>1, AtMostType
  <2>3. Cursor(s) >= AtMost(s)
    <3>1. CASE s = rec
      BY <2>1, <2>2, <3>1 DEF Exhausted, imax, Cursor
    <3>2. CASE s # rec /\ HasTwin
      <4>1. s = Other(rec)
        BY <2>1, <3>2, OtherSide
      <4> QED BY <2>1, <2>2, <3>2, <4>1 DEF Exhausted, jmax, Cursor
    <3>3. CASE s # rec /\ ~HasTwin
      <4>1. s = "twin" /\ "twin" \in Sides
        BY <2>1, <3>3 DEF Sides
      <4>2. pkt_time[s] = <<>>
        BY <1>1, <3>3, <4>1 DEF Collected, HasTwin
      <4>3. AtMost(s) = 0
        BY <4>2, ReportAssumption DEF AtMost
      <4> QED BY <2>1, <3>3, <4>3 DEF Cursor
    <3> QED BY <3>1, <3>2, <3>3
  <2>4. Cursor(s) \in Nat /\ Cursor(s) <= AtMost(s) /\ PrintedOf(s, Len(out)) = Cursor(s)
    BY <1>1, <2>1 DEF Merged, Cursor
  <2>5. Cursor(s) = AtMost(s)
    BY <2>2, <2>3, <2>4
  <2>6. pkt_time[s] \in Seq(Times)
    BY <1>1, TimesTyped
  <2>7. AtMost(s) = IF Len(pkt_time[s]) < num_pkts THEN Len(pkt_time[s]) ELSE num_pkts
    BY <2>6, ReportAssumption DEF AtMost
  <2> QED BY <2>4, <2>5, <2>7
<1> QED BY <1>1, <1>2 DEF Merged, EveryPacketOnce

LEMMA TimesLead == ReportIInv /\ ShortFlows => TimesReconstruct
<1> SUFFICES ASSUME ReportIInv, ShortFlows PROVE TimesReconstruct
  OBVIOUS
<1>1. Collected /\ Merged /\ Placed
  BY DEF ReportIInv
<1>2. ASSUME HasTwin, ~Identified, pc # "collect" PROVE FirstToSend
  <2>1. rec = EarlierSide
    BY <1>1, <1>2 DEF Placed, ClientSide, Identified
  <2>2. start["record"] \in Nat /\ start["twin"] \in Nat
    BY <1>1, TimesTyped DEF Sides
  <2> QED BY <2>1, <2>2 DEF FirstToSend, EarlierSide, Other
<1>3. ASSUME HasTwin, Identified => start[rec] <= start[Other(rec)], NEW k \in DOMAIN out
      PROVE  ts_start + IptSum(k) = out[k].time
  <2>1. pc # "collect"
    BY <1>1, <1>3 DEF Merged
  <2>2. FirstToSend
    BY <1>2, <1>3, <2>1 DEF FirstToSend
  <2> QED BY <1>1, <1>3, <2>1, <2>2 DEF Placed
<1>4. ASSUME pc = "done", ~Identified
      PROVE  /\ ts_end = Latest
             /\ \A s \in Sides : \A k \in DOMAIN pkt_time[s] : ts_start <= pkt_time[s][k]
  <2>1. ts_end = Latest /\ ts_start = start[rec] /\ rec \in Sides /\ (~HasTwin => rec = "record")
    BY <1>1, <1>4 DEF Placed, Merged
  <2>2. ASSUME NEW s \in Sides, NEW k \in DOMAIN pkt_time[s] PROVE ts_start <= pkt_time[s][k]
    <3>1. start[s] <= pkt_time[s][k] /\ pkt_time[s][k] \in Nat /\ start[s] \in Nat /\ start[rec] \in Nat
      BY <1>1, <2>1, TimesTyped DEF Collected
    <3>2. start[rec] <= start[s]
      <4>1. CASE s = rec
        BY <3>1, <4>1
      <4>2. CASE s # rec /\ HasTwin
        <5>1. s = Other(rec)
          BY <2>1, <4>2, OtherSide
        <5> QED BY <1>2, <1>4, <4>2, <5>1 DEF FirstToSend
      <4>3. CASE s # rec /\ ~HasTwin
        <5>1. s = "twin" /\ start["twin"] = 0
          BY <2>1, <4>3 DEF Sides, HasTwin
        <5>2. pkt_time[s] = <<>>
          BY <1>1, <5>1 DEF Collected
        <5> QED BY <5>2
      <4> QED BY <4>1, <4>2, <4>3
    <3> QED BY <2>1, <3>1, <3>2
  <2> QED BY <2>1, <2>2
<1> QED BY <1>3, <1>4 DEF TimesReconstruct

LEMMA ReportInvariant == ReportSpec => []ReportIInv
BY ReportInitial, ReportSteps, PTL DEF ReportSpec

\* The merge of the two arrays (p2f.c:1401) prints each of the first num_pkts
\* packets of either direction once and in the order of time, whichever side
\* becomes the client.
THEOREM PacketsPrintedOnce == ReportSpec => []EveryPacketOnce
BY ReportInvariant, EachOnce, PTL

\* As long as no flow lasts as long as an unsigned number of milliseconds can
\* count, the inter-packet times lead from "time_start" to the time of each
\* packet, unless the client was identified and is not the first to send.
THEOREM TimesLeadToPackets == ShortFlows => (ReportSpec => []TimesReconstruct)
<1> SUFFICES ASSUME ShortFlows PROVE ReportSpec => []TimesReconstruct
  OBVIOUS
<1>1. ReportIInv => TimesReconstruct
  BY TimesLead
<1> QED BY <1>1, ReportInvariant, PTL
=============================================================================
