--------------------------- MODULE FlowTableProofs ---------------------------
(***************************************************************************)
(* Proofs about FlowTable, for every set of records, keys and timestamps   *)
(* and every setting of the options.                                       *)
(***************************************************************************)
EXTENDS FlowTable, TLAPS

(***************************************************************************)
(* The inductive invariant, as a predicate of the lists rather than of the *)
(* state, so that deleting a pair of records and creating a record can be  *)
(* treated one after the other although flow_key_get_record does both in   *)
(* one call.                                                               *)
(***************************************************************************)
ListsTyped(T, ky, tw, ol, ch) ==
  /\ T \subseteq Rid /\ ch \subseteq T
  /\ ky \in [Rid -> Keys \cup {NULL}] /\ \A r \in T : ky[r] \in Keys
  /\ tw \in [Rid -> Rid \cup {NULL}] /\ \A r \in T : tw[r] \in T \cup {NULL}
  /\ ol \in [Rid -> SUBSET Rid] /\ \A r \in T : ol[r] \subseteq T

\* The creation order is a strict total order on the live records; only its
\* asymmetry matters for the proofs.
OrderAsymmetric(T, ol) ==
  \A r, s \in T : s \in ol[r] => r \notin ol[s]

Paired(T, tw, ol, ch) ==
  \A r \in T : tw[r] # NULL =>
    /\ tw[r] # r /\ tw[tw[r]] = r
    /\ r \in ol[tw[r]] <=> r \in ch
    /\ r \in ch <=> tw[r] \notin ch

Listed(T, tw, ch) == \A r \in T : r \in ch \/ (tw[r] # NULL /\ tw[r] \in ch)

Unique(T, ky) == \A r, s \in T : ky[r] = ky[s] => r = s

\* Under EXACT_MATCH twins have reversed keys, and reversed keys are twins.
Stitched(T, ky, tw) ==
  ~NearMatch =>
    /\ \A r \in T : tw[r] # NULL => IsReverse(ky[r], ky[tw[r]])
    /\ Bidir => \A r, s \in T : r # s /\ IsReverse(ky[r], ky[s]) => tw[r] = s

ListsOK(T, ky, tw, ol, ch) ==
  /\ ListsTyped(T, ky, tw, ol, ch)
  /\ OrderAsymmetric(T, ol)
  /\ Paired(T, tw, ol, ch)
  /\ Listed(T, tw, ch)
  /\ Unique(T, ky)
  /\ Stitched(T, ky, tw)

IInv ==
  /\ TypeOK
  /\ ListsOK(table, key, twin, older, chrono)
  /\ cur \in chrono \cup {NULL}

-----------------------------------------------------------------------------

(***************************************************************************)
(* Lookups.                                                                *)
(***************************************************************************)

\* A search of a list returns a member or the null pointer.
LEMMA SearchResult ==
  ASSUME NEW S \in SUBSET Rid
  PROVE  /\ Youngest(S) \in S \cup {NULL}
         /\ Oldest(S) \in S \cup {NULL}
         /\ \A r \in S : S = {r} => Youngest(S) = r
BY NullAssumption DEF Youngest, Oldest, IsYoungest, IsOldest

\* A lookup by key finds the record with this key, if there is one.
LEMMA FindRecord ==
  ASSUME NEW T \in SUBSET Rid, NEW k \in Keys, Unique(T, key)
  PROVE  LET r == find_record_by_key(T, k) IN
         /\ r # NULL => r \in T /\ key[r] = k
         /\ r = NULL => \A s \in T : key[s] # k
<1> DEFINE S == {r \in Bucket(T, k) : key[r] = k}
<1>1. S \in SUBSET Rid /\ S \subseteq T
  BY DEF Bucket
<1>2. \A r \in T : key[r] = k => S = {r}
  BY DEF Unique, Bucket
<1>3. find_record_by_key(T, k) = Youngest(S)
  BY DEF find_record_by_key
<1>4. CASE S = {}
  <2>1. \A s \in T : key[s] # k
    BY <1>2, <1>4
  <2>2. Youngest(S) = NULL
    BY <1>4 DEF Youngest
  <2> QED BY <1>3, <2>1, <2>2
<1>5. CASE S # {}
  <2>1. PICK r \in S : TRUE
    BY <1>5
  <2>2. r \in T /\ key[r] = k /\ S = {r}
    BY <1>1, <1>2, <2>1
  <2>3. Youngest(S) = r
    BY <1>1, <2>1, <2>2, SearchResult
  <2>4. r # NULL
    BY <2>2, NullAssumption
  <2> QED BY <1>3, <2>2, <2>3, <2>4
<1> QED BY <1>4, <1>5

\* The two directions of a conversation fall into the same bucket.
LEMMA ReverseHash ==
  ASSUME NEW a \in Keys, NEW b \in Keys, IsReverse(a, b), ~NearMatch
  PROVE  flow_key_hash(a) = flow_key_hash(b) /\ flow_key_is_twin(a, b)
<1>1. /\ a \in [sa: Nat, da: Nat, sp: Nat, dp: Nat, prot: Nat]
      /\ b \in [sa: Nat, da: Nat, sp: Nat, dp: Nat, prot: Nat]
  BY KeysAssumption
<1>2. /\ a.prot = b.prot /\ a.sa = b.da /\ a.da = b.sa
      /\ a.sp = b.dp /\ a.dp = b.sp
  BY DEF IsReverse
<1>3. a.sa + a.da + a.sp + a.dp + a.prot = b.sa + b.da + b.sp + b.dp + b.prot
  BY <1>1, <1>2
<1>4. flow_key_hash(a) = flow_key_hash(b)
  BY <1>3 DEF flow_key_hash
<1> QED BY <1>2, <1>4 DEF flow_key_is_twin

-----------------------------------------------------------------------------

(***************************************************************************)
(* Deleting a record of the chronological list together with its twin.     *)
(***************************************************************************)
LEMMA DeleteKeepsLists ==
  ASSUME ListsOK(table, key, twin, older, chrono), NEW r \in chrono,
         NEW gone, gone = WithTwin(r)
  PROVE  ListsOK(table \ gone, Zeroize(key, gone, NULL), Zeroize(twin, gone, NULL),
                 [s \in Rid |-> IF s \in gone THEN {} ELSE older[s] \ gone],
                 chrono \ {r})
<1> DEFINE T == table \ gone
           ky == Zeroize(key, gone, NULL)
           tw == Zeroize(twin, gone, NULL)
           ol == [s \in Rid |-> IF s \in gone THEN {} ELSE older[s] \ gone]
           ch == chrono \ {r}
<1>a. ListsTyped(table, key, twin, older, chrono)
  BY DEF ListsOK
<1>b. Paired(table, twin, older, chrono)
  BY DEF ListsOK
<1>1. r \in table /\ r \in gone /\ gone \subseteq table
  BY <1>a, NullAssumption DEF ListsTyped, WithTwin
<1>2. \A s \in T : /\ s \in table /\ s \in Rid /\ s \notin gone
                   /\ ky[s] = key[s] /\ tw[s] = twin[s]
                   /\ ol[s] = older[s] \ gone
  BY <1>a DEF ListsTyped, Zeroize
\* The records that stay are stitched among themselves.
<1>3. \A s \in T : twin[s] \in T \cup {NULL}
  <2>0. r # NULL /\ twin[r] \in table \cup {NULL}
    BY <1>1, <1>a, NullAssumption DEF ListsTyped
  <2> SUFFICES ASSUME NEW s \in T, twin[s] # NULL PROVE twin[s] \notin gone
    BY <1>2, <1>a DEF ListsTyped
  <2>1. twin[s] \in table /\ twin[twin[s]] = s
    BY <1>2, <1>a, <1>b DEF ListsTyped, Paired
  <2>2. twin[s] = r => s \in gone
    <3>1. twin[s] = r => twin[r] = s
      BY <2>1
    <3>2. s # NULL
      BY <1>2, NullAssumption
    <3> QED BY <3>1, <3>2 DEF WithTwin
  <2>3. twin[r] # NULL /\ twin[s] = twin[r] => s = r
    BY <2>1, <1>1, <1>b DEF Paired
  <2> QED BY <2>2, <2>3, <1>1, <1>2 DEF WithTwin
<1>4. ch \subseteq T
  <2>1. twin[r] # NULL => twin[r] \notin chrono
    BY <1>1, <1>b DEF Paired
  <2> QED BY <2>1, <1>a DEF ListsTyped, WithTwin
<1>5. ListsTyped(T, ky, tw, ol, ch)
  <2>1. ky \in [Rid -> Keys \cup {NULL}] /\ tw \in [Rid -> Rid \cup {NULL}]
        /\ ol \in [Rid -> SUBSET Rid]
    BY <1>a DEF ListsTyped, Zeroize
  <2>2. \A s \in T : ol[s] \subseteq T
    BY <1>2, <1>a DEF ListsTyped
  <2> QED BY <2>1, <2>2, <1>2, <1>3, <1>4, <1>a DEF ListsTyped
<1>6. OrderAsymmetric(T, ol)
  BY <1>2 DEF OrderAsymmetric, ListsOK
<1>7. Paired(T, tw, ol, ch)
  <2> SUFFICES ASSUME NEW s \in T, tw[s] # NULL
               PROVE  /\ tw[s] # s /\ tw[tw[s]] = s
                      /\ s \in ol[tw[s]] <=> s \in ch
                      /\ s \in ch <=> tw[s] \notin ch
    BY DEF Paired
  <2>1. tw[s] = twin[s] /\ twin[s] \in T
    BY <1>2, <1>3
  <2>2. tw[twin[s]] = twin[twin[s]] /\ ol[twin[s]] = older[twin[s]] \ gone
    BY <2>1, <1>2
  <2>3. s # r /\ twin[s] # r
    BY <2>1, <1>1, <1>2
  <2> QED BY <2>1, <2>2, <2>3, <1>2, <1>b DEF Paired
<1>8. Listed(T, tw, ch)
  <2> SUFFICES ASSUME NEW s \in T PROVE s \in ch \/ (tw[s] # NULL /\ tw[s] \in ch)
    BY DEF Listed
  <2>1. s \in chrono \/ (twin[s] # NULL /\ twin[s] \in chrono)
    BY <1>2 DEF ListsOK, Listed
  <2> QED BY <2>1, <1>1, <1>2, <1>3, NullAssumption
<1>9. Unique(T, ky)
  <2>1. Unique(table, key)
    BY DEF ListsOK
  <2> SUFFICES ASSUME NEW s \in T, NEW u \in T, ky[s] = ky[u] PROVE s = u
    BY DEF Unique
  <2> QED BY <2>1, <1>2 DEF Unique
<1>10. Stitched(T, ky, tw)
  <2>1. Stitched(table, key, twin)
    BY DEF ListsOK
  <2> SUFFICES ASSUME ~NearMatch
               PROVE  /\ \A s \in T : tw[s] # NULL => IsReverse(ky[s], ky[tw[s]])
                      /\ Bidir => \A s, u \in T :
                           s # u /\ IsReverse(ky[s], ky[u]) => tw[s] = u
    BY DEF Stitched
  <2>2. ASSUME NEW s \in T, tw[s] # NULL PROVE IsReverse(ky[s], ky[tw[s]])
    <3>1. s \in table /\ twin[s] # NULL /\ twin[s] \in T /\ tw[s] = twin[s]
      BY <2>2, <1>2, <1>3
    <3>2. IsReverse(key[s], key[twin[s]])
      BY <3>1, <2>1 DEF Stitched
    <3>3. ky[s] = key[s] /\ ky[twin[s]] = key[twin[s]]
      BY <3>1, <2>2, <1>2
    <3> QED BY ONLY <3>1, <3>2, <3>3
  <2>3. ASSUME Bidir, NEW s \in T, NEW u \in T, s # u, IsReverse(ky[s], ky[u])
        PROVE  tw[s] = u
    <3>1. IsReverse(key[s], key[u]) /\ s \in table /\ u \in table
      BY <2>3, <1>2
    <3>2. twin[s] = u
      BY <3>1, <2>1, <2>3 DEF Stitched
    <3>3. twin[s] = u /\ u \in T /\ s \in T
      BY <3>2, <2>3
    <3> QED BY <3>3, <1>2
  <2> QED BY <2>2, <2>3
<1> QED BY <1>5, <1>6, <1>7, <1>8, <1>9, <1>10 DEF ListsOK

(***************************************************************************)
(* Creating the record r for the key k, which no record has, when the      *)
(* search for a twin returned t.                                           *)
(***************************************************************************)
TwinSearched(T, ky, tw, r, k, t) ==
  /\ t \in T \cup {NULL, r}
  /\ ~NearMatch /\ Bidir =>
       \A s \in T : IsReverse(k, ky[s]) => t = s
  /\ ~NearMatch /\ t # NULL /\ t # r => IsReverse(k, ky[t])

ListsOKAfterCreate(T, ky, tw, ol, ch, r, k, t, stitch) ==
  ListsOK(T \cup {r}, [ky EXCEPT ![r] = k],
          IF stitch THEN [tw EXCEPT ![t] = r, ![r] = t] ELSE [tw EXCEPT ![r] = NULL],
          [s \in Rid |-> IF s = r THEN T ELSE ol[s]],
          IF stitch THEN ch ELSE ch \cup {r})

LEMMA CreateKeepsLists ==
  ASSUME NEW T, NEW ky, NEW tw, NEW ol, NEW ch, ListsOK(T, ky, tw, ol, ch),
         NEW r \in Rid \ T, NEW k \in Keys, NEW t,
         \A s \in T : ky[s] # k,
         TwinSearched(T, ky, tw, r, k, t),
         NEW stitch \in BOOLEAN, stitch <=> (t # NULL /\ t # r /\ tw[t] = NULL)
  PROVE  ListsOKAfterCreate(T, ky, tw, ol, ch, r, k, t, stitch)
<1> DEFINE T2 == T \cup {r}
           ky2 == [ky EXCEPT ![r] = k]
           tw2 == IF stitch THEN [tw EXCEPT ![t] = r, ![r] = t]
                            ELSE [tw EXCEPT ![r] = NULL]
           ol2 == [s \in Rid |-> IF s = r THEN T ELSE ol[s]]
           ch2 == IF stitch THEN ch ELSE ch \cup {r}
<1>a. /\ ListsTyped(T, ky, tw, ol, ch) /\ OrderAsymmetric(T, ol)
      /\ Paired(T, tw, ol, ch) /\ Listed(T, tw, ch) /\ Unique(T, ky)
      /\ Stitched(T, ky, tw)
  BY DEF ListsOK
<1>1. /\ ky2[r] = k /\ \A s \in T : ky2[s] = ky[s]
      /\ ol2[r] = T /\ \A s \in T : ol2[s] = ol[s]
      /\ r \notin T /\ T \subseteq Rid /\ r # NULL
  BY <1>a, NullAssumption DEF ListsTyped
<1>2. stitch => t \in T /\ tw[t] = NULL /\ t # r /\ t # NULL /\ t \in ch
  BY <1>a, NullAssumption DEF TwinSearched, Listed, ListsTyped
<1>3. tw2[r] = IF stitch THEN t ELSE NULL
  BY <1>a, <1>2 DEF ListsTyped
<1>4. \A s \in T : tw2[s] = IF stitch /\ s = t THEN r ELSE tw[s]
  BY <1>a, <1>2, <1>1 DEF ListsTyped
<1>5. ListsTyped(T2, ky2, tw2, ol2, ch2)
  <2>1. ky2 \in [Rid -> Keys \cup {NULL}] /\ ol2 \in [Rid -> SUBSET Rid]
    BY <1>a DEF ListsTyped
  <2>2. tw2 \in [Rid -> Rid \cup {NULL}]
    BY <1>a, <1>1, <1>2 DEF ListsTyped
  <2>3. \A s \in T2 : ky2[s] \in Keys /\ tw2[s] \in T2 \cup {NULL} /\ ol2[s] \subseteq T2
    <3>1. \A s \in T : ky[s] \in Keys /\ tw[s] \in T \cup {NULL} /\ ol[s] \subseteq T
      BY <1>a DEF ListsTyped
    <3>2. \A s \in T2 : ky2[s] \in Keys /\ ol2[s] \subseteq T2
      <4> HIDE DEF ky2, ol2
      <4> QED BY <3>1, <1>1
    <3>3. \A s \in T2 : tw2[s] \in T2 \cup {NULL}
      <4> HIDE DEF tw2
      <4> QED BY <3>1, <1>2, <1>3, <1>4
    <3> QED BY <3>2, <3>3
  <2>4. T2 \subseteq Rid /\ ch2 \subseteq T2
    BY <1>a DEF ListsTyped
  <2> QED BY <2>1, <2>2, <2>3, <2>4 DEF ListsTyped
<1>6. OrderAsymmetric(T2, ol2)
  BY <1>a, <1>1 DEF OrderAsymmetric, ListsTyped
<1>7. Paired(T2, tw2, ol2, ch2)
  <2> SUFFICES ASSUME NEW s \in T2, tw2[s] # NULL
               PROVE  /\ tw2[s] # s /\ tw2[tw2[s]] = s
                      /\ s \in ol2[tw2[s]] <=> s \in ch2
                      /\ s \in ch2 <=> tw2[s] \notin ch2
    BY DEF Paired
  <2>1. r \notin ch
    BY <1>a, <1>1 DEF ListsTyped
  <2>2. CASE s = r
    BY <2>1, <2>2, <1>1, <1>2, <1>3, <1>4, <1>a DEF ListsTyped
  <2>3. CASE s # r /\ stitch /\ s = t
    BY <2>1, <2>3, <1>1, <1>2, <1>3, <1>4, <1>a DEF ListsTyped
  <2>4. CASE s # r /\ ~(stitch /\ s = t)
    <3>1. s \in T /\ tw2[s] = tw[s] /\ tw[s] \in T
      BY <2>4, <1>4, <1>a DEF ListsTyped
    <3>2. tw[tw[s]] = s /\ tw[s] # s
      BY <3>1, <1>a DEF Paired
    <3>3. ~(stitch /\ tw[s] = t) /\ tw[s] # r
      <4>1. tw[s] # r
        BY <3>1, <1>1
      <4>2. s # NULL
        BY <3>1, <1>1, NullAssumption
      <4>3. ~(stitch /\ tw[s] = t)
        BY <3>2, <4>2, <1>2
      <4> QED BY <4>1, <4>3
    <3>4. tw2[tw[s]] = s
      BY <3>1, <3>2, <3>3, <1>4
    <3>5. ol2[tw[s]] = ol[tw[s]] /\ (s \in ch2 <=> s \in ch)
          /\ (tw[s] \in ch2 <=> tw[s] \in ch)
      BY <3>1, <3>3, <2>4, <1>1
    <3> QED BY <3>1, <3>2, <3>4, <3>5, <1>a DEF Paired
  <2> QED BY <2>2, <2>3, <2>4
<1>8. Listed(T2, tw2, ch2)
  <2> SUFFICES ASSUME NEW s \in T2
               PROVE  s \in ch2 \/ (tw2[s] # NULL /\ tw2[s] \in ch2)
    BY DEF Listed
  <2>1. CASE s = r
    BY <2>1, <1>2, <1>3
  <2>2. CASE s # r
    <3>1. s \in ch \/ (tw[s] # NULL /\ tw[s] \in ch)
      BY <2>2, <1>a DEF Listed
    <3>2. CASE stitch /\ s = t
      BY <3>2, <1>2
    <3>3. CASE ~(stitch /\ s = t)
      <4>1. tw2[s] = tw[s]
        BY <3>3, <2>2, <1>4
      <4> QED BY <3>1, <4>1
    <3> QED BY <3>2, <3>3
  <2> QED BY <2>1, <2>2
<1>9. Unique(T2, ky2)
  BY <1>1, <1>a DEF Unique
<1>10. Stitched(T2, ky2, tw2)
  <2> SUFFICES ASSUME ~NearMatch
               PROVE  /\ \A s \in T2 : tw2[s] # NULL => IsReverse(ky2[s], ky2[tw2[s]])
                      /\ Bidir => \A s, u \in T2 :
                           s # u /\ IsReverse(ky2[s], ky2[u]) => tw2[s] = u
    BY DEF Stitched
  <2>1. \A a, b : IsReverse(a, b) <=> IsReverse(b, a)
    BY DEF IsReverse
  <2>2. stitch => IsReverse(k, ky[t]) /\ IsReverse(ky[t], k)
    BY <2>1, <1>2 DEF TwinSearched
  <2>3. ASSUME NEW s \in T2, tw2[s] # NULL
        PROVE  IsReverse(ky2[s], ky2[tw2[s]])
    <3>1. CASE s = r
      BY <3>1, <2>2, <2>3, <1>1, <1>2, <1>3
    <3>2. CASE s # r /\ stitch /\ s = t
      BY <3>2, <2>2, <1>1, <1>2, <1>4
    <3>3. CASE s # r /\ ~(stitch /\ s = t)
      BY <3>3, <2>3, <1>1, <1>4, <1>a DEF Stitched, ListsTyped
    <3> QED BY <3>1, <3>2, <3>3
  \* Only the stitched record has the reverse of k for its key: another one,
  \* or a stitched one that had a twin, would make k the key of a live record.
  <2>4. ASSUME Bidir, NEW s \in T, IsReverse(k, ky[s])
        PROVE  stitch /\ s = t
    <3>1. t = s /\ t # NULL /\ t # r
      BY <2>4, <1>1, NullAssumption DEF TwinSearched
    <3>2. tw[s] = NULL
      <4> SUFFICES ASSUME tw[s] # NULL PROVE FALSE
        OBVIOUS
      <4>1. tw[s] \in T /\ IsReverse(ky[s], ky[tw[s]])
        BY <1>a DEF ListsTyped, Stitched
      <4>2. \A a, b, c : IsReverse(a, b) /\ IsReverse(b, c) =>
              /\ a.sa = c.sa /\ a.da = c.da /\ a.sp = c.sp
              /\ a.dp = c.dp /\ a.prot = c.prot
        BY DEF IsReverse
      <4>3. ky[tw[s]] \in Keys
        BY <4>1, <1>a DEF ListsTyped
      <4>4. ky[tw[s]] = k
        BY <4>1, <4>2, <4>3, <2>4, KeysAssumption
      <4> QED BY <4>1, <4>4
    <3> QED BY <3>1, <3>2
  <2>5. ASSUME Bidir, NEW s \in T2, NEW u \in T2, s # u, IsReverse(ky2[s], ky2[u])
        PROVE  tw2[s] = u
    <3>1. CASE s = r
      BY <3>1, <2>4, <2>5, <1>1, <1>3
    <3>2. CASE u = r
      BY <3>2, <2>1, <2>4, <2>5, <1>1, <1>4
    <3>3. CASE s # r /\ u # r
      <4>1. s \in T /\ u \in T /\ IsReverse(ky[s], ky[u])
        BY <3>3, <2>5, <1>1
      <4>2. tw[s] = u
        BY <4>1, <2>5, <1>a DEF Stitched
      <4>3. u # NULL
        BY <4>1, <1>1, NullAssumption
      <4> QED BY <4>1, <4>2, <4>3, <1>2, <1>4
    <3> QED BY <3>1, <3>2, <3>3
  <2> QED BY <2>3, <2>5
<1> QED BY <1>5, <1>6, <1>7, <1>8, <1>9, <1>10 DEF ListsOK, ListsOKAfterCreate

-----------------------------------------------------------------------------

(***************************************************************************)
(* The steps.                                                              *)
(***************************************************************************)

TimesTyped == /\ start \in [Rid -> Times \cup {0}]
              /\ end \in [Rid -> Times \cup {0}]

Lists == ListsOK(table, key, twin, older, chrono)

LEMMA DeleteStep ==
  ASSUME Lists, TimesTyped, NEW r \in chrono, DeleteWithTwin(r)
  PROVE  Lists' /\ TimesTyped'
<1>1. Lists'
  BY DeleteKeepsLists DEF Lists, DeleteWithTwin, Delete
<1>2. TimesTyped'
  BY DEF TimesTyped, DeleteWithTwin, Delete, Zeroize
<1> QED BY <1>1, <1>2

\* The search for a twin returns what CreateKeepsLists assumes of it, in the
\* table as it is and in the table after a preemptive timeout.
LEMMA TwinSearch ==
  ASSUME NEW T \in SUBSET table, table \subseteq Rid,
         Unique(T, key), \A s \in T : key[s] \in Keys,
         NEW r \in Rid \ T, NEW k \in Keys, \A s \in T : key[s] # k
  PROVE  TwinSearched(T, key, twin, r, k, flow_key_get_twin(T, r, k))
<1> DEFINE t == flow_key_get_twin(T, r, k)
           S == {s \in Bucket(T, k) : flow_key_is_twin(k, key[s])}
<1>1. S \in SUBSET Rid /\ S \subseteq T /\ find_twin_by_key(T, k) = Youngest(S)
  BY DEF Bucket, find_twin_by_key
<1>2. Youngest(S) \in S \cup {NULL} /\ \A s \in S : S = {s} => Youngest(S) = s
  BY <1>1, SearchResult
<1>3. t \in T \cup {NULL, r}
  BY <1>1, <1>2 DEF flow_key_get_twin
<1>4. \A a, b : ~NearMatch => (flow_key_is_twin(a, b) <=> IsReverse(a, b))
  BY DEF flow_key_is_twin, IsReverse
<1>5. ASSUME ~NearMatch, t # NULL, t # r
      PROVE  IsReverse(k, key[t])
  <2>1. t \in S
    BY <1>1, <1>2, <1>5 DEF flow_key_get_twin
  <2> QED BY <2>1, <1>4, <1>5
<1>6. ASSUME ~NearMatch, Bidir, NEW s \in T, IsReverse(k, key[s])
      PROVE  t = s
  <2>1. \A a, b, c : IsReverse(a, b) /\ IsReverse(a, c) =>
          /\ b.sa = c.sa /\ b.da = c.da /\ b.sp = c.sp
          /\ b.dp = c.dp /\ b.prot = c.prot
    BY DEF IsReverse
  <2>2. \A a, b \in Keys : IsReverse(k, a) /\ IsReverse(k, b) => a = b
    <3> SUFFICES ASSUME NEW a \in Keys, NEW b \in Keys,
                        IsReverse(k, a), IsReverse(k, b)
                 PROVE  a = b
      OBVIOUS
    <3>1. /\ a.sa = b.sa /\ a.da = b.da /\ a.sp = b.sp
          /\ a.dp = b.dp /\ a.prot = b.prot
      BY <2>1
    <3> QED BY <3>1, KeysAssumption
  <2>3. ~flow_key_is_twin(k, k)
    BY <1>4, <1>6, <2>2
  <2>4. s \in S
    BY <1>4, <1>6, ReverseHash DEF Bucket
  <2>5. S = {s}
    <3> SUFFICES ASSUME NEW u \in S PROVE u = s
      BY <2>4
    <3>1. u \in T /\ IsReverse(k, key[u])
      BY <1>1, <1>4, <1>6
    <3>2. key[u] = key[s]
      BY <3>1, <1>6, <2>2
    <3> QED BY <3>1, <3>2 DEF Unique
  <2> QED BY <2>3, <2>5, <2>4, <1>1, <1>2, <1>6 DEF flow_key_get_twin
<1> QED BY <1>3, <1>5, <1>6 DEF TwinSearched

\* A new record is stitched to one whose key is a twin of its own.
LEMMA StitchTarget ==
  ASSUME NEW T \in SUBSET Rid, NEW r, NEW k, IsStitched(r, flow_key_get_twin(T, r, k))
  PROVE  /\ flow_key_get_twin(T, r, k) \in T
         /\ flow_key_is_twin(k, key[flow_key_get_twin(T, r, k)])
<1> DEFINE t == flow_key_get_twin(T, r, k)
           S == {x \in Bucket(T, k) : flow_key_is_twin(k, key[x])}
<1>1. t = find_twin_by_key(T, k) /\ t # NULL
  BY DEF IsStitched, flow_key_get_twin
<1>2. S \in SUBSET Rid /\ t = Youngest(S)
  BY <1>1 DEF Bucket, find_twin_by_key
<1>3. t \in S
  <2> HIDE DEF S, t
  <2> QED BY <1>1, <1>2, SearchResult
<1> QED BY <1>3 DEF Bucket

LEMMA CreateStep ==
  ASSUME Lists, TimesTyped, NEW r \in Rid, NEW k \in Keys,
         NEW st \in Times \cup {0}, NEW en \in Times \cup {0},
         NEW gone, NEW kept,
         \/ gone = {} /\ kept = chrono
         \/ \E e \in chrono : gone = WithTwin(e) /\ kept = chrono \ {e},
         \A s \in table \ gone : key[s] # k,
         CreateRecord(r, k, gone, kept, st, en)
  PROVE  Lists' /\ TimesTyped'
<1> DEFINE T == table \ gone
           ky == Zeroize(key, gone, NULL)
           tw == Zeroize(twin, gone, NULL)
           ol == [s \in Rid |-> IF s \in gone THEN {} ELSE older[s] \ gone]
           t == flow_key_get_twin(T, r, k)
           stitch == t # NULL /\ t # r /\ tw[t] = NULL
<1>1. ListsOK(T, ky, tw, ol, kept)
  <2>1. CASE gone = {} /\ kept = chrono
    <3>1. ky = key /\ tw = twin /\ ol = older /\ T = table
      BY <2>1 DEF Lists, ListsOK, ListsTyped, Zeroize
    <3> QED BY <3>1, <2>1 DEF Lists
  <2>2. CASE \E e \in chrono : gone = WithTwin(e) /\ kept = chrono \ {e}
    BY <2>2, DeleteKeepsLists DEF Lists
  <2> QED BY <2>1, <2>2
<1>2. /\ r \in Rid \ T /\ T \in SUBSET table /\ table \subseteq Rid
      /\ \A s \in T : /\ s \in Rid /\ ky[s] = key[s] /\ tw[s] = twin[s]
                      /\ key[s] \in Keys /\ key[s] # k
  BY DEF CreateRecord, Lists, ListsOK, ListsTyped, Zeroize
<1>3. TwinSearched(T, key, twin, r, k, t)
  <2>1. Unique(T, key)
    BY DEF Lists, ListsOK, Unique
  <2> HIDE DEF T, t
  <2>2. TwinSearched(T, key, twin, r, k, flow_key_get_twin(T, r, k))
    BY <2>1, <1>2, TwinSearch
  <2> QED BY <2>2 DEF t
<1>4. TwinSearched(T, ky, tw, r, k, t)
  BY <1>2, <1>3, NullAssumption DEF TwinSearched
<1>5. IsStitched(r, t) <=> stitch
  BY <1>2, <1>3, NullAssumption DEF IsStitched, TwinSearched
<1>6. /\ table' = T \cup {r}
      /\ key' = [ky EXCEPT ![r] = k]
      /\ twin' = IF stitch THEN [tw EXCEPT ![t] = r, ![r] = t]
                           ELSE [tw EXCEPT ![r] = NULL]
      /\ chrono' = IF stitch THEN kept ELSE kept \cup {r}
  BY <1>5 DEF CreateRecord, flow_record_chrono_list_append
<1>7. older' = [s \in Rid |-> IF s = r THEN T ELSE ol[s]]
  BY DEF CreateRecord
<1>8. Lists'
  <2>0. stitch \in BOOLEAN /\ (stitch <=> (t # NULL /\ t # r /\ tw[t] = NULL))
    OBVIOUS
  <2> HIDE DEF T, ky, tw, ol, t, stitch
  <2>1. ListsOKAfterCreate(T, ky, tw, ol, kept, r, k, t, stitch)
    <3>1. \A s \in T : ky[s] # k
      BY <1>2
    <3>2. r \in Rid \ T
      BY <1>2
    <3> QED BY <3>1, <3>2, <2>0, <1>1, <1>4, CreateKeepsLists
  <2> QED BY <2>1, <1>6, <1>7 DEF Lists, ListsOKAfterCreate
<1>9. TimesTyped'
  BY DEF TimesTyped, CreateRecord, Zeroize
<1> QED BY <1>8, <1>9

LEMMA GetRecordStep ==
  ASSUME Lists, TimesTyped, NEW k \in Keys, NEW expired, NEW refresh,
         NEW st \in Times \cup {0}, NEW en \in Times \cup {0},
         get_record(k, expired, st, en, refresh)
  PROVE  Lists' /\ TimesTyped'
<1> DEFINE r == find_record_by_key(table, k)
<1>1. /\ table \in SUBSET Rid /\ Unique(table, key) /\ chrono \subseteq table
      /\ NULL \notin chrono
  BY NullAssumption DEF Lists, ListsOK, ListsTyped
<1>2. /\ r # NULL => r \in table /\ key[r] = k
      /\ r = NULL => \A s \in table : key[s] # k
  <2> HIDE DEF r
  <2>1. LET x == find_record_by_key(table, k) IN
        /\ x # NULL => x \in table /\ key[x] = k
        /\ x = NULL => \A s \in table : key[s] # k
    BY <1>1, FindRecord
  <2> QED BY <2>1 DEF r
<1> HIDE DEF r
<1>3. CASE UseExisting(k, expired, st, en, refresh)
  BY <1>3 DEF UseExisting, Lists, TimesTyped
<1>4. CASE CreateNew(k, st, en)
  <2>1. r = NULL /\ \E n \in Rid : CreateRecord(n, k, {}, chrono, st, en)
    BY <1>4 DEF CreateNew, r
  <2>2. PICK n \in Rid : CreateRecord(n, k, {}, chrono, st, en)
    BY <2>1
  <2>3. \A s \in table \ {} : key[s] # k
    BY <2>1, <1>2
  <2> QED BY <2>2, <2>3, CreateStep
<1>5. CASE ReplaceExpired(k, expired, st, en)
  <2>1. /\ r \in chrono
        /\ \E n \in Rid : CreateRecord(n, k, WithTwin(r), chrono \ {r}, st, en)
    BY <1>5 DEF ReplaceExpired, r
  <2>2. PICK n \in Rid : CreateRecord(n, k, WithTwin(r), chrono \ {r}, st, en)
    BY <2>1
  <2>3. \A s \in table \ WithTwin(r) : key[s] # k
    <3>1. r # NULL /\ r \in table
      BY <2>1, <1>1
    <3>2. r \in WithTwin(r) /\ key[r] = k
      BY <3>1, <1>2 DEF WithTwin
    <3>3. \A s \in table : key[s] = k => s = r
      BY <3>1, <3>2, <1>1 DEF Unique
    <3> QED BY <3>2, <3>3
  <2> QED BY <2>1, <2>2, <2>3, CreateStep
<1>6. CASE CreateFails(k, expired)
  <2>1. CASE UNCHANGED records
    BY <2>1 DEF records, Lists, TimesTyped
  <2>2. CASE r \in chrono /\ DeleteWithTwin(r)
    BY <2>2, DeleteStep
  <2> QED BY <1>6, <2>1, <2>2 DEF CreateFails, r
<1> QED BY <1>3, <1>4, <1>5, <1>6 DEF get_record

\* What flow_key_get_record does to the set of live records: it deletes the
\* pair that is preempted, and the record it returns, if any, is the only new one.
LEMMA GetRecordTable ==
  ASSUME Lists, TimesTyped, NEW k \in Keys, NEW expired, NEW refresh,
         NEW st \in Times \cup {0}, NEW en \in Times \cup {0},
         get_record(k, expired, st, en, refresh),
         NEW gone, gone = Preempted(k, expired), NEW u, u = Used(k)
  PROVE  /\ gone \subseteq table
         /\ u # NULL => u \in Rid
         /\ table' = (table \ gone) \cup ({u} \ {NULL})
<1> DEFINE r == find_record_by_key(table, k)
<1>1. /\ table \in SUBSET Rid /\ Unique(table, key) /\ chrono \subseteq table
      /\ NULL \notin table /\ \A s \in table : twin[s] \in table \cup {NULL}
      /\ key \in [Rid -> Keys \cup {NULL}]
  BY NullAssumption DEF Lists, ListsOK, ListsTyped
<1>2. /\ r # NULL => r \in table /\ key[r] = k
      /\ r = NULL => \A s \in table : key[s] # k
  <2> HIDE DEF r
  <2>1. LET x == find_record_by_key(table, k) IN
        /\ x # NULL => x \in table /\ key[x] = k
        /\ x = NULL => \A s \in table : key[s] # k
    BY <1>1, FindRecord
  <2> QED BY <2>1 DEF r
<1>3. /\ \A x \in table' : key'[x] = k => u = x
      /\ (\A x \in table' : key'[x] # k) => u = NULL
  <2>1. Unique(table', key')
    BY GetRecordStep DEF Lists, ListsOK
  <2> QED BY <2>1 DEF Used, Unique
<1>4. gone = IF r \in chrono \cap expired THEN WithTwin(r) ELSE {}
  BY DEF Preempted
<1> HIDE DEF r
<1>5. r \in chrono => WithTwin(r) \subseteq table /\ r \in WithTwin(r)
  BY <1>1 DEF WithTwin
<1>6. CASE UseExisting(k, expired, st, en, refresh)
  <2>1. r \in table /\ key'[r] = k /\ table' = table /\ gone = {}
    BY <1>2, <1>4, <1>6 DEF UseExisting, r
  <2> QED BY <1>1, <1>3, <2>1
<1>7. ASSUME NEW n \in Rid, NEW kept, CreateRecord(n, k, gone, kept, st, en), gone \subseteq table
      PROVE  table' = (table \ gone) \cup ({u} \ {NULL}) /\ u = n
  <2>1. table' = (table \ gone) \cup {n} /\ key'[n] = k
    BY <1>1, <1>7 DEF CreateRecord, Zeroize
  <2> QED BY <1>3, <2>1, NullAssumption
<1>8. CASE CreateNew(k, st, en)
  <2>1. r = NULL /\ \E n \in Rid : CreateRecord(n, k, {}, chrono, st, en)
    BY <1>8 DEF CreateNew, r
  <2>2. gone = {}
    BY <1>1, <1>4, <2>1
  <2> QED BY <1>7, <2>1, <2>2
<1>9. CASE ReplaceExpired(k, expired, st, en)
  <2>1. /\ r \in chrono \cap expired
        /\ \E n \in Rid : CreateRecord(n, k, WithTwin(r), chrono \ {r}, st, en)
    BY <1>9 DEF ReplaceExpired, r
  <2>2. gone = WithTwin(r) /\ gone \subseteq table
    BY <1>4, <1>5, <2>1
  <2> QED BY <1>7, <2>1, <2>2
<1>10. CASE CreateFails(k, expired)
  <2>1. CASE r = NULL /\ UNCHANGED records
    <3>1. u = NULL /\ gone = {} /\ table' = table
      BY <1>1, <1>2, <1>3, <1>4, <2>1 DEF records
    <3> QED BY <3>1
  <2>2. CASE r \in chrono \cap expired /\ DeleteWithTwin(r)
    <3>1. gone = WithTwin(r) /\ gone \subseteq table /\ r \in gone
      BY <1>4, <1>5, <2>2
    <3>2. table' = table \ gone /\ \A x \in table' : key'[x] = key[x]
      BY <1>1, <2>2, <3>1 DEF DeleteWithTwin, Delete, Zeroize
    <3>3. \A x \in table' : key'[x] # k
      BY <1>1, <1>2, <2>2, <3>1, <3>2 DEF Unique
    <3> QED BY <1>3, <3>1, <3>2, <3>3
  <2> QED BY <1>10, <2>1, <2>2 DEF CreateFails, r
<1> QED BY <1>6, <1>8, <1>9, <1>10 DEF get_record

\* A record keeps its key until it is deleted.
LEMMA KeysStay ==
  ASSUME Lists, NEW k, NEW expired, NEW refresh, NEW st, NEW en,
         get_record(k, expired, st, en, refresh), NEW s \in table \ Preempted(k, expired)
  PROVE  key'[s] = key[s]
<1> DEFINE r == find_record_by_key(table, k)
           gone == Preempted(k, expired)
<1>1. table \in SUBSET Rid /\ NULL \notin table /\ chrono \subseteq table
  BY NullAssumption DEF Lists, ListsOK, ListsTyped
<1>2. gone = IF r \in chrono \cap expired THEN WithTwin(r) ELSE {}
  BY DEF Preempted
<1> HIDE DEF r, gone
<1>3. s \in table /\ s \notin gone /\ s \in Rid
  BY <1>1 DEF gone
<1>4. ASSUME NEW n, NEW d, NEW kept, CreateRecord(n, k, d, kept, st, en), s \notin d
      PROVE  key'[s] = key[s]
  BY <1>3, <1>4 DEF CreateRecord, Zeroize
<1>5. CASE UseExisting(k, expired, st, en, refresh)
  BY <1>5 DEF UseExisting
<1>6. CASE CreateNew(k, st, en)
  BY <1>4, <1>6 DEF CreateNew
<1>7. CASE ReplaceExpired(k, expired, st, en)
  BY <1>2, <1>3, <1>4, <1>7 DEF ReplaceExpired, r
<1>8. CASE CreateFails(k, expired)
  <2>1. CASE UNCHANGED records
    BY <2>1 DEF records
  <2>2. CASE r \in chrono \cap expired /\ DeleteWithTwin(r)
    BY <1>2, <1>3, <2>2 DEF DeleteWithTwin, Delete, Zeroize
  <2> QED BY <1>8, <2>1, <2>2 DEF CreateFails, r
<1> QED BY <1>5, <1>6, <1>7, <1>8 DEF get_record

\* A walk deletes the current record and its twin or leaves them, and neither is
\* the record it read as the next one.
LEMMA WalkStepKeepsInv ==
  ASSUME IInv, cur # NULL, cur' = NextRecord, UNCHANGED records \/ DeleteWithTwin(cur)
  PROVE  Lists' /\ TimesTyped' /\ cur' \in chrono' \cup {NULL}
<1> DEFINE S == {s \in chrono : cur \in older[s]}
<1>1. Lists /\ TimesTyped /\ cur \in chrono /\ cur' = Oldest(S)
  BY DEF IInv, TypeOK, Lists, TimesTyped, NextRecord, TimeNext
<1>2. chrono \subseteq table /\ table \subseteq Rid
  BY <1>1 DEF Lists, ListsOK, ListsTyped
<1>3. cur \notin S
  BY <1>1, <1>2 DEF Lists, ListsOK, OrderAsymmetric
<1>4. cur' \in (chrono \ {cur}) \cup {NULL}
  <2>1. S \in SUBSET Rid /\ S \subseteq chrono
    BY <1>2
  <2>2. Oldest(S) \in S \cup {NULL}
    BY <2>1, SearchResult
  <2> QED BY <2>1, <2>2, <1>1, <1>3
<1>5. CASE UNCHANGED records
  BY <1>1, <1>4, <1>5 DEF records, Lists, TimesTyped
<1>6. CASE DeleteWithTwin(cur)
  <2>1. chrono' = chrono \ {cur}
    BY <1>6 DEF DeleteWithTwin, Delete
  <2> QED BY <2>1, <1>1, <1>4, <1>6, DeleteStep
<1> QED BY <1>5, <1>6

\* flow_record_list_free leaves empty lists, whatever it finds.
LEMMA ListFreeStep ==
  ASSUME Lists, TimesTyped, flow_record_list_free
  PROVE  Lists' /\ TimesTyped'
<1>1. /\ table' = {} /\ chrono' = {}
      /\ key' = Zeroize(key, table, NULL) /\ twin' = Zeroize(twin, table, NULL)
      /\ older' = Zeroize(older, table, {})
      /\ start' = Zeroize(start, table, 0) /\ end' = Zeroize(end, table, 0)
  BY DEF flow_record_list_free
<1>2. /\ key \in [Rid -> Keys \cup {NULL}] /\ twin \in [Rid -> Rid \cup {NULL}]
      /\ older \in [Rid -> SUBSET Rid]
  BY DEF Lists, ListsOK, ListsTyped
<1>3. /\ key' \in [Rid -> Keys \cup {NULL}] /\ twin' \in [Rid -> Rid \cup {NULL}]
      /\ older' \in [Rid -> SUBSET Rid]
  BY <1>1, <1>2 DEF Zeroize
<1>4. ListsTyped({}, key', twin', older', {})
  BY <1>3 DEF ListsTyped
<1>5. Lists'
  BY <1>1, <1>4 DEF Lists, ListsOK, OrderAsymmetric, Paired, Listed, Unique, Stitched
<1>6. TimesTyped'
  BY <1>1 DEF TimesTyped, Zeroize
<1> QED BY <1>5, <1>6

-----------------------------------------------------------------------------

LEMMA InitInv == Init => IInv
<1> SUFFICES ASSUME Init PROVE IInv
  OBVIOUS
<1>1. TypeOK
  BY DEF Init, TypeOK, WalkTypes
<1>2. ListsOK(table, key, twin, older, chrono)
  BY DEF Init, ListsOK, ListsTyped, OrderAsymmetric, Paired, Listed, Unique, Stitched
<1> QED BY <1>1, <1>2 DEF Init, IInv

\* IInv is put together from what each step keeps: the lists, the timestamps,
\* the clock and the cursor.
LEMMA InvFromParts ==
  ASSUME Lists', TimesTyped', global_time' \in Times \cup {0},
         cur' \in chrono' \cup {NULL}, walk' \in WalkTypes
  PROVE  IInv'
BY DEF Lists, TimesTyped, IInv, TypeOK, ListsOK, ListsTyped

LEMMA StepInv == IInv /\ [Next]_vars => IInv'
<1> SUFFICES ASSUME IInv, [Next]_vars PROVE IInv'
  OBVIOUS
<1>1. /\ Lists /\ TimesTyped /\ global_time \in Times \cup {0}
      /\ cur \in chrono \cup {NULL} /\ walk \in WalkTypes
  BY DEF IInv, TypeOK, Lists, TimesTyped
<1>2. ASSUME NEW k \in Keys, NEW ts \in Times, process_packet(k, ts)
      PROVE  IInv'
  <2>1. /\ get_record(k, active_expired(ts), ts, ts, TRUE)
        /\ global_time' = (IF global_time < ts THEN ts ELSE global_time)
        /\ cur' = NULL /\ walk' = walk
    BY <1>2 DEF process_packet, AdvanceTime, NotWalking
  <2>2. Lists' /\ TimesTyped'
    BY <2>1, <1>1, GetRecordStep
  <2> QED BY <2>1, <2>2, <1>1, InvFromParts
<1>3. ASSUME NEW k \in Keys, NEW ts \in Times, process_retransmission(k, ts)
      PROVE  IInv'
  <2>1. /\ get_record(k, active_expired(ts), 0, 0, FALSE)
        /\ global_time' = (IF global_time < ts THEN ts ELSE global_time)
        /\ cur' = NULL /\ walk' = walk
    BY <1>3 DEF process_retransmission, AdvanceTime, NotWalking
  <2>2. Lists' /\ TimesTyped'
    BY <2>1, <1>1, GetRecordStep
  <2> QED BY <2>1, <2>2, <1>1, InvFromParts
<1>4. ASSUME NEW k \in Keys, NEW x \in Exported, collect_flow(k, x[1], x[2])
      PROVE  IInv'
  <2>1. x[1] \in Times \cup {0} /\ x[2] \in Times \cup {0}
    BY ConfigAssumption
  <2>2. /\ get_record(k, active_expired_no_header, x[1], x[2], FALSE)
        /\ global_time' = global_time /\ cur' = NULL /\ walk' = walk
    BY <1>4 DEF collect_flow, NotWalking
  <2>3. Lists' /\ TimesTyped'
    BY <2>1, <2>2, <1>1, GetRecordStep
  <2> QED BY <2>2, <2>3, <1>1, InvFromParts
<1>5. ASSUME NEW type \in WalkTypes, StartWalk(type)
      PROVE  IInv'
  <2>1. /\ UNCHANGED <<records, global_time>>
        /\ cur' = Oldest(chrono) /\ walk' = type
    BY <1>5 DEF StartWalk
  <2>2. chrono \in SUBSET Rid
    BY <1>1 DEF Lists, ListsOK, ListsTyped
  <2>3. cur' \in chrono \cup {NULL}
    BY <2>1, <2>2, SearchResult
  <2>4. Lists' /\ TimesTyped' /\ chrono' = chrono
    BY <2>1, <1>1 DEF records, Lists, TimesTyped
  <2> QED BY <2>1, <2>3, <2>4, <1>1, InvFromParts
<1>6. CASE WalkStep
  <2>1. Lists' /\ TimesTyped' /\ cur' \in chrono' \cup {NULL}
    BY <1>6, WalkStepKeepsInv DEF WalkStep
  <2>2. global_time' = global_time /\ walk' = walk
    BY <1>6 DEF WalkStep
  <2> QED BY <2>1, <2>2, <1>1, InvFromParts
<1>7. ASSUME NEW r \in Rid, remove_record_and_update_list(r)
      PROVE  IInv'
  <2>1. /\ r \in chrono /\ DeleteWithTwin(r)
        /\ global_time' = global_time /\ cur' = NULL /\ walk' = walk
    BY <1>7 DEF remove_record_and_update_list, NotWalking
  <2>2. Lists' /\ TimesTyped'
    BY <2>1, <1>1, DeleteStep
  <2> QED BY <2>1, <2>2, <1>1, InvFromParts
<1>8. CASE flow_record_list_free
  <2>1. global_time' = global_time /\ cur' = NULL /\ walk' = walk
    BY <1>8 DEF flow_record_list_free, NotWalking
  <2>2. Lists' /\ TimesTyped'
    BY <1>8, <1>1, ListFreeStep
  <2> QED BY <2>1, <2>2, <1>1, InvFromParts
<1>9. CASE UNCHANGED vars
  BY <1>9, <1>1, InvFromParts DEF vars, records, Lists, TimesTyped
<1> QED BY <1>2, <1>3, <1>4, <1>5, <1>6, <1>7, <1>8, <1>9 DEF Next

LEMMA Inductive == Spec => []IInv
BY InitInv, StepInv, PTL DEF Spec

(***************************************************************************)
(* Walks.  Every part of a list has an oldest record, with which a walk of *)
(* it begins; no finiteness is needed, because a record is younger than    *)
(* all that were there when it was created.                                *)
(***************************************************************************)
Ordered == \A S \in SUBSET table : S # {} => \E r \in S : IsOldest(r, S)

LEMMA DeleteKeepsOrder ==
  ASSUME Ordered, table \subseteq Rid, NEW r, NEW gone, Delete(r, gone)
  PROVE  Ordered'
<1> SUFFICES ASSUME NEW S \in SUBSET table', S # {}
             PROVE  \E m \in S : \A s \in S \ {m} : m \in older'[s]
  BY DEF Ordered, IsOldest
<1>1. S \subseteq table /\ S \cap gone = {}
  BY DEF Delete
<1>2. PICK m \in S : \A s \in S \ {m} : m \in older[s]
  BY <1>1 DEF Ordered, IsOldest
<1>3. \A s \in S : older'[s] = older[s] \ gone
  BY <1>1 DEF Delete
<1> QED BY <1>1, <1>2, <1>3

LEMMA CreateKeepsOrder ==
  ASSUME Ordered, table \subseteq Rid, NEW r, NEW k, NEW gone, NEW kept, NEW st, NEW en,
         CreateRecord(r, k, gone, kept, st, en)
  PROVE  Ordered'
<1> SUFFICES ASSUME NEW S \in SUBSET table', S # {}
             PROVE  \E m \in S : \A s \in S \ {m} : m \in older'[s]
  BY DEF Ordered, IsOldest
<1> DEFINE T == table \ gone
<1>1. /\ r \in Rid \ T /\ S \subseteq T \cup {r} /\ older'[r] = T
      /\ \A s \in T : older'[s] = older[s] \ gone
  BY DEF CreateRecord
<1>2. CASE S = {r}
  BY <1>2
<1>3. CASE S # {r}
  <2> DEFINE U == S \ {r}
  <2>1. U # {} /\ U \in SUBSET table /\ U \subseteq T
    BY <1>1, <1>3
  <2> HIDE DEF U
  <2>2. PICK m \in U : \A s \in U \ {m} : m \in older[s]
    BY <2>1 DEF Ordered, IsOldest
  <2>3. m \in T /\ \A s \in U \ {m} : m \in older'[s]
    BY <2>1, <2>2, <1>1
  <2>4. \A s \in S \ {m} : m \in older'[s]
    BY <2>3, <1>1 DEF U
  <2>5. m \in S
    BY <2>2 DEF U
  <2> QED BY <2>4, <2>5
<1> QED BY <1>2, <1>3

LEMMA GetRecordKeepsOrder ==
  ASSUME Ordered, table \subseteq Rid, NEW k, NEW expired, NEW st, NEW en, NEW refresh,
         get_record(k, expired, st, en, refresh)
  PROVE  Ordered'
<1>1. CASE UNCHANGED <<table, older>>
  BY <1>1 DEF Ordered, IsOldest
<1>2. CASE \E r, gone, kept : CreateRecord(r, k, gone, kept, st, en)
  BY <1>2, CreateKeepsOrder
<1>3. CASE \E r : DeleteWithTwin(r)
  BY <1>3, DeleteKeepsOrder DEF DeleteWithTwin
<1> QED
  BY <1>1, <1>2, <1>3
  DEF get_record, UseExisting, CreateNew, ReplaceExpired, CreateFails, records

LEMMA OrderStep ==
  ASSUME IInv, Ordered, [Next]_vars
  PROVE  Ordered'
<1>1. table \subseteq Rid
  BY DEF IInv, TypeOK
<1>2. CASE UNCHANGED <<table, older>>
  BY <1>2 DEF Ordered, IsOldest
<1>3. CASE \E k, expired, st, en, refresh : get_record(k, expired, st, en, refresh)
  BY <1>1, <1>3, GetRecordKeepsOrder
<1>4. CASE \E r : DeleteWithTwin(r)
  BY <1>1, <1>4, DeleteKeepsOrder DEF DeleteWithTwin
<1>5. CASE flow_record_list_free
  BY <1>5 DEF flow_record_list_free, Ordered
<1> QED
  BY <1>2, <1>3, <1>4, <1>5
  DEF Next, vars, records, process_packet, process_retransmission, collect_flow, StartWalk,
      WalkStep, remove_record_and_update_list

\* What a walk has passed and left behind was not to be reported.
Passed ==
  cur # NULL => \A r \in chrono :
    \/ r = cur \/ cur \in older[r]
    \/ walk = "JOY_EXPIRED_FLOWS" /\ ~flow_record_is_expired(r)

\* The deletion of a pair has no effect on the records that are left.
LEMMA OthersUntouched ==
  ASSUME IInv, IInv', NEW c \in chrono, DeleteWithTwin(c), NEW r \in chrono'
  PROVE  /\ r \in chrono /\ r # c
         /\ older'[r] = older[r] \ WithTwin(c)
         /\ WithTwin(r)' = WithTwin(r)
         /\ \A s \in WithTwin(r) : start'[s] = start[s] /\ end'[s] = end[s]
<1> DEFINE gone == WithTwin(c)
<1>1. /\ r \in chrono \ {c} /\ r \in table' /\ table' = table \ gone
      /\ chrono \subseteq table /\ table \subseteq Rid
  BY DEF DeleteWithTwin, Delete, IInv, ListsOK, ListsTyped
<1>2. /\ \A s \in table : twin[s] \in table \cup {NULL}
      /\ \A s \in table : twin[s] # NULL => twin[twin[s]] = s
  BY DEF IInv, ListsOK, ListsTyped, Paired
<1>3. r \notin gone /\ r \in table /\ r \in Rid
  BY <1>1
<1>4. WithTwin(r) \cap gone = {}
  <2>1. ASSUME twin[r] \in gone, twin[r] # NULL PROVE FALSE
    <3>1. twin[r] = c \/ twin[r] = twin[c]
      BY <2>1 DEF WithTwin
    <3>2. twin[twin[r]] = r
      BY <1>2, <1>3, <2>1
    <3>3. c \in table /\ c # NULL
      BY <1>1, NullAssumption
    <3>4. CASE twin[r] = c
      BY <3>2, <3>4, <1>3, <1>1, NullAssumption DEF WithTwin
    <3>5. CASE twin[r] = twin[c]
      BY <3>2, <3>3, <3>5, <1>1, <1>2, <2>1
    <3> QED BY <3>1, <3>4, <3>5
  <2> QED BY <2>1, <1>3 DEF WithTwin
<1>5. WithTwin(r) \subseteq Rid
  BY <1>1, <1>2, <1>3 DEF WithTwin
<1>6. older'[r] = older[r] \ gone /\ twin'[r] = twin[r]
  BY <1>3 DEF DeleteWithTwin, Delete, Zeroize
<1>7. \A s \in WithTwin(r) : start'[s] = start[s] /\ end'[s] = end[s]
  BY <1>4, <1>5 DEF DeleteWithTwin, Delete, Zeroize
<1> QED BY <1>1, <1>6, <1>7 DEF WithTwin

LEMMA ExpiryKept ==
  ASSUME IInv, IInv', NEW c \in chrono, DeleteWithTwin(c) \/ UNCHANGED records,
         UNCHANGED global_time, NEW r \in chrono'
  PROVE  flow_record_is_expired(r)' <=> flow_record_is_expired(r)
<1>1. CASE DeleteWithTwin(c)
  BY <1>1, OthersUntouched DEF flow_record_is_expired
<1>2. CASE UNCHANGED records
  BY <1>2 DEF flow_record_is_expired, WithTwin, records
<1> QED BY <1>1, <1>2

\* A walk goes from a record to the oldest of the younger ones.
LEMMA OldestOf ==
  ASSUME Ordered, table \subseteq Rid, NEW S \in SUBSET table
  PROVE  /\ S = {} <=> Oldest(S) = NULL
         /\ S # {} => Oldest(S) \in S /\ IsOldest(Oldest(S), S)
BY NullAssumption DEF Ordered, Oldest

LEMMA PassedStep ==
  ASSUME IInv, IInv', Ordered, Passed, [Next]_vars
  PROVE  Passed'
<1>1. chrono \subseteq table /\ table \subseteq Rid
  BY DEF IInv, TypeOK, ListsOK, ListsTyped
<1>2. CASE UNCHANGED vars
  BY <1>2 DEF Passed, vars, records, flow_record_is_expired, WithTwin
<1>3. CASE cur' = NULL
  BY <1>3 DEF Passed
<1>4. ASSUME NEW type \in WalkTypes, StartWalk(type) PROVE Passed'
  <2>1. cur' = Oldest(chrono) /\ chrono' = chrono /\ older' = older
    BY <1>4 DEF StartWalk, records
  <2>2. IsOldest(cur', chrono)
    BY <1>1, <1>4, <2>1, OldestOf DEF StartWalk
  <2> QED BY <2>1, <2>2 DEF Passed, IsOldest
<1>5. CASE WalkStep /\ cur' # NULL
  <2> DEFINE S == {s \in chrono : cur \in older[s]}
  <2>1. /\ cur \in chrono /\ cur' = Oldest(S) /\ S \in SUBSET table
        /\ DeleteWithTwin(cur) \/ UNCHANGED records
        /\ global_time' = global_time /\ walk' = walk
    BY <1>1, <1>5 DEF WalkStep, NextRecord, TimeNext, IInv
  <2>2. IsOldest(cur', S)
    <3> HIDE DEF S
    <3> QED BY <1>1, <1>5, <2>1, OldestOf
  <2>3. SUFFICES ASSUME NEW r \in chrono', r # cur'
                 PROVE  \/ cur' \in older'[r]
                        \/ walk' = "JOY_EXPIRED_FLOWS" /\ ~flow_record_is_expired(r)'
    BY DEF Passed
  <2>4. r \in chrono
    BY <2>1, OthersUntouched DEF records
  <2>5. flow_record_is_expired(r)' <=> flow_record_is_expired(r)
    BY <2>1, <2>3, ExpiryKept
  <2>6. CASE r = cur
    <3>1. Skipped(cur)
      BY <1>5, <2>1, <2>3, <2>6, OthersUntouched DEF WalkStep
    <3> QED BY <3>1, <2>1, <2>5, <2>6 DEF Skipped
  <2>7. CASE cur \in older[r]
    <3>1. cur' \in older[r]
      BY <2>2, <2>3, <2>4, <2>7 DEF IsOldest
    <3>2. CASE UNCHANGED records
      BY <3>1, <3>2 DEF records
    <3>3. CASE DeleteWithTwin(cur)
      <4>1. cur' \in table' /\ table' = table \ WithTwin(cur)
        BY <1>5, <3>3 DEF IInv, ListsOK, ListsTyped, DeleteWithTwin, Delete
      <4> QED BY <3>1, <3>3, <4>1, <2>1, <2>3, OthersUntouched
    <3> QED BY <3>2, <3>3, <2>1
  <2>8. CASE walk = "JOY_EXPIRED_FLOWS" /\ ~flow_record_is_expired(r)
    BY <2>1, <2>5, <2>8
  <2>9. cur # NULL
    BY <1>5 DEF WalkStep
  <2> QED BY <2>4, <2>6, <2>7, <2>8, <2>9 DEF Passed
<1> QED
  BY <1>2, <1>3, <1>4, <1>5
  DEF Next, process_packet, process_retransmission, collect_flow, NotWalking,
      remove_record_and_update_list, flow_record_list_free

LEMMA WalkEnd ==
  ASSUME IInv, IInv', Ordered, Passed, [Next]_vars, cur # NULL, cur' = NULL
  PROVE  IF walk = "JOY_ALL_FLOWS" THEN table' = {}
         ELSE \A r \in chrono' : ~flow_record_is_expired(r)'
<1> DEFINE S == {s \in chrono : cur \in older[s]}
<1>1. WalkStep
  BY DEF vars, Next, process_packet, process_retransmission, collect_flow, NotWalking,
         remove_record_and_update_list, flow_record_list_free, StartWalk
<1>2. /\ cur \in chrono /\ S \in SUBSET table /\ Oldest(S) = NULL
      /\ DeleteWithTwin(cur) \/ UNCHANGED records
      /\ global_time' = global_time /\ walk \in WalkTypes
  BY <1>1 DEF WalkStep, NextRecord, TimeNext, IInv, TypeOK, ListsOK, ListsTyped
<1>3. S = {}
  <2> HIDE DEF S
  <2> QED BY <1>2, OldestOf DEF IInv, TypeOK
<1>4. \A r \in chrono : r = cur \/ (walk = "JOY_EXPIRED_FLOWS" /\ ~flow_record_is_expired(r))
  BY <1>3 DEF Passed
<1>5. CASE walk = "JOY_ALL_FLOWS"
  <2>1. chrono' = {}
    BY <1>1, <1>4, <1>5 DEF WalkStep, Skipped, DeleteWithTwin, Delete
  <2> QED BY <2>1, <1>5 DEF IInv, ListsOK, Listed
<1>6. CASE walk = "JOY_EXPIRED_FLOWS"
  <2> SUFFICES ASSUME NEW r \in chrono' PROVE ~flow_record_is_expired(r)'
    BY <1>6
  <2>1. flow_record_is_expired(r)' <=> flow_record_is_expired(r)
    BY <1>2, ExpiryKept
  <2>2. r \in chrono
    BY <1>2, OthersUntouched DEF records
  <2>3. CASE r = cur
    BY <1>1, <1>2, <2>1, <2>3, OthersUntouched DEF WalkStep, Skipped
  <2> QED BY <1>4, <2>1, <2>2, <2>3
<1> QED BY <1>2, <1>5, <1>6 DEF WalkTypes

(***************************************************************************)
(* The theorems.                                                           *)
(***************************************************************************)

\* flow_record_t keeps its types.
THEOREM TypeCorrect == Spec => []TypeOK
<1>1. IInv => TypeOK
  BY DEF IInv
<1> QED BY <1>1, Inductive, PTL

\* No list, twin pointer or walk of the chronological list ever refers to a
\* record that flow_record_delete has freed.
THEOREM NoUseAfterFree == Spec => []NoDanglingPointer
<1>1. IInv => NoDanglingPointer
  BY DEF IInv, ListsOK, ListsTyped, NoDanglingPointer
<1> QED BY <1>1, Inductive, PTL

\* flow_key_get_record stitches symmetrically, and leaves exactly the elder of
\* two twins on the chronological list.
THEOREM TwinPointersPair == Spec => []TwinsPaired
<1>1. IInv => TwinsPaired
  BY DEF IInv, ListsOK, Paired, TwinsPaired
<1> QED BY <1>1, Inductive, PTL

\* Every live record is on the chronological list or is the twin of one that
\* is, so the export walks reach it.
THEOREM EveryRecordReported == Spec => []NothingLeaks
<1>1. IInv => NothingLeaks
  BY DEF IInv, ListsOK, Listed, NothingLeaks
<1> QED BY <1>1, Inductive, PTL

\* All three: no pointer of the flow table is ever wrong.
THEOREM PointersAreSound == Spec => []PointersSound
<1>1. IInv => PointersSound
  BY DEF IInv, ListsOK, ListsTyped, Paired, Listed, PointersSound, NoDanglingPointer,
         TwinsPaired, NothingLeaks
<1> QED BY <1>1, Inductive, PTL

\* flow_key_get_record keeps at most one record per 5-tuple.
THEOREM OneRecordPerKey == Spec => []KeysUnique
<1>1. IInv => KeysUnique
  BY DEF IInv, ListsOK, Unique, KeysUnique
<1> QED BY <1>1, Inductive, PTL

\* Under EXACT_MATCH the two directions of a conversation are always stitched,
\* as p2f.h promises of flow_key_get_record.
THEOREM ExactMatchStitches == ~NearMatch => (Spec => []DirectionsStitched)
<1> SUFFICES ASSUME ~NearMatch PROVE Spec => []DirectionsStitched
  OBVIOUS
<1>1. IInv => DirectionsStitched
  BY DEF IInv, ListsOK, Stitched, DirectionsStitched
<1> QED BY <1>1, Inductive, PTL

\* When a walk of the list is over, no flow it was to report is left: none at
\* all, or none that has expired.
THEOREM WalksAreComplete == Spec => WalkIsComplete
<1>1. Init => IInv /\ Ordered /\ Passed
  BY InitInv, NullAssumption DEF Init, Ordered, Passed
<1>2. IInv /\ Ordered /\ Passed /\ [Next]_vars => (IInv /\ Ordered /\ Passed)'
  BY StepInv, OrderStep, PassedStep
<1>3. IInv /\ Ordered /\ Passed /\ [Next]_vars =>
        [cur # NULL /\ cur' = NULL =>
           IF walk = "JOY_ALL_FLOWS" THEN table' = {}
           ELSE \A r \in chrono' : ~flow_record_is_expired(r)']_vars
  BY StepInv, WalkEnd
<1> QED BY <1>1, <1>2, <1>3, PTL DEF Spec, WalkIsComplete

(***************************************************************************)
(* FlowTable implements FlowStore: seen as the flows on the chronological  *)
(* list, each call of the code adds a key, reports a flow, does both for   *)
(* one flow, drops all, or changes nothing.                                *)
(***************************************************************************)
Flows(C) == {FlowOf(r) : r \in C}

LEMMA TableShape ==
  ASSUME IInv
  PROVE  /\ chrono \subseteq table /\ table \subseteq Rid /\ NULL \notin table
         /\ \A r \in table : key[r] \in Keys /\ key[r] # NULL
         /\ \A r, s \in table : key[r] = key[s] => r = s
BY NullAssumption, NullKeyAssumption DEF IInv, ListsOK, ListsTyped, Unique

LEMMA TwinsInTable ==
  ASSUME IInv
  PROVE  /\ \A r \in table : twin[r] \in table \cup {NULL}
         /\ \A r \in table : twin[r] # NULL => twin[twin[r]] = r
BY DEF IInv, ListsOK, ListsTyped, Paired

LEMMA RecordsOfFlow ==
  ASSUME IInv, NEW r \in chrono
  PROVE  r \in WithTwin(r) /\ WithTwin(r) \subseteq table /\ WithTwin(r) \subseteq Rid
<1>1. r \in table /\ r # NULL /\ table \subseteq Rid
  BY TableShape
<1>2. twin[r] \in table \cup {NULL}
  BY <1>1, TwinsInTable
<1>3. WithTwin(r) \subseteq table
  BY <1>1, <1>2 DEF WithTwin
<1> QED BY <1>1, <1>3 DEF WithTwin

LEMMA FlowsDistinct ==
  ASSUME IInv, NEW r \in chrono, NEW s \in chrono, FlowOf(r) = FlowOf(s)
  PROVE  r = s
<1>1. key[r] = key[s]
  BY DEF FlowOf
<1> QED BY <1>1, TableShape

\* Two flows have no record in common.
LEMMA Apart ==
  ASSUME IInv, NEW r \in chrono, NEW s \in chrono, r # s
  PROVE  WithTwin(r) \cap WithTwin(s) = {}
<1>1. /\ \A x \in table : twin[x] # NULL => twin[twin[x]] = x
      /\ \A x \in chrono : twin[x] # NULL => twin[x] \notin chrono
      /\ r \in table /\ s \in table /\ r # NULL /\ s # NULL
  BY TableShape, TwinsInTable DEF IInv, ListsOK, Paired
<1>2. twin[r] # NULL /\ twin[r] = twin[s] => r = s
  BY <1>1
<1> QED BY <1>1, <1>2 DEF WithTwin

\* A record that is not among the deleted ones keeps its flow, unless it is
\* stitched to the new record.
LEMMA FlowKept ==
  ASSUME IInv, NEW gone, NEW r \in chrono, WithTwin(r) \cap gone = {},
         \A s \in WithTwin(r) : key'[s] = key[s], twin'[r] = twin[r]
  PROVE  FlowOf(r)' = FlowOf(r)
<1>1. r \in WithTwin(r) /\ (twin[r] # NULL => twin[r] \in WithTwin(r))
  BY TableShape DEF WithTwin
<1> QED BY <1>1 DEF FlowOf

LEMMA DeleteReports ==
  ASSUME IInv, NEW e \in chrono, DeleteWithTwin(e)
  PROVE  Flows(chrono)' = Flows(chrono) \ {FlowOf(e)}
<1>1. chrono' = chrono \ {e}
  BY DEF DeleteWithTwin, Delete
<1>2. ASSUME NEW r \in chrono' PROVE FlowOf(r)' = FlowOf(r)
  <2>1. r \in chrono /\ WithTwin(r) \cap WithTwin(e) = {}
    BY <1>1, <1>2, Apart
  <2>2. r \in WithTwin(r) /\ WithTwin(r) \subseteq Rid
    BY <2>1, RecordsOfFlow
  <2>3. twin'[r] = twin[r] /\ \A s \in WithTwin(r) : key'[s] = key[s]
    BY <2>1, <2>2 DEF DeleteWithTwin, Delete, Zeroize
  <2> QED BY <2>1, <2>3, FlowKept
<1>3. Flows(chrono)' = Flows(chrono')
  BY <1>2 DEF Flows
<1>4. \A r \in chrono' : FlowOf(r) # FlowOf(e)
  BY <1>1, FlowsDistinct
<1> QED BY <1>1, <1>3, <1>4 DEF Flows

\* A new record for a key that is not in the table joins the flow it is
\* stitched to or begins one.
LEMMA CreateAdds ==
  ASSUME IInv, NEW k \in Keys, NEW n \in Rid, NEW st, NEW en, NEW gone, NEW kept,
         kept \subseteq chrono, kept \subseteq table \ gone,
         \A s \in kept : WithTwin(s) \cap gone = {},
         \A s \in chrono \ kept : s \in gone,
         \A s \in table \ gone : key[s] # k,
         CreateRecord(n, k, gone, kept, st, en)
  PROVE  Store!Added(Flows(kept), k, Flows(chrono)')
<1> DEFINE T == table \ gone
           live == Zeroize(twin, gone, NULL)
           new == [fwd |-> k, rev |-> NULL]
<1>0. PICK t : t = flow_key_get_twin(T, n, k)
  OBVIOUS
<1>1. /\ T \in SUBSET Rid /\ n \in Rid \ T
      /\ twin \in [Rid -> Rid \cup {NULL}] /\ key \in [Rid -> Keys \cup {NULL}]
  BY DEF IInv, TypeOK, CreateRecord
<1>2. /\ key' = [Zeroize(key, gone, NULL) EXCEPT ![n] = k]
      /\ twin' = IF IsStitched(n, t) THEN [live EXCEPT ![t] = n, ![n] = t]
                                     ELSE [live EXCEPT ![n] = NULL]
      /\ chrono' = IF IsStitched(n, t) THEN kept ELSE kept \cup {n}
  BY <1>0 DEF CreateRecord, flow_record_chrono_list_append
<1>3. live \in [Rid -> Rid \cup {NULL}] /\ \A s \in T : live[s] = twin[s]
  BY <1>1 DEF Zeroize
<1>4. key'[n] = k /\ \A s \in T : key'[s] = key[s]
  BY <1>1, <1>2 DEF Zeroize
<1>5. \A s \in kept : s \in WithTwin(s) /\ WithTwin(s) \subseteq T
  <2> SUFFICES ASSUME NEW s \in kept PROVE s \in WithTwin(s) /\ WithTwin(s) \subseteq T
    OBVIOUS
  <2>1. s \in chrono /\ WithTwin(s) \cap gone = {}
    OBVIOUS
  <2>2. s \in WithTwin(s) /\ WithTwin(s) \subseteq table
    BY <2>1, RecordsOfFlow
  <2> QED BY <2>1, <2>2
<1>6. IsStitched(n, t) => t \in T /\ flow_key_is_twin(k, key[t]) /\ twin[t] = NULL /\ Bidir
  BY <1>0, <1>1, StitchTarget DEF IsStitched, flow_key_get_twin
<1>A. T \in SUBSET table /\ \A x \in T : x \notin gone /\ key[x] # k
  OBVIOUS
<1> HIDE DEF T, live
<1>7. ASSUME NEW s \in kept, ~IsStitched(n, t) \/ s # t PROVE FlowOf(s)' = FlowOf(s)
  <2>1. s \in T /\ s # n /\ s \in chrono
    BY <1>1, <1>5
  <2>2. twin'[s] = twin[s]
    BY <1>1, <1>2, <1>3, <1>7, <2>1
  <2> QED BY <1>4, <1>5, <2>1, <2>2, FlowKept
<1>8. CASE IsStitched(n, t)
  <2>1. t \in kept /\ t \in chrono
    <3>1. t \in table /\ t \notin gone /\ twin[t] = NULL
      BY <1>6, <1>8, <1>A
    <3>2. t \in chrono
      BY <3>1 DEF IInv, ListsOK, Listed
    <3> QED BY <3>1, <3>2
  <2>2. FlowOf(t) = [fwd |-> key[t], rev |-> NULL]
    BY <1>6, <1>8 DEF FlowOf
  <2>3. twin'[t] = n /\ n # NULL
    BY <1>1, <1>2, <1>3, <1>6, <1>8, NullAssumption
  <2>4. FlowOf(t)' = [fwd |-> key[t], rev |-> k]
    BY <1>4, <1>6, <1>8, <2>3 DEF FlowOf
  <2>5. FlowOf(t)' = [FlowOf(t) EXCEPT !.rev = k]
    BY <2>2, <2>4
  <2>6. FlowOf(t) \in Store!Joinable(Flows(kept), k)
    BY <1>6, <1>8, <2>1, <2>2 DEF Store!Joinable, Flows
  <2>7. \A s \in kept \ {t} : FlowOf(s) # FlowOf(t) /\ FlowOf(s)' = FlowOf(s)
    BY <1>7, <2>1, FlowsDistinct
  <2>8. Flows(chrono)' = {FlowOf(s)' : s \in kept}
    BY <1>2, <1>8 DEF Flows
  <2>9. Flows(chrono)' = (Flows(kept) \ {FlowOf(t)}) \cup {FlowOf(t)'}
    BY <2>1, <2>7, <2>8 DEF Flows
  <2> QED BY <2>5, <2>6, <2>9 DEF Store!Added
<1>9. CASE ~IsStitched(n, t)
  <2>1. twin'[n] = NULL
    BY <1>1, <1>2, <1>3, <1>9
  <2>2. FlowOf(n)' = new
    BY <1>4, <2>1 DEF FlowOf
  <2>3. Flows(chrono)' = {FlowOf(s)' : s \in kept \cup {n}}
    BY <1>2, <1>9 DEF Flows
  <2>4. Flows(chrono)' = Flows(kept) \cup {new}
    BY <1>7, <1>9, <2>2, <2>3 DEF Flows
  <2>5. ASSUME ~NearMatch, NEW f \in Store!Joinable(Flows(kept), k) PROVE FALSE
    <3>1. PICK s \in kept : f = FlowOf(s) /\ Bidir /\ f.rev = NULL /\ flow_key_is_twin(k, f.fwd)
      BY <2>5 DEF Store!Joinable, Flows
    <3>2. f.fwd = key[s] /\ twin[s] = NULL
      <4>1. f.fwd = key[s] /\ f.rev = IF twin[s] = NULL THEN NULL ELSE key[twin[s]]
        BY <3>1 DEF FlowOf
      <4>2. s \in table
        BY <3>1, TableShape
      <4>3. twin[s] # NULL => twin[s] \in table
        BY <4>2, TwinsInTable
      <4>4. twin[s] # NULL => key[twin[s]] # NULL
        BY <4>3, TableShape
      <4> QED BY <3>1, <4>1, <4>4
    <3>3. IsReverse(k, key[s]) /\ s \in T
      BY <2>5, <3>1, <3>2, <1>5 DEF flow_key_is_twin, IsReverse
    <3>4. TwinSearched(T, key, twin, n, k, flow_key_get_twin(T, n, k))
      <4>1. /\ T \in SUBSET table /\ Unique(T, key)
            /\ \A x \in T : key[x] \in Keys /\ key[x] # k
        BY <1>A, TableShape DEF Unique
      <4> QED BY <4>1, <1>1, TableShape, TwinSearch
    <3>5. t = s
      BY <1>0, <3>1, <3>3, <3>4, <2>5 DEF TwinSearched
    <3> QED BY <1>1, <1>9, <3>2, <3>3, <3>5, NullAssumption DEF IsStitched
  <2> QED BY <2>4, <2>5 DEF Store!Added
<1> QED BY <1>8, <1>9

\* What flow_key_get_record does to the flows.
LEMMA GetRecordImplements ==
  ASSUME IInv, NEW k \in Keys, NEW expired, NEW st, NEW en, NEW refresh,
         get_record(k, expired, st, en, refresh)
  PROVE  [Store!Next]_(Flows(chrono))
<1> DEFINE e == find_record_by_key(table, k)
<1>1. /\ chrono \subseteq table /\ table \in SUBSET Rid /\ Unique(table, key)
      /\ NULL \notin chrono
  BY TableShape DEF Unique
<1>2. /\ e # NULL => e \in table /\ key[e] = k
      /\ e = NULL => \A s \in table : key[s] # k
  <2> HIDE DEF e
  <2>1. LET x == find_record_by_key(table, k) IN
        /\ x # NULL => x \in table /\ key[x] = k
        /\ x = NULL => \A s \in table : key[s] # k
    BY <1>1, FindRecord
  <2> QED BY <2>1 DEF e
<1> HIDE DEF e
<1>3. CASE UNCHANGED <<table, key, twin, chrono>>
  BY <1>3 DEF Flows, FlowOf
<1>4. ASSUME NEW n \in Rid, e = NULL, CreateRecord(n, k, {}, chrono, st, en)
      PROVE  Store!Observe(k)
  <2>1. Store!Added(Flows(chrono), k, Flows(chrono)')
    BY <1>1, <1>2, <1>4, CreateAdds
  <2>2. ~Store!Known(k)
    <3> SUFFICES ASSUME NEW r \in chrono, k = FlowOf(r).fwd \/ k = FlowOf(r).rev
                 PROVE  FALSE
      BY DEF Store!Known
    <3>1. FlowOf(r).fwd = key[r] /\ FlowOf(r).rev = IF twin[r] = NULL THEN NULL ELSE key[twin[r]]
      BY DEF FlowOf
    <3>2. r \in table
      BY TableShape
    <3>3. twin[r] \in table \cup {NULL}
      BY <3>2, TwinsInTable
    <3> QED BY <3>1, <3>2, <3>3, <1>2, <1>4, NullKeyAssumption
  <2> QED BY <2>1, <2>2 DEF Store!Observe, Flows
<1>5. ASSUME NEW n \in Rid, e \in chrono,
             CreateRecord(n, k, WithTwin(e), chrono \ {e}, st, en)
      PROVE  FlowOf(e) \in Flows(chrono) /\ Store!ReportAndReopen(FlowOf(e))
  <2>1. e \in table /\ e # NULL /\ key[e] = k /\ e \in WithTwin(e)
    BY <1>1, <1>2, <1>5 DEF WithTwin
  <2>2. \A s \in table \ WithTwin(e) : key[s] # k
    BY <1>1, <2>1 DEF Unique
  <2>3. \A s \in chrono \ {e} : s \in WithTwin(s) /\ WithTwin(s) \cap WithTwin(e) = {}
    BY <1>1, <1>5, Apart DEF WithTwin
  <2>4. chrono \ {e} \subseteq table \ WithTwin(e)
    BY <1>1, <2>3
  <2>5. Store!Added(Flows(chrono \ {e}), k, Flows(chrono)')
    BY <1>5, <2>1, <2>2, <2>3, <2>4, CreateAdds
  <2>6. Flows(chrono \ {e}) = Flows(chrono) \ {FlowOf(e)}
    BY <1>5, FlowsDistinct DEF Flows
  <2>7. FlowOf(e).fwd = k
    BY <2>1 DEF FlowOf
  <2>8. FlowOf(e) \in Flows(chrono)
    BY <1>5 DEF Flows
  <2> QED BY <2>5, <2>6, <2>7, <2>8 DEF Store!ReportAndReopen, Flows
<1>6. ASSUME e \in chrono, DeleteWithTwin(e)
      PROVE  FlowOf(e) \in Flows(chrono) /\ Store!Report(FlowOf(e))
  BY <1>6, DeleteReports DEF Store!Report, Flows
<1>7. CASE CreateNew(k, st, en)
  BY <1>4, <1>7 DEF CreateNew, e, Store!Next
<1>8. CASE ReplaceExpired(k, expired, st, en)
  BY <1>5, <1>8 DEF ReplaceExpired, e, Store!Next, Flows
<1>9. CASE CreateFails(k, expired)
  BY <1>3, <1>6, <1>9 DEF CreateFails, e, Store!Next, Flows, records
<1> QED BY <1>3, <1>7, <1>8, <1>9 DEF get_record, UseExisting

LEMMA StepImplements ==
  ASSUME IInv, [Next]_vars
  PROVE  [Store!Next]_(Flows(chrono))
<1>1. CASE UNCHANGED records
  BY <1>1 DEF records, Flows, FlowOf
<1>2. CASE \E k \in Keys : \E expired, st, en, refresh : get_record(k, expired, st, en, refresh)
  BY <1>2, GetRecordImplements
<1>3. ASSUME NEW e \in chrono, DeleteWithTwin(e) PROVE Store!Next
  <2>1. FlowOf(e) \in Flows(chrono) /\ Store!Report(FlowOf(e))
    BY <1>3, DeleteReports DEF Store!Report, Flows
  <2> QED BY <2>1 DEF Store!Next, Flows
<1>4. CASE flow_record_list_free
  <2>1. Flows(chrono)' = {}
    BY <1>4 DEF flow_record_list_free, Flows
  <2> QED BY <2>1 DEF Store!Next, Store!DropAll, Flows
<1>5. cur # NULL => cur \in chrono
  BY DEF IInv
<1> QED
  BY <1>1, <1>2, <1>3, <1>4, <1>5
  DEF Next, vars, records, process_packet, process_retransmission, collect_flow, StartWalk,
      WalkStep, remove_record_and_update_list

\* The flow table, with its buckets, chronological list, twin pointers, timeouts
\* and failing allocations, is a set of flows: no key is in two of them, each
\* call changes one flow at most, and under EXACT_MATCH a direction always joins
\* the other one.
THEOREM TableImplementsStore == Spec => ImplementsFlowStore
<1>1. Init => Store!Init
  BY DEF Init, Store!Init
<1>2. IInv /\ [Next]_vars => [Store!Next]_({FlowOf(r) : r \in chrono})
  BY StepImplements DEF Flows
<1> QED BY <1>1, <1>2, Inductive, PTL DEF Spec, ImplementsFlowStore, Store!Spec
=============================================================================
