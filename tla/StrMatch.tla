------------------------------ MODULE StrMatch ------------------------------
(***************************************************************************)
(* How user names are hidden in the URIs of HTTP requests: the automaton   *)
(* that finds the names of a list (joy/src/acsm.c), the list of matches    *)
(* (str_match.c) and the printing of a URI (anon_print_string in anon.c).  *)
(* jfd-anon does the same with the lines of a file.                        *)
(*                                                                         *)
(* A state of the automaton is the string that leads to it.  A character   *)
(* stands for both cases of it, the context is allocated with NO_CASE.     *)
(***************************************************************************)
EXTENDS Integers, Sequences, SequencesExt, FiniteSets, Ascending

CONSTANTS
  Ascii,               \* the characters, in the order of their codes
  Special,             \* those is_special accepts
  NameLists,           \* lists of names a file may hold
  MATCH_ARRAY_LEN,
  SizeMod,             \* size_t is an integer modulo SizeMod
  TmpLen,              \* of `tmp' in zprintf_nbytes and zprintf_anon_nbytes
  MaxUri               \* length of a URI (a bound)

Characters == ToSet(Ascii)

ASSUME AsciiAssumption ==
  /\ "fail" \notin Characters /\ Ascii \in Seq(Characters)
  /\ \A i, j \in DOMAIN Ascii : Ascii[i] = Ascii[j] => i = j

ASSUME MatchAssumption ==
  /\ MATCH_ARRAY_LEN \in Nat /\ TmpLen \in Nat
  /\ MaxUri \in Nat /\ SizeMod \in Nat /\ MaxUri < SizeMod
  /\ \A l \in NameLists :
       /\ l \in Seq(Seq(Characters)) /\ l # <<>>
       /\ \A i \in DOMAIN l : l[i] # <<>> /\ Len(l[i]) < SizeMod

VARIABLES
  user_names,          \* ctx->patterns
  next_state,          \* ctx->state_table[s].next_state[c], for <<s, c>>
  fail_state, match_list,
  work_queue,          \* states whose row is still to be filled in
  scan_state,          \* `static int state' in str_match_ctx_find_all_longest
  uri,                 \* the characters of this URI that were read
  to_add,              \* `pattern': what is left of the match_list of the state
  matches,             \* [start, stop], positions from 0
  uri_printed,         \* pieces [from, to, hidden, shown]
  carried              \* history: scan_state when the URI began

matchVars == <<user_names, next_state, fail_state, match_list, work_queue, scan_state,
               uri, to_add, matches, uri_printed, carried>>

\* ACSM_FAIL_STATE is none of the states.
FAIL == <<"fail">>

Piece(from, to, hidden, shown) == [from |-> from, to |-> to, hidden |-> hidden, shown |-> shown]

NotYet == <<>>

\* What is in memory next to the URI.
OutOfBounds == <<Piece(-1, -1, FALSE, TRUE)>>

(***************************************************************************)
(* acsm_add_pattern and acsm_compile.                                      *)
(***************************************************************************)
StatesFor(list) == {<<>>} \cup UNION {{SubSeq(list[i], 1, n) : n \in DOMAIN list[i]} : i \in DOMAIN list}

\* The states behind s, in the order of their characters.
Children(s, table) ==
  LET I == {i \in DOMAIN Ascii : Append(s, Ascii[i]) \in table}
  IN  [n \in 1 .. Cardinality(I) |-> Append(s, Ascii[Ascending(I)[n]])]

Copies(list, s) == [n \in 1 .. Cardinality({i \in DOMAIN list : list[i] = s}) |-> s]

\* The goto function, and the states behind the root queued.
str_match_ctx_init_from_file(list) ==
  /\ user_names = <<>>
  /\ user_names' = list
  /\ LET S == StatesFor(list) IN
     /\ next_state' = [e \in S \X Characters |->
          IF Append(e[1], e[2]) \in S THEN Append(e[1], e[2])
          ELSE IF e[1] = <<>> THEN <<>> ELSE FAIL]
     /\ fail_state' = [s \in S |-> <<>>]
     /\ match_list' = [s \in S |-> Copies(list, s)]
     /\ work_queue' = Children(<<>>, S)
  /\ UNCHANGED <<scan_state, uri, to_add, matches, uri_printed, carried>>

\* Through failure states, until one of them has a state behind the character.
FollowFailures[e \in DOMAIN next_state] ==
  IF next_state[e] # FAIL THEN next_state[e] ELSE FollowFailures[<<fail_state[e[1]], e[2]>>]

\* The state behind c.
Follow(s, c) == IF next_state[<<s, c>>] # FAIL THEN next_state[<<s, c>>] ELSE FollowFailures[<<s, c>>]

\* The failure state of the state behind c.
FailBehind(r, c) == Follow(fail_state[r], c)

\* One round of the loop that builds the failure function.
acsm_compile_step ==
  /\ work_queue # <<>>
  /\ LET r == Head(work_queue)
         kids == Children(r, DOMAIN fail_state)
         FailOf(k) == FailBehind(r, k[Len(k)])
     IN  /\ fail_state' = [s \in DOMAIN fail_state |->
                             IF s \in ToSet(kids) THEN FailOf(s) ELSE fail_state[s]]
         /\ match_list' = [s \in DOMAIN match_list |->
                             IF s \in ToSet(kids) THEN Reverse(match_list[FailOf(s)]) \o match_list[s]
                             ELSE match_list[s]]
         /\ next_state' = [e \in DOMAIN next_state |->
                             IF e[1] = r /\ next_state[e] = FAIL
                             THEN next_state[<<fail_state[r], e[2]>>] ELSE next_state[e]]
         /\ work_queue' = Tail(work_queue) \o kids
  /\ UNCHANGED <<user_names, scan_state, uri, to_add, matches, uri_printed, carried>>

Compiled == user_names # <<>> /\ work_queue = <<>>

(***************************************************************************)
(* str_match_ctx_find_all_longest.                                         *)
(***************************************************************************)
KeepOverlapped(found, start) == Len(found)

\* The matches before the first, from the end, that the new one overlaps.
Disjoint(found, start) ==
  LET before == {i \in DOMAIN found : start > found[i].stop} IN
  IF before = {} THEN 0 ELSE CHOOSE i \in before : \A j \in before : j <= i

matches_add(found, stop, length) ==
  LET start == (stop - length + 1) % SizeMod IN
  IF Len(found) >= MATCH_ARRAY_LEN THEN found
  ELSE Append(SubSeq(found, 1, Disjoint(found, start)), [start |-> start, stop |-> stop])

\* The next character.
find_all_longest(c) ==
  /\ Compiled /\ uri_printed = NotYet /\ to_add = <<>> /\ Len(uri) < MaxUri
  /\ uri' = Append(uri, c)
  /\ scan_state' = Follow(scan_state, c)
  /\ to_add' = match_list[Follow(scan_state, c)]
  /\ UNCHANGED <<user_names, next_state, fail_state, match_list, work_queue, matches, uri_printed, carried>>

\* One round of the loop over the names that end with it.
add_pattern ==
  /\ to_add # <<>>
  /\ matches' = matches_add(matches, Len(uri) - 1, Len(Head(to_add)))
  /\ to_add' = Tail(to_add)
  /\ UNCHANGED <<user_names, next_state, fail_state, match_list, work_queue, scan_state, uri, uri_printed, carried>>

(***************************************************************************)
(* anon_print_string and http_print_message.                               *)
(***************************************************************************)
\* The terminating zero is special too.
is_special(i) == i = Len(uri) \/ uri[i + 1] \in Special

ToHide(found) == (found.start = 0 \/ is_special(found.start - 1)) /\ is_special(found.stop + 1)

\* zprintf_nbytes and zprintf_anon_nbytes print nothing else.
Fits(from, to) == to - from + 1 < TmpLen

\* The matches, and what is before, between and behind them.  Only what is
\* behind the last match is printed without the buffer.
PiecesOf(found, length) ==
  LET From(k) == IF k = 1 THEN 0 ELSE found[k \div 2].stop + 1
      To(k) == found[k \div 2 + 1].start - 1
      Match(o) == Piece(o.start, o.stop, ToHide(o), Fits(o.start, o.stop))
  IN  [k \in 1 .. 2 * Len(found) + 1 |->
         IF k % 2 = 0 THEN Match(found[k \div 2])
         ELSE IF k = 2 * Len(found) + 1 THEN Piece(From(k), length - 1, FALSE, TRUE)
         ELSE Piece(From(k), To(k), FALSE, Fits(From(k), To(k)))]

\* A match that began in the URI before has no start in this one.
anon_print_string ==
  /\ Compiled /\ uri_printed = NotYet /\ to_add = <<>>
  /\ uri_printed' = IF \E i \in DOMAIN matches : matches[i].start > matches[i].stop
                    THEN OutOfBounds ELSE PiecesOf(matches, Len(uri))
  /\ UNCHANGED <<user_names, next_state, fail_state, match_list, work_queue, scan_state, uri, to_add, matches, carried>>

\* The next URI: matches_init, but nothing resets the static variable.
http_print_message ==
  /\ uri_printed # NotYet
  /\ uri' = <<>> /\ matches' = <<>> /\ uri_printed' = NotYet /\ carried' = scan_state
  /\ UNCHANGED <<user_names, next_state, fail_state, match_list, work_queue, scan_state, to_add>>

MatchInit ==
  /\ user_names = <<>> /\ next_state = <<>> /\ fail_state = <<>> /\ match_list = <<>> /\ work_queue = <<>>
  /\ scan_state = <<>> /\ uri = <<>> /\ to_add = <<>> /\ matches = <<>> /\ uri_printed = NotYet /\ carried = <<>>

MatchNext ==
  \/ \E list \in NameLists : str_match_ctx_init_from_file(list)
  \/ acsm_compile_step
  \/ \E c \in Characters : find_all_longest(c)
  \/ add_pattern
  \/ anon_print_string
  \/ http_print_message

(***************************************************************************)
(* Properties.                                                             *)
(***************************************************************************)
NameSet == ToSet(user_names)

SuffixesOf(s) == {SubSeq(s, n, Len(s)) : n \in 1 .. Len(s) + 1}

LongestOf(S) == CHOOSE s \in S : \A t \in S : Len(t) <= Len(s)

\* The table after acsm_compile, stated without its construction.
Automaton ==
  LET States == StatesFor(user_names) IN
  \A s \in States :
    /\ ToSet(match_list[s]) = NameSet \cap SuffixesOf(s)
    /\ \A c \in Characters : next_state[<<s, c>>] = LongestOf(States \cap SuffixesOf(Append(s, c)))

Occurrences == {o \in [start : 0 .. Len(uri) - 1, stop : 0 .. Len(uri) - 1] :
                  SubSeq(uri, o.start + 1, o.stop + 1) \in NameSet}

NoSpecialInNames == \A p \in NameSet : ToSet(p) \cap Special = {}

\* No partial match is carried into the URI.
BeginsAfresh == carried = <<>> \/ uri = <<>> \/ uri[1] \in Special

Span(p) == [start |-> p.from, stop |-> p.to]

AutomatonFinds == Compiled => Automaton

\* The automaton finds what it should for every list of names.  In a URI that
\* begins afresh each name between special characters is hidden, whatever other
\* names lie in it or overlap it, and nothing else is hidden.  Every character
\* is in one piece, the pieces are in order, and only a piece that the buffer
\* of zprintf_nbytes cannot hold is left out; as long as names have no special
\* characters in them and there is room for the matches.
UserNamesHidden ==
  /\ AutomatonFinds
  /\ (/\ uri_printed # NotYet /\ NoSpecialInNames /\ BeginsAfresh
      /\ Cardinality(Occurrences) <= MATCH_ARRAY_LEN)
     => /\ uri_printed # OutOfBounds
        /\ {Span(p) : p \in {p \in ToSet(uri_printed) : p.hidden}} = {o \in Occurrences : ToHide(o)}
        /\ uri_printed[1].from = 0 /\ Last(uri_printed).to = Len(uri) - 1
        /\ \A i \in DOMAIN uri_printed : uri_printed[i].from <= uri_printed[i].to + 1
        /\ \A i \in 2 .. Len(uri_printed) : uri_printed[i].from = uri_printed[i - 1].to + 1
        /\ \A i \in DOMAIN uri_printed :
             \/ uri_printed[i].shown
             \/ i # Len(uri_printed) /\ uri_printed[i].to - uri_printed[i].from + 1 >= TmpLen
=============================================================================
