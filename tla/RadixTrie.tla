------------------------------ MODULE RadixTrie ------------------------------
(***************************************************************************)
(* The labels of addresses (joy/src/radix_trie.c): a trie over the bytes of *)
(* an address.  A leaf stands for all addresses that begin with the bytes   *)
(* on the way to it, and holds the flags of the subnets they belong to.     *)
(*                                                                         *)
(* A node is its path, the bytes that lead to it.  Every internal node was  *)
(* made on the way to a leaf, so a table entry exists if a leaf is under it; *)
(* the trie is the function from the paths of its leaves to their flags.    *)
(***************************************************************************)
EXTENDS Integers

CONSTANTS
  Bits,                \* of a byte
  Bytes,               \* of an address
  Labels               \* one flag for each label

ASSUME RadixAssumption == Bits \in Nat \ {0} /\ Bytes \in Nat \ {0}

Byte == 0 .. 2 ^ Bits - 1
Address == [1 .. Bytes -> Byte]
NetmaskLengths == 1 .. Bits * Bytes

VARIABLES
  trie,                \* leaves: from their paths to their flags
  subnets              \* history: [addr, len, flag] that were added

trieVars == <<trie, subnets>>

(***************************************************************************)
(* Paths and prefixes.                                                     *)
(***************************************************************************)
Path(a, n) == [i \in 1 .. n |-> a[i]]

\* A node, or an address, below a node or equal to it.
Under(p, q) == DOMAIN q \subseteq DOMAIN p /\ \A i \in DOMAIN q : p[i] = q[i]

SameTop(b, c, n) == b \div 2 ^ (Bits - n) = c \div 2 ^ (Bits - n)

\* num_internal_nodes in radix_trie_add_subnet.
InternalNodes(len) == (len - 1) \div Bits

\* The entries with the prefix of byte number i, from 0.
Prefixed(a, i, len) ==
  IF len % Bits = 0 THEN {a[i + 1]}
  ELSE {b \in Byte : SameTop(b, a[i + 1], len % Bits)}

(***************************************************************************)
(* radix_trie_lookup_addr: the flags of the first leaf on the way.          *)
(***************************************************************************)
FirstLeaf(x) == {n \in 1 .. Bytes :
  Path(x, n) \in DOMAIN trie /\ \A m \in 1 .. n - 1 : Path(x, m) \notin DOMAIN trie}

radix_trie_lookup_addr(x) == UNION {trie[Path(x, n)] : n \in FirstLeaf(x)}

(***************************************************************************)
(* radix_trie_add_subnet.                                                  *)
(***************************************************************************)
\* The loop over bytes stops below the last internal node, or at a leaf.
LeavesMet(a, len) == {i \in 0 .. InternalNodes(len) - 1 : Path(a, i + 1) \in DOMAIN trie}

Stop(a, len) ==
  IF LeavesMet(a, len) = {} THEN InternalNodes(len)
  ELSE CHOOSE i \in LeavesMet(a, len) : \A j \in LeavesMet(a, len) : i <= j

Entries(a, i, len) ==
  {[j \in 1 .. i + 1 |-> IF j = i + 1 THEN b ELSE a[j]] : b \in Prefixed(a, i, len)}

Replaced(flags, flag) == {flag}

AddFlag(flags, flag) == flags \cup {flag}

radix_trie_add_subnet(a, len, flag) ==
  LET targets == Entries(a, Stop(a, len), len)
      new == {t \in targets : \A p \in DOMAIN trie : ~Under(p, t)}
      below == {p \in DOMAIN trie : \E t \in targets : Under(p, t)}
  IN  /\ trie' = [p \in DOMAIN trie \cup new |->
                    IF p \in new THEN {flag}
                    ELSE IF p \in below THEN AddFlag(trie[p], flag) ELSE trie[p]]
      /\ subnets' = subnets \cup {[addr |-> a, len |-> len, flag |-> flag]}

\* radix_trie_add_subnet_from_string masks the address first.
Masked(a, len) ==
  \A i \in 1 .. Bytes :
    /\ i > InternalNodes(len) + 1 => a[i] = 0
    /\ i = InternalNodes(len) + 1 /\ len % Bits # 0 =>
         \A b \in 0 .. a[i] - 1 : ~SameTop(b, a[i], len % Bits)

TrieInit == trie = [p \in {} |-> {}] /\ subnets = {}

TrieNext ==
  \E a \in Address, len \in NetmaskLengths, flag \in Labels :
    /\ Masked(a, len)
    /\ radix_trie_add_subnet(a, len, flag)

TrieSpec == TrieInit /\ [][TrieNext]_trieVars

(***************************************************************************)
(* Properties.                                                             *)
(***************************************************************************)
\* The definition of a subnet: its first len bits, byte by byte.
InSubnet(x, s) ==
  /\ \A i \in 1 .. s.len \div Bits : x[i] = s.addr[i]
  /\ s.len % Bits # 0 =>
       SameTop(x[s.len \div Bits + 1], s.addr[s.len \div Bits + 1], s.len % Bits)

LabelsOf(x) == {s.flag : s \in {s \in subnets : InSubnet(x, s)}}

\* radix_trie_lookup_addr returns the flags of all subnets of the address
\* (radix_trie.h:103).
LookupIsUnion == \A x \in Address : radix_trie_lookup_addr(x) = LabelsOf(x)

Overlap(s, t) == \E x \in Address : InSubnet(x, s) /\ InSubnet(x, t)

\* Of two subnets one of which contains the other, both end in the same byte.
SameLevel == \A s, t \in subnets :
  Overlap(s, t) => InternalNodes(s.len) = InternalNodes(t.len)

\* Whatever the order in which subnets were added, a lookup finds all labels of
\* an address and no others, as long as no subnet lies in another that ends in
\* an earlier byte.
LabelsExact == SameLevel => LookupIsUnion
=============================================================================
