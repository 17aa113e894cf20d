-------------------------- MODULE PolicyLoad_proofs -------------------------
(***************************************************************************)
(* The compiled policy, for policy files of any length and paths of any    *)
(* depth: the trie that Load builds decides as the list of entries does.   *)
(***************************************************************************)
EXTENDS PolicyLoad, TLAPS, SequenceTheorems, WellFoundedInduction

(* The nodes on the way to an entry.                                       *)
Walk(parts) == {Prefix(parts, n) : n \in 0 .. Len(parts)}

(* The trie of a set of entries.                                           *)
Compiles(trie, entries) ==
  /\ trie.terminal = entries
  /\ trie.nodes = {<<>>} \cup UNION {Walk(entry) : entry \in entries}

(* The entries that Load has come to.                                      *)
Done == IF pc = "fs" THEN pos - 1 ELSE IF pc \in {"heuristic", "ready"} THEN Len(raw.fs) ELSE 0
EntriesUpTo(k) == {Parts(raw.fs[n]) : n \in 1 .. k}

IInv ==
  /\ pc \in {"open", "open policy", "failed", "block", "fs", "heuristic", "ready"}
  /\ raw \in RawPolicies /\ pos \in Nat \ {0}
  /\ pc = "fs" => pos <= Len(raw.fs) + 1
  /\ pol = [blocked |-> pol.blocked, fsTrie |-> pol.fsTrie, heuristic |-> pol.heuristic]
  /\ pol.fsTrie = [nodes |-> pol.fsTrie.nodes, terminal |-> pol.fsTrie.terminal]
  /\ Compiles(pol.fsTrie, EntriesUpTo(Done))

-----------------------------------------------------------------------------
(* Induction over the numbers, by the least one that is not in a set.      *)

LEMMA Least ==
  ASSUME NEW T \in SUBSET Nat, T # {} PROVE \E x \in T : \A y \in T : x <= y
<1> DEFINE R == OpToRel(<, Nat)
<1>1. IsWellFoundedOn(R, Nat)
  BY NatLessThanWellFounded, Zenon
<1>2. \A x, y \in Nat : <<x, y>> \in R <=> x < y
  BY DEF OpToRel
<1> HIDE DEF R
<1>3. PICK x \in T : \A y \in T : ~(<<y, x>> \in R)
  BY <1>1, WFMin
<1>4. ASSUME NEW y \in T PROVE x <= y
  <2>1. x \in Nat /\ y \in Nat /\ ~(y < x)
    BY <1>2, <1>3
  <2> QED BY <2>1
<1> QED BY <1>4

LEMMA Induct ==
  ASSUME NEW T, 0 \in T, \A n \in Nat : n \in T => n + 1 \in T PROVE Nat \subseteq T
<1> SUFFICES ASSUME Nat \ T # {} PROVE FALSE
  OBVIOUS
<1>1. PICK x \in Nat \ T : \A y \in Nat \ T : x <= y
  BY Least
<1>2. x # 0 /\ x - 1 \in Nat /\ ~(x <= x - 1)
  BY <1>1
<1>3. x - 1 \in T
  BY <1>1, <1>2
<1> QED BY <1>1, <1>2, <1>3

-----------------------------------------------------------------------------
(* filepath.Clean                                                          *)

CleanedUpTo(path, h, n) ==
  h = [k \in 0 .. n |-> IF k = 0 THEN <<>> ELSE CleanStep(path.abs, h[k - 1], path.segs[k])]

LEMMA CleanedExists ==
  ASSUME NEW path PROVE \A n \in Nat : \E h : CleanedUpTo(path, h, n)
<1> DEFINE T == {n \in Nat : \E h : CleanedUpTo(path, h, n)}
           Step(out, k) == CleanStep(path.abs, out, path.segs[k])
<1> HIDE DEF Step
<1>1. 0 \in T
  <2> DEFINE h == [k \in 0 .. 0 |-> <<>>]
  <2>1. h = [k \in 0 .. 0 |-> IF k = 0 THEN <<>> ELSE Step(h[k - 1], k)]
    OBVIOUS
  <2> QED BY <2>1 DEF CleanedUpTo, Step
<1>2. ASSUME NEW n \in Nat, n \in T PROVE n + 1 \in T
  <2>1. PICK h : CleanedUpTo(path, h, n)
    BY <1>2
  <2> DEFINE g == [k \in 0 .. n + 1 |-> IF k = n + 1 THEN Step(h[n], k) ELSE h[k]]
  <2>2. ASSUME NEW k \in 0 .. n + 1
        PROVE  g[k] = IF k = 0 THEN <<>> ELSE Step(g[k - 1], k)
    <3>1. CASE k = n + 1
      <4>1. g[k] = Step(h[n], k) /\ k # 0 /\ k - 1 = n /\ n \in 0 .. n + 1 /\ n # n + 1
        BY <3>1
      <4>2. g[n] = h[n]
        BY <4>1
      <4> QED BY <4>1, <4>2
    <3>2. CASE k \in 0 .. n /\ k # 0
      <4>1. k # n + 1 /\ k - 1 # n + 1 /\ k - 1 \in 0 .. n + 1
        BY <3>2
      <4>2. g[k] = h[k] /\ g[k - 1] = h[k - 1]
        BY <4>1
      <4>3. h[k] = Step(h[k - 1], k)
        BY <2>1, <3>2 DEF CleanedUpTo, Step
      <4> QED BY <3>2, <4>2, <4>3
    <3>3. CASE k = 0
      <4>1. g[0] = h[0]
        OBVIOUS
      <4>2. h[0] = <<>>
        BY <2>1 DEF CleanedUpTo
      <4> QED BY <3>3, <4>1, <4>2
    <3> QED BY <3>1, <3>2, <3>3
  <2>3. g = [k \in 0 .. n + 1 |-> g[k]]
    OBVIOUS
  <2> HIDE DEF g
  <2>4. CleanedUpTo(path, g, n + 1)
    BY <2>2, <2>3 DEF CleanedUpTo, Step
  <2> QED BY <2>4
<1> HIDE DEF T
<1>3. Nat \subseteq T
  BY <1>1, <1>2, Induct
<1> QED BY <1>3 DEF T

LEMMA SingleType ==
  ASSUME NEW S, NEW x \in S PROVE <<x>> \in Seq(S)
  OBVIOUS

LEMMA CleanStepType ==
  ASSUME NEW abs, NEW out \in Seq(Segments), NEW seg \in Segments
  PROVE  CleanStep(abs, out, seg) \in Seq(Segments)
<1>1. Append(out, seg) \in Seq(Segments)
  BY AppendProperties
<1>2. out # <<>> => Front(out) \in Seq(Segments)
  <2> SUFFICES ASSUME out # <<>> PROVE SubSeq(out, 1, Len(out) - 1) \in Seq(Segments)
    BY DEF Front
  <2> QED BY SubSeqProperties
<1> QED BY <1>1, <1>2 DEF CleanStep

(* What Clean leaves is a sequence of segments.                            *)
LEMMA PartsType ==
  ASSUME NEW path \in Path PROVE Parts(path) \in Seq(Segments)
<1>1. PICK n \in Nat : n = Len(path.segs)
  BY DEF Path
<1>2. PICK h : CleanedUpTo(path, h, n)
  BY CleanedExists
<1> DEFINE out == Cleaned(path)
<1>3. CleanedUpTo(path, out, n)
  BY <1>1, <1>2 DEF CleanedUpTo, Cleaned
<1> HIDE DEF out
<1> DEFINE T == {k \in Nat : k <= n => out[k] \in Seq(Segments)}
<1>4. 0 \in T
  <2>1. out[0] = <<>>
    BY <1>3 DEF CleanedUpTo
  <2>2. <<>> \in Seq(Segments)
    BY EmptySeq
  <2> QED BY <2>1, <2>2
<1>5. ASSUME NEW k \in Nat, k \in T PROVE k + 1 \in T
  <2> SUFFICES ASSUME k + 1 <= n PROVE out[k + 1] \in Seq(Segments)
    OBVIOUS
  <2>1. k <= n /\ k + 1 \in 0 .. n /\ k + 1 # 0 /\ k + 1 - 1 = k /\ k + 1 \in 1 .. n
    OBVIOUS
  <2>2. out[k + 1] = CleanStep(path.abs, out[k], path.segs[k + 1])
    BY <1>3, <2>1 DEF CleanedUpTo
  <2>3. out[k] \in Seq(Segments) /\ path.segs[k + 1] \in Segments
    BY <1>1, <1>5, <2>1 DEF Path
  <2> QED BY <2>2, <2>3, CleanStepType
<1> HIDE DEF T
<1>6. n \in T
  BY <1>4, <1>5, Induct
<1>7. out[n] \in Seq(Segments)
  BY <1>6 DEF T
<1>8. <<".">> \in Seq(Segments)
  <2>1. "." \in Segments
    BY PolicyLoadAssumption
  <2> QED BY <2>1, SingleType
<1>9. Parts(path) = IF out[n] = <<>> /\ ~path.abs THEN <<".">> ELSE out[n]
  BY <1>1 DEF Parts, out
<1> QED BY <1>7, <1>8, <1>9

-----------------------------------------------------------------------------
(* Prefixes                                                                *)

LEMMA PrefixIs ==
  ASSUME NEW s \in Seq(Segments), NEW n \in 0 .. Len(s)
  PROVE  /\ Prefix(s, n) \in Seq(Segments) /\ Len(Prefix(s, n)) = n
         /\ \A k \in 1 .. n : Prefix(s, n)[k] = s[k]
         /\ n = Len(s) => Prefix(s, n) = s
  BY SubSeqProperties, SubSeqFull DEF Prefix

(* A prefix of a prefix is one.                                            *)
LEMMA PrefixOfPrefix ==
  ASSUME NEW s \in Seq(Segments), NEW n \in 0 .. Len(s), NEW m \in 0 .. n
  PROVE  Prefix(Prefix(s, n), m) = Prefix(s, m)
<1>1. /\ Prefix(s, n) \in Seq(Segments) /\ Len(Prefix(s, n)) = n /\ m \in 0 .. Len(s)
      /\ \A k \in 1 .. n : Prefix(s, n)[k] = s[k]
  BY PrefixIs
<1>2. PICK t \in Seq(Segments) : t = Prefix(s, n)
  BY <1>1
<1>3. /\ Prefix(t, m) = [k \in 1 .. m |-> t[k]]
      /\ Prefix(s, m) = [k \in 1 .. m |-> s[k]]
  BY <1>1 DEF Prefix, SubSeq
<1>4. \A k \in 1 .. m : t[k] = s[k]
  BY <1>1, <1>2
<1> QED BY <1>2, <1>3, <1>4

LEMMA IsPrefixIs ==
  ASSUME NEW s \in Seq(Segments), NEW t \in Seq(Segments)
  PROVE  IsPrefix(s, t) <=> Len(s) <= Len(t) /\ s = Prefix(t, Len(s))
<1>1. SubSeq(s, 1, Len(s)) = s
  BY SubSeqFull
<1> QED BY <1>1 DEF IsPrefix, Prefix

-----------------------------------------------------------------------------
(* Insert and IsAllowed                                                    *)

LEMMA InsertCompiles ==
  ASSUME NEW trie, NEW entries, Compiles(trie, entries), NEW path
  PROVE  Compiles(Insert(trie, path), entries \cup {Parts(path)})
  BY DEF Compiles, Insert, Walk

(* The trie of entries other than the root allows what is in a subtree.    *)
LEMMA TrieDecides ==
  ASSUME NEW trie, NEW entries \in SUBSET Seq(Segments), Compiles(trie, entries),
         <<>> \notin entries, NEW path \in Path
  PROVE  IsAllowed(trie, path) <=>
           entries = {} \/ \E entry \in entries : IsPrefix(entry, Parts(path))
<1>1. PICK parts \in Seq(Segments) : parts = Parts(path)
  BY PartsType
<1> DEFINE ends == {n \in 1 .. Len(parts) : Prefix(parts, n) \notin trie.nodes \ trie.terminal}
           Allowed == IF ends = {} THEN parts \in trie.terminal
                      ELSE \E n \in ends : /\ \A m \in ends : n <= m
                                           /\ Prefix(parts, n) \in trie.terminal
<1>2. IsAllowed(trie, path) <=> trie.nodes = {<<>>} \/ Allowed
  BY <1>1 DEF IsAllowed
<1>3. /\ trie.terminal = entries
      /\ \A node : node \in trie.nodes <=> node = <<>> \/ \E entry \in entries : node \in Walk(entry)
  BY DEF Compiles
<1>4. Len(parts) \in Nat /\ ends \subseteq Nat
  BY <1>1
<1>5. CASE entries = {}
  <2>1. trie.nodes = {<<>>}
    BY <1>3, <1>5
  <2> QED BY <1>2, <1>5, <2>1
<1>6. ASSUME entries # {} PROVE trie.nodes # {<<>>}
  <2>1. PICK entry \in entries : TRUE
    BY <1>6
  <2>2. entry \in Seq(Segments) /\ Len(entry) \in Nat /\ entry # <<>>
    OBVIOUS
  <2>3. Len(entry) \in 0 .. Len(entry) /\ Prefix(entry, Len(entry)) = entry
    BY <2>2, PrefixIs
  <2>4. entry \in Walk(entry)
    BY <2>3 DEF Walk
  <2> QED BY <1>3, <2>1, <2>2, <2>4
<1>7. ASSUME Allowed PROVE \E entry \in entries : IsPrefix(entry, parts)
  <2>1. CASE ends = {}
    <3>1. parts \in entries
      BY <1>3, <1>7, <2>1
    <3>2. IsPrefix(parts, parts)
      BY <1>4 DEF IsPrefix
    <3> QED BY <3>1, <3>2
  <2>2. CASE ends # {}
    <3>1. PICK n \in ends : Prefix(parts, n) \in entries
      BY <1>3, <1>7, <2>2
    <3>2. n \in 0 .. Len(parts) /\ n <= Len(parts)
      BY <1>4
    <3>3. Prefix(parts, n) \in Seq(Segments) /\ Len(Prefix(parts, n)) = n
      BY <3>2, PrefixIs
    <3>4. IsPrefix(Prefix(parts, n), parts)
      BY <3>2, <3>3, IsPrefixIs
    <3> QED BY <3>1, <3>4
  <2> QED BY <2>1, <2>2
<1>8. ASSUME NEW entry \in entries, IsPrefix(entry, parts) PROVE Allowed
  <2>1. entry \in Seq(Segments) /\ entry # <<>>
    OBVIOUS
  <2>2. PICK k \in Nat : k = Len(entry)
    BY <2>1
  <2>3. k <= Len(parts) /\ entry = Prefix(parts, k)
    BY <1>8, <2>1, <2>2, IsPrefixIs
  <2>4. k # 0
    BY <2>1, <2>2, EmptySeq
  <2>5. k \in 1 .. Len(parts) /\ k \in 0 .. Len(parts)
    BY <1>4, <2>3, <2>4
  <2>6. k \in ends
    BY <1>3, <2>3, <2>5
  <2> HIDE DEF ends
  <2>7. PICK n \in ends : \A m \in ends : n <= m
    BY <1>4, <2>6, Least
  <2>8. n \in 1 .. k /\ n \in 0 .. k
    <3>1. n \in 1 .. Len(parts)
      BY DEF ends
    <3>2. n <= k
      BY <2>6, <2>7
    <3> QED BY <1>4, <3>1, <3>2
  <2>9. Prefix(entry, n) = Prefix(parts, n)
    BY <2>3, <2>5, <2>8, PrefixOfPrefix
  <2>10. Prefix(parts, n) \in trie.nodes
    <3>1. Prefix(entry, n) \in Walk(entry)
      BY <2>2, <2>8 DEF Walk
    <3> QED BY <1>3, <2>9, <3>1
  <2>11. Prefix(parts, n) \in trie.terminal
    BY <2>10 DEF ends
  <2> QED BY <2>6, <2>7, <2>11
<1> HIDE DEF Allowed
<1> QED BY <1>1, <1>2, <1>5, <1>6, <1>7, <1>8

-----------------------------------------------------------------------------
(* Load                                                                    *)

LEMMA EntriesType ==
  ASSUME raw \in RawPolicies
  PROVE  /\ Len(raw.fs) \in Nat /\ FsEntries = EntriesUpTo(Len(raw.fs))
         /\ FsEntries \subseteq Seq(Segments)
<1>1. raw.fs \in Seq(Path)
  BY PolicyLoadAssumption
<1>2. Len(raw.fs) \in Nat /\ \A n \in 1 .. Len(raw.fs) : raw.fs[n] \in Path
  BY <1>1
<1> QED BY <1>2, PartsType DEF FsEntries, EntriesUpTo

LEMMA InitHolds == Init => IInv
  BY DEF Init, IInv, Compiles, NewTrie, EntriesUpTo, Done

LEMMA FsEntryKeeps ==
  ASSUME IInv, FsEntry PROVE IInv'
<1>1. pc = "fs" /\ raw' = raw /\ raw \in RawPolicies /\ pos \in Nat \ {0} /\ pos <= Len(raw.fs) + 1
  BY DEF IInv, FsEntry
<1>2. PICK n \in Nat : n = Len(raw.fs)
  BY <1>1, EntriesType
<1>3. Compiles(pol.fsTrie, EntriesUpTo(pos - 1))
  BY <1>1 DEF IInv, Done
<1>4. CASE pos <= n
  <2>1. /\ pol' = [pol EXCEPT !.fsTrie = Insert(@, raw.fs[pos])] /\ pos' = pos + 1 /\ pc' = "fs"
    BY <1>1, <1>2, <1>4 DEF FsEntry
  <2>2. pol'.fsTrie = Insert(pol.fsTrie, raw.fs[pos])
    BY <2>1 DEF IInv
  <2>3. /\ pol' = [blocked |-> pol'.blocked, fsTrie |-> pol'.fsTrie, heuristic |-> pol'.heuristic]
        /\ pol'.fsTrie = [nodes |-> pol'.fsTrie.nodes, terminal |-> pol'.fsTrie.terminal]
    BY <2>1, <2>2 DEF IInv, Insert
  <2>4. EntriesUpTo(pos - 1) \cup {Parts(raw.fs[pos])} = EntriesUpTo(pos)
    <3>1. \A k : k \in 1 .. pos <=> k \in 1 .. pos - 1 \/ k = pos
      BY <1>1
    <3> QED BY <3>1 DEF EntriesUpTo
  <2>5. Compiles(pol'.fsTrie, EntriesUpTo(pos))
    BY <1>3, <2>2, <2>4, InsertCompiles
  <2>6. pos' - 1 = pos /\ pos' \in Nat \ {0} /\ pos' <= Len(raw.fs) + 1
    BY <1>1, <1>2, <1>4, <2>1
  <2>7. Compiles(pol.fsTrie, EntriesUpTo(Done))'
    BY <1>1, <2>1, <2>5, <2>6 DEF Done, EntriesUpTo
  <2> QED BY <1>1, <2>1, <2>3, <2>6, <2>7 DEF IInv
<1>5. CASE ~(pos <= n)
  <2>1. pos' = 1 /\ pc' = "heuristic" /\ pol' = pol
    BY <1>2, <1>5 DEF FsEntry
  <2>2. pos - 1 = Len(raw.fs)
    BY <1>1, <1>2, <1>5
  <2>3. Compiles(pol.fsTrie, EntriesUpTo(Done))'
    BY <1>1, <1>3, <2>1, <2>2 DEF Done, EntriesUpTo
  <2> QED BY <1>1, <2>1, <2>3 DEF IInv
<1> QED BY <1>4, <1>5

LEMMA BlockEntryKeeps ==
  ASSUME IInv, BlockEntry PROVE IInv'
<1>1. pc = "block" /\ raw' = raw /\ pos \in Nat \ {0} /\ raw \in RawPolicies
  BY DEF IInv, BlockEntry
<1>2. \/ pc' = "block" /\ pos' = pos + 1 /\ pol' = [pol EXCEPT !.blocked = @ \cup {raw.block[pos]}]
      \/ pc' = "fs" /\ pos' = 1 /\ pol' = pol
  BY <1>1 DEF BlockEntry
<1>3. /\ pol'.fsTrie = pol.fsTrie
      /\ pol' = [blocked |-> pol'.blocked, fsTrie |-> pol'.fsTrie, heuristic |-> pol'.heuristic]
      /\ pol'.fsTrie = [nodes |-> pol'.fsTrie.nodes, terminal |-> pol'.fsTrie.terminal]
  BY <1>2 DEF IInv
<1>4. Done = 0 /\ Done' = 0 /\ EntriesUpTo(Done) = {} /\ EntriesUpTo(Done)' = {}
  <2>1. Done = 0 /\ Done' = 0
    BY <1>1, <1>2 DEF Done
  <2> QED BY <2>1 DEF EntriesUpTo
<1>5. Len(raw.fs) \in Nat /\ 1 <= Len(raw.fs) + 1
  BY <1>1, EntriesType
<1>6. Compiles(pol.fsTrie, EntriesUpTo(Done))'
  BY <1>3, <1>4 DEF IInv, Compiles
<1>7. pos' \in Nat \ {0} /\ (pc' = "fs" => pos' <= Len(raw'.fs) + 1)
  BY <1>1, <1>2, <1>5
<1> QED BY <1>1, <1>2, <1>3, <1>6, <1>7 DEF IInv

LEMMA StepKeeps ==
  ASSUME IInv, [Next]_vars PROVE IInv'
<1>1. CASE LoadEmptyPath \/ LoadFails \/ LoadReads \/ UNCHANGED vars
  <2>1. /\ raw' = raw /\ pos' = pos /\ pol' = pol
        /\ \/ pc' = pc
           \/ pc = "open" /\ pc' \in {"open policy", "failed", "block"}
    BY <1>1 DEF LoadEmptyPath, LoadFails, LoadReads, vars
  <2>2. Done' = Done
    BY <2>1 DEF Done
  <2>3. Compiles(pol.fsTrie, EntriesUpTo(Done))'
    BY <2>1, <2>2 DEF IInv, EntriesUpTo, Compiles
  <2> QED BY <2>1, <2>3 DEF IInv
<1>2. CASE LoadReturns
  <2>1. /\ pc = "heuristic" /\ pc' = "ready" /\ raw' = raw /\ pos' = pos
        /\ pol' = [pol EXCEPT !.heuristic = TakeHeuristic(raw.heuristic)]
    BY <1>2 DEF LoadReturns
  <2>2. /\ pol'.fsTrie = pol.fsTrie
        /\ pol' = [blocked |-> pol'.blocked, fsTrie |-> pol'.fsTrie, heuristic |-> pol'.heuristic]
    BY <2>1 DEF IInv
  <2> QED BY <2>1, <2>2 DEF IInv, Done, EntriesUpTo, Compiles
<1> QED BY <1>1, <1>2, BlockEntryKeeps, FsEntryKeeps DEF Next

(* While Load compiles a policy file, every terminal node of the trie is a *)
(* node of it, and there is a root: the walk of Insert left no gap.        *)
THEOREM TypeCorrect == Spec => []TypeOK
<1>1. Init => IInv
  BY InitHolds
<1>2. IInv /\ [Next]_vars => IInv'
  BY StepKeeps
<1>3. IInv => TypeOK
  <2> SUFFICES ASSUME IInv PROVE pol.fsTrie.terminal \subseteq pol.fsTrie.nodes /\ <<>> \in pol.fsTrie.nodes
    BY DEF IInv, TypeOK
  <2>1. EntriesUpTo(Done) \subseteq FsEntries /\ FsEntries \subseteq Seq(Segments)
    <3>3. PICK n \in Nat : n = Len(raw.fs)
      BY EntriesType DEF IInv
    <3>4. pos \in Nat /\ (pc = "fs" => pos <= n + 1)
      BY <3>3 DEF IInv
    <3>1. Done \in Int /\ Done <= Len(raw.fs)
      BY <3>3, <3>4 DEF Done
    <3>2. \A k \in 1 .. Done : k \in 1 .. Len(raw.fs)
      BY <3>1, <3>3
    <3> QED BY <3>2, EntriesType DEF IInv, EntriesUpTo, FsEntries
  <2>2. ASSUME NEW entry \in Seq(Segments) PROVE entry \in Walk(entry)
    <3>1. Len(entry) \in 0 .. Len(entry)
      BY <2>2
    <3> QED BY <3>1, PrefixIs DEF Walk
  <2> QED BY <2>1, <2>2 DEF IInv, Compiles
<1> QED BY <1>1, <1>2, <1>3, PTL DEF Spec

(* The trie that Load has compiled decides on every path, of any depth, as *)
(* the list of entries of the file does, however many there are and        *)
(* however they overlap, if none of them is the root.                      *)
THEOREM TrieDecidesAsEntries == Spec => []TrieMatchesEntries
<1>1. Init => IInv
  BY InitHolds
<1>2. IInv /\ [Next]_vars => IInv'
  BY StepKeeps
<1>3. IInv => TrieMatchesEntries
  <2> SUFFICES ASSUME IInv, pc = "ready", <<>> \notin FsEntries, NEW p \in Paths
               PROVE  IsAllowed(pol.fsTrie, p) <=> FsEntries = {} \/ InSubtree(Parts(p))
    BY DEF TrieMatchesEntries
  <2>1. PICK trie : trie = pol.fsTrie
    OBVIOUS
  <2>2. PICK entries \in SUBSET Seq(Segments) : entries = FsEntries
    BY EntriesType DEF IInv
  <2>3. Compiles(trie, entries)
    BY <2>1, <2>2, EntriesType DEF IInv, Done
  <2>4. p \in Path
    BY PolicyLoadAssumption
  <2> QED BY <2>1, <2>2, <2>3, <2>4, TrieDecides DEF InSubtree
<1> QED BY <1>1, <1>2, <1>3, PTL DEF Spec
=============================================================================
