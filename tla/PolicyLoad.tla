----------------------------- MODULE PolicyLoad -----------------------------
(***************************************************************************)
(* policy.Load: the YAML file is compiled, entry by entry, into the set of *)
(* blocked syscalls, the trie of allowed paths and the parameters of the   *)
(* entropy heuristic, which the monitor then asks about every syscall.     *)
(***************************************************************************)
EXTENDS Policy

CONSTANTS
  Segments,      \* of paths
  RawPolicies,   \* contents of policy files: [block, fs, heuristic]
  Paths          \* paths that a syscall may name

Path == [abs : BOOLEAN, segs : Seq(Segments)]

ASSUME PolicyLoadAssumption ==
  /\ {".", ".."} \subseteq Segments
  /\ \A file \in RawPolicies : file.fs \in Seq(Path)
  /\ Paths \subseteq Path

VARIABLES pc, raw, pos, pol

vars == <<pc, raw, pos, pol>>

Init ==
  /\ pc = "open"
  /\ raw \in RawPolicies
  /\ pos = 1
  /\ pol = [blocked |-> {}, fsTrie |-> NewTrie, heuristic |-> DefaultHeuristic]

-----------------------------------------------------------------------------
\* Load("") is the open policy, with nothing read.
LoadEmptyPath ==
  /\ pc = "open"
  /\ pc' = "open policy"
  /\ UNCHANGED <<raw, pos, pol>>

\* os.ReadFile or yaml.Unmarshal fails: no policy, gbrl-tui exits.
LoadFails ==
  /\ pc = "open"
  /\ pc' = "failed"
  /\ UNCHANGED <<raw, pos, pol>>

LoadReads ==
  /\ pc = "open"
  /\ pc' = "block"
  /\ UNCHANGED <<raw, pos, pol>>

BlockEntry ==
  /\ pc = "block"
  /\ IF pos <= Len(raw.block)
       THEN /\ pol' = [pol EXCEPT !.blocked = @ \cup {raw.block[pos]}]
            /\ pos' = pos + 1
            /\ UNCHANGED pc
       ELSE pos' = 1 /\ pc' = "fs" /\ UNCHANGED pol
  /\ UNCHANGED raw

FsEntry ==
  /\ pc = "fs"
  /\ IF pos <= Len(raw.fs)
       THEN /\ pol' = [pol EXCEPT !.fsTrie = Insert(@, raw.fs[pos])]
            /\ pos' = pos + 1
            /\ UNCHANGED pc
       ELSE pos' = 1 /\ pc' = "heuristic" /\ UNCHANGED pol
  /\ UNCHANGED raw

\* All three parameters come from the file, or none does.
TakeHeuristic(h) == IF h.window > 0 THEN h ELSE DefaultHeuristic

LoadReturns ==
  /\ pc = "heuristic"
  /\ pol' = [pol EXCEPT !.heuristic = TakeHeuristic(raw.heuristic)]
  /\ pc' = "ready"
  /\ UNCHANGED <<raw, pos>>

Next == \/ LoadEmptyPath \/ LoadFails \/ LoadReads
        \/ BlockEntry \/ FsEntry \/ LoadReturns

Spec == Init /\ [][Next]_vars

-----------------------------------------------------------------------------
(* Properties                                                              *)

TypeOK ==
  /\ pc \in {"open", "open policy", "failed", "block", "fs", "heuristic", "ready"}
  /\ raw \in RawPolicies /\ pos \in Nat
  /\ pol.fsTrie.terminal \subseteq pol.fsTrie.nodes
  /\ <<>> \in pol.fsTrie.nodes

FsEntries == {Parts(raw.fs[n]) : n \in 1 .. Len(raw.fs)}

\* What the list of entries says of a path: it lies in the subtree of one.
InSubtree(parts) == \E entry \in FsEntries : IsPrefix(entry, parts)

(* The compiled trie decides exactly as the list of entries does, in       *)
(* whatever order they were inserted and however they share prefixes: an   *)
(* entry never hides a shorter or a longer one (trie.go:27, :43-44).  The  *)
(* entry "/" is left out: next to others it opens nothing but itself,      *)
(* since the walk looks at the root only when there is nothing to walk.    *)
TrieMatchesEntries ==
  pc = "ready" /\ <<>> \notin FsEntries =>
    \A p \in Paths :
      IsAllowed(pol.fsTrie, p) <=> FsEntries = {} \/ InSubtree(Parts(p))
=============================================================================
