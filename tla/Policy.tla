------------------------------- MODULE Policy -------------------------------
(***************************************************************************)
(* internal/policy without its state: the path trie and the evaluation of  *)
(* one intercepted syscall.  A path is [abs, segs]: whether it begins with *)
(* a slash, and its segments, "." and ".." among them.  A trie is          *)
(* [nodes, terminal]: a node is the sequence of segments that leads to it  *)
(* from the root <<>>.                                                     *)
(***************************************************************************)
EXTENDS Integers, Sequences, SequencesExt

NoPath == [abs |-> FALSE, segs |-> <<>>]   \* the empty string

\* filepath.Clean, lexically: "." vanishes, ".." removes the segment before
\* it, stays at the front of a relative path and vanishes at the root.
CleanStep(abs, out, seg) ==
  IF seg = "." THEN out
  ELSE IF seg # ".." THEN Append(out, seg)
  ELSE IF out # <<>> /\ Last(out) # ".." THEN Front(out)
  ELSE IF abs THEN out ELSE Append(out, seg)

\* Cleaned(path)[n] is what the first n segments leave.
Cleaned(path) ==
  LET out[n \in 0 .. Len(path.segs)] ==
        IF n = 0 THEN <<>> ELSE CleanStep(path.abs, out[n - 1], path.segs[n])
  IN  out

\* splitPath(filepath.Clean(path)): the slash in front is forgotten, and a
\* relative path with nothing left is ".".
Parts(path) ==
  LET out == Cleaned(path)[Len(path.segs)]
  IN  IF out = <<>> /\ ~ path.abs THEN <<".">> ELSE out

-----------------------------------------------------------------------------
(* Trie                                                                    *)

NewTrie == [nodes |-> {<<>>}, terminal |-> {}]

Prefix(parts, n) == SubSeq(parts, 1, n)

\* mutant: no nodes on the way to the leaf
InsertOnlyLeaf(trie, path) ==
  [nodes    |-> trie.nodes \cup {Parts(path)},
   terminal |-> trie.terminal \cup {Parts(path)}]
\* mutant: the loop stops one part too early
InsertNoLeaf(trie, path) ==
  [nodes    |-> trie.nodes \cup {Prefix(Parts(path), n) : n \in 0 .. Len(Parts(path)) - 1},
   terminal |-> trie.terminal \cup {Parts(path)}]
Insert(trie, path) ==
  [nodes    |-> trie.nodes \cup {Prefix(Parts(path), n) : n \in 0 .. Len(Parts(path))},
   terminal |-> trie.terminal \cup {Parts(path)}]

\* The walk ends at the first part that has no child or leads to a terminal
\* node; the root itself is looked at only when there is nothing to walk.
IsAllowed(trie, path) ==
  LET parts == Parts(path)
      ends  == {n \in 1 .. Len(parts) :
                  Prefix(parts, n) \notin trie.nodes \ trie.terminal}
  IN  \/ trie.nodes = {<<>>}
      \/ IF ends = {} THEN parts \in trie.terminal
         ELSE \E n \in ends : /\ \A m \in ends : n <= m
                              /\ Prefix(parts, n) \in trie.terminal

-----------------------------------------------------------------------------
(* Evaluation                                                              *)

Actions == {"Allow", "Kill", "Freeze", "Deny"}   \* Evaluate never says Dump

DefaultHeuristic == [window |-> 8192, threshold |-> 72, maxHits |-> 5]

\* The entries of syscallNames that the policies of the models refer to.
SyscallNames ==
  [nr \in {0, 1, 2, 41, 43, 59, 231, 257, 280, 288} |->
     CASE nr = 0   -> "SYS_READ"    [] nr = 1   -> "SYS_WRITE"
       [] nr = 2   -> "SYS_OPEN"    [] nr = 41  -> "SYS_SOCKET"
       [] nr = 43  -> "SYS_ACCEPT"  [] nr = 59  -> "SYS_EXECVE"
       [] nr = 231 -> "SYS_EXIT_GROUP" [] nr = 257 -> "SYS_OPENAT"
       [] nr = 280 -> "SYS_ACCEPT4" [] nr = 288 -> "SYS_ACCEPT4_"]

\* Any other number is printed: SYS_<nr>, and -1 as the uint64 it is.
SyscallName(nr) ==
  IF nr = -1 THEN "SYS_18446744073709551615"
  ELSE IF nr \in DOMAIN SyscallNames THEN SyscallNames[nr] ELSE <<"SYS_", nr>>

\* EntropyAlarm > BlockedSyscall > FSPolicy > Allow
Evaluate(pol, name, path, alarm) ==
  CASE alarm -> "Freeze"
    [] ~ alarm /\ name \in pol.blocked -> "Kill"
    [] ~ alarm /\ name \notin pol.blocked ->
         IF path # NoPath /\ ~ IsAllowed(pol.fsTrie, path) THEN "Deny" ELSE "Allow"
=============================================================================
