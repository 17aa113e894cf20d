---------------------------- MODULE MCPolicyLoad ----------------------------
(* Policy files with up to two entries of each kind, and all the paths of  *)
(* up to three segments over two names, "." and "..".                      *)
EXTENDS PolicyLoad

MCSegments == {"tmp", "log", ".", ".."}

UpTo2(S) == SeqOf(S, 2)

Abs(segs) == [abs |-> TRUE, segs |-> segs]
Rel(segs) == [abs |-> FALSE, segs |-> segs]

MCEntries == {Abs(<<>>), Abs(<<"tmp">>), Abs(<<"tmp", "log">>),
              Abs(<<"tmp", "..", "log">>), Rel(<<"log", ".">>)}

MCHeuristics == {[window |-> 0, threshold |-> 0, maxHits |-> 0],
                 [window |-> 0, threshold |-> 60, maxHits |-> 3],
                 [window |-> 4096, threshold |-> 60, maxHits |-> 3],
                 [window |-> 4096, threshold |-> 0, maxHits |-> 0]}

MCRawPolicies ==
  [block : UpTo2({"SYS_SOCKET", "SYS_ACCEPT4"}), fs : UpTo2(MCEntries),
   heuristic : MCHeuristics]

MCPaths == [abs : BOOLEAN, segs : SeqOf(MCSegments, 3)] \ {NoPath}
=============================================================================
