----------------------------- MODULE MCMonitor -----------------------------
(* A policy that kills socket, lets files under /tmp be opened and freezes *)
(* at the second high-entropy write, and a call for every outcome.         *)
EXTENDS Monitor

Path(segs) == [abs |-> TRUE, segs |-> segs]
Plain(nr, path) == [nr |-> nr, path |-> path, fd |-> 1, high |-> FALSE, large |-> FALSE]
Write(fd, large) == [nr |-> 1, path |-> NoPath, fd |-> fd, high |-> TRUE, large |-> large]

MCCalls == {Plain(0, NoPath), Plain(41, NoPath), Plain(231, NoPath),
            Plain(59, Path(<<"tmp", "a">>)), Plain(257, Path(<<"tmp", "a">>)),
            Plain(257, Path(<<"etc">>)), Write(1, FALSE), Write(2, FALSE),
            Write(1, TRUE)}

MCPol == [blocked |-> {"SYS_SOCKET"},
          fsTrie |-> Insert(NewTrie, Path(<<"tmp">>)),
          heuristic |-> [window |-> 8192, threshold |-> 72, maxHits |-> 2]]
=============================================================================
