---------------------------- MODULE SyscallGate ----------------------------
(***************************************************************************)
(* What monitor.Run promises of the system calls of its tracee, while      *)
(* nothing but these calls stops it: a gate, through which one call goes   *)
(* after the other.  Each is judged once, before it has any effect, by the *)
(* policy and by the high-entropy writes seen so far on its descriptor;    *)
(* the verdict is logged, and it alone decides what becomes of the call.   *)
(***************************************************************************)
EXTENDS Integers

CONSTANTS
  Calls,      \* what may be asked for: [nr, path, fd, ...]
  NoCall,     \* no call is under way
  NoPath,     \* the path of a call that names none
  Fds,        \* file descriptors of writes
  Counted,    \* the calls that count: high-entropy writes the monitor can see
  Limit,      \* maxHits: the first count that raises the alarm
  Verdicts,   \* what the policy answers to a call, without an alarm and with one
  Blind,      \* what it answers to a call whose arguments cannot be read
  NoEvent     \* nothing has been logged

VARIABLES
  stage,      \* how far the call is, or why none will be
  call,       \* the call under way
  verdict,    \* the decision on it
  count,      \* calls of Counted that were judged, per descriptor
  log         \* the last event

gateVars == <<stage, call, verdict, count, log>>

Nothing == call = NoCall /\ verdict = "none"

GateInit ==
  /\ stage \in {"out", "lost"} /\ Nothing
  /\ count = [fd \in Fds |-> 0] /\ log = NoEvent

Ask(c) ==
  /\ stage = "out" /\ stage' = "asked"
  /\ call' = c
  /\ UNCHANGED <<verdict, count, log>>

Judge ==
  /\ stage = "asked" /\ stage' = "judged"
  /\ count' = IF call \in Counted THEN [count EXCEPT ![call.fd] = @ + 1] ELSE count
  /\ LET alarm == call \in Counted /\ count'[call.fd] >= Limit
     IN  verdict' = Verdicts[call][alarm]
  /\ log' = [nr |-> call.nr, path |-> call.path, action |-> verdict']
  /\ UNCHANGED call

(* A call that is to be killed or frozen gets no further.                  *)
Follow ==
  /\ stage = "judged"
  /\ \/ verdict = "Allow" /\ stage' = "executing"
     \/ verdict = "Deny" /\ stage' = "skipped"
  /\ UNCHANGED <<call, verdict, count, log>>

Return ==
  /\ stage \in {"executing", "skipped"} /\ stage' = "out"
  /\ Nothing'
  /\ UNCHANGED <<count, log>>

(* At any moment the tracee dies; while it is asked about, perhaps before  *)
(* the answer.                                                             *)
End ==
  /\ stage \notin {"gone", "unheard", "lost"} /\ stage' = "gone"
  /\ Nothing'
  /\ UNCHANGED <<count, log>>

EndUnheard ==
  /\ stage = "asked" /\ stage' = "unheard"
  /\ UNCHANGED <<call, verdict, count, log>>

(* The dead call is answered, by its number alone: it is logged, counts    *)
(* for nothing and has no effect.                                          *)
LogDead ==
  /\ stage = "unheard" /\ stage' = "gone"
  /\ log' = [nr |-> call.nr, path |-> NoPath, action |-> Blind[call]]
  /\ Nothing'
  /\ UNCHANGED count

(* A signal stops the tracee, the goroutine leaves its thread, or the user *)
(* quits: nothing is promised any more.                                    *)
Lose ==
  /\ stage' = "lost" /\ Nothing'
  /\ count' = [fd \in Fds |-> 0] /\ log' = NoEvent

GateNext == \/ \E c \in Calls : Ask(c)
            \/ Judge \/ Follow \/ Return
            \/ End \/ EndUnheard \/ LogDead
            \/ Lose

GateSpec == GateInit /\ [][GateNext]_gateVars
=============================================================================
