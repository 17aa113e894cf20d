------------------------------ MODULE Entropy -------------------------------
(***************************************************************************)
(* From a write of the tracee to the entropy panel.  The monitor goroutine *)
(* judges the buffers of write(2) with an instrumentedTracker, which       *)
(* counts with heuristic.EntropyTracker and records readings in an         *)
(* entropyStore; the entropy poll goroutine of gbrl-tui copies the store   *)
(* and has the event loop draw the copy.                                   *)
(*                                                                         *)
(* Entropies are in tenths of a bit.  The tracker compares with the        *)
(* threshold of the policy, the store with the constant EntropyThreshold.  *)
(* close(2) is not looked at and nothing calls Reset, so a descriptor that *)
(* is closed and opened again is the same fd here as it is in the code.    *)
(***************************************************************************)
EXTENDS Naturals, Sequences, FiniteSets

CONSTANTS
  Fds,         \* descriptors the tracee writes to
  Levels,      \* entropies of a buffer
  Thresholds,  \* entropy_threshold of a policy
  Limits,      \* max_high_entropy_writes of a policy
  MaxRecords   \* bound: records of the store

ASSUME EntropyAssumption ==
  Levels \cup Thresholds \cup Limits \cup {MaxRecords} \subseteq Nat

EntropyThreshold == 72

VARIABLES
  threshold, maxHits,   \* the fields of EntropyTracker
  fds,                  \* its map: the counts, 0 where there is no fdState
  mon,                  \* the monitor goroutine
  fd, h, alarm,         \* its write, the entropy, what inner.Observe returned
  mu, entries,          \* entropyStore
  poll, snap,           \* the entropy poll goroutine and its copy
  panel, loop,          \* entropyTable; the event loop: "runs" or "ended"
  high,                 \* history: writes at or above the threshold, per fd
  past                  \* history: the store after each record

trackerVars == <<threshold, maxHits, fds, high>>
monVars     == <<mon, fd, h, alarm>>
storeVars   == <<mu, entries, past>>
uiVars      == <<poll, snap, panel, loop>>
vars == <<trackerVars, monVars, storeVars, uiVars>>

NoEntry == [entropy |-> 0, hits |-> 0]
Empty   == [f \in Fds |-> NoEntry]

Init ==
  /\ threshold \in Thresholds /\ maxHits \in Limits
  /\ fds = [f \in Fds |-> 0] /\ high = [f \in Fds |-> 0]
  /\ mon = "loop" /\ fd \in Fds /\ h = 0 /\ alarm = FALSE
  /\ mu = FALSE /\ entries = Empty /\ past = <<Empty>>
  /\ poll = "tick" /\ snap = Empty /\ panel = Empty /\ loop = "runs"

-----------------------------------------------------------------------------
(* The monitor goroutine                                                   *)

(* A write of no bytes or of more than 1 MiB, and one whose buffer cannot  *)
(* be read, goes by; of a buffer that is read in part, the part is judged. *)
Write ==
  /\ mon = "loop" /\ Len(past) <= MaxRecords
  /\ fd' \in Fds /\ h' \in Levels
  /\ mon' \in {"observe", "loop"}
  /\ UNCHANGED <<alarm, trackerVars, storeVars, uiVars>>

AlarmLate(count) == count > maxHits      \* mutant: one write too many
Alarm(count) == count >= maxHits

Observe ==
  /\ mon = "observe"
  /\ LET counted == h >= threshold
         count   == fds[fd] + 1
     IN /\ fds'  = IF counted THEN [fds EXCEPT ![fd] = count] ELSE fds
        /\ high' = IF counted THEN [high EXCEPT ![fd] = @ + 1] ELSE high
        /\ alarm' = (counted /\ Alarm(count))
  /\ mon' = IF h >= EntropyThreshold THEN "record" ELSE "verdict"
  /\ UNCHANGED <<threshold, maxHits, fd, h, storeVars, uiVars>>

(* record holds the mutex over both of its assignments.                    *)
RecordEntropy ==
  /\ mon = "record" /\ ~mu
  /\ mu' = TRUE
  /\ entries' = [entries EXCEPT ![fd].entropy = h]
  /\ mon' = "hits"
  /\ UNCHANGED <<past, fd, h, alarm, trackerVars, uiVars>>

RecordHits ==
  /\ mon = "hits"
  /\ entries' = IF alarm THEN [entries EXCEPT ![fd].hits = @ + 1] ELSE entries
  /\ mu' = FALSE
  /\ past' = Append(past, entries')
  /\ mon' = "verdict"
  /\ UNCHANGED <<fd, h, alarm, trackerVars, uiVars>>

(* Evaluate answers an alarm with Freeze, and Run parks for ever.  (Under  *)
(* a policy that blocks write(2) the tracee is killed at the first one.)   *)
Verdict ==
  /\ mon = "verdict"
  /\ mon' = IF alarm THEN "parked" ELSE "loop"
  /\ UNCHANGED <<fd, h, alarm, trackerVars, storeVars, uiVars>>

-----------------------------------------------------------------------------
(* The entropy poll goroutine and the event loop                           *)

Unlocked == TRUE                         \* mutant: snapshot takes no lock
Free == ~mu

EmptyReturns == "ended"                  \* mutant: return instead of continue
EmptyContinues == "tick"

(* snapshot copies the entries, not the pointers to them.                  *)
Snapshot ==
  /\ poll = "tick" /\ Free
  /\ snap' = entries
  /\ poll' = IF entries = Empty THEN EmptyContinues ELSE "posted"
  /\ UNCHANGED <<panel, loop, trackerVars, monVars, storeVars>>

(* QueueUpdateDraw returns when the event loop has drawn.                  *)
Draw ==
  /\ poll = "posted" /\ loop = "runs"
  /\ panel' = snap
  /\ poll' = "tick"
  /\ UNCHANGED <<snap, loop, trackerVars, monVars, storeVars>>

(* The user quits, or F1 or F2 hangs the event loop.                       *)
LoopEnds ==
  /\ loop = "runs"
  /\ loop' = "ended"
  /\ UNCHANGED <<poll, snap, panel, trackerVars, monVars, storeVars>>

Monitoring == Observe \/ RecordEntropy \/ RecordHits \/ Verdict
Next == Write \/ Monitoring \/ Snapshot \/ Draw \/ LoopEnds

(* The goroutines are scheduled, the ticker ticks, and record and snapshot *)
(* take turns at the mutex; the tracee need not write.                     *)
Spec == Init /\ [][Next]_vars
        /\ WF_vars(Monitoring) /\ SF_vars(Snapshot) /\ WF_vars(Draw)

-----------------------------------------------------------------------------
Entry  == [entropy : {0} \cup Levels, hits : {0, 1}]
Needed == IF maxHits = 0 THEN 1 ELSE maxHits

TypeOK ==
  /\ threshold \in Thresholds /\ maxHits \in Limits
  /\ fds \in [Fds -> 0 .. Needed] /\ high \in [Fds -> Nat]
  /\ mon \in {"loop", "observe", "record", "hits", "verdict", "parked"}
  /\ fd \in Fds /\ h \in {0} \cup Levels /\ {alarm, mu} \subseteq BOOLEAN
  /\ {entries, snap, panel} \subseteq [Fds -> Entry]
  /\ \A k \in 1 .. Len(past) : past[k] \in [Fds -> Entry]
  /\ poll \in {"tick", "posted", "ended"} /\ loop \in {"runs", "ended"}

(* The tracee is frozen by the write that makes maxHits writes at or above *)
(* the policy's threshold to one descriptor, not before and not after,     *)
(* whatever the writes to the other descriptors and those in between; with *)
(* a limit of zero it is the first.  Nobody else parks the goroutine.      *)
AlarmOnTime ==
  mon \in {"loop", "parked"} =>
    (mon = "parked" <=> \E f \in Fds : high[f] >= Needed)

(* The panel shows the readings of all descriptors as they were together   *)
(* at one moment: the store between two records, never an entropy of one   *)
(* record with the hits of another.                                        *)
PanelIsPast == \E k \in 1 .. Len(past) : past[k] = panel

(* An alarm recorded in the store comes up in the panel, while the event   *)
(* loop lives; the tracee being frozen does not stop the poll goroutine.   *)
AlarmReachesPanel ==
  \A f \in Fds : (entries[f].hits > 0) ~> (panel[f].hits > 0 \/ loop = "ended")
=============================================================================
