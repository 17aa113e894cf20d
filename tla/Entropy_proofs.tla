--------------------------- MODULE Entropy_proofs ----------------------------
(* Theorems about module Entropy, for any descriptors, entropies,          *)
(* thresholds and limits, and any number of records.                       *)
EXTENDS Entropy, TLAPS

(* The count of the tracker is the number of high writes.                  *)
Counts == fds = high

(* Who holds the mutex.                                                    *)
Held == mu <=> mon = "hits"

(* An alarm is that of the write being looked at; until then, and after    *)
(* every write that did not raise it, all counts are below the limit.      *)
Pending == mon \in {"record", "hits", "verdict", "parked"} /\ alarm

Below ==
  /\ mon = "parked" => alarm
  /\ Pending => \E f \in Fds : fds[f] >= Needed
  /\ ~Pending => \A f \in Fds : fds[f] < Needed

(* The store, unless it is being written, and its copies are past stores.  *)
Copies ==
  /\ past \in Seq([Fds -> Entry])
  /\ \E k \in 1 .. Len(past) : past[k] = panel
  /\ \E k \in 1 .. Len(past) : past[k] = snap
  /\ ~mu => Len(past) > 0 /\ past[Len(past)] = entries

(* The first alarm is the last: before it no entry has a hit, and the      *)
(* store is written only before the alarm is acted upon.                   *)
Hits ==
  mon \in {"loop", "observe", "record", "hits"} \/ ~alarm =>
    \A f \in Fds : entries[f].hits = 0

IInv == TypeOK /\ Counts /\ Held /\ Below /\ Copies /\ Hits

-----------------------------------------------------------------------------
USE EntropyAssumption DEF Empty, NoEntry, Entry, Needed, trackerVars, monVars,
  storeVars, uiVars

LEMMA Initially == Init => IInv
<1> SUFFICES ASSUME Init PROVE IInv
  OBVIOUS
<1>1. Empty \in [Fds -> Entry]
  OBVIOUS
<1>2. past[1] = Empty /\ Len(past) = 1 /\ past \in Seq([Fds -> Entry])
  BY <1>1 DEF Init
<1>3. \A k \in 1 .. Len(past) : past[k] \in [Fds -> Entry]
  BY <1>2
<1>4. maxHits \in Nat /\ fds \in [Fds -> 0 .. Needed] /\ high \in [Fds -> Nat]
  BY DEF Init
<1>5. TypeOK
  BY <1>1, <1>3, <1>4 DEF Init, TypeOK
<1>6. Counts /\ Held /\ Hits
  BY DEF Init, Counts, Held, Hits
<1>7. Below
  BY <1>4 DEF Init, Below, Pending
<1>8. Copies
  BY <1>2 DEF Init, Copies
<1> QED
  BY <1>5, <1>6, <1>7, <1>8 DEF IInv

(* A step that leaves the store and both copies alone.                     *)
LEMMA CopiesKept ==
  ASSUME Copies, UNCHANGED <<storeVars, panel, snap>>
  PROVE  Copies'
BY DEF Copies

LEMMA WriteKeeps == IInv /\ Write => IInv'
<1> SUFFICES ASSUME IInv, Write PROVE IInv'
  OBVIOUS
<1>1. TypeOK' /\ Counts' /\ Held' /\ Below' /\ Hits'
  BY DEF IInv, Write, TypeOK, Counts, Held, Below, Pending, Hits
<1>2. Copies'
  BY CopiesKept DEF IInv, Write
<1> QED
  BY <1>1, <1>2 DEF IInv

(* The count is below the limit before the write, so it reaches the limit  *)
(* at most, and does exactly when the write raises the alarm.              *)
LEMMA ObserveKeeps == IInv /\ Observe => IInv'
<1> SUFFICES ASSUME IInv, Observe PROVE IInv'
  OBVIOUS
<1> DEFINE counted == h >= threshold
           count   == fds[fd] + 1
<1>1. TypeOK /\ mon = "observe" /\ fds = high
  BY DEF IInv, Observe, Counts
<1>2. \A f \in Fds : fds[f] < Needed
  BY <1>1 DEF IInv, Below, Pending
<1>3. /\ fds' = IF counted THEN [fds EXCEPT ![fd] = count] ELSE fds
      /\ high' = IF counted THEN [high EXCEPT ![fd] = @ + 1] ELSE high
      /\ alarm' = (counted /\ count >= maxHits)
      /\ mon' \in {"record", "verdict"}
      /\ UNCHANGED <<threshold, maxHits, fd, h, storeVars, uiVars>>
  BY DEF Observe, Alarm
<1>4. fds[fd] \in Nat /\ fd \in Fds /\ maxHits \in Nat /\ fds \in [Fds -> Nat]
  BY <1>1 DEF TypeOK
<1>5. fds' = high'
  BY <1>1, <1>3
<1>6. \A f \in Fds : fds'[f] = IF counted /\ f = fd THEN count ELSE fds[f]
  BY <1>3, <1>4
<1>7. count >= maxHits <=> count = Needed
  BY <1>2, <1>4
<1>8. fds' \in [Fds -> 0 .. Needed] /\ high' \in [Fds -> Nat] /\ Needed' = Needed
  BY <1>1, <1>2, <1>3, <1>4 DEF TypeOK
<1>9. TypeOK'
  BY <1>1, <1>3, <1>8 DEF TypeOK
<1>10. Below'
  <2>1. Pending' <=> counted /\ count = Needed
    BY <1>3, <1>7 DEF Pending
  <2>2. Pending' => \E f \in Fds : fds'[f] >= Needed
    BY <2>1, <1>4, <1>6
  <2>3. ~Pending' => \A f \in Fds : fds'[f] < Needed
    BY <2>1, <1>2, <1>4, <1>6
  <2>4. mon' # "parked"
    BY <1>3
  <2> QED
    BY <2>2, <2>3, <2>4, <1>8 DEF Below
<1>11. Held' /\ Hits'
  BY <1>1, <1>3 DEF IInv, Held, Hits
<1>12. Copies'
  BY <1>3, CopiesKept DEF IInv
<1> QED
  BY <1>5, <1>9, <1>10, <1>11, <1>12 DEF IInv, Counts

LEMMA RecordEntropyKeeps == IInv /\ RecordEntropy => IInv'
<1> SUFFICES ASSUME IInv, RecordEntropy PROVE IInv'
  OBVIOUS
<1> DEFINE e == [entries[fd] EXCEPT !.entropy = h]
<1>a. entries[fd] \in Entry /\ fd \in Fds /\ h \in {0} \cup Levels
      /\ entries \in [Fds -> Entry]
  BY DEF IInv, TypeOK
<1>b. e \in Entry /\ e.hits = entries[fd].hits
  BY <1>a
<1>c. entries' = [entries EXCEPT ![fd] = e]
  BY DEF RecordEntropy
<1>1. entries' \in [Fds -> Entry] /\ \A f \in Fds : entries'[f].hits = entries[f].hits
  BY <1>a, <1>b, <1>c
<1>2. TypeOK' /\ Counts' /\ Held' /\ Below' /\ Hits'
  BY <1>1 DEF IInv, RecordEntropy, TypeOK, Counts, Held, Below, Pending, Hits
<1>3. Copies'
  BY DEF IInv, RecordEntropy, Copies
<1> QED
  BY <1>2, <1>3 DEF IInv

(* No entry has a hit before this one; the new store is the latest one.    *)
LEMMA RecordHitsKeeps == IInv /\ RecordHits => IInv'
<1> SUFFICES ASSUME IInv, RecordHits PROVE IInv'
  OBVIOUS
<1>1. /\ TypeOK /\ Copies /\ mon = "hits" /\ mon' = "verdict" /\ mu' = FALSE
      /\ past' = Append(past, entries')
      /\ UNCHANGED <<fd, h, alarm, trackerVars, uiVars>>
  BY DEF IInv, RecordHits
<1>2. \A f \in Fds : entries[f].hits = 0
  BY <1>1 DEF IInv, Hits
<1>3. entries' \in [Fds -> Entry]
  <2> DEFINE e == [entries[fd] EXCEPT !.hits = @ + 1]
  <2>1. fd \in Fds /\ entries \in [Fds -> Entry] /\ entries[fd] \in Entry
    BY <1>1 DEF TypeOK
  <2>2. e \in Entry
    BY <2>1, <1>2
  <2>3. entries' = IF alarm THEN [entries EXCEPT ![fd] = e] ELSE entries
    BY DEF RecordHits
  <2> QED
    BY <2>1, <2>2, <2>3
<1>4. ~alarm => entries' = entries
  BY DEF RecordHits
<1>5. /\ past' \in Seq([Fds -> Entry]) /\ Len(past') = Len(past) + 1
      /\ past'[Len(past')] = entries'
      /\ Len(past) \in Nat
      /\ \A k \in 1 .. Len(past) : past'[k] = past[k]
  BY <1>1, <1>3 DEF Copies
<1>6. Copies'
  BY <1>1, <1>5 DEF Copies
<1>7. \A k \in 1 .. Len(past') : past'[k] \in [Fds -> Entry]
  BY <1>5
<1>8. TypeOK'
  BY <1>1, <1>3, <1>7 DEF TypeOK
<1>9. Counts' /\ Held' /\ Below' /\ Hits'
  BY <1>1, <1>2, <1>4 DEF IInv, Counts, Held, Below, Pending, Hits
<1> QED
  BY <1>6, <1>8, <1>9 DEF IInv

LEMMA VerdictKeeps == IInv /\ Verdict => IInv'
<1> SUFFICES ASSUME IInv, Verdict PROVE IInv'
  OBVIOUS
<1>1. TypeOK' /\ Counts' /\ Held' /\ Below' /\ Hits'
  BY DEF IInv, Verdict, TypeOK, Counts, Held, Below, Pending, Hits
<1>2. Copies'
  BY CopiesKept DEF IInv, Verdict
<1> QED
  BY <1>1, <1>2 DEF IInv

(* The lock is what makes the copy a past store.                           *)
LEMMA SnapshotKeeps == IInv /\ Snapshot => IInv'
<1> SUFFICES ASSUME IInv, Snapshot PROVE IInv'
  OBVIOUS
<1>1. TypeOK' /\ Counts' /\ Held' /\ Below' /\ Hits'
  BY DEF IInv, Snapshot, EmptyContinues, TypeOK, Counts, Held, Below, Pending, Hits
<1>2. Len(past) \in Nat /\ Len(past) > 0 /\ past[Len(past)] = entries
  BY DEF IInv, Snapshot, Free, Copies
<1>3. Copies'
  BY <1>2 DEF IInv, Snapshot, Copies
<1> QED
  BY <1>1, <1>3 DEF IInv

LEMMA PanelKeeps == IInv /\ (Draw \/ LoopEnds \/ UNCHANGED vars) => IInv'
<1> SUFFICES ASSUME IInv, Draw \/ LoopEnds \/ UNCHANGED vars PROVE IInv'
  OBVIOUS
<1>1. TypeOK' /\ Counts' /\ Held' /\ Below' /\ Hits'
  BY DEF IInv, Draw, LoopEnds, vars, TypeOK, Counts, Held, Below, Pending, Hits
<1>2. Copies'
  BY DEF IInv, Draw, LoopEnds, vars, Copies
<1> QED
  BY <1>1, <1>2 DEF IInv

(* The inductive invariant of the tracker, the store and the panel.        *)
THEOREM Invariant == Spec => []IInv
<1>1. IInv /\ [Next]_vars => IInv'
  BY WriteKeeps, ObserveKeeps, RecordEntropyKeeps, RecordHitsKeeps, VerdictKeeps,
     SnapshotKeeps, PanelKeeps DEF Next, Monitoring
<1> QED
  BY Initially, <1>1, PTL DEF Spec

(* No variable leaves its type: the count of a descriptor never passes the *)
(* limit, and no entry of the store ever has more than one hit.            *)
THEOREM TypeCorrect == Spec => []TypeOK
<1>1. IInv => TypeOK
  BY DEF IInv
<1> QED
  BY Invariant, <1>1, PTL

(* handleEntry freezes the tracee at the write that makes                  *)
(* max_high_entropy_writes to one descriptor, neither earlier nor later,   *)
(* for any limit and any order of writes to any descriptors.               *)
THEOREM FrozenOnTime == Spec => []AlarmOnTime
<1>1. IInv => AlarmOnTime
  <2> SUFFICES ASSUME IInv, mon \in {"loop", "parked"}
               PROVE  mon = "parked" <=> \E f \in Fds : high[f] >= Needed
    BY DEF AlarmOnTime
  <2>1. mon = "parked" <=> Pending
    BY DEF IInv, Below, Pending
  <2>2. high \in [Fds -> Nat] /\ fds = high /\ Needed \in Nat
    BY DEF IInv, TypeOK, Counts
  <2> QED
    BY <2>1, <2>2 DEF IInv, Below
<1> QED
  BY Invariant, <1>1, PTL

(* What the entropy panel shows was the whole of entropyStore between two  *)
(* calls of record, for any number of descriptors and records.             *)
THEOREM PanelWasStore == Spec => []PanelIsPast
<1>1. IInv => PanelIsPast
  BY DEF IInv, Copies, PanelIsPast
<1> QED
  BY Invariant, <1>1, PTL
=============================================================================
