--------------------------- MODULE Monitor_proofs ---------------------------
(***************************************************************************)
(* The safety properties of Monitor, for every policy, every set of calls  *)
(* and any number of signals and migrations.                               *)
(***************************************************************************)
EXTENDS Monitor, TLAPS

(* The policy never answers anything but its four actions.                 *)
LEMMA EvaluateType ==
  ASSUME NEW pol, NEW name, NEW path, NEW alarm \in BOOLEAN
  PROVE  /\ Evaluate(pol, name, path, alarm) \in Actions
         /\ alarm <=> Evaluate(pol, name, path, alarm) = "Freeze"
<1>1. CASE alarm
  BY <1>1 DEF Evaluate, Actions
<1>2. CASE ~ alarm /\ name \in pol.blocked
  BY <1>2 DEF Evaluate, Actions
<1>3. CASE ~ alarm /\ name \notin pol.blocked
  BY <1>3 DEF Evaluate, Actions
<1> QED BY <1>1, <1>2, <1>3

(* The count that freezes is positive, whatever the limit, and a smaller    *)
(* one raises no alarm.                                                    *)
LEMMA FreezeAtFacts ==
  /\ FreezeAt \in Nat \ {0}
  /\ \A n \in Nat \ {0} : ~ Alarm(n) => n < FreezeAt
BY MonitorAssumption DEF FreezeAt, Alarm

-----------------------------------------------------------------------------
(* The inductive invariant                                                 *)

\* Where the tracee can be while Run holds it, and when the thread matters.
Place ==
  /\ gbrl = "runs" => tracee # "free"
  /\ ~ Alive => tracee \in {"free", "reaped"}
  /\ Alive /\ pc \in {"regs", "entry", "enforce", "frozen"} =>
       tracee \in {"entry", "exit", "free"} \cup Dead
  /\ Alive /\ pc = "forward" => tracee \in {"signal", "free"} \cup Dead
  /\ unseen => tracee \in Stops \cup {"zombie"}
  /\ migrations = 0 => home

\* A descriptor at its limit has frozen Run, or is about to.
Limit ==
  \A fd \in Fds :
    \/ hits[fd] < FreezeAt
    \/ pc = "frozen"
    \/ pc = "enforce" /\ action = "Freeze"

\* A call judged to be frozen leads Run straight into `select {}`.
Parked ==
  verdict = "Freeze" => pc = "frozen" \/ (pc = "enforce" /\ action = "Freeze")

\* A refused call stays where it is, unless its number is overwritten.
Refusal ==
  migrations = 0 =>
    /\ tracee = "entry" =>
         \/ verdict \in {"none", "Allow"}
         \/ verdict = "Deny" /\ invalid
         \/ pc = "enforce" /\ action = verdict
         \/ pc = "frozen"
    /\ tracee = "kernel" => verdict \in {"none", "Allow"} \/ invalid

IInv == TypeOK /\ Place /\ Limit /\ Parked /\ Refusal

(* The initial states satisfy the invariant.                               *)
LEMMA InitIInv == Init => IInv
<1> SUFFICES ASSUME Init PROVE IInv
  OBVIOUS
<1>1. FreezeAt \in Nat \ {0}
  BY FreezeAtFacts
<1>2. TypeOK
  <2>1. TraceeType
    BY DEF Init, TraceeType, Stops
  <2>2. RunType
    <3>1. hits \in [Fds -> 0 .. FreezeAt]
      BY <1>1 DEF Init
    <3>2. event.action = "none"
      BY DEF Init, NoEvent
    <3> QED BY <3>1, <3>2 DEF Init, RunType, Actions
  <2>3. WorldType
    BY DEF Init, WorldType
  <2> QED BY <2>1, <2>2, <2>3 DEF TypeOK
<1>3. Place
  BY DEF Init, Place, Stops, Dead, Alive
<1>4. Limit
  BY <1>1 DEF Init, Limit
<1>5. Parked
  BY DEF Init, Parked
<1>6. Refusal
  BY DEF Init, Refusal
<1> QED BY <1>2, <1>3, <1>4, <1>5, <1>6 DEF IInv

(* What the entropy tracker and the policy make of an entry stop.  The call *)
(* of a tracee that has died meanwhile counts for nothing.                 *)
LEMMA EntryFacts ==
  ASSUME TypeOK, Limit, HandleEntry
  PROVE  /\ action' \in Actions /\ event'.action = action'
         /\ hits' \in [Fds -> 0 .. FreezeAt]
         /\ \A fd \in Fds : hits'[fd] < FreezeAt \/ action' = "Freeze"
         /\ \A fd \in Fds : hits'[fd] >= hits[fd]
         /\ tracee = "entry" /\ Executes /\ Observable(call) =>
              hits'[call.fd] = hits[call.fd] + 1
         /\ tracee \in Dead => hits' = hits /\ action' # "Freeze"
         /\ tracee = "entry" /\ Executes =>
              event' = [nr |-> call.nr, path |-> call.path, action |-> action']
<1>1. /\ call.fd \in Fds /\ Observable(call) \in BOOLEAN
      /\ pc = "entry"
      /\ invalid \in BOOLEAN
      /\ hits \in [Fds -> 0 .. FreezeAt]
      /\ FreezeAt \in Nat \ {0}
  BY MonitorAssumption, FreezeAtFacts
     DEF TypeOK, TraceeType, RunType, HandleEntry, Observable
<1>2. \A fd \in Fds : hits[fd] < FreezeAt
  BY <1>1 DEF Limit
<1>3. PICK read \in Reads :
        /\ hits' = Observed(read)
        /\ action' = Evaluate(Pol, SyscallName(IF Executes THEN call.nr ELSE -1),
                              IF Executes /\ read THEN call.path ELSE NoPath,
                              hits' # hits /\ Alarm(hits'[call.fd]))
        /\ event' = [nr |-> IF Executes THEN call.nr ELSE -1,
                     path |-> IF Executes /\ read THEN call.path ELSE NoPath,
                     action |-> action']
  BY DEF HandleEntry
<1>4. (tracee = "entry" => read = TRUE) /\ (tracee \in Dead => read = FALSE)
  BY DEF Reads, Dead
<1>5. /\ action' \in Actions
      /\ hits' # hits /\ Alarm(hits'[call.fd]) <=> action' = "Freeze"
  <2>1. (hits' # hits /\ Alarm(hits'[call.fd])) \in BOOLEAN
    BY DEF Alarm
  <2> QED BY <1>3, <2>1, EvaluateType
<1>6. tracee = "entry" /\ Executes =>
        event' = [nr |-> call.nr, path |-> call.path, action |-> action']
  BY <1>3, <1>4
<1>7. event'.action = action'
  BY <1>3
<1>8. CASE Executes /\ Observable(call) /\ read
  <2>1. /\ hits' = [hits EXCEPT ![call.fd] = @ + 1]
        /\ tracee \notin Dead
    BY <1>3, <1>4, <1>8 DEF Observed
  <2>2. /\ hits' \in [Fds -> 0 .. FreezeAt]
        /\ \A fd \in Fds : hits'[fd] = IF fd = call.fd THEN hits[fd] + 1 ELSE hits[fd]
    BY <1>1, <1>2, <2>1
  <2>3. hits' # hits /\ hits'[call.fd] \in Nat \ {0}
    BY <1>1, <2>2
  <2>4. hits'[call.fd] < FreezeAt \/ action' = "Freeze"
    BY <1>5, <2>3, FreezeAtFacts
  <2> QED BY <1>1, <1>2, <1>5, <1>6, <1>7, <2>1, <2>2, <2>4
<1>9. CASE ~ (Executes /\ Observable(call) /\ read)
  <2>1. hits' = hits
    BY <1>3, <1>9 DEF Observed
  <2>2. ~ (tracee = "entry" /\ Executes /\ Observable(call))
    BY <1>4, <1>9
  <2> QED BY <1>1, <1>2, <1>5, <1>6, <1>7, <2>1, <2>2
<1> QED BY <1>8, <1>9

(* Resuming the tracee keeps its types and counts a write executed.        *)
LEMMA ResumeType ==
  ASSUME NEW s, TraceeType, WorldType, Obeys, Resume(s)
  PROVE  TraceeType' /\ wrote' \in [Fds -> Nat] /\ verdict' = verdict
<1>1. tracee \in Stops
  BY DEF Obeys
<1>2. CASE tracee = "entry"
  <2>1. CASE Executes /\ Observable(call)
    <3>1. wrote' = [wrote EXCEPT ![call.fd] = @ + 1]
      BY <1>2, <2>1 DEF Resume
    <3>2. call.fd \in Fds /\ wrote \in [Fds -> Nat]
      BY MonitorAssumption DEF TraceeType, WorldType
    <3>3. wrote[call.fd] + 1 \in Nat
      BY <3>2
    <3>4. wrote' \in [Fds -> Nat]
      BY <3>1, <3>2, <3>3, Zenon
    <3> QED BY <1>2, <3>4 DEF Resume, TraceeType, WorldType
  <2>2. CASE ~ (Executes /\ Observable(call))
    BY <1>2, <2>2 DEF Resume, TraceeType, WorldType
  <2> QED BY <2>1, <2>2
<1>3. CASE tracee = "exit"
  BY <1>3 DEF Resume, TraceeType, WorldType
<1>4. CASE tracee = "signal"
  BY <1>4 DEF Resume, TraceeType, WorldType, Dead
<1> QED BY <1>1, <1>2, <1>3, <1>4 DEF Stops

(* Every step preserves the types of the tracee.                           *)
LEMMA TraceeTypeStep == IInv /\ [Next]_vars => TraceeType'
<1> SUFFICES ASSUME IInv, [Next]_vars PROVE TraceeType'
  OBVIOUS
<1> USE DEF Alive, IInv, TypeOK, TraceeType, Stops, Dead
<1>1. ASSUME NEW c \in Calls, TraceeCalls(c) PROVE TraceeType'
  BY <1>1 DEF TraceeCalls, runVars
<1>2. CASE KernelFinishes
  BY <1>2 DEF KernelFinishes, runVars, history
<1>3. ASSUME NEW s \in {"handled", "fatal"}, SignalArrives(s) PROVE TraceeType'
  BY <1>3 DEF SignalArrives, runVars, history
<1>4. CASE TrapArrives
  BY <1>4 DEF TrapArrives, runVars, history
<1>5. CASE SetOptions
  BY <1>5 DEF SetOptions, traceeVars, history, environment
<1>6. CASE Top
  BY <1>6 DEF Top, traceeVars, history, environment
<1>7. CASE ResumeTracee
  <2>1. CASE Obeys
    BY <1>7, <2>1, ResumeType DEF ResumeTracee
  <2>2. CASE ~ Obeys
    BY <1>7, <2>2 DEF ResumeTracee, traceeVars, history, environment
  <2> QED BY <2>1, <2>2
<1>8. CASE Wait4
  BY <1>8 DEF Wait4, history, environment
<1>9. CASE RegsFail
  BY <1>9 DEF RegsFail, traceeVars, history, environment
<1>10. CASE HandleEntry
  BY <1>10 DEF HandleEntry, traceeVars, environment
<1>11. CASE HandleExit
  BY <1>11 DEF HandleExit, traceeVars, history, environment
<1>12. CASE EnforceKill
  BY <1>12 DEF EnforceKill, Dies, history, environment
<1>13. CASE EnforceDeny
  BY <1>13 DEF EnforceDeny, history, environment
<1>14. CASE EnforceFreeze
  BY <1>14 DEF EnforceFreeze, traceeVars, history, environment
<1>15. CASE EnforceAllow
  BY <1>15 DEF EnforceAllow, traceeVars, history, environment
<1>16. CASE Forward
  <2>1. CASE Obeys
    BY <1>16, <2>1, ResumeType DEF Forward
  <2>2. CASE ~ Obeys
    BY <1>16, <2>2 DEF Forward, traceeVars, history, environment
  <2> QED BY <2>1, <2>2
<1>17. CASE Migrate
  BY <1>17 DEF Migrate, traceeVars, runVars, history
<1>18. CASE PressF1
  BY <1>18 DEF PressF1, traceeVars, history
<1>19. CASE Kill
  BY <1>19 DEF Kill, Dies, runVars, history, environment
<1>20. CASE Exit
  BY <1>20 DEF Exit, runVars, history
<1>21. CASE GetRegs
  BY <1>21 DEF GetRegs, traceeVars, history, environment, Obeys
<1>22. CASE PressQ
  BY <1>22 DEF PressQ, runVars, history
<1>23. CASE UNCHANGED vars
  BY <1>23 DEF vars, traceeVars, runVars, history
<1> QED
  BY <1>1, <1>2, <1>3, <1>4, <1>5, <1>6, <1>7, <1>8, <1>9, <1>10, <1>11,
     <1>12, <1>13, <1>14, <1>15, <1>16, <1>17, <1>18, <1>19, <1>20, <1>21, <1>22, <1>23
  DEF Next, Tracee, Run

(* Every step preserves the types of Run.                                  *)
LEMMA RunTypeStep == IInv /\ [Next]_vars => RunType'
<1> SUFFICES ASSUME IInv, [Next]_vars PROVE RunType'
  OBVIOUS
<1> USE DEF Alive, IInv, TypeOK, RunType
<1>1. ASSUME NEW c \in Calls, TraceeCalls(c) PROVE RunType'
  BY <1>1 DEF TraceeCalls, runVars
<1>2. CASE KernelFinishes
  BY <1>2 DEF KernelFinishes, runVars, history
<1>3. ASSUME NEW s \in {"handled", "fatal"}, SignalArrives(s) PROVE RunType'
  BY <1>3 DEF SignalArrives, runVars, history
<1>4. CASE TrapArrives
  BY <1>4 DEF TrapArrives, runVars, history
<1>5. CASE SetOptions
  BY <1>5 DEF SetOptions, traceeVars, history, environment
<1>6. CASE Top
  BY <1>6 DEF Top, traceeVars, history, environment
<1>7. CASE ResumeTracee
  BY <1>7 DEF ResumeTracee, Resume, traceeVars, history, environment
<1>8. CASE Wait4
  BY <1>8 DEF Wait4, history, environment
<1>9. CASE RegsFail
  BY <1>9 DEF RegsFail, traceeVars, history, environment
<1>10. CASE HandleEntry
  BY <1>10, EntryFacts DEF HandleEntry, traceeVars, environment
<1>11. CASE HandleExit
  BY <1>11 DEF HandleExit, traceeVars, history, environment
<1>12. CASE EnforceKill
  BY <1>12 DEF EnforceKill, Dies, history, environment
<1>13. CASE EnforceDeny
  BY <1>13 DEF EnforceDeny, history, environment
<1>14. CASE EnforceFreeze
  BY <1>14 DEF EnforceFreeze, traceeVars, history, environment
<1>15. CASE EnforceAllow
  BY <1>15 DEF EnforceAllow, traceeVars, history, environment
<1>16. CASE Forward
  BY <1>16 DEF Forward, Resume, traceeVars, history, environment
<1>17. CASE Migrate
  BY <1>17 DEF Migrate, traceeVars, runVars, history
<1>18. CASE PressF1
  BY <1>18 DEF PressF1, traceeVars, history
<1>19. CASE Kill
  BY <1>19 DEF Kill, Dies, runVars, history, environment
<1>20. CASE Exit
  BY <1>20 DEF Exit, runVars, history
<1>21. CASE GetRegs
  BY <1>21 DEF GetRegs, traceeVars, history, environment, Obeys
<1>22. CASE PressQ
  BY <1>22 DEF PressQ, runVars, history
<1>23. CASE UNCHANGED vars
  BY <1>23 DEF vars, traceeVars, runVars, history
<1> QED
  BY <1>1, <1>2, <1>3, <1>4, <1>5, <1>6, <1>7, <1>8, <1>9, <1>10, <1>11,
     <1>12, <1>13, <1>14, <1>15, <1>16, <1>17, <1>18, <1>19, <1>20, <1>21, <1>22, <1>23
  DEF Next, Tracee, Run

(* Every step preserves the other types.                                   *)
LEMMA WorldTypeStep == IInv /\ [Next]_vars => WorldType'
<1> SUFFICES ASSUME IInv, [Next]_vars PROVE WorldType'
  OBVIOUS
<1> USE DEF Alive, IInv, TypeOK, WorldType
<1>1. ASSUME NEW c \in Calls, TraceeCalls(c) PROVE WorldType'
  BY <1>1 DEF TraceeCalls, runVars
<1>2. CASE KernelFinishes
  BY <1>2 DEF KernelFinishes, runVars, history
<1>3. ASSUME NEW s \in {"handled", "fatal"}, SignalArrives(s) PROVE WorldType'
  BY <1>3 DEF SignalArrives, runVars, history
<1>4. CASE TrapArrives
  BY <1>4 DEF TrapArrives, runVars, history
<1>5. CASE SetOptions
  BY <1>5 DEF SetOptions, traceeVars, history, environment
<1>6. CASE Top
  BY <1>6 DEF Top, traceeVars, history, environment
<1>7. CASE ResumeTracee
  <2>1. CASE Obeys
    BY <1>7, <2>1, ResumeType DEF ResumeTracee, environment
  <2>2. CASE ~ Obeys
    BY <1>7, <2>2 DEF ResumeTracee, traceeVars, history, environment
  <2> QED BY <2>1, <2>2
<1>8. CASE Wait4
  BY <1>8 DEF Wait4, history, environment
<1>9. CASE RegsFail
  BY <1>9 DEF RegsFail, traceeVars, history, environment
<1>10. CASE HandleEntry
  BY <1>10, EntryFacts DEF HandleEntry, traceeVars, environment
<1>11. CASE HandleExit
  BY <1>11 DEF HandleExit, traceeVars, history, environment
<1>12. CASE EnforceKill
  BY <1>12 DEF EnforceKill, Dies, history, environment
<1>13. CASE EnforceDeny
  BY <1>13 DEF EnforceDeny, history, environment
<1>14. CASE EnforceFreeze
  BY <1>14 DEF EnforceFreeze, traceeVars, history, environment
<1>15. CASE EnforceAllow
  BY <1>15 DEF EnforceAllow, traceeVars, history, environment
<1>16. CASE Forward
  <2>1. CASE Obeys
    BY <1>16, <2>1, ResumeType DEF Forward, environment
  <2>2. CASE ~ Obeys
    BY <1>16, <2>2 DEF Forward, traceeVars, history, environment
  <2> QED BY <2>1, <2>2
<1>17. CASE Migrate
  BY <1>17 DEF Migrate, traceeVars, runVars, history
<1>18. CASE PressF1
  BY <1>18 DEF PressF1, traceeVars, history
<1>19. CASE Kill
  BY <1>19 DEF Kill, Dies, runVars, history, environment
<1>20. CASE Exit
  BY <1>20 DEF Exit, runVars, history
<1>21. CASE GetRegs
  BY <1>21 DEF GetRegs, traceeVars, history, environment, Obeys
<1>22. CASE PressQ
  BY <1>22 DEF PressQ, runVars, history
<1>23. CASE UNCHANGED vars
  BY <1>23 DEF vars, traceeVars, runVars, history
<1> QED
  BY <1>1, <1>2, <1>3, <1>4, <1>5, <1>6, <1>7, <1>8, <1>9, <1>10, <1>11,
     <1>12, <1>13, <1>14, <1>15, <1>16, <1>17, <1>18, <1>19, <1>20, <1>21, <1>22, <1>23
  DEF Next, Tracee, Run

(* Every step keeps the tracee where Run may expect it.                    *)
LEMMA PlaceStep == IInv /\ [Next]_vars => Place'
<1> SUFFICES ASSUME IInv, [Next]_vars PROVE Place'
  OBVIOUS
<1> USE DEF Alive, IInv, Place, Stops, Dead, TypeOK, WorldType
<1>1. ASSUME NEW c \in Calls, TraceeCalls(c) PROVE Place'
  BY <1>1 DEF TraceeCalls, runVars
<1>2. CASE KernelFinishes
  BY <1>2 DEF KernelFinishes, runVars, history
<1>3. ASSUME NEW s \in {"handled", "fatal"}, SignalArrives(s) PROVE Place'
  BY <1>3 DEF SignalArrives, runVars, history
<1>4. CASE TrapArrives
  BY <1>4 DEF TrapArrives, runVars, history
<1>5. CASE SetOptions
  BY <1>5 DEF SetOptions, traceeVars, history, environment
<1>6. CASE Top
  BY <1>6 DEF Top, traceeVars, history, environment
<1>7. CASE ResumeTracee
  <2>1. CASE Obeys
    BY <1>7, <2>1 DEF ResumeTracee, Resume, environment, Obeys, TraceeType
  <2>2. CASE ~ Obeys
    BY <1>7, <2>2 DEF ResumeTracee, traceeVars, history, environment
  <2> QED BY <2>1, <2>2
<1>8. CASE Wait4
  BY <1>8 DEF Wait4, history, environment
<1>9. CASE RegsFail
  BY <1>9 DEF RegsFail, traceeVars, history, environment
<1>10. CASE HandleEntry
  BY <1>10 DEF HandleEntry, traceeVars, environment, Obeys
<1>11. CASE HandleExit
  BY <1>11 DEF HandleExit, traceeVars, history, environment, Obeys
<1>12. CASE EnforceKill
  BY <1>12 DEF EnforceKill, Dies, history, environment
<1>13. CASE EnforceDeny
  BY <1>13 DEF EnforceDeny, history, environment
<1>14. CASE EnforceFreeze
  BY <1>14 DEF EnforceFreeze, traceeVars, history, environment
<1>15. CASE EnforceAllow
  BY <1>15 DEF EnforceAllow, traceeVars, history, environment
<1>16. CASE Forward
  <2>1. CASE Obeys
    BY <1>16, <2>1 DEF Forward, Resume, environment, Obeys, TraceeType
  <2>2. CASE ~ Obeys
    BY <1>16, <2>2 DEF Forward, traceeVars, history, environment
  <2> QED BY <2>1, <2>2
<1>17. CASE Migrate
  BY <1>17 DEF Migrate, traceeVars, runVars, history
<1>18. CASE PressF1
  BY <1>18 DEF PressF1, traceeVars, history
<1>19. CASE Kill
  BY <1>19 DEF Kill, Dies, runVars, history, environment
<1>20. CASE Exit
  BY <1>20 DEF Exit, runVars, history
<1>21. CASE GetRegs
  BY <1>21 DEF GetRegs, traceeVars, history, environment, Obeys
<1>22. CASE PressQ
  BY <1>22 DEF PressQ, runVars, history
<1>23. CASE UNCHANGED vars
  BY <1>23 DEF vars, traceeVars, runVars, history
<1> QED
  BY <1>1, <1>2, <1>3, <1>4, <1>5, <1>6, <1>7, <1>8, <1>9, <1>10, <1>11,
     <1>12, <1>13, <1>14, <1>15, <1>16, <1>17, <1>18, <1>19, <1>20, <1>21, <1>22, <1>23
  DEF Next, Tracee, Run

(* A descriptor at its limit freezes Run, and stays frozen.                *)
LEMMA LimitStep == IInv /\ [Next]_vars => Limit'
<1> SUFFICES ASSUME IInv, [Next]_vars PROVE Limit'
  OBVIOUS
<1> USE DEF Alive, IInv, Limit, TypeOK
<1>1. ASSUME NEW c \in Calls, TraceeCalls(c) PROVE Limit'
  BY <1>1 DEF TraceeCalls, runVars
<1>2. CASE KernelFinishes
  BY <1>2 DEF KernelFinishes, runVars, history
<1>3. ASSUME NEW s \in {"handled", "fatal"}, SignalArrives(s) PROVE Limit'
  BY <1>3 DEF SignalArrives, runVars, history
<1>4. CASE TrapArrives
  BY <1>4 DEF TrapArrives, runVars, history
<1>5. CASE SetOptions
  BY <1>5 DEF SetOptions, traceeVars, history, environment
<1>6. CASE Top
  BY <1>6 DEF Top, traceeVars, history, environment
<1>7. CASE ResumeTracee
  BY <1>7 DEF ResumeTracee, Resume, traceeVars, history, environment
<1>8. CASE Wait4
  BY <1>8 DEF Wait4, history, environment
<1>9. CASE RegsFail
  BY <1>9 DEF RegsFail, traceeVars, history, environment
<1>10. CASE HandleEntry
  BY <1>10, EntryFacts DEF HandleEntry, traceeVars, environment
<1>11. CASE HandleExit
  BY <1>11 DEF HandleExit, traceeVars, history, environment
<1>12. CASE EnforceKill
  BY <1>12 DEF EnforceKill, Dies, history, environment
<1>13. CASE EnforceDeny
  BY <1>13 DEF EnforceDeny, history, environment
<1>14. CASE EnforceFreeze
  BY <1>14 DEF EnforceFreeze, traceeVars, history, environment
<1>15. CASE EnforceAllow
  BY <1>15 DEF EnforceAllow, traceeVars, history, environment
<1>16. CASE Forward
  BY <1>16 DEF Forward, Resume, traceeVars, history, environment
<1>17. CASE Migrate
  BY <1>17 DEF Migrate, traceeVars, runVars, history
<1>18. CASE PressF1
  BY <1>18 DEF PressF1, traceeVars, history
<1>19. CASE Kill
  BY <1>19 DEF Kill, Dies, runVars, history, environment
<1>20. CASE Exit
  BY <1>20 DEF Exit, runVars, history
<1>21. CASE GetRegs
  BY <1>21 DEF GetRegs, traceeVars, history, environment, Obeys
<1>22. CASE PressQ
  BY <1>22 DEF PressQ, runVars, history
<1>23. CASE UNCHANGED vars
  BY <1>23 DEF vars, traceeVars, runVars, history
<1> QED
  BY <1>1, <1>2, <1>3, <1>4, <1>5, <1>6, <1>7, <1>8, <1>9, <1>10, <1>11,
     <1>12, <1>13, <1>14, <1>15, <1>16, <1>17, <1>18, <1>19, <1>20, <1>21, <1>22, <1>23
  DEF Next, Tracee, Run

(* Nothing leaves the freeze.                                              *)
LEMMA ParkedStep == IInv /\ [Next]_vars => Parked'
<1> SUFFICES ASSUME IInv, [Next]_vars PROVE Parked'
  OBVIOUS
<1> USE DEF Alive, IInv, Parked
<1>1. ASSUME NEW c \in Calls, TraceeCalls(c) PROVE Parked'
  BY <1>1 DEF TraceeCalls, runVars
<1>2. CASE KernelFinishes
  BY <1>2 DEF KernelFinishes, runVars, history, history
<1>3. ASSUME NEW s \in {"handled", "fatal"}, SignalArrives(s) PROVE Parked'
  BY <1>3 DEF SignalArrives, runVars, history, history
<1>4. CASE TrapArrives
  BY <1>4 DEF TrapArrives, runVars, history, history
<1>5. CASE SetOptions
  BY <1>5 DEF SetOptions, traceeVars, environment, history
<1>6. CASE Top
  BY <1>6 DEF Top, traceeVars, environment, history
<1>7. CASE ResumeTracee
  BY <1>7 DEF ResumeTracee, Resume, history, environment
<1>8. CASE Wait4
  BY <1>8 DEF Wait4, environment, history
<1>9. CASE RegsFail
  BY <1>9 DEF RegsFail, traceeVars, environment, history
<1>10. CASE HandleEntry
  BY <1>10 DEF HandleEntry, traceeVars, environment
<1>11. CASE HandleExit
  BY <1>11 DEF HandleExit, traceeVars, environment, history
<1>12. CASE EnforceKill
  BY <1>12 DEF EnforceKill, Dies, history, environment
<1>13. CASE EnforceDeny
  BY <1>13 DEF EnforceDeny, environment, history
<1>14. CASE EnforceFreeze
  BY <1>14 DEF EnforceFreeze, traceeVars, environment, history
<1>15. CASE EnforceAllow
  BY <1>15 DEF EnforceAllow, traceeVars, environment, history
<1>16. CASE Forward
  BY <1>16 DEF Forward, Resume, history, environment
<1>17. CASE Migrate
  BY <1>17 DEF Migrate, traceeVars, runVars, history
<1>18. CASE PressF1
  BY <1>18 DEF PressF1, traceeVars, history
<1>19. CASE Kill
  BY <1>19 DEF Kill, Dies, history, runVars, environment
<1>20. CASE Exit
  BY <1>20 DEF Exit, runVars, history
<1>21. CASE GetRegs
  BY <1>21 DEF GetRegs, traceeVars, history, environment, Obeys
<1>22. CASE PressQ
  BY <1>22 DEF PressQ, runVars, history
<1>23. CASE UNCHANGED vars
  BY <1>23 DEF vars, traceeVars, runVars, history
<1> QED
  BY <1>1, <1>2, <1>3, <1>4, <1>5, <1>6, <1>7, <1>8, <1>9, <1>10, <1>11,
     <1>12, <1>13, <1>14, <1>15, <1>16, <1>17, <1>18, <1>19, <1>20, <1>21, <1>22, <1>23
  DEF Next, Tracee, Run

(* A refused call is held, or loses its number.                            *)
LEMMA RefusalStep == IInv /\ [Next]_vars => Refusal'
<1> SUFFICES ASSUME IInv, [Next]_vars PROVE Refusal'
  OBVIOUS
<1> USE DEF Alive, IInv, Refusal, Place, Stops, Dead, TypeOK, WorldType, TraceeType, RunType, Actions
<1>1. ASSUME NEW c \in Calls, TraceeCalls(c) PROVE Refusal'
  BY <1>1 DEF TraceeCalls, runVars
<1>2. CASE KernelFinishes
  BY <1>2 DEF KernelFinishes, runVars, history
<1>3. ASSUME NEW s \in {"handled", "fatal"}, SignalArrives(s) PROVE Refusal'
  BY <1>3 DEF SignalArrives, runVars, history
<1>4. CASE TrapArrives
  BY <1>4 DEF TrapArrives, runVars, history
<1>5. CASE SetOptions
  BY <1>5 DEF SetOptions, traceeVars, history, environment
<1>6. CASE Top
  BY <1>6 DEF Top, traceeVars, history, environment
<1>7. CASE ResumeTracee
  <2>1. CASE Obeys
    BY <1>7, <2>1 DEF ResumeTracee, Resume, environment, Obeys, TraceeType
  <2>2. CASE ~ Obeys
    BY <1>7, <2>2 DEF ResumeTracee, traceeVars, history, environment
  <2> QED BY <2>1, <2>2
<1>8. CASE Wait4
  BY <1>8 DEF Wait4, history, environment
<1>9. CASE RegsFail
  BY <1>9 DEF RegsFail, traceeVars, history, environment
<1>10. CASE HandleEntry
  BY <1>10 DEF HandleEntry, traceeVars, environment
<1>11. CASE HandleExit
  BY <1>11 DEF HandleExit, traceeVars, history, environment
<1>12. CASE EnforceKill
  BY <1>12 DEF EnforceKill, Dies, history, environment
<1>13. CASE EnforceDeny
  BY <1>13 DEF EnforceDeny, history, environment, Obeys
<1>14. CASE EnforceFreeze
  BY <1>14 DEF EnforceFreeze, traceeVars, history, environment
<1>15. CASE EnforceAllow
  BY <1>15 DEF EnforceAllow, traceeVars, history, environment
<1>16. CASE Forward
  <2>1. CASE Obeys
    BY <1>16, <2>1 DEF Forward, Resume, environment, Obeys, TraceeType
  <2>2. CASE ~ Obeys
    BY <1>16, <2>2 DEF Forward, traceeVars, history, environment
  <2> QED BY <2>1, <2>2
<1>17. CASE Migrate
  BY <1>17 DEF Migrate, traceeVars, runVars, history
<1>18. CASE PressF1
  BY <1>18 DEF PressF1, traceeVars, history
<1>19. CASE Kill
  BY <1>19 DEF Kill, Dies, runVars, history, environment
<1>20. CASE Exit
  BY <1>20 DEF Exit, runVars, history
<1>21. CASE GetRegs
  BY <1>21 DEF GetRegs, traceeVars, history, environment, Obeys
<1>22. CASE PressQ
  BY <1>22 DEF PressQ, runVars, history
<1>23. CASE UNCHANGED vars
  BY <1>23 DEF vars, traceeVars, runVars, history
<1> QED
  BY <1>1, <1>2, <1>3, <1>4, <1>5, <1>6, <1>7, <1>8, <1>9, <1>10, <1>11,
     <1>12, <1>13, <1>14, <1>15, <1>16, <1>17, <1>18, <1>19, <1>20, <1>21, <1>22, <1>23
  DEF Next, Tracee, Run

-----------------------------------------------------------------------------
(* The theorems                                                            *)

(* Every step of the tracee, the kernel, Run, the scheduler and the user   *)
(* keeps the invariant.                                                    *)
THEOREM InvariantHolds == Spec => []IInv
<1>1. Init => IInv
  BY InitIInv
<1>2. IInv /\ [Next]_vars => IInv'
  <2> SUFFICES ASSUME IInv, [Next]_vars PROVE IInv'
    OBVIOUS
  <2>1. TypeOK'
    BY TraceeTypeStep, RunTypeStep, WorldTypeStep DEF TypeOK
  <2> QED BY <2>1, PlaceStep, LimitStep, ParkedStep, RefusalStep DEF IInv
<1> QED BY <1>1, <1>2, PTL DEF Spec

(* The state of Run and of the tracee has its type; in particular no count *)
(* of high-entropy writes ever passes maxHits, or 1 (entropy.go:62-76).    *)
THEOREM TypeCorrect == Spec => []TypeOK
<1>1. IInv => TypeOK
  BY DEF IInv
<1> QED BY <1>1, InvariantHolds, PTL

(* A call refused at its entry stop is never executed, whatever signals    *)
(* arrive, as long as the goroutine keeps its thread (monitor.go:215-235). *)
THEOREM RefusedNeverRuns == Spec => []RefusedNeverExecutes
<1>1. IInv => RefusedNeverExecutes
  BY DEF IInv, Refusal, RefusedNeverExecutes, Executes
<1> QED BY <1>1, InvariantHolds, PTL

(* A frozen tracee makes no step until Q (monitor.go:229-235), for         *)
(* any number of signals and of moves between threads.                     *)
THEOREM FreezeHolds == Spec => FrozenStaysPut
<1> DEFINE Stays == (verdict = "Freeze" \/ pc = "frozen") /\ gbrl' = "runs" =>
                      tracee' = tracee \/ tracee' \in Dead
<1>1. IInv /\ [Next]_vars => [Stays]_vars
  <2> SUFFICES ASSUME IInv, [Next]_vars, verdict = "Freeze" \/ pc = "frozen", gbrl' = "runs"
               PROVE  tracee' = tracee \/ tracee' \in Dead
    OBVIOUS
  <2> USE DEF Alive, IInv, Place, Parked, Dead
  <2>1. ASSUME NEW c \in Calls, TraceeCalls(c) PROVE tracee' = tracee \/ tracee' \in Dead
    BY <2>1 DEF TraceeCalls, runVars
  <2>2. CASE KernelFinishes
    BY <2>2 DEF KernelFinishes, runVars, history
  <2>3. ASSUME NEW s \in {"handled", "fatal"}, SignalArrives(s) PROVE tracee' = tracee \/ tracee' \in Dead
    BY <2>3 DEF SignalArrives, runVars, history
  <2>4. CASE TrapArrives
    BY <2>4 DEF TrapArrives, runVars, history
  <2>5. CASE SetOptions
    BY <2>5 DEF SetOptions, traceeVars, environment
  <2>6. CASE Top
    BY <2>6 DEF Top, traceeVars, environment
  <2>7. CASE ResumeTracee
    BY <2>7 DEF ResumeTracee, environment
  <2>8. CASE Wait4
    BY <2>8 DEF Wait4, environment
  <2>9. CASE RegsFail
    BY <2>9 DEF RegsFail, traceeVars, environment
  <2>10. CASE HandleEntry
    BY <2>10 DEF HandleEntry, traceeVars, environment
  <2>11. CASE HandleExit
    BY <2>11 DEF HandleExit, traceeVars, environment
  <2>12. CASE EnforceKill
    BY <2>12 DEF EnforceKill, Dies, environment
  <2>13. CASE EnforceDeny
    BY <2>13 DEF EnforceDeny, environment
  <2>14. CASE EnforceFreeze
    BY <2>14 DEF EnforceFreeze, traceeVars, environment
  <2>15. CASE EnforceAllow
    BY <2>15 DEF EnforceAllow, traceeVars, environment
  <2>16. CASE Forward
    BY <2>16 DEF Forward, environment
  <2>17. CASE Migrate
    BY <2>17 DEF Migrate, traceeVars, runVars
  <2>18. CASE PressF1
    BY <2>18 DEF PressF1, traceeVars
  <2>19. CASE Kill
    BY <2>19 DEF Kill, Dies, runVars, environment
  <2>20. CASE Exit
    BY <2>20 DEF Exit, runVars
  <2>21. CASE GetRegs
    BY <2>21 DEF GetRegs, traceeVars, history, environment, Obeys
  <2>22. CASE PressQ
    BY <2>22 DEF PressQ, runVars, history
  <2>23. CASE UNCHANGED vars
    BY <2>23 DEF vars, traceeVars, runVars
  <2> QED
    BY <2>1, <2>2, <2>3, <2>4, <2>5, <2>6, <2>7, <2>8, <2>9, <2>10, <2>11,
       <2>12, <2>13, <2>14, <2>15, <2>16, <2>17, <2>18, <2>19, <2>20, <2>21, <2>22, <2>23
    DEF Next, Tracee, Run
<1> QED BY <1>1, InvariantHolds, PTL DEF Spec, FrozenStaysPut

(* When Run returns nil the tracee has exited, or has been killed          *)
(* (monitor.go:190-195, 216-220).                                          *)
LEMMA NilStep == IInv /\ NilMeansGone /\ [Next]_vars => NilMeansGone'
<1> SUFFICES ASSUME IInv, NilMeansGone, [Next]_vars PROVE NilMeansGone'
  OBVIOUS
<1> USE DEF Alive, IInv, Place, Dead, Stops, NilMeansGone
<1>1. ASSUME NEW c \in Calls, TraceeCalls(c) PROVE NilMeansGone'
  BY <1>1 DEF TraceeCalls, runVars
<1>2. CASE KernelFinishes
  BY <1>2 DEF KernelFinishes, runVars, history
<1>3. ASSUME NEW s \in {"handled", "fatal"}, SignalArrives(s) PROVE NilMeansGone'
  BY <1>3 DEF SignalArrives, runVars, history
<1>4. CASE TrapArrives
  BY <1>4 DEF TrapArrives, runVars, history
<1>5. CASE SetOptions
  BY <1>5 DEF SetOptions, traceeVars, environment
<1>6. CASE Top
  BY <1>6 DEF Top, traceeVars, environment
<1>7. CASE ResumeTracee
  BY <1>7 DEF ResumeTracee, environment, Resume, traceeVars, Obeys
<1>8. CASE Wait4
  BY <1>8 DEF Wait4, environment
<1>9. CASE RegsFail
  BY <1>9 DEF RegsFail, traceeVars, environment
<1>10. CASE HandleEntry
  BY <1>10 DEF HandleEntry, traceeVars, environment
<1>11. CASE HandleExit
  BY <1>11 DEF HandleExit, traceeVars, environment
<1>12. CASE EnforceKill
  BY <1>12 DEF EnforceKill, Dies, environment
<1>13. CASE EnforceDeny
  BY <1>13 DEF EnforceDeny, environment
<1>14. CASE EnforceFreeze
  BY <1>14 DEF EnforceFreeze, traceeVars, environment
<1>15. CASE EnforceAllow
  BY <1>15 DEF EnforceAllow, traceeVars, environment
<1>16. CASE Forward
  BY <1>16 DEF Forward, environment, Resume, traceeVars, Obeys
<1>17. CASE Migrate
  BY <1>17 DEF Migrate, traceeVars, runVars
<1>18. CASE PressF1
  BY <1>18 DEF PressF1, traceeVars
<1>19. CASE Kill
  BY <1>19 DEF Kill, Dies, runVars, environment
<1>20. CASE Exit
  BY <1>20 DEF Exit, runVars
<1>21. CASE GetRegs
  BY <1>21 DEF GetRegs, traceeVars, history, environment, Obeys
<1>22. CASE PressQ
  BY <1>22 DEF PressQ, runVars, history
<1>23. CASE UNCHANGED vars
  BY <1>23 DEF vars, traceeVars, runVars
<1> QED
  BY <1>1, <1>2, <1>3, <1>4, <1>5, <1>6, <1>7, <1>8, <1>9, <1>10, <1>11,
     <1>12, <1>13, <1>14, <1>15, <1>16, <1>17, <1>18, <1>19, <1>20, <1>21, <1>22, <1>23
  DEF Next, Tracee, Run

(* Nil is returned only when the tracee is gone, for any number of signals *)
(* and of moves between threads.                                           *)
THEOREM NilIsHonest == Spec => []NilMeansGone
<1>1. Init => NilMeansGone
  BY DEF Init, NilMeansGone
<1> QED BY <1>1, NilStep, InvariantHolds, PTL DEF Spec

-----------------------------------------------------------------------------
(* What Run achieves while no signal stops the tracee and the goroutine    *)
(* stays on its thread: the toggle inSyscall keeps step with the tracee,   *)
(* for every policy, every set of calls and any number of calls.           *)

\* Run is between two stops, with the tracee still where it was.
Between == pc \in {"top", "step", "resume"}

\* The call has been judged, and may go on.
Passed == (verdict = "Allow" /\ ~ invalid) \/ (verdict = "Deny" /\ invalid)

\* Where Run is, for each place where the tracee can be.
InStep ==
  /\ tracee = "signal" => ~ inSyscall /\ (pc = "options" \/ Between)
  /\ tracee = "user"   => ~ inSyscall /\ pc = "wait"
  /\ tracee = "entry" =>
       \/ pc \in {"wait", "regs"} /\ ~ inSyscall /\ verdict = "none" /\ ~ invalid
       \/ pc = "entry"
       \/ pc = "enforce" /\ inSyscall /\ verdict = action /\ ~ invalid
       \/ pc = "frozen" /\ inSyscall /\ ~ invalid
       \/ Between /\ inSyscall /\ Passed
  /\ tracee = "kernel" => inSyscall /\ pc = "wait" /\ Passed
  /\ tracee = "exit" =>
       \/ pc \in {"wait", "regs"} /\ inSyscall
       \/ Between /\ ~ inSyscall
  /\ pc = "entry" =>
       tracee \in {"entry"} \cup Dead /\ inSyscall /\ verdict = "none" /\ ~ invalid

\* The last event is the one of this call, with its outcome; the call of a
\* tracee that has died may have been logged without its path.
Logged(act) == event = [nr |-> call.nr, path |-> call.path, action |-> act]
InLog ==
  /\ pc = "enforce" => ~ invalid /\ (Logged(action) \/ (tracee \in Dead /\ action # "Freeze"))
  /\ pc = "frozen" => Logged("Freeze")
  /\ cause = "kill" => Logged("Kill") /\ pc = "returned"
  /\ tracee = "kernel" \/ (tracee = "entry" /\ Between) =>
       Logged(IF Executes THEN "Allow" ELSE "Deny")

\* A write is counted before it is executed.
InCount ==
  /\ \A fd \in Fds : wrote[fd] <= hits[fd] /\ wrote[fd] < FreezeAt
  /\ tracee = "entry" /\ inSyscall /\ pc # "entry" /\ Observable(call) /\ ~ invalid =>
       wrote[call.fd] < hits[call.fd]

CalmInv == Calm => InStep /\ InLog /\ InCount

-----------------------------------------------------------------------------
(* It holds at first, and no step ends the calm and restores it.           *)
LEMMA InitCalm == Init => CalmInv
<1> SUFFICES ASSUME Init PROVE InStep /\ InLog /\ InCount
  BY DEF CalmInv
<1>1. FreezeAt \in Nat \ {0}
  BY FreezeAtFacts
<1>2. InStep
  BY DEF Init, InStep, Between
<1>3. InLog
  BY DEF Init, InLog
<1>4. InCount
  BY <1>1 DEF Init, InCount
<1> QED BY <1>2, <1>3, <1>4

LEMMA CalmBefore == IInv /\ [Next]_vars /\ Calm' => Calm
<1> SUFFICES ASSUME IInv, [Next]_vars, Calm' PROVE Calm
  OBVIOUS
<1> USE DEF Alive, IInv, TypeOK, WorldType, Calm
<1>1. ASSUME NEW c \in Calls, TraceeCalls(c) PROVE Calm
  BY <1>1 DEF TraceeCalls, runVars
<1>2. CASE KernelFinishes
  BY <1>2 DEF KernelFinishes, runVars, history
<1>3. ASSUME NEW s \in {"handled", "fatal"}, SignalArrives(s) PROVE Calm
  BY <1>3 DEF SignalArrives
<1>4. CASE TrapArrives
  BY <1>4 DEF TrapArrives
<1>5. CASE SetOptions
  BY <1>5 DEF SetOptions, traceeVars, history, environment
<1>6. CASE Top
  BY <1>6 DEF Top, traceeVars, history, environment
<1>7. CASE ResumeTracee
  <2>1. CASE Obeys
    BY <1>7, <2>1 DEF ResumeTracee, Resume, environment, Obeys
  <2>2. CASE ~ Obeys
    BY <1>7, <2>2 DEF ResumeTracee, traceeVars, history, environment, Obeys
  <2> QED BY <2>1, <2>2
<1>8. CASE Wait4
  BY <1>8 DEF Wait4, history, environment
<1>9. CASE RegsFail
  BY <1>9 DEF RegsFail, traceeVars, history, environment
<1>10. CASE HandleEntry
  BY <1>10 DEF HandleEntry, traceeVars, environment
<1>11. CASE HandleExit
  BY <1>11 DEF HandleExit, traceeVars, history, environment
<1>12. CASE EnforceKill
  BY <1>12 DEF EnforceKill, Dies, history, environment
<1>13. CASE EnforceDeny
  BY <1>13 DEF EnforceDeny, history, environment
<1>14. CASE EnforceFreeze
  BY <1>14 DEF EnforceFreeze, traceeVars, history, environment
<1>15. CASE EnforceAllow
  BY <1>15 DEF EnforceAllow, traceeVars, history, environment
<1>16. CASE Forward
  <2>1. CASE Obeys
    BY <1>16, <2>1 DEF Forward, Resume, environment, Obeys
  <2>2. CASE ~ Obeys
    BY <1>16, <2>2 DEF Forward, traceeVars, history, environment, Obeys
  <2> QED BY <2>1, <2>2
<1>17. CASE Migrate
  BY <1>17 DEF Migrate
<1>18. CASE PressF1
  BY <1>18 DEF PressF1, traceeVars, history, environment
<1>19. CASE Kill
  BY <1>19 DEF Kill, Dies, runVars, history, environment
<1>20. CASE Exit
  BY <1>20 DEF Exit, runVars, history
<1>21. CASE GetRegs
  BY <1>21 DEF GetRegs, traceeVars, history, environment, Obeys
<1>22. CASE PressQ
  BY <1>22 DEF PressQ, runVars, history
<1>23. CASE UNCHANGED vars
  BY <1>23 DEF vars, traceeVars, runVars, history
<1> QED
  BY <1>1, <1>2, <1>3, <1>4, <1>5, <1>6, <1>7, <1>8, <1>9, <1>10, <1>11,
     <1>12, <1>13, <1>14, <1>15, <1>16, <1>17, <1>18, <1>19, <1>20, <1>21, <1>22, <1>23
  DEF Next, Tracee, Run

(* Every step keeps Run in step with the tracee.                           *)
LEMMA InStepStep == IInv /\ CalmInv /\ [Next]_vars /\ Calm' => InStep'
<1> SUFFICES ASSUME IInv, CalmInv, [Next]_vars, Calm' PROVE InStep'
  OBVIOUS
<1>0. Calm /\ InStep /\ home
  BY CalmBefore DEF CalmInv, IInv, Place, Calm
<1> USE <1>0 DEF IInv, Place, TypeOK, TraceeType, RunType, WorldType, Stops, Dead, Actions,
                InStep, Between, Passed
<1>1. ASSUME NEW c \in Calls, TraceeCalls(c) PROVE InStep'
  BY <1>1 DEF TraceeCalls, runVars
<1>2. CASE KernelFinishes
  BY <1>2 DEF KernelFinishes, runVars, history
<1>3. ASSUME NEW s \in {"handled", "fatal"}, SignalArrives(s) PROVE InStep'
  BY <1>3 DEF SignalArrives, Calm
<1>4. CASE TrapArrives
  BY <1>4 DEF TrapArrives, Calm
<1>5. CASE SetOptions
  BY <1>5 DEF SetOptions, traceeVars, history, environment, Obeys
<1>6. CASE Top
  BY <1>6 DEF Top, traceeVars, history, environment
<1>7. CASE ResumeTracee
  <2>1. CASE Obeys
    BY <1>7, <2>1 DEF ResumeTracee, Resume, environment, Obeys
  <2>2. CASE ~ Obeys
    BY <1>7, <2>2 DEF ResumeTracee, traceeVars, history, environment, Obeys
  <2> QED BY <2>1, <2>2
<1>8. CASE Wait4
  BY <1>8 DEF Wait4, history, environment
<1>9. CASE RegsFail
  BY <1>9 DEF RegsFail, traceeVars, history, environment, Obeys
<1>10. CASE HandleEntry
  BY <1>10, EntryFacts DEF HandleEntry, traceeVars, environment, Obeys
<1>11. CASE HandleExit
  BY <1>11 DEF HandleExit, traceeVars, history, environment, Obeys
<1>12. CASE EnforceKill
  BY <1>12 DEF EnforceKill, Dies, history, environment
<1>13. CASE EnforceDeny
  BY <1>13 DEF EnforceDeny, history, environment, Obeys
<1>14. CASE EnforceFreeze
  BY <1>14 DEF EnforceFreeze, traceeVars, history, environment
<1>15. CASE EnforceAllow
  BY <1>15 DEF EnforceAllow, traceeVars, history, environment
<1>16. CASE Forward
  <2>1. CASE Obeys
    BY <1>16, <2>1 DEF Forward, Resume, environment, Obeys
  <2>2. CASE ~ Obeys
    BY <1>16, <2>2 DEF Forward, traceeVars, history, environment, Obeys
  <2> QED BY <2>1, <2>2
<1>17. CASE Migrate
  BY <1>17 DEF Migrate, Calm
<1>18. CASE PressF1
  BY <1>18 DEF PressF1, traceeVars, history
<1>19. CASE Kill
  BY <1>19 DEF Kill, Dies, runVars, history, environment
<1>20. CASE Exit
  BY <1>20 DEF Exit, Calm
<1>21. CASE GetRegs
  BY <1>21 DEF GetRegs, traceeVars, history, environment, Obeys
<1>22. CASE PressQ
  BY <1>22 DEF PressQ, Calm
<1>23. CASE UNCHANGED vars
  BY <1>23 DEF vars, traceeVars, runVars, history
<1> QED
  BY <1>1, <1>2, <1>3, <1>4, <1>5, <1>6, <1>7, <1>8, <1>9, <1>10, <1>11,
     <1>12, <1>13, <1>14, <1>15, <1>16, <1>17, <1>18, <1>19, <1>20, <1>21, <1>22, <1>23
  DEF Next, Tracee, Run

(* Every step keeps the log in step with the tracee.                       *)
LEMMA InLogStep == IInv /\ CalmInv /\ [Next]_vars /\ Calm' => InLog'
<1> SUFFICES ASSUME IInv, CalmInv, [Next]_vars, Calm' PROVE InLog'
  OBVIOUS
<1>0. Calm /\ InStep /\ InLog /\ home
  BY CalmBefore DEF CalmInv, IInv, Place, Calm
<1> USE <1>0 DEF IInv, Place, TypeOK, TraceeType, RunType, WorldType, Stops, Dead, Actions,
                InStep, InLog, Logged, Between, Passed, Executes
<1>1. ASSUME NEW c \in Calls, TraceeCalls(c) PROVE InLog'
  BY <1>1 DEF TraceeCalls, runVars
<1>2. CASE KernelFinishes
  BY <1>2 DEF KernelFinishes, runVars, history
<1>3. ASSUME NEW s \in {"handled", "fatal"}, SignalArrives(s) PROVE InLog'
  BY <1>3 DEF SignalArrives, Calm
<1>4. CASE TrapArrives
  BY <1>4 DEF TrapArrives, Calm
<1>5. CASE SetOptions
  BY <1>5 DEF SetOptions, traceeVars, history, environment
<1>6. CASE Top
  BY <1>6 DEF Top, traceeVars, history, environment
<1>7. CASE ResumeTracee
  <2>1. CASE Obeys
    BY <1>7, <2>1 DEF ResumeTracee, Resume, environment, Obeys
  <2>2. CASE ~ Obeys
    BY <1>7, <2>2 DEF ResumeTracee, traceeVars, history, environment, Obeys
  <2> QED BY <2>1, <2>2
<1>8. CASE Wait4
  BY <1>8 DEF Wait4, history, environment
<1>9. CASE RegsFail
  BY <1>9 DEF RegsFail, traceeVars, history, environment, Obeys
<1>10. CASE HandleEntry
  <2>1. pc' = "enforce" /\ UNCHANGED <<tracee, call, invalid, cause>> /\ ~ invalid
        /\ tracee \in {"entry"} \cup Dead /\ pc = "entry"
    BY <1>10 DEF HandleEntry, traceeVars
  <2>2. Logged(action)' \/ (tracee \in Dead /\ action' # "Freeze")
    BY <1>10, <2>1, EntryFacts
  <2> QED BY <2>1, <2>2
<1>11. CASE HandleExit
  BY <1>11 DEF HandleExit, traceeVars, history, environment, Obeys
<1>12. CASE EnforceKill
  BY <1>12 DEF EnforceKill, Dies, history, environment
<1>13. CASE EnforceDeny
  BY <1>13 DEF EnforceDeny, history, environment, Obeys
<1>14. CASE EnforceFreeze
  BY <1>14 DEF EnforceFreeze, traceeVars, history, environment
<1>15. CASE EnforceAllow
  BY <1>15 DEF EnforceAllow, traceeVars, history, environment
<1>16. CASE Forward
  <2>1. CASE Obeys
    BY <1>16, <2>1 DEF Forward, Resume, environment, Obeys
  <2>2. CASE ~ Obeys
    BY <1>16, <2>2 DEF Forward, traceeVars, history, environment, Obeys
  <2> QED BY <2>1, <2>2
<1>17. CASE Migrate
  BY <1>17 DEF Migrate, Calm
<1>18. CASE PressF1
  BY <1>18 DEF PressF1, traceeVars, history
<1>19. CASE Kill
  BY <1>19 DEF Kill, Dies, runVars, history, environment
<1>20. CASE Exit
  BY <1>20 DEF Exit, Calm
<1>21. CASE GetRegs
  BY <1>21 DEF GetRegs, traceeVars, history, environment, Obeys
<1>22. CASE PressQ
  BY <1>22 DEF PressQ, Calm
<1>23. CASE UNCHANGED vars
  BY <1>23 DEF vars, traceeVars, runVars, history
<1> QED
  BY <1>1, <1>2, <1>3, <1>4, <1>5, <1>6, <1>7, <1>8, <1>9, <1>10, <1>11,
     <1>12, <1>13, <1>14, <1>15, <1>16, <1>17, <1>18, <1>19, <1>20, <1>21, <1>22, <1>23
  DEF Next, Tracee, Run

(* Every step keeps the count ahead of the writes.                         *)
LEMMA InCountStep == IInv /\ CalmInv /\ [Next]_vars /\ Calm' => InCount'
<1> SUFFICES ASSUME IInv, CalmInv, [Next]_vars, Calm' PROVE InCount'
  OBVIOUS
<1>0. /\ Calm /\ InStep /\ InCount /\ home
      /\ call.fd \in Fds /\ Observable(call) \in BOOLEAN
      /\ FreezeAt \in Nat \ {0}
  BY CalmBefore, MonitorAssumption, FreezeAtFacts
     DEF CalmInv, IInv, Place, Calm, TypeOK, TraceeType, Observable
<1>t. /\ hits \in [Fds -> 0 .. FreezeAt]
       /\ wrote \in [Fds -> Nat]
  BY DEF IInv, TypeOK, RunType, WorldType
<1> USE <1>0, <1>t DEF InCount
<1>1. ASSUME NEW c \in Calls, TraceeCalls(c) PROVE InCount'
  BY <1>1 DEF TraceeCalls, runVars, InStep
<1>2. CASE KernelFinishes
  BY <1>2 DEF KernelFinishes, runVars, history
<1>3. ASSUME NEW s \in {"handled", "fatal"}, SignalArrives(s) PROVE InCount'
  BY <1>3 DEF SignalArrives, Calm
<1>4. CASE TrapArrives
  BY <1>4 DEF TrapArrives, Calm
<1>5. CASE SetOptions
  BY <1>5 DEF SetOptions, traceeVars, history, environment
<1>6. CASE Top
  BY <1>6 DEF Top, traceeVars, history, environment
<1>7. CASE ResumeTracee
  <2>1. CASE Obeys /\ tracee = "entry" /\ Executes /\ Observable(call)
    <3>1. /\ wrote[call.fd] < hits[call.fd]
          /\ \A fd \in Fds : hits[fd] < FreezeAt
      BY <1>7, <2>1 DEF ResumeTracee, InStep, Between, Executes, IInv, Limit
    <3>2. /\ wrote' = [wrote EXCEPT ![call.fd] = @ + 1]
          /\ hits' = hits /\ tracee' = "kernel"
      BY <1>7, <2>1 DEF ResumeTracee, Resume
    <3> QED BY <3>1, <3>2
  <2>2. CASE Obeys /\ ~ (tracee = "entry" /\ Executes /\ Observable(call))
    <3>1. wrote' = wrote /\ hits' = hits /\ tracee' # "entry"
      BY <1>7, <2>2 DEF ResumeTracee, Resume, Obeys, Stops
    <3> QED BY <3>1
  <2>3. CASE ~ Obeys
    BY <1>7, <2>3 DEF ResumeTracee, traceeVars, history, environment
  <2> QED BY <2>1, <2>2, <2>3
<1>8. CASE Wait4
  BY <1>8 DEF Wait4, history, environment
<1>9. CASE RegsFail
  BY <1>9 DEF RegsFail, traceeVars, history, environment
<1>10. CASE HandleEntry
  <2>1. /\ hits' \in [Fds -> 0 .. FreezeAt]
        /\ \A fd \in Fds : hits'[fd] >= hits[fd]
        /\ tracee = "entry" /\ Executes /\ Observable(call) => hits'[call.fd] = hits[call.fd] + 1
    BY <1>10, EntryFacts DEF IInv
  <2>2. UNCHANGED <<tracee, call, invalid, wrote>>
    BY <1>10 DEF HandleEntry, traceeVars
  <2> QED BY <2>1, <2>2 DEF Executes
<1>11. CASE HandleExit
  BY <1>11 DEF HandleExit, traceeVars, history, environment
<1>12. CASE EnforceKill
  BY <1>12 DEF EnforceKill, Dies, history, environment
<1>13. CASE EnforceDeny
  BY <1>13 DEF EnforceDeny, history, environment
<1>14. CASE EnforceFreeze
  BY <1>14 DEF EnforceFreeze, traceeVars, history, environment
<1>15. CASE EnforceAllow
  BY <1>15 DEF EnforceAllow, traceeVars, history, environment
<1>16. CASE Forward
  <2>1. ~ Obeys
    BY <1>16 DEF Forward, Obeys, InStep, Between, IInv, Place, Stops, Dead
  <2> QED BY <1>16, <2>1 DEF Forward, traceeVars, history, environment
<1>17. CASE Migrate
  BY <1>17 DEF Migrate, Calm
<1>18. CASE PressF1
  BY <1>18 DEF PressF1, traceeVars, history
<1>19. CASE Kill
  BY <1>19 DEF Kill, Dies, runVars, history, environment
<1>20. CASE Exit
  BY <1>20 DEF Exit, Calm
<1>21. CASE GetRegs
  BY <1>21 DEF GetRegs, traceeVars, history, environment, Obeys
<1>22. CASE PressQ
  BY <1>22 DEF PressQ, Calm
<1>23. CASE UNCHANGED vars
  BY <1>23 DEF vars, traceeVars, runVars, history
<1> QED
  BY <1>1, <1>2, <1>3, <1>4, <1>5, <1>6, <1>7, <1>8, <1>9, <1>10, <1>11,
     <1>12, <1>13, <1>14, <1>15, <1>16, <1>17, <1>18, <1>19, <1>20, <1>21, <1>22, <1>23
  DEF Next, Tracee, Run

-----------------------------------------------------------------------------
(* The theorems                                                            *)

(* The invariant of the calm holds throughout.                             *)
THEOREM CalmHolds == Spec => []CalmInv
<1>1. IInv /\ CalmInv /\ [Next]_vars => CalmInv'
  BY InStepStep, InLogStep, InCountStep DEF CalmInv
<1> QED BY <1>1, InitCalm, InvariantHolds, PTL DEF Spec

(* A call that is executed was allowed at its own entry stop               *)
(* (monitor.go:211-250): the toggle never slips.                           *)
THEOREM JudgedBeforeExecuted == Spec => []ExecutedIsAllowed
<1>1. CalmInv => ExecutedIsAllowed
  BY DEF CalmInv, InStep, Passed, ExecutedIsAllowed, Executes
<1> QED BY <1>1, CalmHolds, PTL

(* Of the high-entropy writes to a descriptor that the monitor can see,    *)
(* fewer than maxHits are executed, for every limit, and none for a limit  *)
(* of 0 or less (monitor.go:292-301, entropy.go:62-76).                    *)
THEOREM WritesBounded == Spec => []FrozenInTime
<1>1. CalmInv => FrozenInTime
  BY DEF CalmInv, InCount, FrozenInTime
<1> QED BY <1>1, CalmHolds, PTL

(* The log tells what became of the last call (monitor.go:305-315).        *)
THEOREM LogIsTrue == Spec => []LogTellsOutcome
<1>1. IInv /\ CalmInv => LogTellsOutcome
  <2> SUFFICES ASSUME IInv, CalmInv, Calm,
                      tracee = "kernel" \/ pc = "frozen" \/ cause = "kill"
               PROVE  Logged(IF pc = "frozen" THEN "Freeze"
                             ELSE IF cause = "kill" THEN "Kill"
                             ELSE IF Executes THEN "Allow" ELSE "Deny")
    BY DEF LogTellsOutcome, Logged
  <2>1. InStep /\ InLog
    BY DEF CalmInv
  <2>2. CASE pc = "frozen"
    BY <2>1, <2>2 DEF InLog
  <2>3. CASE pc # "frozen" /\ cause = "kill"
    BY <2>1, <2>3 DEF InLog
  <2>4. CASE pc # "frozen" /\ cause # "kill"
    BY <2>1, <2>4 DEF InLog
  <2> QED BY <2>2, <2>3, <2>4
<1> QED BY <1>1, CalmHolds, InvariantHolds, PTL

-----------------------------------------------------------------------------
(* Run and the tracee are a gate                                           *)

(* The initial states, whose goroutine may be on another thread already.   *)
LEMMA InitGate == Init => Gate!GateInit
  BY DEF Init, Gate!GateInit, Gate!Nothing, Stage, Underway, Calm, Dead

(* What ends the calm is Lose, and so is every step after that.            *)
LEMMA GateLoses ==
  ASSUME ~ Calm' PROVE Gate!Lose
  BY DEF Gate!Lose, Gate!Nothing, Stage, Underway

(* A step that leaves the tracee, its call, the counts and the log alone.  *)
LEMMA GateStutters ==
  ASSUME Calm, Calm', Stage' = Stage, UNCHANGED <<hits, event>>,
         Underway => UNCHANGED <<call, verdict>>
  PROVE  UNCHANGED Gate!gateVars
  BY DEF Gate!gateVars, Underway

(* The tracee dies, perhaps while its call is looked at.                   *)
LEMMA GateEnds ==
  ASSUME TraceeType, InStep, Place, Calm, Calm', tracee \notin Dead, tracee' \in Dead,
         UNCHANGED <<hits, event, call, verdict>>, pc' = "entry" => pc = "entry"
  PROVE  Gate!End \/ Gate!EndUnheard
<1>1. tracee # "free"
  BY DEF Place, Calm
<1>2. Stage \in {"asked", "judged", "executing", "skipped", "out"}
  BY <1>1 DEF TraceeType, Stops, Dead, Stage
<1>3. CASE pc' = "entry"
  <2>1. Stage = "asked" /\ Stage' = "unheard" /\ Underway /\ Underway'
    BY <1>3 DEF InStep, Stage, Underway, Dead
  <2> QED BY <2>1 DEF Gate!EndUnheard
<1>4. CASE pc' # "entry"
  <2>1. Stage' = "gone" /\ ~ Underway'
    BY <1>4 DEF Stage, Underway, Dead
  <2> QED BY <1>2, <2>1 DEF Gate!End, Gate!Nothing
<1> QED BY <1>3, <1>4

(* The entry stop is looked at: the call under way is judged.              *)
LEMMA GateJudges ==
  ASSUME IInv, InStep, Calm, Calm', HandleEntry, tracee \notin Dead
  PROVE  Gate!Judge
<1>1. tracee = "entry" /\ verdict = "none" /\ Executes
  BY DEF HandleEntry, InStep, Executes
<1>2. /\ call \in Calls /\ call.fd \in Fds
      /\ hits \in [Fds -> 0 .. FreezeAt] /\ FreezeAt \in Nat \ {0}
  BY MonitorAssumption, FreezeAtFacts DEF IInv, TypeOK, TraceeType, RunType
<1>3. TRUE \in Reads /\ \A read \in Reads : read = TRUE
  BY <1>1 DEF Reads, Dead
<1>4. /\ UNCHANGED <<tracee, call>> /\ verdict' = action'
      /\ hits' = IF Observable(call) THEN [hits EXCEPT ![call.fd] = @ + 1] ELSE hits
      /\ event' = [nr |-> call.nr, path |-> call.path, action |-> action']
      /\ action' = Evaluate(Pol, SyscallName(call.nr), call.path,
                            hits' # hits /\ Alarm(hits'[call.fd]))
  BY <1>1, <1>3 DEF HandleEntry, Observed, traceeVars
<1>5. Observable(call) => hits' # hits
  BY <1>2, <1>4
<1>6. PICK alarm \in BOOLEAN :
        /\ alarm = (call \in {c \in Calls : Observable(c)} /\ hits'[call.fd] >= Pol.heuristic.maxHits)
        /\ action' = Evaluate(Pol, SyscallName(call.nr), call.path, alarm)
  BY <1>2, <1>4, <1>5 DEF Alarm
<1>7. action' \in Actions /\ action' # "none"
  BY <1>6, EvaluateType DEF Actions
<1>8. /\ Stage = "asked" /\ Stage' = "judged" /\ Underway /\ Underway'
  BY <1>1, <1>4, <1>7 DEF Stage, Underway
<1>9. [c \in Calls |-> [a \in BOOLEAN |-> Evaluate(Pol, SyscallName(c.nr), c.path, a)]][call][alarm]
        = action'
  BY <1>2, <1>6
<1>10. call \in {c \in Calls : Observable(c)} <=> Observable(call)
  BY <1>2
<1> QED BY <1>4, <1>6, <1>8, <1>9, <1>10 DEF Gate!Judge

(* The tracee has died before its call could be looked at.                 *)
LEMMA GateLogsDead ==
  ASSUME IInv, InStep, Calm, Calm', HandleEntry, tracee \in Dead
  PROVE  Gate!LogDead
<1>1. /\ Executes /\ call \in Calls
      /\ \A read \in Reads : read = FALSE
      /\ ~ (hits # hits /\ Alarm(hits[call.fd]))
  BY DEF HandleEntry, InStep, Executes, IInv, TypeOK, TraceeType, Reads, Dead
<1>2. /\ UNCHANGED <<tracee, call, hits, verdict>> /\ pc = "entry" /\ pc' = "enforce"
      /\ event' = [nr |-> call.nr, path |-> NoPath, action |-> action']
      /\ action' = Evaluate(Pol, SyscallName(call.nr), NoPath, FALSE)
  <2>1. PICK read \in Reads :
          /\ hits' = Observed(read)
          /\ action' = Evaluate(Pol, SyscallName(call.nr), NoPath,
                                hits' # hits /\ Alarm(hits'[call.fd]))
          /\ event' = [nr |-> call.nr, path |-> NoPath, action |-> action']
    BY <1>1 DEF HandleEntry
  <2>2. hits' = hits
    BY <1>1, <2>1 DEF Observed
  <2>3. (hits' # hits /\ Alarm(hits'[call.fd])) = FALSE
    BY <2>2
  <2> QED BY <2>1, <2>2, <2>3 DEF HandleEntry, traceeVars, Dead
<1>3. Stage = "unheard" /\ Stage' = "gone" /\ Underway /\ ~ Underway'
  BY <1>2 DEF Stage, Underway, Dead
<1>4. [c \in Calls |-> Evaluate(Pol, SyscallName(c.nr), NoPath, FALSE)][call] = action'
  BY <1>1, <1>2
<1> QED BY <1>2, <1>3, <1>4 DEF Gate!LogDead, Gate!Nothing

(* The tracee is resumed from its entry stop: the verdict is followed.     *)
LEMMA GateFollows ==
  ASSUME InStep, Calm, Calm', ResumeTracee, Obeys, tracee = "entry"
  PROVE  Gate!Follow
<1>1. Passed
  BY DEF ResumeTracee, InStep, Between
<1>2. tracee' = "kernel" /\ UNCHANGED <<call, invalid, verdict, hits, event>>
  BY DEF ResumeTracee, Resume
<1>3. Stage = "judged" /\ Underway /\ Underway'
  BY <1>1, <1>2 DEF Stage, Underway, Passed
<1>4. \/ verdict = "Allow" /\ Stage' = "executing"
      \/ verdict = "Deny" /\ Stage' = "skipped"
  BY <1>1, <1>2 DEF Stage, Passed, Executes
<1> QED BY <1>2, <1>3, <1>4 DEF Gate!Follow

(* Every step in the calm is a step of the gate, or leaves it alone.       *)
LEMMA GateMoves ==
  ASSUME IInv, InStep, Calm, Calm', [Next]_vars
  PROVE  Gate!GateNext \/ UNCHANGED Gate!gateVars
<1> USE DEF Alive, IInv, TypeOK, TraceeType
<1>1. ASSUME NEW c \in Calls, TraceeCalls(c) PROVE Gate!Ask(c)
  BY <1>1 DEF TraceeCalls, runVars, Gate!Ask, Stage, Underway, Dead
<1>2. CASE KernelFinishes
  <2>1. tracee = "kernel" /\ UNCHANGED <<hits, event, call, verdict, pc>>
    BY <1>2 DEF KernelFinishes, runVars, history
  <2>2. CASE tracee' = "zombie"
    BY <2>1, <2>2, GateEnds DEF Dead, Gate!GateNext
  <2>3. CASE tracee' = "exit"
    <3>1. Gate!Return
      BY <2>1, <2>3 DEF Gate!Return, Gate!Nothing, Stage, Underway, Dead
    <3> QED BY <3>1 DEF Gate!GateNext
  <2> QED BY <1>2, <2>2, <2>3 DEF KernelFinishes
<1>3. ASSUME NEW s \in {"handled", "fatal"}, SignalArrives(s) PROVE FALSE
  BY <1>3 DEF SignalArrives, Calm
<1>4. CASE TrapArrives
  BY <1>4 DEF TrapArrives, Calm
<1>5. CASE SetOptions \/ Top \/ RegsFail \/ GetRegs \/ HandleExit \/ EnforceFreeze \/ EnforceAllow \/ PressF1
  <2>1. /\ UNCHANGED <<traceeVars, hits, event, verdict>>
        /\ (pc = "entry" <=> pc' = "entry") \/ tracee \notin Dead
    BY <1>5 DEF SetOptions, Top, RegsFail, GetRegs, HandleExit, EnforceFreeze, EnforceAllow,
                PressF1, history, Obeys, Stops, Dead
  <2> QED BY <2>1, GateStutters DEF traceeVars, Stage, Underway, Executes
<1>6. CASE ResumeTracee
  <2>1. CASE Obeys /\ tracee = "entry"
    BY <1>6, <2>1, GateFollows DEF Gate!GateNext
  <2>2. CASE Obeys /\ tracee # "entry"
    <3>1. tracee \in {"exit", "signal"} /\ tracee' = "user" /\ UNCHANGED <<hits, event>>
      BY <1>6, <2>2 DEF ResumeTracee, Resume, Obeys, Stops
    <3> QED BY <3>1, GateStutters DEF Stage, Underway, Dead
  <2>3. CASE ~ Obeys
    <3>1. UNCHANGED <<traceeVars, hits, event, verdict>> /\ pc # "entry" /\ pc' # "entry"
      BY <1>6, <2>3 DEF ResumeTracee, history
    <3> QED BY <3>1, GateStutters DEF traceeVars, Stage, Underway, Executes
  <2> QED BY <2>1, <2>2, <2>3
<1>7. CASE Wait4
  <2>1. /\ UNCHANGED <<call, invalid, hits, event, verdict>>
        /\ tracee' = tracee \/ {tracee, tracee'} \subseteq Dead
        /\ pc # "entry" /\ pc' # "entry"
    BY <1>7 DEF Wait4, Dead, history
  <2> QED BY <2>1, GateStutters DEF Stage, Underway, Executes, Dead
<1>8. CASE HandleEntry
  BY <1>8, GateJudges, GateLogsDead DEF Gate!GateNext
<1>9. CASE EnforceKill
  <2>1. /\ UNCHANGED <<call, hits, event, verdict>> /\ Dies("kill")
        /\ pc # "entry" /\ pc' # "entry"
    BY <1>9 DEF EnforceKill, Dies, history
  <2>2. CASE tracee \in Dead
    BY <2>1, <2>2, GateStutters DEF Dies, Stage, Underway, Executes, Dead
  <2>3. CASE tracee \notin Dead
    BY <2>1, <2>3, GateEnds DEF Dies, Dead, Gate!GateNext
  <2> QED BY <2>2, <2>3
<1>10. CASE EnforceDeny
  <2>1. /\ UNCHANGED <<tracee, call, hits, event, verdict>> /\ tracee # "kernel"
        /\ pc # "entry" /\ pc' # "entry"
    BY <1>10 DEF EnforceDeny, history, InStep
  <2> QED BY <2>1, GateStutters DEF Stage, Underway
<1>11. CASE Forward
  <2>1. tracee \in Dead
    BY <1>11 DEF Forward, Place, InStep, Between, Calm
  <2>2. UNCHANGED <<traceeVars, hits, event, verdict>> /\ pc # "entry" /\ pc' # "entry"
    BY <1>11, <2>1 DEF Forward, Obeys, Stops, Dead, history
  <2> QED BY <2>2, GateStutters DEF traceeVars, Stage, Underway, Executes
<1>12. CASE Migrate
  BY <1>12 DEF Migrate, Calm
<1>13. CASE Kill
  <2>1. /\ tracee \notin Dead /\ tracee' = "zombie"
        /\ UNCHANGED <<hits, event, call, verdict, pc>>
    BY <1>13 DEF Kill, Dies, runVars, history
  <2> QED BY <2>1, GateEnds DEF Dead, Gate!GateNext
<1>14. CASE PressQ \/ Exit
  BY <1>14 DEF PressQ, Exit, Calm
<1>15. CASE UNCHANGED vars
  <2>1. UNCHANGED <<traceeVars, hits, event, verdict, pc>>
    BY <1>15 DEF vars, runVars, history
  <2> QED BY <2>1, GateStutters DEF traceeVars, Stage, Underway, Executes
<1> QED
  BY <1>1, <1>2, <1>3, <1>4, <1>5, <1>6, <1>7, <1>8, <1>9, <1>10, <1>11, <1>12, <1>13,
     <1>14, <1>15 DEF Next, Tracee, Run, Gate!GateNext

(* While no signal stops the tracee and the goroutine keeps its thread,    *)
(* the loop of Run and the tracee implement the gate: every call is judged *)
(* and logged once, with its own write counted, before it has an effect,   *)
(* and gets no further than its verdict lets it (monitor.go:174-259).      *)
THEOREM RunIsGate == Spec => ImplementsGate
<1>1. IInv /\ IInv' /\ CalmInv /\ [Next]_vars => [Gate!GateNext]_(Gate!gateVars)
  <2> SUFFICES ASSUME IInv, CalmInv, [Next]_vars
               PROVE  Gate!GateNext \/ UNCHANGED Gate!gateVars
    OBVIOUS
  <2>1. CASE ~ Calm'
    BY <2>1, GateLoses DEF Gate!GateNext
  <2>2. CASE Calm'
    BY <2>2, CalmBefore, GateMoves DEF CalmInv
  <2> QED BY <2>1, <2>2
<1> QED BY <1>1, InitGate, CalmHolds, InvariantHolds, PTL DEF Spec, ImplementsGate, Gate!GateSpec
=============================================================================
