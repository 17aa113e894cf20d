------------------------------ MODULE Monitor ------------------------------
(***************************************************************************)
(* monitor.Run, the ptrace loop, against the tracee and the kernel.  Run   *)
(* is a goroutine that makes one ptrace or wait4 call per step.  The       *)
(* tracee runs, stops, is signalled and is killed on its own.  The Go      *)
(* scheduler may move the goroutine to another thread (Run does not lock   *)
(* it to one), and the kernel obeys ptrace calls only from the thread that *)
(* launched the tracee.  The user presses F1 and F2 or quits.              *)
(*                                                                         *)
(* The tracee and ptrace itself are external: what they do is what the     *)
(* comments and error handling of the code expect of Linux.                *)
(***************************************************************************)
EXTENDS Integers, Policy

CONSTANTS
  Calls,          \* what the tracee may ask for: [nr, path, fd, high, large]
  Fds,            \* file descriptors of writes
  Pol,            \* the loaded policy
  MaxSignals,     \* bound: signals that reach the tracee
  MaxMigrations   \* bound: moves of the goroutine between threads

ASSUME MonitorAssumption ==
  /\ MaxSignals \in Nat /\ MaxMigrations \in Nat
  /\ \A c \in Calls : /\ c.fd \in Fds /\ c.high \in BOOLEAN /\ c.large \in BOOLEAN
                      /\ c.high => c.nr = 1
  /\ Pol.heuristic.maxHits \in Int

VARIABLES
  tracee,                \* where the tracee is
  unseen,                \* its stop or death has not been collected by wait4
  call, invalid,         \* its syscall; whether the number was overwritten
  sig,                   \* the signal it is about to get, or stopped with
  cause,                 \* what it died of
  home,                  \* the goroutine runs on the tracing thread
  pc, inSyscall, action, \* Run: where it is, and its locals
  result,                \* what Run returned
  hits,                  \* EntropyTracker: high-entropy writes per fd
  event,                 \* what was last offered to RingBuf and EventCh
  stepMode,
  gbrl,                  \* gbrl-tui runs, quits or has exited
  verdict,               \* history: the decision taken at this call's entry
  wrote,                 \* history: observable high-entropy writes executed per fd
  signals, migrations    \* how many there have been

traceeVars  == <<tracee, unseen, call, invalid, sig, cause>>
runVars     == <<pc, inSyscall, action, result, hits, event>>
history     == <<verdict, wrote>>
vars == <<traceeVars, runVars, history, home, stepMode, gbrl, signals, migrations>>

Stops == {"entry", "exit", "signal"}
Dead  == {"zombie", "reaped"}

Alive == gbrl # "exited"

NoEvent == [nr |-> -2, path |-> NoPath, action |-> "none"]

Init ==
  /\ tracee = "signal" /\ sig = "trap" /\ unseen = FALSE   \* after launcher.Start
  /\ call \in Calls /\ invalid = FALSE /\ cause = "none"
  /\ pc = "options" /\ inSyscall = FALSE /\ action = "Allow" /\ result = "none"
  /\ hits = [fd \in Fds |-> 0] /\ event = NoEvent /\ stepMode = FALSE
  /\ home \in BOOLEAN /\ migrations = IF home THEN 0 ELSE 1
  /\ migrations <= MaxMigrations
  /\ gbrl = "runs" /\ verdict = "none" /\ wrote = [fd \in Fds |-> 0] /\ signals = 0

-----------------------------------------------------------------------------
(* The tracee                                                              *)

TraceeCalls(c) ==
  /\ tracee = "user" /\ sig = "none"
  /\ tracee' = "entry" /\ unseen' = TRUE
  /\ call' = c /\ invalid' = FALSE /\ verdict' = "none"
  /\ UNCHANGED <<sig, cause, runVars, wrote, home, stepMode, gbrl, signals, migrations>>

Executes == ~ invalid

\* A write whose entropy the monitor sees and finds high: not more than
\* 1 MiB, in memory that can be read.
Observable(c) == c.high /\ ~ c.large

IsExit   == call.nr = 231
IsExec   == call.nr = 59

\* The kernel has executed the call, or refused the number -1.  A successful
\* execve also posts a SIGTRAP, for PTRACE_O_TRACEEXEC is not set.
KernelFinishes ==
  /\ tracee = "kernel"
  /\ unseen' = TRUE
  /\ IF Executes /\ IsExit
       THEN tracee' = "zombie" /\ cause' = "exit" /\ UNCHANGED sig
       ELSE /\ tracee' = "exit"
            /\ UNCHANGED cause
            /\ \/ UNCHANGED sig
               \/ Executes /\ IsExec /\ sig' = "trap"
  /\ UNCHANGED <<call, invalid, runVars, history, home, stepMode, gbrl, signals, migrations>>

\* A signal, handled by the tracee or fatal to it, is delivered.
SignalArrives(s) ==
  /\ tracee = "user" /\ sig = "none"
  /\ signals < MaxSignals
  /\ signals' = signals + 1
  /\ sig' = s
  /\ tracee' = "signal" /\ unseen' = TRUE
  /\ UNCHANGED <<call, invalid, cause, runVars, history, home, stepMode, gbrl, migrations>>

TrapArrives ==
  /\ tracee = "user" /\ sig = "trap"
  /\ signals' = signals + 1
  /\ tracee' = "signal" /\ unseen' = TRUE
  /\ UNCHANGED <<call, invalid, sig, cause, runVars, history, home, stepMode, gbrl, migrations>>

Tracee == \/ \E c \in Calls : TraceeCalls(c)
          \/ KernelFinishes
          \/ \E s \in {"handled", "fatal"} : SignalArrives(s)
          \/ TrapArrives

-----------------------------------------------------------------------------
(* The kernel's side of ptrace                                             *)

\* Any other thread, and any other state of the tracee, is ESRCH.
Obeys == home /\ tracee \in Stops

\* PTRACE_SYSCALL: s is the signal to deliver, "none" to suppress it.
Resume(s) ==
  /\ unseen' = FALSE
  /\ CASE tracee = "entry" ->
            /\ tracee' = "kernel"
            /\ wrote' = IF Executes /\ Observable(call)
                          THEN [wrote EXCEPT ![call.fd] = @ + 1] ELSE wrote
            /\ UNCHANGED <<sig, cause>>
       [] tracee = "exit" ->
            tracee' = "user" /\ UNCHANGED <<sig, cause, wrote>>
       [] tracee = "signal" ->
            /\ IF s \in {"fatal", "trap"}
                 THEN tracee' = "zombie" /\ cause' = s
                 ELSE tracee' = "user" /\ UNCHANGED cause
            /\ sig' = "none"
            /\ UNCHANGED wrote
  /\ UNCHANGED <<call, invalid, verdict>>

Dies(why) ==
  /\ IF tracee \in Dead THEN UNCHANGED <<tracee, unseen, cause>>
     ELSE tracee' = "zombie" /\ unseen' = TRUE /\ cause' = why
  /\ UNCHANGED <<call, invalid, sig, history>>

-----------------------------------------------------------------------------
(* monitor.Run                                                             *)

environment == <<home, stepMode, gbrl, signals, migrations>>

SetOptions ==
  /\ Alive /\ pc = "options"
  /\ IF Obeys THEN pc' = "top" /\ UNCHANGED result
     ELSE pc' = "returned" /\ result' = "error"
  /\ UNCHANGED <<traceeVars, inSyscall, action, hits, event, history, environment>>

\* The head of the loop, and <-cfg.StepCh, which waits for a key press.
Top ==
  /\ Alive /\ pc = "top"
  /\ pc' = IF stepMode THEN "step" ELSE "resume"
  /\ UNCHANGED <<traceeVars, inSyscall, action, result, hits, event, history, environment>>

ResumeTracee ==
  /\ Alive /\ pc = "resume"
  /\ IF Obeys THEN Resume("none") /\ pc' = "wait" /\ UNCHANGED result
     ELSE pc' = "returned" /\ result' = "error" /\ UNCHANGED <<traceeVars, history>>
  /\ UNCHANGED <<inSyscall, action, hits, event, environment>>

\* mutant: wait4 is asked for stops only
WaitStopsOnly ==
  /\ Alive /\ pc = "wait"
  /\ unseen /\ tracee \in Stops
  /\ unseen' = FALSE
  /\ pc' = IF tracee = "signal" THEN "forward" ELSE "regs"
  /\ UNCHANGED <<tracee, call, invalid, sig, cause, inSyscall, action, result,
                 hits, event, history, environment>>

Wait4 ==
  /\ Alive /\ pc = "wait"
  /\ unseen
  /\ unseen' = FALSE
  /\ IF tracee = "zombie"
       THEN tracee' = "reaped" /\ pc' = "returned" /\ result' = "nil"
       ELSE /\ pc' = IF tracee = "signal" THEN "forward" ELSE "regs"
            /\ UNCHANGED <<tracee, result>>
  /\ UNCHANGED <<call, invalid, sig, cause, inSyscall, action, hits, event, history, environment>>

\* PtraceGetRegs fails: back to the head of the loop.
RegsFail ==
  /\ Alive /\ pc = "regs"
  /\ ~ Obeys
  /\ pc' = "top"
  /\ UNCHANGED <<traceeVars, inSyscall, action, result, hits, event, history, environment>>

\* The registers of an entry stop have been copied.
GetRegs ==
  /\ Alive /\ pc = "regs"
  /\ Obeys /\ ~ inSyscall
  /\ inSyscall' = TRUE
  /\ pc' = "entry"
  /\ UNCHANGED <<traceeVars, action, result, hits, event, history, environment>>

\* Whether the path or the buffer can still be read: process_vm_readv needs
\* a tracee that lives, on any thread; one let go may have changed it.
Reads == IF tracee = "free" THEN BOOLEAN ELSE {tracee \notin Dead}

\* EntropyTracker.Observe, for a write of high-entropy data.
AlarmLate(count) == count > Pol.heuristic.maxHits      \* mutant: > for >=
Alarm(count) == count >= Pol.heuristic.maxHits
\* mutant: err # nil for err = nil
ObservedOnError(read) == IF Executes /\ Observable(call) /\ ~ read
                           THEN [hits EXCEPT ![call.fd] = @ + 1] ELSE hits
Observed(read) == IF Executes /\ Observable(call) /\ read
                    THEN [hits EXCEPT ![call.fd] = @ + 1] ELSE hits

\* handleEntry: a number already overwritten is a syscall like any other.
\* The event goes to the ring buffer and to the channel of the TUI, which
\* both drop it when they are full; CsvLog takes it from there.
HandleEntry ==
  /\ Alive /\ pc = "entry"
  /\ \E read \in Reads :
       LET nr   == IF Executes THEN call.nr ELSE -1
           path == IF Executes /\ read THEN call.path ELSE NoPath
       IN  /\ hits' = Observed(read)
           /\ action' = Evaluate(Pol, SyscallName(nr), path,
                                 hits' # hits /\ Alarm(hits'[call.fd]))
           /\ event' = [nr |-> nr, path |-> path, action |-> action']
  /\ verdict' = IF tracee = "entry" THEN action' ELSE verdict
  /\ pc' = "enforce"
  /\ UNCHANGED <<traceeVars, inSyscall, result, wrote, environment>>

\* mutant: inSyscall is not cleared
HandleExitNoToggle ==
  /\ Alive /\ pc = "regs"
  /\ Obeys /\ inSyscall
  /\ pc' = "top"
  /\ UNCHANGED <<traceeVars, inSyscall, action, result, hits, event, history, environment>>

HandleExit ==
  /\ Alive /\ pc = "regs"
  /\ Obeys /\ inSyscall
  /\ inSyscall' = FALSE
  /\ pc' = "top"
  /\ UNCHANGED <<traceeVars, action, result, hits, event, history, environment>>

\* mutant: Run returns without the SIGKILL
KillReturnsOnly ==
  /\ Alive /\ pc = "enforce" /\ action = "Kill"
  /\ pc' = "returned" /\ result' = "nil"
  /\ UNCHANGED <<traceeVars, inSyscall, action, hits, event, history, environment>>

EnforceKill ==
  /\ Alive /\ pc = "enforce" /\ action = "Kill"
  /\ Dies("kill")
  /\ pc' = "returned" /\ result' = "nil"
  /\ UNCHANGED <<inSyscall, action, hits, event, environment>>

\* mutant: the number is overwritten in the local copy only
DenyForgetsSetRegs ==
  /\ Alive /\ pc = "enforce" /\ action = "Deny"
  /\ pc' = "top"
  /\ UNCHANGED <<traceeVars, inSyscall, action, result, hits, event, history, environment>>

\* The error of PtraceSetRegs is ignored.
EnforceDeny ==
  /\ Alive /\ pc = "enforce" /\ action = "Deny"
  /\ invalid' = (invalid \/ Obeys)
  /\ pc' = "top"
  /\ UNCHANGED <<tracee, unseen, call, sig, cause, inSyscall, action, result, hits, event,
                 history, environment>>

FreezeContinues ==       \* mutant: the alert without `select {}`
  /\ Alive /\ pc = "enforce" /\ action = "Freeze"
  /\ pc' = "top"
  /\ UNCHANGED <<traceeVars, inSyscall, action, result, hits, event, history, environment>>

EnforceFreeze ==
  /\ Alive /\ pc = "enforce" /\ action = "Freeze"
  /\ pc' = "frozen"
  /\ UNCHANGED <<traceeVars, inSyscall, action, result, hits, event, history, environment>>

\* mutant: back to wait4, past the resume
AllowWaits ==
  /\ Alive /\ pc = "enforce" /\ action = "Allow"
  /\ pc' = "wait"
  /\ UNCHANGED <<traceeVars, inSyscall, action, result, hits, event, history, environment>>

EnforceAllow ==
  /\ Alive /\ pc = "enforce" /\ action = "Allow"
  /\ pc' = "top"
  /\ UNCHANGED <<traceeVars, inSyscall, action, result, hits, event, history, environment>>

\* The signal is delivered, and `continue` resumes the tracee once more.
Forward ==
  /\ Alive /\ pc = "forward"
  /\ IF Obeys THEN Resume(sig) ELSE UNCHANGED <<traceeVars, history>>
  /\ pc' = "top"
  /\ UNCHANGED <<inSyscall, action, result, hits, event, environment>>

Run == \/ SetOptions \/ Top \/ ResumeTracee \/ Wait4
       \/ RegsFail \/ GetRegs \/ HandleEntry \/ HandleExit
       \/ EnforceKill \/ EnforceDeny \/ EnforceFreeze \/ EnforceAllow
       \/ Forward

-----------------------------------------------------------------------------
(* The scheduler and the user                                              *)

Migrate ==
  /\ Alive /\ pc \notin {"frozen", "returned"}
  /\ migrations < MaxMigrations
  /\ migrations' = migrations + 1
  /\ home' = ~ home
  /\ UNCHANGED <<traceeVars, runVars, history, stepMode, gbrl, signals>>

\* F1: the first press enters step mode, for good; a later one is dropped
\* unless Run is waiting for it.
PressF1 ==
  /\ gbrl = "runs"
  /\ \/ ~ stepMode /\ stepMode' = TRUE /\ UNCHANGED pc
     \/ stepMode /\ pc = "step" /\ pc' = "resume" /\ UNCHANGED stepMode
  /\ UNCHANGED <<traceeVars, inSyscall, action, result, hits, event, history, home, gbrl,
                 signals, migrations>>

\* F2, or a SIGKILL from elsewhere; or the end of a tracee let go.
Kill ==
  /\ Alive /\ tracee \notin Dead
  /\ Dies("user")
  /\ UNCHANGED <<runVars, environment>>

\* Q: the detach of a stopped tracee succeeds if this goroutine is on the
\* tracing thread, where Run is not waiting; its error is ignored.  Run and
\* the tracee go on until the program has exited.
PressQ ==
  /\ gbrl = "runs" /\ gbrl' = "quits"
  /\ \/ /\ tracee \in Stops /\ ~ (home /\ pc = "wait")
        /\ tracee' = "free" /\ unseen' = FALSE
     \/ UNCHANGED <<tracee, unseen>>
  /\ UNCHANGED <<call, invalid, sig, cause, runVars, history, home, stepMode,
                 signals, migrations>>

\* gbrl-tui exits, after Q or not: the kernel detaches its tracee, which
\* runs on.
Exit ==
  /\ Alive
  /\ gbrl' = "exited"
  /\ tracee' = IF tracee \in Dead THEN "reaped" ELSE "free"
  /\ unseen' = FALSE
  /\ UNCHANGED <<call, invalid, sig, cause, runVars, history, home, stepMode,
                 signals, migrations>>

Next == Tracee \/ Run \/ Migrate \/ PressF1 \/ Kill \/ PressQ \/ Exit

Spec == Init /\ [][Next]_vars
FairSpec == Spec /\ WF_vars(Run)

-----------------------------------------------------------------------------
(* Properties                                                              *)

\* The observable high-entropy write that raises the alarm: the first one,
\* for a limit of 0 or less.
FreezeAt == IF Pol.heuristic.maxHits > 1 THEN Pol.heuristic.maxHits ELSE 1

TraceeType ==
  /\ tracee \in {"user", "kernel", "free"} \cup Stops \cup Dead
  /\ unseen \in BOOLEAN /\ invalid \in BOOLEAN /\ call \in Calls
  /\ sig \in {"none", "trap", "handled", "fatal"}
  /\ cause \in {"none", "exit", "kill", "user", "fatal", "trap"}

RunType ==
  /\ pc \in {"options", "top", "step", "resume", "wait", "regs", "entry", "enforce",
             "forward", "frozen", "returned"}
  /\ inSyscall \in BOOLEAN /\ action \in Actions
  /\ result \in {"none", "nil", "error"}
  /\ hits \in [Fds -> 0 .. FreezeAt]
  /\ event.action \in Actions \cup {"none"}

WorldType ==
  /\ home \in BOOLEAN /\ stepMode \in BOOLEAN /\ gbrl \in {"runs", "quits", "exited"}
  /\ verdict \in Actions \cup {"none"} /\ wrote \in [Fds -> Nat]
  /\ signals \in Nat /\ migrations \in Nat

TypeOK == TraceeType /\ RunType /\ WorldType

\* No signal has stopped the tracee, Run never left its thread, and the user
\* has not quit.
Calm == signals = 0 /\ migrations = 0 /\ gbrl = "runs"

(* A call that the kernel executes has been judged at its own entry stop   *)
(* and allowed: inSyscall stays in step with the tracee over any number of *)
(* calls (monitor.go:211-250).                                             *)
ExecutedIsAllowed == Calm /\ tracee = "kernel" /\ Executes => verdict = "Allow"

(* As long as the goroutine keeps its thread, a call refused at its entry, *)
(* by Kill, Deny or Freeze, is not executed, even when signals put Run out *)
(* of step with the tracee.  On another thread PtraceSetRegs fails, which  *)
(* nobody looks at, and a denied call is executed.                         *)
RefusedNeverExecutes ==
  migrations = 0 /\ tracee = "kernel" /\ Executes =>
    verdict \notin {"Kill", "Deny", "Freeze"}

(* Of the high-entropy writes to one descriptor that the monitor can see   *)
(* (at most 1 MiB, readable), fewer than maxHits are executed, and none if *)
(* the limit is 0 or less: the write that reaches the limit is frozen, not *)
(* the one after it.  Writes it cannot see are executed without limit.     *)
FrozenInTime == Calm => \A fd \in Fds : wrote[fd] < FreezeAt

(* The event logged for a call tells what became of it: a call executed    *)
(* was logged as allowed, one skipped as denied, the one that ended or     *)
(* froze the tracee as such, each before it took effect (monitor.go:305).  *)
LogTellsOutcome ==
  Calm /\ (tracee = "kernel" \/ pc = "frozen" \/ cause = "kill") =>
    event = [nr |-> call.nr, path |-> call.path,
             action |-> IF pc = "frozen" THEN "Freeze"
                        ELSE IF cause = "kill" THEN "Kill"
                        ELSE IF Executes THEN "Allow" ELSE "Deny"]

(* Where the call of the tracee is in the abstract gate.                   *)
Stage ==
  IF ~ Calm THEN "lost"
  ELSE IF tracee = "entry" THEN IF verdict = "none" THEN "asked" ELSE "judged"
  ELSE IF tracee = "kernel" THEN IF Executes THEN "executing" ELSE "skipped"
  ELSE IF tracee \notin Dead THEN "out"
  ELSE IF pc = "entry" THEN "unheard" ELSE "gone"

Underway == Stage \in {"asked", "judged", "executing", "skipped", "unheard"}

Gate == INSTANCE SyscallGate WITH
  NoCall <- NoEvent, Limit <- Pol.heuristic.maxHits,
  Counted <- {c \in Calls : Observable(c)},
  Verdicts <- [c \in Calls |-> [alarm \in BOOLEAN |->
                 Evaluate(Pol, SyscallName(c.nr), c.path, alarm)]],
  Blind <- [c \in Calls |-> Evaluate(Pol, SyscallName(c.nr), NoPath, FALSE)],
  stage <- Stage,
  call <- IF Underway THEN call ELSE NoEvent,
  verdict <- IF Underway THEN verdict ELSE "none",
  count <- IF Calm THEN hits ELSE [fd \in Fds |-> 0],
  log <- IF Calm THEN event ELSE NoEvent

(* While no signal stops the tracee and Run keeps its thread, the stops    *)
(* and resumes, with the toggle inSyscall between them, are a gate: every  *)
(* call is judged and logged once, with its own write counted, before it   *)
(* has an effect, and gets no further than the verdict lets it.            *)
ImplementsGate == Gate!GateSpec

(* Run returns nil only when the tracee is gone.                           *)
NilMeansGone == result = "nil" => tracee \in Dead

(* Once the verdict on its call is to freeze, the tracee makes no step     *)
(* until the user quits or somebody kills it, whatever else happens.       *)
FrozenStaysPut ==
  [][ (verdict = "Freeze" \/ pc = "frozen") /\ gbrl' = "runs" =>
        tracee' = tracee \/ tracee' \in Dead ]_vars

(* A stopped tracee is resumed, unless the user steps, Run has given up,   *)
(* or the freeze holds it: no sequence of calls and signals wedges Run.    *)
StopIsServed ==
  tracee \in Stops ~>
    tracee \notin Stops \/ stepMode \/ pc \in {"frozen", "returned"} \/ ~ Alive

(* The death of the tracee makes Run return, wherever it is, but not where *)
(* it waits for a key press or in `select {}`: there nothing tells it.     *)
DeathIsNoticed ==
  tracee = "zombie" ~> stepMode \/ pc \in {"frozen", "returned"} \/ ~ Alive

-----------------------------------------------------------------------------
(* What the comments say, and the code does not keep                       *)

(* "... handling every syscall from the tracee" (monitor.go:160-161): no   *)
(* call is executed before the policy was asked about it.                  *)
EveryCallIsJudged == tracee = "kernel" /\ Executes => verdict # "none"

(* "Forward any genuine signal (SIGSEGV, SIGTERM, etc.) to the tracee"     *)
(* (monitor.go:252): the trap that ptrace makes of an execve is none, and  *)
(* no tracee dies of it.                                                   *)
NoDeathByTrap == cause # "trap"
=============================================================================
