------------------------------ MODULE Executor ------------------------------
(***************************************************************************)
(* GuestExecutor: one embedder calls Load, Run and Terminate, in any order *)
(* and as often as it likes, and a guest calls the host functions of       *)
(* module Wasi: its start section while Load instantiates it, and _start   *)
(* while Run runs it.  No Load or Run begins while another is in progress; *)
(* Terminate may, by a hook of the interceptor or after a guest has        *)
(* frozen.                                                                 *)
(*                                                                         *)
(* The runtimes of wazero, and the contexts made with them, are numbered;  *)
(* 0 is nil.  wazero is external: a compiled module, the guest's code and  *)
(* its exit are choices.                                                   *)
(***************************************************************************)
EXTENDS Wasi

CONSTANTS
  MaxLoads,   \* bound: calls of Load that make a runtime
  MaxCalls    \* bound: host functions called by guests

ASSUME ExecutorAssumption == MaxLoads \in Nat /\ MaxCalls \in Nat

VARIABLES
  runtime, module, cancel,   \* the fields of GuestExecutor; module and cancel
                             \* name the runtime they were made with
  closed,                    \* g.closed
  open, live,                \* runtimes not closed, contexts not cancelled
  loads, calls,              \* how many there have been
  config,                    \* history: Interceptor of the config last given
  run,                       \* in progress: "idle", "loading" (a Load that
                             \* instantiates) or "guest" (a Run)
  ret                        \* what Load or Run last returned

exeVars == <<runtime, module, cancel, closed, open, live, config>>
vars == <<wasiVars, exeVars, intercept, loads, calls, run, ret>>

Init ==
  /\ WasiInit
  /\ intercept = "nil" /\ config = "nil"
  /\ runtime = 0 /\ module = 0 /\ cancel = 0 /\ closed = FALSE
  /\ open = {} /\ live = {}
  /\ loads = 0 /\ calls = 0
  /\ run = "idle" /\ ret = "none"

-----------------------------------------------------------------------------
(* Load                                                                    *)

InterceptorSticks(cfg) ==                \* mutant: nil keeps the earlier one
  IF cfg # "nil" THEN cfg ELSE IF intercept = "nil" THEN "AllowAll" ELSE intercept
InterceptorOf(cfg) == IF cfg = "nil" THEN "AllowAll" ELSE cfg

LoadStarts ==
  /\ run = "idle" /\ runtime = 0 /\ loads < MaxLoads
  /\ loads' = loads + 1
  /\ \E cfg \in {"nil", "policy"} : config' = cfg /\ intercept' = InterceptorOf(cfg)
  /\ cancel' = loads'
  /\ live' = live \cup {loads'}
  /\ UNCHANGED <<wasiVars, module, calls, closed>>

(* Up to InstantiateModule, which runs the start section of the guest.     *)
LoadInstantiates ==
  /\ LoadStarts
  /\ runtime' = loads' /\ open' = open \cup {loads'}
  /\ run' = "loading" /\ ret' = "none"

ForgetsClose(r) ==                       \* mutant: the failed runtime stays open
  /\ open' = open \cup {r} /\ runtime' = 0
ClosesRuntime(r) ==
  /\ open' = open \ {r} /\ runtime' = 0

(* The host module or the binary fails: the runtime is closed again, its   *)
(* context is not cancelled.                                               *)
LoadFails ==
  /\ LoadStarts
  /\ ClosesRuntime(loads')
  /\ ret' = "error" /\ UNCHANGED run

GuestOver == call = Idle /\ UNCHANGED wasiVars
GuestDies == answer = "panic" /\ CallOver

Loading ==
  /\ run = "loading" /\ run' = "idle"
  /\ UNCHANGED <<cancel, closed, live, config, intercept, loads, calls>>

(* wazero instantiates nothing in a runtime that has been closed.          *)
LoadEnds ==
  /\ Loading /\ GuestOver /\ runtime # 0
  /\ module' = runtime /\ ret' = "loaded"
  /\ UNCHANGED <<runtime, open>>

(* The instance cannot be made, or its start section traps or panics.      *)
(* After a Terminate out of it g.runtime is nil, and Close panics.         *)
InstanceFails ==
  /\ Loading /\ (GuestOver \/ GuestDies)
  /\ \/ runtime # 0 /\ ClosesRuntime(runtime) /\ ret' = "error"
     \/ runtime = 0 /\ ret' = "panic" /\ UNCHANGED <<runtime, open>>
  /\ UNCHANGED module

AlreadyLoaded ==
  /\ run = "idle" /\ runtime # 0
  /\ ret' = "error"
  /\ UNCHANGED <<wasiVars, exeVars, intercept, loads, calls, run>>

-----------------------------------------------------------------------------
(* Run                                                                     *)

(* Not loaded, or no _start.                                               *)
RunRefuses ==
  /\ run = "idle"
  /\ ret' = "error"
  /\ UNCHANGED <<wasiVars, exeVars, intercept, loads, calls, run>>

Run ==
  /\ run = "idle" /\ module # 0
  /\ run' = "guest" /\ ret' = "none"
  /\ UNCHANGED <<wasiVars, exeVars, intercept, loads, calls>>

(* The guest returns or exits (code, no error), traps, or the host panics. *)
RunReturns ==
  /\ run = "guest"
  /\ \/ GuestOver /\ ret' \in {"code", "error"}
     \/ GuestDies /\ ret' = "error"
  /\ run' = "idle"
  /\ UNCHANGED <<exeVars, intercept, loads, calls>>

GuestCall ==
  /\ run # "idle" /\ call = Idle /\ calls < MaxCalls
  /\ GuestCalls
  /\ calls' = calls + 1
  /\ UNCHANGED <<exeVars, intercept, loads, run, ret>>

HostStep ==
  /\ HostSteps \/ HostReturns
  /\ UNCHANGED <<exeVars, intercept, loads, calls, run, ret>>

-----------------------------------------------------------------------------
Terminate ==
  /\ ~closed
  /\ closed' = TRUE
  /\ live' = live \ {cancel}
  /\ module' = 0
  /\ open' = open \ {runtime}
  /\ runtime' = 0
  /\ UNCHANGED <<wasiVars, intercept, config, cancel, loads, calls, run, ret>>

Next == \/ LoadInstantiates \/ LoadFails \/ LoadEnds \/ InstanceFails
        \/ AlreadyLoaded \/ RunRefuses \/ Run \/ RunReturns
        \/ GuestCall \/ HostStep \/ Terminate

Spec == Init /\ [][Next]_vars

-----------------------------------------------------------------------------
Interceptors == {"nil", "AllowAll", "policy"}

TypeOK ==
  /\ WasiTypeOK
  /\ intercept \in Interceptors /\ config \in Interceptors
  /\ {runtime, module, cancel} \subseteq 0 .. loads /\ closed \in BOOLEAN
  /\ open \subseteq 1 .. loads /\ live \subseteq 1 .. loads
  /\ loads \in 0 .. MaxLoads /\ calls \in 0 .. MaxCalls
  /\ run \in {"idle", "loading", "guest"}
  /\ ret \in {"none", "loaded", "code", "error", "panic"}

(* After any Loads, Runs and a Terminate, failed ones and a Terminate out  *)
(* of a start section included: the executor has a module exactly when it  *)
(* has the runtime it was made in, a Load that is under way has none, that *)
(* runtime is the only one not closed, and its context is live and is the  *)
(* one that Terminate would cancel.                                        *)
LoadedIsWhole ==
  /\ module = IF run = "loading" THEN 0 ELSE runtime
  /\ open = {runtime} \ {0}
  /\ runtime # 0 => runtime = cancel /\ runtime \in live

(* A guest whose Load was given no interceptor is refused nothing, also    *)
(* when an earlier Load of the same executor was given one that refuses.   *)
DefaultRefusesNothing ==
  config = "nil" =>
    /\ answer \notin {"ACCES", "frozen"}
    /\ \A k \in DOMAIN judged : judged[k].how = "Allow"
=============================================================================
