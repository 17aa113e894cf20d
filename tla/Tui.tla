-------------------------------- MODULE Tui --------------------------------
(***************************************************************************)
(* The goroutines of gbrl-tui and the event loop of tview they share.  A   *)
(* goroutine changes the display by QueueUpdateDraw, which sends a closure *)
(* to the channel of updates and then waits until the event loop has run   *)
(* it; the event loop alternates between updates and keys, and calls the   *)
(* input capture of main.go for a key.  tview is external: it is modelled  *)
(* by what its QueueUpdate, Stop and Run do.                               *)
(*                                                                         *)
(* Monitor models monitor.Run; here it emits events, waits for F1 in step  *)
(* mode, freezes or returns.  Events are numbered.                         *)
(***************************************************************************)
EXTENDS Naturals, Sequences, SequencesExt

CONSTANTS
  EventCap,     \* capacity of eventCh (512)
  UpdatesCap,   \* capacity of tview's channel of updates (100)
  MaxRows,      \* maxTraceRows (200)
  Dumpers,      \* bound: goroutines of F3 that live at the same time
  MaxEvents,    \* bound: syscalls of the tracee
  MaxKeys       \* bound: keys pressed

ASSUME TuiAssumption ==
  /\ {EventCap, UpdatesCap, MaxRows} \subseteq Nat \ {0}
  /\ {MaxEvents, MaxKeys} \subseteq Nat
  /\ Dumpers \cap {"main", "monitor", "drain", "entropy", "clock"} = {}

VARIABLES
  loop,                      \* the event loop: "select" or "ended"
  stopped,                   \* app.Stop has been called
  keys, pressed,             \* keys not yet handled; how many there were
  updates,                   \* tview's channel of updates
  post, body,                \* QueueUpdateDraw: where its caller is, and what it asks
  mpc,                       \* the monitor goroutine
  dpc,                       \* the goroutine that drains eventCh
  dumping,                   \* the goroutines of F3 that still write their dump
  eventCh, closed,           \* the channel of live events
  stepMode, pid, killed,     \* stepMode; monitoredPID is set; F2 has killed
  rows, status,              \* the display: the trace table, the header
  traceRow,                  \* next row to write, 0 being the heading
  events,                    \* how many syscalls there have been
  sent                       \* history: events that eventCh accepted

loopVars == <<loop, stopped, keys, pressed>>
postVars == <<updates, post, body>>
monVars  == <<mpc, eventCh, closed, pid, events, sent>>
uiVars   == <<stepMode, killed, rows, traceRow, status>>
vars == <<loopVars, postVars, monVars, uiVars, dpc, dumping>>

Tickers    == {"entropy", "clock"}
Goroutines == {"main", "monitor", "drain"} \cup Tickers \cup Dumpers

Nothing == [kind |-> "none", event |-> 0]
Log     == [kind |-> "log", event |-> 0]        \* a line of the log, a panel
Row(e)  == [kind |-> "row", event |-> e]
Header(s) == [kind |-> s, event |-> 0]

Init ==
  /\ loop = "select" /\ stopped = FALSE /\ keys = <<>> /\ pressed = 0
  /\ updates = <<>>
  /\ post = [g \in Goroutines |-> "none"]
  /\ body = [g \in Goroutines |-> Nothing]
  /\ mpc = "launch" /\ dpc = "recv" /\ dumping = {}
  /\ eventCh = <<>> /\ closed = FALSE
  /\ stepMode = FALSE /\ pid = FALSE /\ killed = FALSE
  /\ rows = <<>> /\ traceRow = 1 /\ status = "MONITORING"
  /\ events = 0 /\ sent = <<>>

-----------------------------------------------------------------------------
(* QueueUpdateDraw                                                         *)

Post(g, b) ==
  /\ post' = [post EXCEPT ![g] = "send"]
  /\ body' = [body EXCEPT ![g] = b]
  /\ UNCHANGED updates

Idle(g) == post[g] = "none"

Send(g) ==
  /\ post[g] = "send"
  /\ Len(updates) < UpdatesCap
  /\ updates' = Append(updates, g)
  /\ post' = [post EXCEPT ![g] = "wait"]
  /\ UNCHANGED <<body, loopVars, monVars, uiVars, dpc, dumping>>

-----------------------------------------------------------------------------
(* The event loop, on the goroutine of main                                *)

Selects == loop = "select" /\ Idle("main")

FullWithHeading == traceRow >= MaxRows      \* mutant: the heading counts
FullOneMore == traceRow - 1 > MaxRows      \* mutant: > for >=
Full == traceRow - 1 >= MaxRows

\* The oldest row goes when the table is full, and the new one is appended.
AddRow(e) ==
  /\ rows' = Append(IF Full THEN Tail(rows) ELSE rows, e)
  /\ traceRow' = IF Full THEN traceRow ELSE traceRow + 1

\* One update: run its body, redraw, and release its sender.
LoopUpdate ==
  /\ Selects
  /\ updates # <<>>
  /\ LET g == Head(updates) IN
       /\ post' = [post EXCEPT ![g] = "none"]
       /\ body' = [body EXCEPT ![g] = Nothing]
       /\ IF body[g].kind = "row" THEN AddRow(body[g].event) ELSE UNCHANGED <<rows, traceRow>>
       /\ status' = IF body[g].kind \in {"STEPPING", "ERROR", "EXITED"}
                      THEN body[g].kind ELSE status
  /\ updates' = Tail(updates)
  /\ UNCHANGED <<loopVars, monVars, stepMode, killed, dpc, dumping>>

KeyPressed(k) ==
  /\ loop = "select" /\ ~ stopped
  /\ pressed < MaxKeys
  /\ pressed' = pressed + 1
  /\ keys' = Append(keys, k)
  /\ UNCHANGED <<loop, stopped, postVars, monVars, uiVars, dpc, dumping>>

Handles(k) ==
  /\ Selects
  /\ keys # <<>> /\ Head(keys) = k
  /\ keys' = Tail(keys)
  /\ UNCHANGED <<loop, pressed>>

F1 ==
  /\ Handles("F1")
  /\ IF stepMode
       THEN /\ mpc' = IF mpc = "step" THEN "serve" ELSE mpc
            /\ UNCHANGED <<stepMode, postVars>>
       ELSE stepMode' = TRUE /\ Post("main", Header("STEPPING")) /\ UNCHANGED mpc
  /\ UNCHANGED <<stopped, eventCh, closed, pid, events, sent, killed, rows, traceRow, status,
                 dpc, dumping>>

F2 ==
  /\ Handles("F2")
  /\ IF pid THEN killed' = TRUE /\ Post("main", Log)
     ELSE UNCHANGED <<killed, postVars>>
  /\ UNCHANGED <<stopped, monVars, stepMode, rows, traceRow, status, dpc, dumping>>

\* A dump beyond the bound of Dumpers is left out.
F3 ==
  /\ Handles("F3")
  /\ LET free == {d \in Dumpers \ dumping : Idle(d)} IN
       IF pid /\ free # {} THEN \E d \in free : dumping' = dumping \cup {d}
       ELSE UNCHANGED dumping
  /\ UNCHANGED <<stopped, postVars, monVars, uiVars, dpc>>

QSaysSo ==               \* mutant: a farewell in the log, like F2's
  /\ Handles("Q")
  /\ stopped' = TRUE
  /\ Post("main", Log)
  /\ UNCHANGED <<monVars, uiVars, dpc, dumping>>

\* PtraceDetach (modelled by Monitor!PressQ), then app.Stop.
Q ==
  /\ Handles("Q")
  /\ stopped' = TRUE
  /\ UNCHANGED <<postVars, monVars, uiVars, dpc, dumping>>

\* Stop makes the loop receive, after the keys, the nil event: app.Run returns.
LoopEnds ==
  /\ Selects
  /\ stopped /\ keys = <<>>
  /\ loop' = "ended"
  /\ UNCHANGED <<stopped, keys, pressed, postVars, monVars, uiVars, dpc, dumping>>

Key == F1 \/ F2 \/ F3 \/ Q

-----------------------------------------------------------------------------
(* The monitor goroutine                                                   *)

MonitorGo(here, there) == mpc = here /\ Idle("monitor") /\ mpc' = there

Launch ==
  /\ MonitorGo("launch", "top")
  /\ pid' = TRUE
  /\ Post("monitor", Log)
  /\ UNCHANGED <<eventCh, closed, events, sent, loopVars, uiVars, dpc, dumping>>

\* launcher.Start fails: eventCh is never closed.
LaunchFails ==
  /\ MonitorGo("launch", "done")
  /\ Post("monitor", Header("ERROR"))
  /\ UNCHANGED <<eventCh, closed, pid, events, sent, loopVars, uiVars, dpc, dumping>>

RunTop ==
  /\ MonitorGo("top", IF stepMode THEN "step" ELSE "serve")
  /\ UNCHANGED <<eventCh, closed, pid, events, sent, loopVars, postVars, uiVars, dpc, dumping>>

\* The non-blocking send of handleEntry: a full channel drops the event.
Offer(e) ==
  IF Len(eventCh) < EventCap
    THEN eventCh' = Append(eventCh, e) /\ sent' = Append(sent, e)
    ELSE UNCHANGED <<eventCh, sent>>

RunEvent ==
  /\ \E next \in {"top", "frozen"} : MonitorGo("serve", next)
  /\ ~ killed
  /\ events < MaxEvents
  /\ events' = events + 1
  /\ Offer(events')
  /\ UNCHANGED <<closed, pid, loopVars, postVars, uiVars, dpc, dumping>>

\* The exit half of a syscall, which emits nothing.
RunQuiet ==
  /\ MonitorGo("serve", "top")
  /\ ~ killed
  /\ UNCHANGED <<eventCh, closed, pid, events, sent, loopVars, postVars, uiVars, dpc, dumping>>

RunReturns ==
  /\ MonitorGo("serve", "exit")
  /\ Post("monitor", Log) \/ UNCHANGED postVars    \* an error is shown
  /\ UNCHANGED <<eventCh, closed, pid, events, sent, loopVars, uiVars, dpc, dumping>>

TraceeExited ==
  /\ MonitorGo("exit", "close")
  /\ Post("monitor", Header("EXITED"))
  /\ UNCHANGED <<eventCh, closed, pid, events, sent, loopVars, uiVars, dpc, dumping>>

CloseEventCh ==
  /\ MonitorGo("close", "done")
  /\ closed' = TRUE
  /\ UNCHANGED <<eventCh, pid, events, sent, loopVars, postVars, uiVars, dpc, dumping>>

Monitor == \/ Launch \/ LaunchFails \/ RunTop \/ RunEvent \/ RunQuiet
           \/ RunReturns \/ TraceeExited \/ CloseEventCh

-----------------------------------------------------------------------------
(* The other goroutines                                                    *)

DrainEvent ==
  /\ dpc = "recv" /\ Idle("drain")
  /\ eventCh # <<>>
  /\ eventCh' = Tail(eventCh)
  /\ Post("drain", Row(Head(eventCh)))
  /\ UNCHANGED <<mpc, closed, pid, events, sent, loopVars, uiVars, dpc, dumping>>

\* mutant: what is left in the closed channel is dropped
DrainStops ==
  /\ dpc = "recv" /\ Idle("drain")
  /\ closed
  /\ dpc' = "done"
  /\ UNCHANGED <<loopVars, postVars, monVars, uiVars, dumping>>

DrainClosed ==
  /\ dpc = "recv" /\ Idle("drain")
  /\ eventCh = <<>> /\ closed
  /\ dpc' = "done"
  /\ UNCHANGED <<loopVars, postVars, monVars, uiVars, dumping>>

Tick(g) ==
  /\ Idle(g)
  /\ Post(g, Log)
  /\ UNCHANGED <<loopVars, monVars, uiVars, dpc, dumping>>

DumpDone(d) ==
  /\ d \in dumping
  /\ dumping' = dumping \ {d}
  /\ Post(d, Log)
  /\ UNCHANGED <<loopVars, monVars, uiVars, dpc>>

Next == \/ \E g \in Goroutines : Send(g)
        \/ LoopUpdate \/ Key \/ LoopEnds
        \/ \E k \in {"F1", "F2", "F3", "Q"} : KeyPressed(k)
        \/ Monitor \/ DrainEvent \/ DrainClosed
        \/ \E g \in Tickers : Tick(g)
        \/ \E d \in Dumpers : DumpDone(d)

Spec == Init /\ [][Next]_vars

\* The goroutines that matter run; the channel of updates serves its senders
\* in order, and the select of the event loop chooses at random among what is
\* ready, so that it starves neither updates nor keys.
Fairness ==
  /\ \A g \in {"monitor", "drain"} : SF_vars(Send(g))
  /\ WF_vars(LoopUpdate) /\ WF_vars(Key) /\ WF_vars(LoopEnds)
  /\ WF_vars(Monitor) /\ WF_vars(DrainEvent) /\ WF_vars(DrainClosed)

FairSpec == Spec /\ Fairness

-----------------------------------------------------------------------------
(* Properties                                                              *)

Pending == IF body["drain"].kind = "row" THEN <<body["drain"].event>> ELSE <<>>

TypeOK ==
  /\ loop \in {"select", "ended"} /\ dpc \in {"recv", "done"}
  /\ stopped \in BOOLEAN /\ closed \in BOOLEAN /\ stepMode \in BOOLEAN
  /\ pid \in BOOLEAN /\ killed \in BOOLEAN
  /\ keys \in Seq({"F1", "F2", "F3", "Q"}) /\ pressed \in 0 .. MaxKeys
  /\ updates \in Seq(Goroutines) /\ Len(updates) <= UpdatesCap
  /\ post \in [Goroutines -> {"none", "send", "wait"}]
  /\ mpc \in {"launch", "top", "step", "serve", "frozen", "exit", "close", "done"}
  /\ dumping \subseteq Dumpers
  /\ eventCh \in Seq(1 .. MaxEvents) /\ Len(eventCh) <= EventCap
  /\ rows \in Seq(1 .. MaxEvents) /\ Len(rows) <= MaxRows /\ traceRow \in 1 .. MaxRows + 1
  /\ status \in {"MONITORING", "STEPPING", "ERROR", "EXITED"}
  /\ events \in 0 .. MaxEvents

\* The last n items of s, all of them if there are fewer.
LastOf(s, n) == SubSeq(s, IF Len(s) > n THEN Len(s) - n + 1 ELSE 1, Len(s))

(* The trace table holds the latest events, in the order of the syscalls:  *)
(* "keep the last N events" (main.go:102).  What eventCh accepted is on    *)
(* display, on its way in the drain goroutine, or in the channel.          *)
TableShowsLatest ==
  LET waiting == Pending \o eventCh
      shown   == SubSeq(sent, 1, Len(sent) - Len(waiting))
  IN  sent = shown \o waiting /\ rows = LastOf(shown, MaxRows)

\* The input capture has called QueueUpdateDraw, which waits for the event
\* loop, which waits for the input capture.
Hung == stepMode \/ killed

(* An event that eventCh accepted is shown, although the channel may be    *)
(* closed and other goroutines compete for the event loop, unless F1 or F2 *)
(* hang the loop or it ends.                                               *)
EventIsShown ==
  \A e \in 1 .. MaxEvents :
    Contains(eventCh, e) ~> Contains(rows, e) \/ Hung \/ loop = "ended"

(* Quitting ends the event loop, while goroutines keep posting to it.      *)
QuitEnds == stopped ~> loop = "ended" \/ Hung

(* "[F1] Step to next syscall" (README.md:41), "We are already stepping,   *)
(* so advance one syscall" (main.go:298): in step mode, with Run waiting,  *)
(* an F1 lets the tracee go on.                                            *)
F1Steps ==
  mpc = "step" /\ keys = <<"F1">> ~> mpc # "step"
=============================================================================
