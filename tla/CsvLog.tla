------------------------------- MODULE CsvLog -------------------------------
(***************************************************************************)
(* The telemetry pipeline of gbrl-tui: the monitor goroutine pushes one    *)
(* event per intercepted syscall into the ring buffer, the goroutine of    *)
(* telemetry.CSVWriter drains it into a csv.Writer on every tick of 100 ms *)
(* and once more when Stop is called, and the log file outlives the        *)
(* process: sessions follow each other on one file, ended by Stop, by      *)
(* os.Exit or by a crash.  The ring buffer is used through its abstract    *)
(* specification, which SpscRing implements.                               *)
(*                                                                         *)
(* A row is a number: Header, or the number of an event; events are        *)
(* numbered in the order in which they are generated.  Part(r) is the      *)
(* beginning of row r, without its newline: what is appended after it      *)
(* continues its line.                                                     *)
(***************************************************************************)
EXTENDS Naturals, Sequences, SequencesExt

CONSTANTS
  Capacity,     \* of the ring buffer
  MaxEvents,    \* bound: events generated over all sessions
  MaxSessions   \* bound: runs of gbrl-tui on the same log file

ASSUME LogAssumption ==
  Capacity \in Nat \ {0} /\ MaxEvents \in Nat /\ MaxSessions \in Nat

VARIABLES
  file,                    \* rows, and parts of rows, on disk
  csvBuf,                  \* rows in the csv.Writer, not yet on disk
  cut,                     \* the first row of csvBuf is partly on disk
  failed,                  \* the csv.Writer has met a write error (sticky)
  queue, pushRet, popRet,  \* the ring buffer and its last results
  main,                    \* the goroutine of main()
  wpc,                     \* the goroutine started by CSVWriter.Start
  tick,                    \* a tick waits in ticker.C
  done,                    \* the channel done is closed
  events, sessions,        \* how many there have been
  accepted,                \* history: events pushed in this session
  base,                    \* history: rows on disk when the session began
  atStop                   \* history: Len(accepted) when Stop was called

queueVars == <<queue, pushRet, popRet>>
diskVars  == <<file, csvBuf, cut, failed>>
history   == <<accepted, base, atStop>>
vars == <<diskVars, queueVars, main, wpc, tick, done, events, sessions, history>>

Header  == 0
Part(r) == r + MaxEvents + 1

Ring == INSTANCE BoundedQueue WITH Items <- 1 .. MaxEvents, ErrEmpty <- 0

Init ==
  /\ file = <<>> /\ csvBuf = <<>> /\ cut = FALSE /\ failed = FALSE
  /\ Ring!QueueInit
  /\ main = "off" /\ wpc = "none" /\ tick = FALSE /\ done = FALSE
  /\ events = 0 /\ sessions = 0
  /\ accepted = <<>> /\ base = 0 /\ atStop = 0

-----------------------------------------------------------------------------
(* Writing to the disk through the buffer of the csv.Writer                *)

\* What a write of rows that fails, or that the end of the process breaks
\* off, adds to the file: fewer rows than it was given, perhaps followed by
\* the beginning of the next; begun says that the first row has its
\* beginning on disk already.
BrokenOff(rows, begun) ==
  { SubSeq(rows, 1, n) : n \in (IF begun THEN 1 ELSE 0) .. Len(rows) - 1 }
    \cup { Append(SubSeq(rows, 1, n), Part(rows[n + 1])) : n \in 0 .. Len(rows) - 1 }

\* bufio.Writer keeps the error and never writes again.
WriteFails(rows) ==
  /\ \E t \in BrokenOff(rows, cut) : file' = file \o t
  /\ failed' = TRUE /\ csvBuf' = <<>> /\ cut' = FALSE

-----------------------------------------------------------------------------
(* main: open, start, stop                                                 *)

\* os.OpenFile with O_APPEND: what earlier sessions wrote stays.
OpenTruncated == <<>>     \* mutant: O_TRUNC in place of O_APPEND
OpenFile == file

HeaderAlways == <<Header>>                     \* mutant: no look at the size
HeaderRow == IF OpenFile = <<>> THEN <<Header>> ELSE <<>>

\* The header is flushed at once; the write may fail, leaving part of the
\* header, and the error, kept by the csv.Writer, is ignored.
NewCSVWriter ==
  /\ main = "off"
  /\ sessions < MaxSessions
  /\ main' = "open"
  /\ sessions' = sessions + 1
  /\ base' = Len(OpenFile)
  /\ \/ file' = OpenFile \o HeaderRow /\ failed' = FALSE
     \/ \E t \in BrokenOff(HeaderRow, FALSE) : file' = OpenFile \o t /\ failed' = TRUE
  /\ csvBuf' = <<>> /\ cut' = FALSE
  /\ queue' = <<>> /\ pushRet' = "nil" /\ popRet' = 0
  /\ done' = FALSE /\ accepted' = <<>> /\ atStop' = 0
  /\ UNCHANGED <<wpc, tick, events>>

Start ==
  /\ main = "open"
  /\ main' = "running"
  /\ wpc' = "select"
  /\ tick' = FALSE
  /\ UNCHANGED <<diskVars, queueVars, done, events, sessions, history>>

\* mutant: Stop waits for the goroutine without telling it
StopWithoutClose ==
  /\ main = "running"
  /\ main' = "stopping"
  /\ atStop' = Len(accepted)
  /\ UNCHANGED <<diskVars, queueVars, wpc, tick, done, events, sessions, accepted, base>>

Stop ==
  /\ main = "running"
  /\ done' = TRUE
  /\ main' = "stopping"
  /\ atStop' = Len(accepted)
  /\ UNCHANGED <<diskVars, queueVars, wpc, tick, events, sessions, accepted, base>>

StopReturns ==
  /\ main = "stopping"
  /\ wpc = "exited"
  /\ main' = "stopped"
  /\ UNCHANGED <<diskVars, queueVars, wpc, tick, done, events, sessions, history>>

\* The process ends: main returns after Stop, or, at any moment, os.Exit(1)
\* after an error of app.Run, or a fatal signal.  What is in memory is lost;
\* a write that this breaks off is one that fails just before.
Exit ==
  /\ main # "off"
  /\ main' = "off" /\ wpc' = "none"
  /\ file' = IF cut THEN Append(file, Part(Head(csvBuf))) ELSE file
  /\ csvBuf' = <<>> /\ cut' = FALSE
  /\ queue' = <<>> /\ accepted' = <<>> /\ base' = Len(file')
  /\ UNCHANGED <<failed, pushRet, popRet, tick, done, events, sessions, atStop>>

-----------------------------------------------------------------------------
(* The monitor goroutine: `_ = cfg.RingBuf.Push(ev)`.  Nothing stops it    *)
(* before the process ends.                                                *)

MonitorPushes ==
  /\ main \in {"running", "stopping", "stopped"}
  /\ events < MaxEvents
  /\ events' = events + 1
  /\ \/ Ring!Push(events') /\ accepted' = Append(accepted, events')
     \/ Ring!PushFull /\ UNCHANGED accepted
  /\ UNCHANGED <<diskVars, main, wpc, tick, done, sessions, base, atStop>>

-----------------------------------------------------------------------------
(* The goroutine of CSVWriter                                              *)

Ticker ==
  /\ wpc \notin {"none", "exited"}
  /\ ~ tick
  /\ tick' = TRUE
  /\ UNCHANGED <<diskVars, queueVars, main, wpc, done, events, sessions, history>>

\* mutant: the case of done returns without the last drain
SelectDoneNoDrain ==
  /\ wpc = "select"
  /\ done
  /\ wpc' = "lastFlush"
  /\ UNCHANGED <<diskVars, queueVars, main, tick, done, events, sessions, history>>

SelectDone ==
  /\ wpc = "select"
  /\ done
  /\ wpc' = "lastDrain"
  /\ UNCHANGED <<diskVars, queueVars, main, tick, done, events, sessions, history>>

SelectTick ==
  /\ wpc = "select"
  /\ tick
  /\ tick' = FALSE
  /\ wpc' = "drain"
  /\ UNCHANGED <<diskVars, queueVars, main, done, events, sessions, history>>

\* csv.Writer.Write(row) stays in the buffer of its bufio.Writer, unless it
\* overflows: then all that was buffered and the beginning of this row, if it
\* does not start just at the end of the buffer, go to disk.  After an error,
\* rows are silently dropped.
WriteLosesBuffer(row) ==     \* mutant: the overflow forgets the buffered rows
  /\ file' = file /\ csvBuf' = <<row>> /\ cut' = TRUE /\ UNCHANGED failed

WriteRow(row) ==
  \/ /\ ~ failed
     /\ csvBuf' = Append(csvBuf, row)
     /\ UNCHANGED <<file, cut, failed>>
  \/ /\ ~ failed
     /\ file' = file \o csvBuf
     /\ csvBuf' = <<row>>
     /\ cut' \in BOOLEAN
     /\ UNCHANGED failed
  \/ ~ failed /\ WriteFails(Append(csvBuf, row))
  \/ failed /\ UNCHANGED diskVars

DrainOne ==
  /\ wpc \in {"drain", "lastDrain"}
  /\ Ring!Pop
  /\ WriteRow(popRet')
  /\ UNCHANGED <<main, wpc, tick, done, events, sessions, history>>

\* mutant: a tick drains without flushing
DrainEndNoFlush ==
  /\ wpc \in {"drain", "lastDrain"}
  /\ Ring!PopEmpty
  /\ wpc' = IF wpc = "drain" THEN "select" ELSE "lastFlush"
  /\ UNCHANGED <<diskVars, main, tick, done, events, sessions, history>>

DrainEnd ==
  /\ wpc \in {"drain", "lastDrain"}
  /\ Ring!PopEmpty
  /\ wpc' = IF wpc = "drain" THEN "flush" ELSE "lastFlush"
  /\ UNCHANGED <<diskVars, main, tick, done, events, sessions, history>>

\* Flush, then either back to the select or, after done, Close and return.
Flush ==
  /\ wpc \in {"flush", "lastFlush"}
  /\ \/ ~ failed /\ file' = file \o csvBuf /\ csvBuf' = <<>> /\ cut' = FALSE
        /\ UNCHANGED failed
     \/ ~ failed /\ WriteFails(csvBuf)
     \/ failed /\ UNCHANGED diskVars
  /\ wpc' = IF wpc = "flush" THEN "select" ELSE "exited"
  /\ UNCHANGED <<queueVars, main, tick, done, events, sessions, history>>

Writer == SelectDone \/ SelectTick \/ DrainOne \/ DrainEnd \/ Flush

-----------------------------------------------------------------------------
Next == \/ NewCSVWriter \/ Start \/ Stop \/ StopReturns \/ Exit
        \/ MonitorPushes \/ Ticker \/ Writer

Spec == Init /\ [][Next]_vars

\* The goroutine runs and the ticker ticks.  A select with several ready
\* cases chooses uniformly at random, so it does not avoid done for ever.
Fairness ==
  /\ WF_vars(Writer) /\ WF_vars(Ticker) /\ SF_vars(SelectDone)
  /\ WF_vars(StopReturns)

FairSpec == Spec /\ Fairness

-----------------------------------------------------------------------------
(* Properties                                                              *)

Rows == 0 .. MaxEvents + MaxEvents + 1

TypeOK ==
  /\ file \in Seq(Rows) /\ csvBuf \in Seq(Rows)
  /\ cut \in BOOLEAN /\ failed \in BOOLEAN /\ tick \in BOOLEAN /\ done \in BOOLEAN
  /\ queue \in Seq(1 .. MaxEvents) /\ Len(queue) <= Capacity
  /\ main \in {"off", "open", "running", "stopping", "stopped"}
  /\ wpc \in {"none", "select", "drain", "flush", "lastDrain", "lastFlush", "exited"}
  /\ events \in 0 .. MaxEvents /\ sessions \in 0 .. MaxSessions
  /\ accepted \in Seq(1 .. MaxEvents) /\ base \in Nat /\ atStop \in Nat

\* The rows this session has put on disk, after the header, which is of the
\* session that found no rows.
First   == IF base = 0 THEN 2 ELSE base + 1
Written == SubSeq(file, First, Len(file))

\* A whole row that is a line of the file: it continues no part of a row.
IsLine(k) == file[k] <= MaxEvents /\ (k = 1 \/ file[k - 1] <= MaxEvents)

Kept == ~ failed => Written \o csvBuf \o queue = accepted

OwnLines ==
  ~ failed =>
    \A k \in First .. Len(file) :
      \/ IsLine(k)
      \/ k = base + 1 /\ base > 0 /\ file[base] > MaxEvents

(* While the disk works, the events on disk, in the csv.Writer and in the  *)
(* ring buffer are exactly the events the ring buffer accepted, in the     *)
(* order of the syscalls: only a full ring loses an event.  On disk each   *)
(* is a line, but for the first of a session that found the log ending in  *)
(* a part of a row: that event continues the part, and is no row of the    *)
(* log.                                                                    *)
NothingLost == Kept /\ OwnLines

(* "Stop flushes all pending events and closes the log file": when Stop    *)
(* returns, every event accepted before it was called is on disk, although *)
(* the monitor goroutine keeps pushing.                                    *)
StopFlushesPending ==
  main = "stopped" /\ ~ failed => IsPrefix(SubSeq(accepted, 1, atStop), Written)

(* However sessions end, the log starts with the header, or with the part  *)
(* of it that a failed write left, and no session writes another: "Write   *)
(* header only if the file is brand new".  After such a part there is      *)
(* never a header: the size of the file is no longer zero.                 *)
Headers == {Header, Part(Header)}

OneHeader ==
  file # <<>> =>
    /\ file[1] \in Headers
    /\ \A k \in 2 .. Len(file) : file[k] \notin Headers

(* No step rewrites what is on disk: a new session appends to the log of   *)
(* the earlier ones, a crash keeps all that had been flushed.              *)
LogOnlyGrows == [][IsPrefix(file, file')]_file

(* An accepted event reaches the disk, unless the disk fails or the        *)
(* process is being stopped or killed.                                     *)
EventReachesDisk ==
  \A e \in 1 .. MaxEvents :
    Contains(queue, e) ~>
      Contains(file, e) \/ failed \/ main \in {"stopping", "stopped", "off"}

(* Stop returns, unless the process is killed first: the select cannot     *)
(* starve done, and the last drain ends once the tracee is quiet.          *)
StopTerminates == main = "stopping" ~> main # "stopping"
=============================================================================
