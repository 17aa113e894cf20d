-------------------------------- MODULE Wasi --------------------------------
(***************************************************************************)
(* The host functions that buildWASIWithOverrides puts in place of those   *)
(* of wazero, as the guest meets them: fd_write, path_open,                *)
(* clock_time_get, clock_res_get, random_get and poll_oneoff.  The guest   *)
(* is stopped during a call, so one call is in progress at a time; a call  *)
(* that asks the interceptor once is one step, the loops of fd_write and   *)
(* poll_oneoff take one step per element.                                  *)
(*                                                                         *)
(* Of the memory of the guest only what a call reads is modelled: the      *)
(* table of iovecs, and for poll_oneoff units of 16 bytes, since Read of   *)
(* wazero returns a view of the memory: its subscriptions, its events and  *)
(* the word for nevents may overlap.                                       *)
(***************************************************************************)
EXTENDS Naturals, Sequences, FiniteSets

CONSTANTS
  Word,       \* 2^32, where a uint32 wraps
  Lengths,    \* lengths of a buffer of fd_write
  Counts,     \* iovsCount
  Fds,        \* descriptors of fd_write
  Subs,       \* nsubscriptions
  Timeouts,   \* timeouts of a clock subscription
  MemUnits,   \* units of memory poll_oneoff may name
  Places,     \* where its in and out are, in units
  Results     \* where it is told to store nevents

ASSUME WasiAssumption ==
  /\ Word \in Nat \ {0}
  /\ Lengths \cup Counts \cup Fds \cup Subs \cup Timeouts \cup {MemUnits} \cup Results \subseteq Nat
  /\ Places \subseteq Nat \X Nat

VARIABLES
  intercept,  \* g.intercept: "nil", "AllowAll" or "policy"
  call,       \* the call in progress, its arguments
  i,          \* i of its loop; nevents too, which is equal
  total,      \* bytes written so far; for poll_oneoff the least timeout
  mem,        \* the memory poll_oneoff sees
  answer,     \* "running", "frozen", "panic", or the errno it returned
  result,     \* what it stored behind its result pointer
  judged,     \* history: the buffers the interceptor judged, and how
  out         \* history: what went to the descriptors of the host

wasiVars == <<call, i, total, mem, answer, result, judged, out>>

Idle    == [fn |-> "none"]
Nothing == <<>>                          \* no result stored; else <<its value>>
Forever == Word * Word                   \* 1<<63 - 1, above every timeout

Errnos    == {"SUCCESS", "ACCES", "FAULT", "INVAL", "IO"}
Decisions == {"Allow", "Deny", "AllowAndLog", "Freeze", "Dump", "Unknown"}

(* What the interceptor may answer to a hook.                              *)
AllowAllInterceptor(hook) ==
  IF hook \in {"OnNetworkConnect", "OnExecve"} THEN "Deny" ELSE "Allow"

Asked(hook) ==
  IF intercept = "AllowAll" THEN {AllowAllInterceptor(hook)} ELSE Decisions

WasiInit ==
  /\ call = Idle /\ i = 0 /\ total = 0 /\ mem = <<>>
  /\ answer = "running" /\ result = Nothing /\ judged = <<>> /\ out = <<>>

Started(c, a, r) ==
  /\ call' = c /\ answer' = a /\ result' = r
  /\ i' = 0 /\ total' = 0 /\ out' = <<>>

In(fn) == call.fn = fn /\ answer = "running"

CallOver ==
  /\ call' = Idle /\ i' = 0 /\ total' = 0 /\ mem' = <<>>
  /\ answer' = "running" /\ result' = Nothing /\ judged' = <<>> /\ out' = <<>>

(* The guest takes the errno and goes on.                                  *)
HostReturns == answer \in Errnos /\ CallOver

-----------------------------------------------------------------------------
(* fd_write                                                                *)

(* The table is iovsCount*8 bytes, computed on a uint32.                   *)
TableLen(count) == ((count * 8) % Word) \div 8

Bad  == [len |-> 1, mapped |-> FALSE]    \* a buffer outside of the memory
Vecs == {Bad} \cup [len : Lengths, mapped : {TRUE}]

FdWrite ==
  \E fd \in Fds, count \in Counts, tableOk, resultOk \in BOOLEAN :
    \E vecs \in [1 .. TableLen(count) -> Vecs] :
      /\ Started([fn |-> "fd_write", fd |-> fd, count |-> count,
                  vecs |-> vecs, resultOk |-> resultOk],
                 IF tableOk THEN "running" ELSE "FAULT", Nothing)
      /\ mem' = <<>> /\ judged' = <<>>

(* writeToFD gives up at an error: all of the buffer, or a part, is out.   *)
WriteToFD ==
  IF call.fd \in {1, 2}
  THEN \E whole \in BOOLEAN : out' = Append(out, [vec |-> i + 1, whole |-> whole])
  ELSE UNCHANGED out

CountedWide(length) ==                   \* mutant: total is wider than a uint32
  /\ i' = i + 1 /\ total' = total + length
  /\ UNCHANGED answer

Counted(length) ==
  /\ i' = i + 1 /\ total' = (total + length) % Word
  /\ UNCHANGED answer

Ends(a) == answer' = a /\ UNCHANGED <<i, total, out>>

Passing == {"Allow", "AllowAndLog", "Unknown"}           \* default: is Unknown

DumpWrites(d, length) ==                 \* mutant: a dumped buffer is written
  \/ d = "Deny" /\ Ends("IO")
  \/ d = "Freeze" /\ Ends("frozen")
  \/ d \in Passing \cup {"Dump"} /\ Counted(length) /\ WriteToFD

DenySkips(d, length) ==                  \* mutant: Deny skips the buffer only
  \/ d = "Deny" /\ i' = i + 1 /\ UNCHANGED <<total, answer, out>>
  \/ d = "Freeze" /\ Ends("frozen")
  \/ d = "Dump" /\ Counted(length) /\ UNCHANGED out
  \/ d \in Passing /\ Counted(length) /\ WriteToFD

Decided(d, length) ==
  \/ d = "Deny" /\ Ends("IO")
  \/ d = "Freeze" /\ Ends("frozen")
  \/ d = "Dump" /\ Counted(length) /\ UNCHANGED out
  \/ d \in Passing /\ Counted(length) /\ WriteToFD

EmptyVec ==
  i' = i + 1 /\ UNCHANGED <<total, answer, out, judged>>

Vec(v) ==
  \/ /\ v.len = 0
     /\ EmptyVec
  \/ /\ v.len # 0 /\ ~v.mapped
     /\ Ends("FAULT") /\ UNCHANGED judged
  \/ /\ v.len # 0 /\ v.mapped
     /\ \E d \in Asked("OnWriteBuffer") :
          /\ Decided(d, v.len)
          /\ judged' = Append(judged, [vec |-> i + 1, how |-> d])

OneMore ==  i <= call.count              \* mutant: one iovec too many
MoreVecs == i < call.count

Iovec ==
  /\ In("fd_write") /\ MoreVecs
  /\ IF i < Len(call.vecs) THEN Vec(call.vecs[i + 1])
                           ELSE Ends("panic") /\ UNCHANGED judged
  /\ UNCHANGED <<call, mem, result>>

FdWriteEnds ==
  /\ In("fd_write") /\ ~MoreVecs
  /\ answer' = IF call.resultOk THEN "SUCCESS" ELSE "FAULT"
  /\ result' = IF call.resultOk THEN <<total>> ELSE Nothing
  /\ UNCHANGED <<call, i, total, mem, judged, out>>

-----------------------------------------------------------------------------
(* The functions without a loop.  Refused and Stored are the ends common   *)
(* to path_open and clock_time_get.                                        *)

Judged(d) == judged' = <<[vec |-> 0, how |-> d]>>

Simple(fn, a, r) == Started([fn |-> fn], a, r) /\ mem' = <<>>

Stored(fn, value) ==
  \/ Simple(fn, "SUCCESS", <<value>>)
  \/ Simple(fn, "FAULT", Nothing)

PathOpen ==
  \/ Simple("path_open", "FAULT", Nothing) /\ judged' = <<>>        \* the path
  \/ \E d \in Asked("OnOpenFile") :
       /\ Judged(d)
       /\ \/ d = "Deny" /\ Simple("path_open", "ACCES", Nothing)
          \/ d = "Freeze" /\ Simple("path_open", "frozen", Nothing)
          \/ d \in Passing \cup {"Dump"} /\ Stored("path_open", 42)

ClockStored(id) ==
  IF id \in {0, 1} THEN Stored("clock_time_get", 0)
                   ELSE Simple("clock_time_get", "INVAL", Nothing)

Clocked(d, id) ==
  \/ d = "Freeze" /\ Simple("clock_time_get", "frozen", Nothing)
  \/ d = "Deny" /\ Simple("clock_time_get", "INVAL", Nothing)
  \/ d \in Passing \cup {"Dump"} /\ ClockStored(id)

ClockTimeGet ==
  \E d \in Asked("OnClockGet"), id \in 0 .. 2 : Judged(d) /\ Clocked(d, id)

ClockResGet == Simple("clock_res_get", "SUCCESS", Nothing) /\ judged' = <<>>

(* No hook is called, though OnRandomGet exists.                           *)
RandomGet ==
  /\ judged' = <<>>
  /\ \/ Simple("random_get", "IO", Nothing)               \* rand.Read
     \/ Stored("random_get", 0)

-----------------------------------------------------------------------------
(* poll_oneoff.  A unit has its first 8 bytes (lo), its byte 8 and its     *)
(* byte 10; a subscription is 3 units (userdata and tag; timeout in bytes  *)
(* 8 to 15; flags), an event is 2 (userdata, errno, type; nothing).        *)

Unit(lo, b8, b10) == [lo |-> lo, b8 |-> b8, b10 |-> b10]
Zero  == Unit(0, 0, 0)
Other == Unit(9, 9, 9)                   \* what the guest has elsewhere

Clock == 0
Tags  == 0 .. 3                          \* clock, fd_read, fd_write, invalid
Notsup == 35

(* Units of n elements of size units each, on a uint32 of bytes.           *)
Span(n, size) == ((n * size * 16) % Word) \div 16
InBounds(at, units) == at + units <= MemUnits

(* The memory of a guest with its subscriptions at in.                     *)
Laid(in, subs) ==
  [u \in 0 .. MemUnits - 1 |->
     IF u \in in .. in + 3 * Len(subs) - 1
     THEN LET k == (u - in) \div 3 + 1
          IN  CASE (u - in) % 3 = 0 -> Unit(k, subs[k].tag, 0)
                [] (u - in) % 3 = 1 -> Unit(0, subs[k].timeout, 0)
                [] OTHER -> Zero
     ELSE Other]

Subscriptions(k) == [1 .. k -> [tag : Tags, timeout : Timeouts]]

PollCalled(n, in, at, subs, res) ==
  LET laid == Laid(in, subs)
      ok   == InBounds(in, Span(n, 3)) /\ InBounds(at, Span(n, 2))
  IN /\ call' = [fn |-> "poll_oneoff", n |-> n, in |-> in, at |-> at,
                 subs |-> subs, res |-> res]
     /\ result' = Nothing /\ i' = 0 /\ total' = Forever
     /\ judged' = <<>> /\ out' = <<>>
     /\ answer' = IF n = 0 THEN "INVAL" ELSE IF ok THEN "running" ELSE "FAULT"
     /\ mem' = [u \in DOMAIN laid |->
                  IF n > 0 /\ ok /\ u \in at .. at + Span(n, 2) - 1 THEN Zero ELSE laid[u]]

(* The guest lays out the subscriptions that begin in the table.           *)
PollOneoff ==
  \E n \in Subs, place \in Places, res \in Results :
    \E subs \in Subscriptions((Span(n, 3) + 2) \div 3) :
      PollCalled(n, place[1], place[2], subs, res)

EventAtSub == call.at + 3 * i            \* mutant: outOff is i*48
EventAt == call.at + 2 * i

(* The userdata is copied, then the bytes 8, 9 and 10 are set.             *)
Event(sub) ==
  mem' = [mem EXCEPT ![EventAt] =
            Unit(sub.lo, IF sub.b8 = Clock THEN 0 ELSE Notsup, sub.b8)]

(* What lies past the end of inBuf or outBuf makes the index panic.        *)
PollSub ==
  /\ In("poll_oneoff") /\ i < call.n
  /\ UNCHANGED <<call, result, judged, out>>
  /\ LET sub    == mem[call.in + 3 * i]
         due    == mem[call.in + 3 * i + 1]
         wait   == due.b8 + 65536 * due.b10
         copied == mem' = [mem EXCEPT ![EventAt].lo = sub.lo]
         held   == 3 * i < Span(call.n, 3) /\ 2 * i < Span(call.n, 2)
         timed  == 3 * i + 1 < Span(call.n, 3)
     IN \/ ~held /\ answer' = "panic" /\ UNCHANGED <<i, total, mem>>
        \/ /\ held /\ sub.b8 \notin {0, 1, 2}
           /\ answer' = "INVAL" /\ copied /\ UNCHANGED <<i, total>>
        \/ /\ held /\ sub.b8 = Clock /\ ~timed
           /\ answer' = "panic" /\ copied /\ UNCHANGED <<i, total>>
        \/ /\ held /\ sub.b8 = Clock /\ timed
           /\ total' = IF wait < total THEN wait ELSE total
           /\ Event(sub) /\ i' = i + 1 /\ UNCHANGED answer
        \/ /\ held /\ sub.b8 \in {1, 2}
           /\ Event(sub) /\ i' = i + 1 /\ UNCHANGED <<total, answer>>

(* After the last one nevents is stored, over whatever is there, and the   *)
(* call sleeps, total long, and returns.                                   *)
PollEnds ==
  /\ In("poll_oneoff") /\ i = call.n
  /\ \/ /\ call.res < MemUnits
        /\ answer' = "SUCCESS" /\ result' = <<i>>
        /\ mem' = [mem EXCEPT ![call.res].lo = i]
     \/ /\ call.res >= MemUnits
        /\ answer' = "FAULT" /\ UNCHANGED <<result, mem>>
  /\ UNCHANGED <<call, i, total, judged, out>>

-----------------------------------------------------------------------------
GuestCalls == \/ FdWrite \/ PathOpen \/ ClockTimeGet \/ ClockResGet
              \/ RandomGet \/ PollOneoff
HostSteps  == Iovec \/ FdWriteEnds \/ PollSub \/ PollEnds

Judgement == [vec : Nat, how : Decisions]

WasiTypeOK ==
  /\ call.fn \in {"none", "fd_write", "path_open", "clock_time_get",
                  "clock_res_get", "random_get", "poll_oneoff"}
  /\ i \in Nat
  /\ total \in IF call.fn = "poll_oneoff" THEN 0 .. Forever ELSE 0 .. Word - 1
  /\ answer \in Errnos \cup {"running", "frozen", "panic"}
  /\ result \in Seq(Nat) /\ Len(result) <= 1
  /\ judged \in Seq(Judgement)
  /\ out \in Seq([vec : Nat, whole : BOOLEAN])

(* At any point of the loop of doWritev the host's stdout or stderr was    *)
(* handed, once each and in the order of the iovecs, exactly the buffers   *)
(* that the interceptor let through: never one it denied, froze or dumped, *)
(* and nothing of what the guest writes to another descriptor.  Handed is  *)
(* not received: at an error of write, writeToFD gives up the rest of the  *)
(* buffer (whole is FALSE then) and the loop goes on with the next one.    *)
OutputFollowsDecisions ==
  call.fn = "fd_write" =>
    /\ {out[k].vec : k \in DOMAIN out} =
         {judged[k].vec : k \in {j \in DOMAIN judged :
            call.fd \in {1, 2} /\ judged[j].how \in {"Allow", "AllowAndLog", "Unknown"}}}
    /\ \A j, k \in DOMAIN out : j < k => out[j].vec < out[k].vec

(* Sums(f)[n] is the sum of the first n of f.                              *)
Sums(f) ==
  LET sum[n \in 0 .. Len(f)] == IF n = 0 THEN 0 ELSE sum[n - 1] + f[n]
  IN  sum

(* A call that reports success was refused in no part: none of its         *)
(* buffers, its path or its clock was denied or frozen.  An fd_write that  *)
(* reports success has also had every non-empty buffer judged, in order,   *)
(* and tells the guest the sum of all the lengths (modulo the range of the *)
(* counter), which counts a buffer that was dumped or that stdout refused. *)
(* A call that does not succeed stores no result.  Of clock_res_get,       *)
(* random_get and poll_oneoff, which ask nobody, it says no more.          *)
SuccessMeansAll ==
  LET lens == [k \in 1 .. call.count |-> call.vecs[k].len]
  IN /\ answer = "SUCCESS" => \A k \in DOMAIN judged : judged[k].how \notin {"Deny", "Freeze"}
     /\ answer # "SUCCESS" => result = Nothing
     /\ (call.fn = "fd_write" /\ answer = "SUCCESS") =>
          /\ Len(call.vecs) = call.count
          /\ {judged[k].vec : k \in DOMAIN judged} = {k \in 1 .. call.count : lens[k] > 0}
          /\ \A j, k \in DOMAIN judged : j < k => judged[j].vec < judged[k].vec
          /\ result = <<Sums(lens)[call.count] % Word>>

(* The host functions index out of a buffer, and so panic, only when       *)
(* iovsCount*8 or nsubscriptions*48 has wrapped around the uint32: a table *)
(* that the guest has whole in its memory is never read past its end.      *)
PanicOnlyOnWrap ==
  answer = "panic" =>
    \/ call.fn = "fd_write" /\ call.count * 8 >= Word
    \/ call.fn = "poll_oneoff" /\ call.n * 48 >= Word

(* A poll_oneoff whose events overlap neither its subscriptions nor the    *)
(* word for nevents answers the subscriptions one by one: the event at     *)
(* place k has the userdata and the type of subscription k, NOTSUP for a   *)
(* descriptor and no error for a clock; the call sleeps no longer than the *)
(* earliest clock; an unknown type makes it fail.  Nothing but the events  *)
(* and that word, which tells their number, changes in the memory.         *)
PollAnswersItsSubscriptions ==
  LET n     == call.n
      tag   == [k \in 1 .. n |-> call.subs[k].tag]
      ins   == call.in .. call.in + 3 * n - 1
      outs  == call.at .. call.at + 2 * n - 1
      dues  == {call.subs[k].timeout : k \in {j \in 1 .. n : tag[j] = Clock}} \cup {Forever}
      laid  == Laid(call.in, call.subs)
  IN (call.fn = "poll_oneoff" /\ answer = "SUCCESS"
        /\ ins \cap outs = {} /\ call.res \notin outs) =>
       /\ result = <<n>> /\ mem[call.res].lo = n
       /\ \A k \in 1 .. n :
            /\ tag[k] \in {0, 1, 2}
            /\ mem[call.at + 2 * (k - 1)]
                 = Unit(k, IF tag[k] = Clock THEN 0 ELSE Notsup, tag[k])
       /\ total \in dues /\ \A d \in dues : total <= d
       /\ \A u \in DOMAIN mem \ (outs \cup {call.res}) : mem[u] = laid[u]
=============================================================================
