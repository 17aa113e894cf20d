--------------------------- MODULE CsvLog_proofs ----------------------------
(* The telemetry pipeline, for a ring of any capacity, any number of       *)
(* events and sessions, and a disk and a process that fail at any moment.  *)
EXTENDS CsvLog, TLAPS, SequenceTheorems

(* Which goroutines there are.                                             *)
Life ==
  /\ main \in {"off", "open"} => wpc = "none"
  /\ wpc \in {"lastDrain", "lastFlush", "exited"} => main \in {"stopping", "stopped"}
  /\ main = "stopped" => wpc = "exited"
  /\ main \in {"open", "running"} => ~ done

(* Only events are in memory, and without a process nothing is.            *)
Memory ==
  /\ csvBuf \in Seq(1 .. MaxEvents)
  /\ cut => csvBuf # <<>>
  /\ main = "off" => csvBuf = <<>> /\ queue = <<>> /\ accepted = <<>> /\ base = Len(file)

(* While the disk works the file is not empty, and what a session that     *)
(* found it empty has put first is a whole header; so no part of an event  *)
(* is ever first.                                                          *)
Header1 ==
  /\ base <= Len(file)
  /\ main # "off" /\ ~ failed => Len(file) >= 1 /\ (base = 0 => file[1] = Header)
  /\ cut => Len(file) >= 1

(* How much of what was accepted before Stop is still to be written.       *)
Pending ==
  /\ main \in {"stopping", "stopped"} => atStop <= Len(accepted)
  /\ wpc = "lastFlush" /\ ~ failed => atStop <= Len(Written \o csvBuf)
  /\ wpc = "exited" /\ ~ failed => atStop <= Len(Written)

IInv == TypeOK /\ Life /\ Memory /\ Header1 /\ OneHeader /\ Kept /\ Pending

-----------------------------------------------------------------------------
(* Sequences                                                               *)

LEMMA EventRows ==
  /\ 1 .. MaxEvents \subseteq Rows \ Headers
  /\ \A r \in 1 .. MaxEvents : Part(r) \in Rows \ Headers
  /\ Headers \subseteq Rows
BY LogAssumption DEF Rows, Headers, Header, Part

LEMMA RowSeqs ==
  ASSUME NEW s \in Seq(1 .. MaxEvents) PROVE s \in Seq(Rows) /\ s \in Seq(Rows \ Headers)
<1>1. 1 .. MaxEvents \subseteq Rows
  BY EventRows
<1> QED
  BY <1>1, EventRows, SeqMonotonic

(* What a failed write leaves of some events is no header.                 *)
LEMMA BrokenOffRows ==
  ASSUME NEW rows \in Seq(1 .. MaxEvents), NEW begun, NEW t \in BrokenOff(rows, begun)
  PROVE  t \in Seq(Rows \ Headers) /\ t \in Seq(Rows)
<1> DEFINE S == Rows \ Headers
<1>1. Len(rows) \in Nat /\ \A k \in 1 .. Len(rows) : rows[k] \in 1 .. MaxEvents
  BY LenProperties, ElementOfSeq
<1>2. \A k \in 1 .. Len(rows) : rows[k] \in S /\ Part(rows[k]) \in S
  BY <1>1, EventRows
<1>3. ASSUME NEW n \in 0 .. Len(rows) - 1
      PROVE  SubSeq(rows, 1, n) \in Seq(S)
  <2>1. \A k \in 1 .. n : rows[k] \in S
    BY <1>1, <1>2
  <2>2. n \in Int
    BY <1>1
  <2> QED
    BY <2>1, <2>2, SubSeqProperties
<1>4. ASSUME \E n \in 0 .. Len(rows) - 1 : t = SubSeq(rows, 1, n) PROVE t \in Seq(S)
  BY <1>3, <1>4
<1>5. ASSUME \E n \in 0 .. Len(rows) - 1 : t = Append(SubSeq(rows, 1, n), Part(rows[n + 1]))
      PROVE  t \in Seq(S)
  <2>1. PICK n \in 0 .. Len(rows) - 1 : t = Append(SubSeq(rows, 1, n), Part(rows[n + 1]))
    BY <1>5
  <2> DEFINE p == Part(rows[n + 1])
             q == SubSeq(rows, 1, n)
  <2>2. p \in S /\ q \in Seq(S) /\ t = Append(q, p)
    BY <1>1, <1>2, <1>3, <2>1
  <2> HIDE DEF S, p, q
  <2>3. Append(q, p) \in Seq(S)
    BY <2>2, AppendProperties
  <2> QED
    BY <2>2, <2>3
<1>6. t \in Seq(S)
  BY <1>1, <1>4, <1>5 DEF BrokenOff
<1>7. S \subseteq Rows
  OBVIOUS
<1> QED
  BY <1>6, <1>7, SeqMonotonic

LEMMA BrokenOffHeader == BrokenOff(<<Header>>, FALSE) = {<<>>, <<Part(Header)>>}
<1>1. /\ Len(<<Header>>) = 1 /\ SubSeq(<<Header>>, 1, 0) = <<>>
      /\ <<Header>>[1] = Header /\ Append(<<>>, Part(Header)) = <<Part(Header)>>
  OBVIOUS
<1> DEFINE f(n) == SubSeq(<<Header>>, 1, n)
           g(n) == Append(SubSeq(<<Header>>, 1, n), Part(<<Header>>[n + 1]))
<1>2. BrokenOff(<<Header>>, FALSE) = { f(n) : n \in 0 .. 0 } \cup { g(n) : n \in 0 .. 0 }
  BY <1>1 DEF BrokenOff
<1>3. f(0) = <<>> /\ g(0) = <<Part(Header)>>
  <2>1. <<Header>>[0 + 1] = Header
    OBVIOUS
  <2> QED
    BY <1>1, <2>1
<1>4. 0 .. 0 = {0}
  OBVIOUS
<1> HIDE DEF f, g
<1> QED
  BY <1>2, <1>3, <1>4

(* The rows after a position, when more are appended.                      *)
LEMMA AfterConcat ==
  ASSUME NEW S, NEW s \in Seq(S), NEW t \in Seq(S), NEW n \in 1 .. Len(s) + 1
  PROVE  SubSeq(s \o t, n, Len(s \o t)) = SubSeq(s, n, Len(s)) \o t
<1> DEFINE l == SubSeq(s \o t, n, Len(s \o t))
           m == SubSeq(s, n, Len(s))
<1>1. s \o t \in Seq(S) /\ Len(s \o t) = Len(s) + Len(t) /\ Len(s) \in Nat /\ Len(t) \in Nat
  BY ConcatProperties, LenProperties
<1>2. \A k \in 1 .. Len(s) + Len(t) : (s \o t)[k] = IF k <= Len(s) THEN s[k] ELSE t[k - Len(s)]
  BY ConcatProperties
<1>3. /\ l \in Seq(S) /\ Len(l) = Len(s) + Len(t) - n + 1
      /\ \A k \in 1 .. Len(l) : l[k] = (s \o t)[n + k - 1]
  <2>1. \A k \in n .. Len(s \o t) : (s \o t)[k] \in S
    BY <1>1, ElementOfSeq
  <2> QED
    BY <1>1, <2>1, SubSeqProperties
<1>4. /\ m \in Seq(S) /\ Len(m) = Len(s) - n + 1
      /\ \A k \in 1 .. Len(m) : m[k] = s[n + k - 1]
  <2>1. \A k \in n .. Len(s) : s[k] \in S
    BY <1>1, ElementOfSeq
  <2> QED
    BY <1>1, <2>1, SubSeqProperties
<1> HIDE DEF l, m
<1>5. /\ m \o t \in Seq(S) /\ Len(m \o t) = Len(m) + Len(t)
      /\ \A k \in 1 .. Len(m) + Len(t) : (m \o t)[k] = IF k <= Len(m) THEN m[k] ELSE t[k - Len(m)]
  BY <1>4, ConcatProperties
<1>6. Len(l) = Len(m \o t)
  BY <1>1, <1>3, <1>4, <1>5
<1>7. ASSUME NEW k \in 1 .. Len(l) PROVE l[k] = (m \o t)[k]
  BY <1>1, <1>2, <1>3, <1>4, <1>5
<1>8. l = m \o t
  BY <1>3, <1>5, <1>6, <1>7, SeqEqual
<1> QED
  BY <1>8 DEF l, m

LEMMA PrefixOfConcat ==
  ASSUME NEW S, NEW s \in Seq(S), NEW t \in Seq(S)
  PROVE  IsPrefix(s, s \o t)
<1>1. Len(s) \in Nat /\ Len(s) <= Len(s \o t)
  BY ConcatProperties, LenProperties
<1>2. SubSeq(s \o t, 1, Len(s)) = SubSeq(s, 1, Len(s))
  BY <1>1, SubSeqOfConcat1, LenProperties
<1> QED
  BY <1>1, <1>2 DEF IsPrefix

(* A prefix that is short enough is one of the first part.                 *)
LEMMA PrefixOfFirst ==
  ASSUME NEW S, NEW s \in Seq(S), NEW t \in Seq(S), NEW n \in 0 .. Len(s)
  PROVE  IsPrefix(SubSeq(s \o t, 1, n), s)
<1> DEFINE p == SubSeq(s \o t, 1, n)
<1>1. Len(s) \in Nat /\ s \o t \in Seq(S) /\ Len(s \o t) = Len(s) + Len(t) /\ Len(t) \in Nat
  BY ConcatProperties, LenProperties
<1>2. \A k \in 1 .. n : (s \o t)[k] = s[k] /\ s[k] \in S
  BY <1>1, ConcatProperties, ElementOfSeq
<1>3. p \in Seq(S) /\ Len(p) = n /\ \A k \in 1 .. n : p[k] = s[k]
  BY <1>1, <1>2, SubSeqProperties
<1> HIDE DEF p
<1>4. /\ SubSeq(s, 1, n) \in Seq(S) /\ Len(SubSeq(s, 1, n)) = n
      /\ \A k \in 1 .. n : SubSeq(s, 1, n)[k] = s[k]
  BY <1>1, <1>2, SubSeqProperties
<1>5. p = SubSeq(s, 1, n)
  BY <1>3, <1>4, SeqEqual
<1>6. SubSeq(p, 1, n) = p
  BY <1>3, SubSeqFull
<1>7. IsPrefix(p, s)
  BY <1>1, <1>3, <1>5, <1>6 DEF IsPrefix
<1> QED
  BY <1>7 DEF p

-----------------------------------------------------------------------------
(* The log                                                                 *)

USE DEF queueVars, diskVars, history

LEMMA Sequences ==
  ASSUME IInv
  PROVE  /\ file \in Seq(Rows) /\ Len(file) \in Nat /\ base \in Nat
         /\ csvBuf \in Seq(Rows) /\ csvBuf \in Seq(1 .. MaxEvents)
         /\ queue \in Seq(Rows) /\ queue \in Seq(1 .. MaxEvents)
         /\ accepted \in Seq(1 .. MaxEvents) /\ Written \in Seq(Rows)
<1>1. /\ file \in Seq(Rows) /\ base \in Nat /\ csvBuf \in Seq(1 .. MaxEvents)
      /\ queue \in Seq(1 .. MaxEvents) /\ accepted \in Seq(1 .. MaxEvents)
  BY DEF IInv, TypeOK, Memory
<1>2. Len(file) \in Nat /\ First \in Nat /\ First >= 1
  BY <1>1 DEF First
<1>3. \A k \in First .. Len(file) : file[k] \in Rows
  BY <1>1, <1>2, ElementOfSeq
<1>4. Written \in Seq(Rows)
  BY <1>1, <1>2, <1>3, SubSeqProperties DEF Written
<1> QED
  BY <1>1, <1>2, <1>4, RowSeqs

(* Rows that follow the header on disk are rows this session has written.  *)
LEMMA WrittenGrows ==
  ASSUME IInv, NEW t \in Seq(1 .. MaxEvents), Len(file) >= 1,
         file' = file \o t, base' = base
  PROVE  Written' = Written \o t
<1>1. First \in 1 .. Len(file) + 1 /\ First' = First
  BY Sequences DEF First, IInv, Header1
<1>2. t \in Seq(Rows)
  BY RowSeqs
<1> QED
  BY <1>1, <1>2, Sequences, AfterConcat DEF Written

(* Appending events leaves the log with its only header.                   *)
LEMMA HeaderStays ==
  ASSUME IInv, NEW t \in Seq(Rows \ Headers), Len(file) >= 1, file' = file \o t
  PROVE  /\ OneHeader' /\ file' \in Seq(Rows) /\ Len(file') >= Len(file)
         /\ file'[1] = file[1]
<1>1. Rows \ Headers \subseteq Rows
  OBVIOUS
<1>2. t \in Seq(Rows)
  BY <1>1, SeqMonotonic
<1>3. /\ file' \in Seq(Rows) /\ Len(file') = Len(file) + Len(t)
      /\ \A k \in 1 .. Len(file) + Len(t) :
           file'[k] = IF k <= Len(file) THEN file[k] ELSE t[k - Len(file)]
      /\ Len(file) \in Nat /\ Len(t) \in Nat
  BY <1>2, Sequences, ConcatProperties, LenProperties
<1>4. \A k \in 1 .. Len(t) : t[k] \notin Headers
  BY <1>3, ElementOfSeq
<1>5. file # <<>> /\ file[1] \in Headers /\ \A k \in 2 .. Len(file) : file[k] \notin Headers
  BY <1>3 DEF IInv, OneHeader
<1>6. file'[1] = file[1]
  BY <1>3, <1>5
<1>7. ASSUME NEW k \in 2 .. Len(file') PROVE file'[k] \notin Headers
  <2>1. CASE k <= Len(file)
    BY <1>3, <1>5, <2>1
  <2>2. CASE k > Len(file)
    <3>1. k - Len(file) \in 1 .. Len(t)
      BY <1>3, <2>2
    <3> QED
      BY <1>3, <1>4, <2>2, <3>1
  <2> QED
    BY <1>3, <2>1, <2>2
<1> QED
  BY <1>3, <1>5, <1>6, <1>7 DEF OneHeader

(* A write that fails takes what was buffered with it.                     *)
LEMMA WriteFailsKeeps ==
  ASSUME IInv, NEW rows \in Seq(1 .. MaxEvents), WriteFails(rows), Len(file) >= 1,
         UNCHANGED <<main, base>>
  PROVE  /\ OneHeader' /\ file' \in Seq(Rows) /\ Header1' /\ Kept'
         /\ failed' = TRUE /\ cut' = FALSE /\ csvBuf' = <<>>
         /\ csvBuf' \in Seq(Rows) /\ csvBuf' \in Seq(1 .. MaxEvents)
<1>1. PICK t \in BrokenOff(rows, cut) : file' = file \o t
  BY DEF WriteFails
<1>2. t \in Seq(Rows \ Headers)
  BY BrokenOffRows
<1>3. OneHeader' /\ file' \in Seq(Rows) /\ Len(file') >= Len(file)
  BY <1>1, <1>2, HeaderStays
<1>4. failed' = TRUE /\ cut' = FALSE /\ csvBuf' = <<>>
  BY DEF WriteFails
<1>5. <<>> \in Seq(Rows) /\ <<>> \in Seq(1 .. MaxEvents)
  BY EmptySeq
<1>6. Header1'
  <2>1. Len(file') \in Nat
    BY <1>3, LenProperties
  <2> QED
    BY <1>3, <1>4, <2>1, Sequences DEF IInv, Header1
<1> QED
  BY <1>3, <1>4, <1>5, <1>6 DEF Kept

LEMMA Initially == Init => IInv
<1> SUFFICES ASSUME Init PROVE IInv
  OBVIOUS
<1>1. \A S : <<>> \in Seq(S)
  BY EmptySeq
<1>2. TypeOK
  <2>1. 0 \in 0 .. MaxEvents /\ 0 \in 0 .. MaxSessions /\ Len(<<>>) <= Capacity
    BY LogAssumption
  <2> QED
    BY <1>1, <2>1 DEF Init, TypeOK, Ring!QueueInit
<1>3. Life /\ Memory /\ Header1 /\ OneHeader
  BY <1>1 DEF Init, Life, Memory, Header1, OneHeader, Ring!QueueInit
<1>4. Written = <<>>
  <2>1. First = 2 /\ Len(file) = 0 /\ file = <<>>
    BY DEF Init, First
  <2> QED
    BY <2>1, SubSeqEmpty DEF Written
<1>5. <<>> \o <<>> = <<>>
  BY <1>1, ConcatEmptySeq
<1>6. Kept /\ Pending
  BY <1>4, <1>5 DEF Init, Kept, Pending, Ring!QueueInit
<1> QED
  BY <1>2, <1>3, <1>6 DEF IInv

(* A session begins with nothing written, whatever it finds.               *)
LEMMA NewKeeps == IInv /\ NewCSVWriter => IInv'
<1> SUFFICES ASSUME IInv, NewCSVWriter PROVE IInv'
  OBVIOUS
<1>1. /\ main = "off" /\ main' = "open" /\ wpc = "none" /\ wpc' = "none"
      /\ csvBuf' = <<>> /\ queue' = <<>> /\ accepted' = <<>> /\ cut' = FALSE
      /\ base' = Len(file) /\ atStop' = 0 /\ done' = FALSE
      /\ sessions < MaxSessions /\ sessions' = sessions + 1 /\ UNCHANGED <<tick, events>>
  BY DEF NewCSVWriter, IInv, Life, OpenFile
<1>2. \/ file' = file \o HeaderRow /\ failed' = FALSE
      \/ (\E t \in BrokenOff(HeaderRow, FALSE) : file' = file \o t) /\ failed' = TRUE
  BY DEF NewCSVWriter, OpenFile
<1>3. HeaderRow = IF file = <<>> THEN <<Header>> ELSE <<>>
  BY DEF HeaderRow, OpenFile
<1>4. \A S : <<>> \in Seq(S)
  BY EmptySeq
<1>5. \/ file = <<>> /\ file' = <<Header>> /\ failed' = FALSE
      \/ file = <<>> /\ file' \in {<<>>, <<Part(Header)>>} /\ failed' = TRUE
      \/ file # <<>> /\ file' = file /\ failed' = FALSE
  <2>1. <<Header>> \in Seq(Rows)
    BY LogAssumption DEF Header, Rows
  <2>2. <<>> \o <<Header>> = <<Header>> /\ file \o <<>> = file
    BY <2>1, Sequences, ConcatEmptySeq
  <2>3. CASE file # <<>>
    <3>1. BrokenOff(<<>>, FALSE) = {}
      BY DEF BrokenOff
    <3> QED
      BY <1>2, <1>3, <2>2, <2>3, <3>1
  <2>4. CASE file = <<>>
    <3>1. BrokenOff(<<Header>>, FALSE) = {<<>>, <<Part(Header)>>}
      BY BrokenOffHeader
    <3>2. <<>> \o <<>> = <<>> /\ <<>> \o <<Part(Header)>> = <<Part(Header)>>
      <4>1. Part(Header) \in Rows
        BY EventRows DEF Headers
      <4>2. <<Part(Header)>> \in Seq(Rows) /\ <<>> \in Seq(Rows)
        BY <4>1
      <4> QED
        BY <4>2, ConcatEmptySeq
    <3> QED
      BY <1>2, <1>3, <2>2, <2>4, <3>1, <3>2
  <2> QED
    BY <2>3, <2>4
<1>6. file' \in Seq(Rows) /\ OneHeader'
  <2>1. CASE file' \in {<<Header>>, <<Part(Header)>>}
    <3>1. PICK h \in Headers : file' = <<h>>
      BY <2>1 DEF Headers
    <3>2. Len(<<h>>) = 1 /\ <<h>>[1] = h /\ h \in Rows
      BY EventRows
    <3> QED
      BY <3>1, <3>2 DEF OneHeader
  <2>2. CASE file' = file
    BY <2>2, Sequences DEF IInv, OneHeader
  <2> QED
    BY <1>5, <2>1, <2>2
<1>7. Len(file) \in Nat /\ Len(file) <= Len(file') /\ (~ failed' => Len(file') >= 1)
      /\ (~ failed' /\ Len(file) = 0 => file'[1] = Header) /\ failed' \in BOOLEAN
  <2>1. file # <<>> => Len(file) >= 1
    BY Sequences, EmptySeq
  <2>2. Len(<<Header>>) = 1 /\ Len(<<>>) = 0 /\ <<Header>>[1] = Header
        /\ Len(<<Part(Header)>>) = 1
    OBVIOUS
  <2>3. /\ Len(file) <= Len(file')
        /\ failed' = TRUE \/ (Len(file') >= 1 /\ (Len(file) = 0 => file'[1] = Header))
    <3>1. CASE file = <<>>
      <4>1. \/ file' = <<Header>> /\ failed' = FALSE
            \/ file' = <<>> /\ failed' = TRUE
            \/ file' = <<Part(Header)>> /\ failed' = TRUE
        BY <1>5, <3>1
      <4>2. Len(file) = 0
        BY <2>2, <3>1
      <4>3. CASE file' = <<Header>>
        <5>1. Len(file') = 1 /\ file'[1] = Header
          BY <2>2, <4>3
        <5> QED
          BY <4>2, <5>1
      <4>4. CASE file' \in {<<>>, <<Part(Header)>>} /\ failed' = TRUE
        <5>1. Len(file') \in {0, 1}
          BY <2>2, <4>4
        <5> QED
          BY <4>2, <4>4, <5>1
      <4> QED
        BY <4>1, <4>3, <4>4
    <3>2. CASE file # <<>>
      BY <1>5, <2>1, <3>2, Sequences
    <3> QED
      BY <3>1, <3>2
  <2>4. failed' \in BOOLEAN
    BY <1>5
  <2> QED
    BY <2>3, <2>4, Sequences
<1>8. TypeOK'
  <2>1. sessions' \in 0 .. MaxSessions /\ events' \in 0 .. MaxEvents /\ tick' \in BOOLEAN
    BY <1>1, LogAssumption DEF IInv, TypeOK
  <2>2. Len(queue') <= Capacity
    BY <1>1, LogAssumption
  <2> QED
    BY <1>1, <1>4, <1>6, <1>7, <2>1, <2>2 DEF TypeOK
<1>9. Life' /\ Memory' /\ Header1'
  BY <1>1, <1>4, <1>7 DEF Life, Memory, Header1
<1>10. ~ failed' => Written' = <<>>
  <2>1. CASE file = <<>> /\ file' = <<Header>>
    <3>1. base' = 0 /\ First' = 2 /\ Len(file') = 1
      BY <1>1, <2>1 DEF First
    <3> QED
      BY <3>1, SubSeqEmpty DEF Written
  <2>2. CASE file # <<>> /\ file' = file
    <3>1. base' = Len(file) /\ Len(file) # 0 /\ First' = Len(file') + 1 /\ Len(file') \in Nat
      BY <1>1, <2>2, Sequences, EmptySeq DEF First
    <3> QED
      BY <3>1, SubSeqEmpty DEF Written
  <2> QED
    BY <1>5, <2>1, <2>2
<1>11. Kept' /\ Pending'
  <2>1. <<>> \o <<>> = <<>>
    BY <1>4, ConcatEmptySeq
  <2> QED
    BY <1>1, <1>10, <2>1 DEF Kept, Pending
<1> QED
  BY <1>6, <1>8, <1>9, <1>11 DEF IInv

(* Steps that move neither a row nor an event.                             *)
LEMMA Unmoved ==
  ASSUME IInv, UNCHANGED <<diskVars, queue, accepted, base>>
  PROVE  /\ Written' = Written /\ First' = First /\ Header1!1' /\ Header1!3'
         /\ OneHeader' /\ Kept'
BY DEF IInv, Header1, OneHeader, Kept, Written, First

LEMMA ControlKeeps ==
  IInv /\ (\/ Start \/ Stop \/ StopReturns \/ Ticker \/ SelectDone \/ SelectTick
           \/ UNCHANGED vars) => IInv'
<1> SUFFICES ASSUME IInv,
               \/ Start \/ Stop \/ StopReturns \/ Ticker \/ SelectDone \/ SelectTick
               \/ UNCHANGED vars
             PROVE  IInv'
  OBVIOUS
<1>1. /\ UNCHANGED <<diskVars, queue, accepted, base, events, sessions>>
      /\ main' # "off" \/ UNCHANGED main
      /\ main = "off" => main' = "off"
  BY DEF Start, Stop, StopReturns, Ticker, SelectDone, SelectTick, vars
<1>2. TypeOK /\ Life /\ Memory /\ Header1 /\ Pending
  BY DEF IInv
<1>3. tick' \in BOOLEAN /\ done' \in BOOLEAN
  BY <1>2 DEF TypeOK, Start, Stop, StopReturns, Ticker, SelectDone, SelectTick, vars
<1>4. Len(accepted) \in Nat
  BY Sequences, LenProperties
<1>5. TypeOK'
  BY <1>1, <1>2, <1>3, <1>4 DEF TypeOK, Start, Stop, StopReturns, Ticker, SelectDone,
     SelectTick, vars
<1>6. Life'
  <2>1. CASE SelectDone
    <3>1. main \in {"stopping", "stopped"}
      BY <1>2, <2>1 DEF Life, TypeOK, SelectDone
    <3> QED
      BY <1>2, <2>1, <3>1 DEF Life, SelectDone
  <2>2. CASE Start \/ Stop \/ StopReturns
    BY <1>2, <2>2 DEF Life, Start, Stop, StopReturns
  <2>3. CASE Ticker \/ SelectTick \/ UNCHANGED vars
    BY <1>2, <2>3 DEF Life, Ticker, SelectTick, vars
  <2> QED
    BY <2>1, <2>2, <2>3
<1>7. Memory' /\ Header1'
  BY <1>1, <1>2 DEF Memory, Header1
<1>8. Pending'
  BY <1>1, <1>2, <1>4, Unmoved DEF Pending, Life, Start, Stop, StopReturns, Ticker,
     SelectDone, SelectTick, vars
<1> QED
  BY <1>1, <1>5, <1>6, <1>7, <1>8, Unmoved DEF IInv

(* The process ends: the log keeps its rows, and perhaps part of one.      *)
LEMMA ExitKeeps == IInv /\ Exit => IInv'
<1> SUFFICES ASSUME IInv, Exit PROVE IInv'
  OBVIOUS
<1>1. /\ main' = "off" /\ wpc' = "none" /\ csvBuf' = <<>> /\ cut' = FALSE
      /\ queue' = <<>> /\ accepted' = <<>> /\ base' = Len(file')
      /\ UNCHANGED <<failed, tick, done, events, sessions, atStop>>
      /\ file' = IF cut THEN Append(file, Part(Head(csvBuf))) ELSE file
  BY DEF Exit
<1>2. TypeOK /\ cut \in BOOLEAN /\ OneHeader /\ (cut => Len(file) >= 1 /\ csvBuf # <<>>)
  BY DEF IInv, TypeOK, Header1, Memory
<1>3. file' \in Seq(Rows) /\ OneHeader'
  <2>1. CASE cut
    <3> DEFINE p == Part(Head(csvBuf))
    <3>1. p \in Rows \ Headers
      <4>1. Head(csvBuf) \in 1 .. MaxEvents
        BY <1>2, <2>1, Sequences, HeadTailProperties
      <4> QED
        BY <4>1, EventRows
    <3>2. file' = Append(file, p)
      BY <1>1, <2>1
    <3> HIDE DEF p
    <3>3. <<p>> \in Seq(Rows \ Headers)
      BY <3>1
    <3>4. file' = file \o <<p>>
      BY <3>1, <3>2, Sequences, AppendIsConcat
    <3> QED
      BY <1>2, <2>1, <3>3, <3>4, HeaderStays
  <2>2. CASE ~ cut
    BY <1>1, <1>2, <2>2, Sequences DEF OneHeader
  <2> QED
    BY <2>1, <2>2
<1>4. Len(file') \in Nat /\ \A S : <<>> \in Seq(S)
  BY <1>3, LenProperties, EmptySeq
<1>5. Written' = <<>>
  <2>1. First' \in Int /\ Len(file') < First'
    BY <1>1, <1>4 DEF First
  <2> QED
    BY <1>4, <2>1, SubSeqEmpty DEF Written
<1>6. TypeOK'
  <2>1. Len(queue') <= Capacity
    BY <1>1, LogAssumption
  <2> QED
    BY <1>1, <1>2, <1>3, <1>4, <2>1 DEF TypeOK
<1>7. Life' /\ Memory' /\ Header1' /\ Pending'
  BY <1>1, <1>4 DEF Life, Memory, Header1, Pending
<1>8. Kept'
  <2>1. <<>> \o <<>> = <<>>
    BY <1>4, ConcatEmptySeq
  <2> QED
    BY <1>1, <1>5, <2>1 DEF Kept
<1> QED
  BY <1>3, <1>6, <1>7, <1>8 DEF IInv

(* An accepted event is the last of queue and of accepted.                 *)
LEMMA PushKeeps == IInv /\ MonitorPushes => IInv'
<1> SUFFICES ASSUME IInv, MonitorPushes PROVE IInv'
  OBVIOUS
<1>1. /\ TypeOK /\ Life /\ Memory /\ Header1 /\ Pending /\ Kept
      /\ main # "off" /\ UNCHANGED <<diskVars, main, wpc, tick, done, sessions, base, atStop>>
      /\ events < MaxEvents /\ events' = events + 1
  BY DEF IInv, MonitorPushes
<1>2. events' \in 1 .. MaxEvents
  BY <1>1, LogAssumption DEF TypeOK
<1>3. CASE UNCHANGED <<queue, accepted>>
  <2>1. TypeOK' /\ Life' /\ Memory' /\ Header1'
    BY <1>1, <1>2, <1>3 DEF TypeOK, Life, Memory, Header1
  <2>2. Pending'
    BY <1>1, <1>3, Unmoved DEF Pending
  <2> QED
    BY <1>1, <1>3, <2>1, <2>2, Unmoved DEF IInv
<1>4. CASE /\ Len(queue) < Capacity /\ queue' = Append(queue, events')
           /\ accepted' = Append(accepted, events')
  <2>1. /\ queue' \in Seq(1 .. MaxEvents) /\ Len(queue') = Len(queue) + 1
        /\ accepted' \in Seq(1 .. MaxEvents) /\ Len(accepted') = Len(accepted) + 1
        /\ Len(queue) \in Nat /\ Len(accepted) \in Nat
    BY <1>2, <1>4, Sequences, AppendProperties, LenProperties
  <2>2. TypeOK'
    BY <1>1, <1>2, <1>4, <2>1, LogAssumption DEF TypeOK
  <2>3. Written' = Written /\ OneHeader'
    BY <1>1 DEF Written, First, IInv, OneHeader
  <2>4. Life' /\ Memory' /\ Header1'
    BY <1>1 DEF Life, Memory, Header1
  <2>5. Pending'
    BY <1>1, <2>1, <2>3 DEF Pending, TypeOK
  <2>6. Kept'
    <3> SUFFICES ASSUME ~ failed PROVE (Written \o csvBuf) \o queue' = accepted'
      BY <1>1, <2>3 DEF Kept
    <3> DEFINE a == Written \o csvBuf
    <3>1. a \in Seq(Rows)
      BY Sequences, ConcatProperties
    <3>2. a \o queue = accepted
      BY <1>1 DEF Kept
    <3> HIDE DEF a
    <3> DEFINE e == <<events'>>
    <3>3. e \in Seq(Rows)
      BY <1>2, LogAssumption DEF Rows
    <3>4. queue' = queue \o e /\ accepted' = accepted \o e
      BY <1>2, <1>4, Sequences, AppendIsConcat
    <3> HIDE DEF e
    <3>5. (a \o queue) \o e = a \o (queue \o e)
      <4>1. queue \in Seq(Rows)
        BY Sequences
      <4> QED
        BY <3>1, <3>3, <4>1, ConcatAssociative
    <3> QED
      BY <3>2, <3>4, <3>5 DEF a
  <2> QED
    BY <2>2, <2>3, <2>4, <2>5, <2>6 DEF IInv
<1> QED
  BY <1>3, <1>4 DEF MonitorPushes, Ring!Push, Ring!PushFull

-----------------------------------------------------------------------------
(* The goroutine of CSVWriter: rows move, none is lost on the way          *)

LEMMA DrainOneKeeps == IInv /\ DrainOne => IInv'
<1> SUFFICES ASSUME IInv, DrainOne PROVE IInv'
  OBVIOUS
<1> DEFINE h == Head(queue)
<1>1. /\ TypeOK /\ Life /\ Memory /\ Header1 /\ Pending /\ Kept /\ OneHeader
      /\ wpc \in {"drain", "lastDrain"}
      /\ UNCHANGED <<main, wpc, tick, done, events, sessions, history>>
      /\ queue # <<>> /\ queue' = Tail(queue) /\ WriteRow(h)
  BY DEF IInv, DrainOne, Ring!Pop
<1>2. main # "off" /\ (~ failed => Len(file) >= 1)
  BY <1>1 DEF Life, Header1
<1>3. /\ h \in 1 .. MaxEvents /\ queue' \in Seq(1 .. MaxEvents)
      /\ Len(queue') = Len(queue) - 1 /\ Len(queue) \in Nat
  BY <1>1, Sequences, HeadTailProperties, LenProperties
<1>4. h \in Rows /\ <<h>> \in Seq(Rows) /\ <<h>> \in Seq(1 .. MaxEvents)
  BY <1>3, LogAssumption DEF Rows
<1>5. queue' \in Seq(Rows) /\ queue = <<h>> \o queue'
  <2>1. queue' \in Seq(Rows)
    BY <1>3, RowSeqs
  <2>2. /\ <<h>> \o queue' \in Seq(Rows)
        /\ Len(<<h>> \o queue') = Len(queue)
        /\ \A k \in 1 .. Len(queue) :
             (<<h>> \o queue')[k] = IF k <= 1 THEN h ELSE queue'[k - 1]
    BY <1>3, <1>4, <2>1, ConcatProperties
  <2>3. \A k \in 1 .. Len(queue') : queue'[k] = queue[k + 1]
    BY <1>1, Sequences, HeadTailProperties
  <2>4. queue[1] = h
    BY <1>1, Sequences
  <2>5. ASSUME NEW k \in 1 .. Len(queue) PROVE queue[k] = (<<h>> \o queue')[k]
    <3>1. CASE k = 1
      BY <1>3, <2>2, <2>4, <3>1
    <3>2. CASE k # 1
      <4>1. k - 1 \in 1 .. Len(queue') /\ ~(k <= 1)
        BY <1>3, <3>2
      <4> QED
        BY <1>3, <2>2, <2>3, <4>1
    <3> QED
      BY <3>1, <3>2
  <2> QED
    BY <2>1, <2>2, <2>5, Sequences, SeqEqual
<1> HIDE DEF h
<1>6. Len(queue') <= Capacity
  BY <1>1, <1>3, LogAssumption DEF TypeOK
<1>7. Life'
  BY <1>1 DEF Life
<1>8. CASE /\ ~ failed /\ csvBuf' = Append(csvBuf, h) /\ UNCHANGED <<file, cut, failed>>
  <2>1. csvBuf' \in Seq(1 .. MaxEvents) /\ csvBuf' = csvBuf \o <<h>> /\ csvBuf' \in Seq(Rows)
    BY <1>3, <1>8, Sequences, AppendProperties, AppendIsConcat, RowSeqs
  <2>2. Written' = Written
    BY <1>1, <1>8 DEF Written, First
  <2>3. Kept'
    <3>1. (Written \o csvBuf) \o queue = accepted
      BY <1>1, <1>8 DEF Kept
    <3>2. Written \o csvBuf' = (Written \o csvBuf) \o <<h>>
      BY <1>4, <2>1, Sequences, ConcatAssociative
    <3>3. ((Written \o csvBuf) \o <<h>>) \o queue' = (Written \o csvBuf) \o (<<h>> \o queue')
      BY <1>4, <1>5, Sequences, ConcatProperties, ConcatAssociative
    <3> QED
      BY <1>1, <1>5, <2>2, <3>1, <3>2, <3>3 DEF Kept
  <2>4. TypeOK'
    BY <1>1, <1>3, <1>6, <1>8, <2>1 DEF TypeOK
  <2>5. Memory' /\ Header1' /\ OneHeader'
    BY <1>1, <1>2, <1>8, <2>1 DEF Memory, Header1, OneHeader
  <2> QED
    BY <1>1, <1>7, <2>3, <2>4, <2>5 DEF IInv, Pending
<1>9. CASE /\ ~ failed /\ file' = file \o csvBuf /\ csvBuf' = <<h>> /\ cut' \in BOOLEAN
           /\ UNCHANGED failed
  <2>1. Len(file) >= 1 /\ base' = base
    BY <1>1, <1>2, <1>9
  <2>2. Written' = Written \o csvBuf
    BY <1>9, <2>1, Sequences, WrittenGrows
  <2>3. csvBuf \in Seq(Rows \ Headers)
    BY Sequences, RowSeqs
  <2>4. OneHeader' /\ file' \in Seq(Rows) /\ Len(file') >= Len(file) /\ file'[1] = file[1]
    BY <1>9, <2>1, <2>3, HeaderStays
  <2>5. Kept'
    <3>1. (Written \o csvBuf) \o queue = accepted
      BY <1>1, <1>9 DEF Kept
    <3>2. ((Written \o csvBuf) \o <<h>>) \o queue' = (Written \o csvBuf) \o (<<h>> \o queue')
      BY <1>4, <1>5, Sequences, ConcatProperties, ConcatAssociative
    <3> QED
      BY <1>1, <1>5, <1>9, <2>2, <3>1, <3>2 DEF Kept
  <2>6. TypeOK'
    BY <1>1, <1>3, <1>4, <1>6, <1>9, <2>4 DEF TypeOK
  <2>7. Memory' /\ Header1'
    <3>1. Len(file') \in Nat
      BY <2>4, LenProperties
    <3> QED
      BY <1>1, <1>2, <1>4, <1>9, <2>1, <2>4, <3>1, Sequences DEF Memory, Header1
  <2> QED
    BY <1>1, <1>7, <2>4, <2>5, <2>6, <2>7 DEF IInv, Pending
<1>10. CASE failed /\ UNCHANGED diskVars
  <2>1. TypeOK' /\ Memory' /\ Header1' /\ OneHeader' /\ Kept'
    BY <1>1, <1>2, <1>3, <1>6, <1>10 DEF TypeOK, Memory, Header1, OneHeader, Kept
  <2> QED
    BY <1>1, <1>7, <2>1 DEF IInv, Pending
<1>11. CASE ~ failed /\ WriteFails(Append(csvBuf, h))
  <2>1. Append(csvBuf, h) \in Seq(1 .. MaxEvents)
    BY <1>3, Sequences, AppendProperties
  <2>2. /\ OneHeader' /\ file' \in Seq(Rows) /\ Header1' /\ Kept'
        /\ failed' = TRUE /\ cut' = FALSE /\ csvBuf' = <<>>
        /\ csvBuf' \in Seq(Rows) /\ csvBuf' \in Seq(1 .. MaxEvents)
    BY <1>1, <1>2, <1>11, <2>1, WriteFailsKeeps
  <2>3. TypeOK'
    BY <1>1, <1>3, <1>6, <2>2 DEF TypeOK
  <2>4. Memory' /\ Pending'
    BY <1>1, <1>2, <2>2 DEF Memory, Pending
  <2> QED
    BY <1>7, <2>2, <2>3, <2>4 DEF IInv
<1> QED
  BY <1>1, <1>8, <1>9, <1>10, <1>11 DEF WriteRow

(* With the ring empty, all that was accepted is on disk or in the buffer. *)
LEMMA DrainEndKeeps == IInv /\ DrainEnd => IInv'
<1> SUFFICES ASSUME IInv, DrainEnd PROVE IInv'
  OBVIOUS
<1>1. /\ TypeOK /\ Life /\ Memory /\ Header1 /\ Pending /\ Kept
      /\ UNCHANGED <<diskVars, queue, main, tick, done, events, sessions, history>>
      /\ queue = <<>>
      /\ \/ wpc = "drain" /\ wpc' = "flush"
         \/ wpc = "lastDrain" /\ wpc' = "lastFlush"
  BY DEF IInv, DrainEnd, Ring!PopEmpty
<1>2. TypeOK' /\ Life' /\ Memory' /\ Header1'
  BY <1>1 DEF TypeOK, Life, Memory, Header1
<1>3. ~ failed => Written \o csvBuf = accepted
  BY <1>1, Sequences, ConcatProperties, ConcatEmptySeq DEF Kept
<1>4. Pending'
  BY <1>1, <1>3, Unmoved DEF Pending, Life
<1> QED
  BY <1>1, <1>2, <1>4, Unmoved DEF IInv

LEMMA FlushKeeps == IInv /\ Flush => IInv'
<1> SUFFICES ASSUME IInv, Flush PROVE IInv'
  OBVIOUS
<1>1. /\ TypeOK /\ Life /\ Memory /\ Header1 /\ Pending /\ Kept /\ OneHeader
      /\ UNCHANGED <<queueVars, main, tick, done, events, sessions, history>>
      /\ \/ wpc = "flush" /\ wpc' = "select"
         \/ wpc = "lastFlush" /\ wpc' = "exited"
  BY DEF IInv, Flush
<1>2. Life' /\ main # "off"
  BY <1>1 DEF Life
<1>3. CASE /\ ~ failed /\ file' = file \o csvBuf /\ csvBuf' = <<>> /\ cut' = FALSE
           /\ UNCHANGED failed
  <2>1. Len(file) >= 1 /\ base' = base
    BY <1>1, <1>2, <1>3 DEF Header1
  <2>2. Written' = Written \o csvBuf
    BY <1>3, <2>1, Sequences, WrittenGrows
  <2>3. csvBuf \in Seq(Rows \ Headers)
    BY Sequences, RowSeqs
  <2>4. OneHeader' /\ file' \in Seq(Rows) /\ Len(file') >= Len(file) /\ file'[1] = file[1]
    BY <1>3, <2>1, <2>3, HeaderStays
  <2>5. <<>> \in Seq(Rows) /\ <<>> \in Seq(1 .. MaxEvents)
    BY EmptySeq
  <2>6. Kept'
    <3>1. Written \o csvBuf \in Seq(Rows)
      BY Sequences, ConcatProperties
    <3>2. (Written \o csvBuf) \o <<>> = Written \o csvBuf
      BY <3>1, ConcatEmptySeq
    <3> QED
      BY <1>1, <1>3, <2>2, <3>2 DEF Kept
  <2>7. TypeOK'
    BY <1>1, <1>3, <2>4, <2>5 DEF TypeOK
  <2>8. Memory' /\ Header1'
    <3>1. Len(file') \in Nat
      BY <2>4, LenProperties
    <3> QED
      BY <1>1, <1>2, <1>3, <2>1, <2>4, <2>5, <3>1, Sequences DEF Memory, Header1
  <2>9. Pending'
    BY <1>1, <1>3, <2>2 DEF Pending
  <2> QED
    BY <1>2, <2>4, <2>6, <2>7, <2>8, <2>9 DEF IInv
<1>4. CASE failed /\ UNCHANGED diskVars
  <2>1. TypeOK' /\ Memory' /\ Header1' /\ OneHeader' /\ Kept' /\ Pending'
    BY <1>1, <1>2, <1>4 DEF TypeOK, Memory, Header1, OneHeader, Kept, Pending
  <2> QED
    BY <1>2, <2>1 DEF IInv
<1>5. CASE ~ failed /\ WriteFails(csvBuf)
  <2>1. Len(file) >= 1
    BY <1>1, <1>2, <1>5 DEF Header1
  <2>2. /\ OneHeader' /\ file' \in Seq(Rows) /\ Header1' /\ Kept'
        /\ failed' = TRUE /\ cut' = FALSE /\ csvBuf' = <<>>
        /\ csvBuf' \in Seq(Rows) /\ csvBuf' \in Seq(1 .. MaxEvents)
    BY <1>1, <1>5, <2>1, Sequences, WriteFailsKeeps
  <2>3. TypeOK' /\ Memory' /\ Pending'
    BY <1>1, <1>2, <2>2 DEF TypeOK, Memory, Pending
  <2> QED
    BY <1>2, <2>2, <2>3 DEF IInv
<1> QED
  BY <1>3, <1>4, <1>5, <1>1 DEF Flush

-----------------------------------------------------------------------------
(* The inductive invariant of the pipeline.                                *)
THEOREM Invariant == Spec => []IInv
<1>1. IInv /\ [Next]_vars => IInv'
  BY NewKeeps, ControlKeeps, ExitKeeps, PushKeeps, DrainOneKeeps, DrainEndKeeps,
     FlushKeeps DEF Next, Writer
<1> QED
  BY Initially, <1>1, PTL DEF Spec

(* No variable leaves its type; the ring never holds more than Capacity.   *)
THEOREM TypeCorrect == Spec => []TypeOK
<1>1. IInv => TypeOK
  BY DEF IInv
<1> QED
  BY Invariant, <1>1, PTL

(* While the disk works, disk, csv.Writer and ring hold together exactly   *)
(* the events the ring accepted, in order, for any number of them and any  *)
(* spill of the buffer, and each event on disk is a line of the log but    *)
(* for the one a session appends to a part of a row it found at the end.   *)
THEOREM NoEventLost == Spec => []NothingLost
<1>1. IInv => NothingLost
  <2> SUFFICES ASSUME IInv, ~ failed, NEW k \in First .. Len(file)
               PROVE  IsLine(k) \/ (k = base + 1 /\ base > 0 /\ file[base] > MaxEvents)
    BY DEF IInv, NothingLost, OwnLines
  <2>1. (Written \o csvBuf) \o queue = accepted
    BY DEF IInv, Kept
  <2>2. /\ First \in Nat /\ First >= 1 /\ MaxEvents \in Nat
        /\ First = IF base = 0 THEN 2 ELSE base + 1
        /\ file \in Seq(Rows) /\ Len(file) \in Nat /\ base \in Nat
    BY Sequences, LogAssumption DEF First
  <2>3. ASSUME NEW j \in First .. Len(file) PROVE file[j] \in 1 .. MaxEvents
    <3>1. /\ Len(Written) = Len(file) - First + 1
          /\ \A i \in 1 .. Len(Written) : Written[i] = file[First + i - 1]
      <4>1. \A i \in First .. Len(file) : file[i] \in Rows
        BY <2>2, ElementOfSeq
      <4>2. First \in Int /\ Len(file) \in Int /\ First <= Len(file)
        BY <2>2
      <4> HIDE DEF First
      <4> QED
        BY <4>1, <4>2, SubSeqProperties DEF Written
    <3> DEFINE i == j - First + 1
    <3>2. i \in 1 .. Len(Written) /\ First + i - 1 = j
      <4>1. j \in Int /\ First <= j /\ j <= Len(file)
        BY <2>2
      <4> QED
        BY <2>2, <3>1, <4>1
    <3>3. Written[i] = file[j]
      BY <3>1, <3>2
    <3> HIDE DEF i
    <3>4. accepted = Written \o (csvBuf \o queue) /\ csvBuf \o queue \in Seq(Rows)
      <4>1. Written \in Seq(Rows) /\ csvBuf \in Seq(Rows) /\ queue \in Seq(Rows)
        BY Sequences
      <4>2. csvBuf \o queue \in Seq(Rows)
        BY <4>1, ConcatProperties
      <4>3. (Written \o csvBuf) \o queue = Written \o (csvBuf \o queue)
        BY <4>1, ConcatAssociative
      <4> QED
        BY <2>1, <4>2, <4>3
    <3>5. accepted[i] = Written[i] /\ i \in 1 .. Len(accepted)
      <4>1. Written \in Seq(Rows) /\ Len(Written) \in Nat /\ Len(csvBuf \o queue) \in Nat
        BY <3>4, Sequences, LenProperties
      <4>2. /\ Len(Written \o (csvBuf \o queue)) = Len(Written) + Len(csvBuf \o queue)
            /\ \A n \in 1 .. Len(Written) + Len(csvBuf \o queue) :
                 (Written \o (csvBuf \o queue))[n] =
                    IF n <= Len(Written) THEN Written[n] ELSE (csvBuf \o queue)[n - Len(Written)]
        BY <3>4, <4>1, ConcatProperties
      <4> QED
        BY <3>2, <3>4, <4>1, <4>2
    <3> QED
      BY <3>3, <3>5, Sequences, ElementOfSeq
  <2>4. file[k] <= MaxEvents
    BY <2>2, <2>3
  <2>5. CASE k > First
    <3>1. k - 1 \in First .. Len(file)
      BY <2>2, <2>5
    <3>2. file[k - 1] <= MaxEvents
      BY <2>2, <2>3, <3>1
    <3> QED
      BY <2>4, <3>2 DEF IsLine
  <2>6. CASE k = First /\ base # 0
    <3>1. k - 1 = base /\ base \in 1 .. Len(file)
      BY <2>2, <2>6
    <3>2. file[base] <= MaxEvents \/ file[base] > MaxEvents
      <4>1. file[base] \in Rows
        BY <2>2, <3>1, ElementOfSeq
      <4> QED
        BY <2>2, <4>1 DEF Rows
    <3> QED
      BY <2>2, <2>4, <2>6, <3>1, <3>2 DEF IsLine
  <2>7. CASE k = First /\ base = 0
    <3>1. main # "off"
      BY <2>2, <2>7 DEF IInv, Memory
    <3>2. k = 2 /\ file[1] = Header
      BY <2>2, <2>7, <3>1 DEF IInv, Header1
    <3> QED
      BY <2>2, <2>4, <3>2 DEF IsLine, Header
  <2> QED
    BY <2>2, <2>5, <2>6, <2>7
<1> QED
  BY Invariant, <1>1, PTL

(* However many sessions append to the log and however they end, it begins *)
(* with the header, or with the part of it that a failed write left, and   *)
(* has no other header.                                                    *)
THEOREM HeaderOnce == Spec => []OneHeader
<1>1. IInv => OneHeader
  BY DEF IInv
<1> QED
  BY Invariant, <1>1, PTL

(* When Stop returns, all that was accepted before it was called is on the *)
(* disk, whatever the monitor goroutine pushed meanwhile.                  *)
THEOREM StopIsComplete == Spec => []StopFlushesPending
<1>1. IInv => StopFlushesPending
  <2> SUFFICES ASSUME IInv, main = "stopped", ~ failed
               PROVE  IsPrefix(SubSeq(accepted, 1, atStop), Written)
    BY DEF StopFlushesPending
  <2>1. atStop \in 0 .. Len(Written)
    BY Sequences, LenProperties DEF IInv, Life, Pending, TypeOK
  <2>2. (Written \o csvBuf) \o queue = accepted
    BY DEF IInv, Kept
  <2>3. accepted = Written \o (csvBuf \o queue) /\ csvBuf \o queue \in Seq(Rows)
    <3>1. Written \in Seq(Rows) /\ csvBuf \in Seq(Rows) /\ queue \in Seq(Rows)
      BY Sequences
    <3>2. csvBuf \o queue \in Seq(Rows)
      BY <3>1, ConcatProperties
    <3>3. (Written \o csvBuf) \o queue = Written \o (csvBuf \o queue)
      BY <3>1, ConcatAssociative
    <3> QED
      BY <2>2, <3>2, <3>3
  <2> QED
    BY <2>1, <2>3, Sequences, PrefixOfFirst
<1> QED
  BY Invariant, <1>1, PTL

(* A step appends rows of the csv.Writer, a header or a part of a row to   *)
(* the log, or leaves it: no session and no crash rewrites what is there.  *)
THEOREM LogGrows == Spec => LogOnlyGrows
<1>1. IInv /\ [Next]_vars => [IsPrefix(file, file')]_file
  <2> SUFFICES ASSUME IInv, Next, file' # file PROVE IsPrefix(file, file')
    BY DEF vars
  <2>1. \E t \in Seq(Rows) : file' = file \o t
    <3>1. CASE NewCSVWriter
      <4>1. HeaderRow \in {<<>>, <<Header>>}
        BY DEF HeaderRow
      <4>2. <<>> \in Seq(Rows) /\ <<Header>> \in Seq(Rows) /\ <<Part(Header)>> \in Seq(Rows)
        BY EventRows DEF Headers
      <4>3. ASSUME NEW t \in BrokenOff(HeaderRow, FALSE) PROVE t \in {<<>>, <<Part(Header)>>}
        <5>1. BrokenOff(<<>>, FALSE) = {}
          BY DEF BrokenOff
        <5> QED
          BY <4>1, <4>3, <5>1, BrokenOffHeader
      <4> QED
        BY <3>1, <4>1, <4>2, <4>3 DEF NewCSVWriter, OpenFile
    <3>2. CASE Exit
      <4>1. Part(Head(csvBuf)) \in Rows /\ cut
        <5>1. cut /\ csvBuf # <<>>
          BY <3>2 DEF Exit, IInv, Memory
        <5>2. Head(csvBuf) \in 1 .. MaxEvents
          BY <5>1, Sequences, HeadTailProperties
        <5> QED
          BY <5>1, <5>2, EventRows
      <4> DEFINE p == Part(Head(csvBuf))
      <4>2. file' = Append(file, p)
        BY <3>2, <4>1 DEF Exit
      <4> HIDE DEF p
      <4>3. file' = file \o <<p>> /\ <<p>> \in Seq(Rows)
        BY <4>1, <4>2, Sequences, AppendIsConcat DEF p
      <4> QED
        BY <4>3
    <3>3. CASE DrainOne
      <4>1. queue # <<>> /\ popRet' = Head(queue) /\ WriteRow(popRet')
        BY <3>3 DEF DrainOne, Ring!Pop
      <4> DEFINE h == popRet'
      <4>2. h \in 1 .. MaxEvents
        BY <4>1, Sequences, HeadTailProperties
      <4>3. WriteRow(h)
        BY <4>1
      <4> HIDE DEF h
      <4>4. Append(csvBuf, h) \in Seq(1 .. MaxEvents)
        BY <4>2, Sequences, AppendProperties
      <4>5. file' = file \o csvBuf \/ WriteFails(Append(csvBuf, h))
        BY <4>3 DEF WriteRow
      <4> QED
        BY <4>4, <4>5, Sequences, BrokenOffRows DEF WriteFails
    <3>4. CASE Flush
      <4>1. file' = file \o csvBuf \/ WriteFails(csvBuf)
        BY <3>4 DEF Flush
      <4> QED
        BY <4>1, Sequences, BrokenOffRows DEF WriteFails
    <3> QED
      BY <3>1, <3>2, <3>3, <3>4 DEF Next, Writer, Start, Stop, StopReturns, MonitorPushes,
         Ticker, SelectDone, SelectTick, DrainEnd
  <2> QED
    BY <2>1, Sequences, PrefixOfConcat
<1> QED
  BY Invariant, <1>1, PTL DEF Spec, LogOnlyGrows
=============================================================================
