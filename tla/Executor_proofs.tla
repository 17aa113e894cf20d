--------------------------- MODULE Executor_proofs --------------------------
(* The host functions, GuestExecutor and its guests, for any number of     *)
(* Loads and calls, any interceptor, any memory, any lengths and any word. *)
EXTENDS Executor, TLAPS, SequenceTheorems, WellFoundedInduction

(* The host functions: what every call, every step of a call and every     *)
(* return preserves.                                                       *)

(* Without a call there is nothing under way.                              *)
Fresh ==
  call.fn = "none" =>
    /\ i = 0 /\ total = 0 /\ answer = "running"
    /\ result = Nothing /\ judged = <<>> /\ out = <<>>

(* What is known of the arguments while a loop runs: the table of iovecs   *)
(* is as long as the word lets it be, and poll_oneoff's two buffers are in *)
(* the memory.                                                             *)
Units == [lo : Nat, b8 : Nat, b10 : Nat]

Table ==
  call.fn = "fd_write" =>
    call.count \in Nat /\ call.vecs \in [1 .. TableLen(call.count) -> Vecs]

Buffers ==
  In("poll_oneoff") =>
    /\ {call.n, call.in, call.at} \subseteq Nat
    /\ InBounds(call.in, Span(call.n, 3)) /\ InBounds(call.at, Span(call.n, 2))
    /\ mem \in [0 .. MemUnits - 1 -> Units]

(* OutputFollowsDecisions, judgement by judgement, and what orders out.    *)
Through(j) == call.fd \in {1, 2} /\ j.how \in Passing

Sources == \A k \in DOMAIN out :
  \E j \in DOMAIN judged : Through(judged[j]) /\ judged[j].vec = out[k].vec
Complete == \A j \in DOMAIN judged :
  Through(judged[j]) => \E k \in DOMAIN out : out[k].vec = judged[j].vec
Ordered == \A j, k \in DOMAIN out : j < k => out[j].vec < out[k].vec
UpTo == answer = "running" => \A k \in DOMAIN out : out[k].vec <= i

Trace == call.fn = "fd_write" => Sources /\ Complete /\ Ordered /\ UpTo

(* With the default interceptor nothing is refused.                        *)
Unrefused ==
  intercept = "AllowAll" =>
    /\ answer \notin {"ACCES", "frozen"}
    /\ \A k \in DOMAIN judged : judged[k].how = "Allow"

WasiInv ==
  /\ WasiTypeOK /\ Fresh /\ Table /\ Buffers
  /\ Trace /\ Unrefused /\ PanicOnlyOnWrap

-----------------------------------------------------------------------------
(* Lengths on a word                                                       *)

LEMMA Remainder ==
  ASSUME NEW m \in Nat \ {0}, NEW x \in Nat
  PROVE  /\ x % m \in 0 .. m - 1
         /\ x < m => x % m = x
  BY Z3

LEMMA Quotient ==
  ASSUME NEW c \in Nat \ {0}, NEW x \in Nat
  PROVE  x \div c \in Nat
  BY Z3

LEMMA Division ==
  ASSUME NEW m \in Nat \ {0}, NEW x \in Nat
  PROVE  /\ x \div m \in Nat /\ (x % m) \in 0 .. m - 1
         /\ x = m * (x \div m) + (x % m)
  BY Z3

LEMMA NextMultiple ==
  ASSUME NEW m \in Nat \ {0}, NEW a \in Nat, NEW b \in Nat, a < b
  PROVE  m * a + m <= m * b
<1>1. PICK c \in Nat : b = a + 1 + c
  <2>1. b - a - 1 \in Nat /\ b = a + 1 + (b - a - 1)
    OBVIOUS
  <2> QED
    BY <2>1
<1>2. m * b = m * a + m + m * c
  BY <1>1, Z3
<1>3. m * a \in Nat /\ m * c \in Nat /\ m * b \in Nat
  BY Z3
<1> QED
  BY <1>2, <1>3

LEMMA OneRemainder ==
  ASSUME NEW m \in Nat \ {0}, NEW a \in Nat, NEW b \in Nat,
         NEW r \in 0 .. m - 1, NEW s \in 0 .. m - 1, m * a + r = m * b + s
  PROVE  r = s
<1>1. m * a \in Nat /\ m * b \in Nat
  BY Z3
<1>2. CASE a < b
  <2>1. m * a + m <= m * b
    BY <1>2, NextMultiple
  <2> QED
    BY <1>1, <2>1
<1>3. CASE b < a
  <2>1. m * b + m <= m * a
    BY <1>3, NextMultiple
  <2> QED
    BY <1>1, <2>1
<1>4. CASE a = b
  BY <1>1, <1>4
<1> QED
  BY <1>2, <1>3, <1>4

(* A counter that wraps at every step is the sum, wrapped once.            *)
LEMMA RemainderOfSum ==
  ASSUME NEW m \in Nat \ {0}, NEW x \in Nat, NEW l \in Nat
  PROVE  ((x % m) + l) % m = (x + l) % m
<1>1. PICK q \in Nat, r \in 0 .. m - 1 : r = x % m /\ x = m * q + r
  BY Division
<1>2. r + l \in Nat /\ x + l \in Nat
  OBVIOUS
<1>3. PICK p \in Nat, s \in 0 .. m - 1 : s = (r + l) % m /\ r + l = m * p + s
  BY <1>2, Division
<1>4. PICK o \in Nat, t \in 0 .. m - 1 : t = (x + l) % m /\ x + l = m * o + t
  BY <1>2, Division
<1>5. /\ m * (q + p) = m * q + m * p /\ m * q \in Nat /\ m * p \in Nat
      /\ m * o \in Nat /\ q + p \in Nat
  BY Z3
<1>6. m * (q + p) + s = m * o + t
  BY <1>1, <1>3, <1>4, <1>5
<1>7. s = t
  BY <1>5, <1>6, OneRemainder
<1> QED
  BY <1>1, <1>3, <1>4, <1>7

LEMMA Divided == \A x \in Nat : (8 * x) \div 8 = x /\ (16 * x) \div 16 = x
  BY Z3

LEMMA WordIsNat == Word \in Nat \ {0} /\ Forever \in Nat /\ MemUnits \in Nat
<1>1. Word \in Nat \ {0} /\ MemUnits \in Nat
  BY WasiAssumption
<1>2. Word * Word \in Nat
  BY <1>1, Z3
<1> QED
  BY <1>1, <1>2 DEF Forever

LEMMA OnWord == \A y \in Nat : y % Word \in Nat /\ (y < Word => y % Word = y)
<1> SUFFICES ASSUME NEW y \in Nat PROVE y % Word \in Nat /\ (y < Word => y % Word = y)
  OBVIOUS
<1>1. Word \in Nat \ {0}
  BY WasiAssumption
<1>2. y % Word \in 0 .. Word - 1 /\ (y < Word => y % Word = y)
  BY <1>1, Remainder
<1> QED
  BY <1>1, <1>2

(* A table that does not wrap is as long as the guest says.                *)
LEMMA TableFits ==
  ASSUME NEW n \in Nat
  PROVE  TableLen(n) \in Nat /\ (n * 8 < Word => TableLen(n) = n)
<1>1. n * 8 \in Nat /\ n * 8 = 8 * n
  BY Z3
<1> DEFINE y == n * 8
<1> HIDE DEF y
<1>2. y \in Nat
  BY <1>1 DEF y
<1>3. y % Word \in Nat /\ (y < Word => y % Word = y)
  BY <1>2, OnWord
<1>4. (y % Word) \div 8 \in Nat
  BY <1>3, Quotient
<1>5. y < Word => (y % Word) \div 8 = n
  BY <1>1, <1>3, Divided DEF y
<1> QED
  BY <1>4, <1>5 DEF TableLen, y

LEMMA SpanFits ==
  ASSUME NEW n \in Nat, NEW size \in Nat
  PROVE  /\ Span(n, size) \in Nat
         /\ n * size * 16 < Word => Span(n, size) = n * size
<1> DEFINE x == n * size
<1>1. x \in Nat
  BY Z3
<1> HIDE DEF x
<1> DEFINE y == x * 16
<1>2. y \in Nat /\ y = 16 * x
  BY <1>1, Z3
<1> HIDE DEF y
<1>3. y % Word \in Nat /\ (y < Word => y % Word = y)
  BY <1>2, OnWord
<1>4. (y % Word) \div 16 \in Nat
  BY <1>3, Quotient
<1>5. y < Word => (y % Word) \div 16 = x
  BY <1>1, <1>2, <1>3, Divided
<1> QED
  BY <1>4, <1>5 DEF Span, x, y

(* A wrapped length is never longer.                                       *)
LEMMA Wrapped ==
  ASSUME NEW y \in Nat
  PROVE  y % Word \in Nat /\ y % Word <= y
<1>1. ASSUME NEW m \in Nat \ {0} PROVE (y % m) \in Nat /\ (y % m) <= y
  BY Z3
<1> QED
  BY <1>1, WordIsNat

LEMMA TableIsNoLonger ==
  ASSUME NEW n \in Nat PROVE TableLen(n) <= n
<1>1. PICK y \in Nat : y = n * 8
  BY Z3
<1>2. PICK z \in Nat : z = y % Word /\ z <= y
  BY Wrapped
<1>3. z <= n * 8 => z \div 8 <= n
  BY Z3
<1> QED
  BY <1>1, <1>2, <1>3 DEF TableLen

LEMMA SpanIsNoLonger ==
  ASSUME NEW n \in Nat
  PROVE  Span(n, 3) <= 3 * n /\ Span(n, 2) <= 2 * n
<1>1. ASSUME NEW size \in {2, 3} PROVE Span(n, size) <= size * n
  <2>1. PICK y \in Nat : y = n * size * 16
    BY Z3
  <2>2. PICK z \in Nat : z = y % Word /\ z <= y
    BY Wrapped
  <2>3. z <= n * size * 16 => z \div 16 <= size * n
    BY Z3
  <2> QED
    BY <2>1, <2>2, <2>3 DEF Span
<1> QED
  BY <1>1

(* How many elements of 3 units begin in n units.                          *)
LEMMA Thirds ==
  ASSUME NEW n \in Nat
  PROVE  /\ (n + 2) \div 3 \in Nat
         /\ n <= 3 * ((n + 2) \div 3) /\ 3 * ((n + 2) \div 3) <= n + 2
  BY Z3

-----------------------------------------------------------------------------
(* What a step that starts or ends a call preserves                        *)

USE DEF Nothing, Errnos, Judgement, Passing

Stores == {Nothing} \cup {<<v>> : v \in Nat}

LEMMA StoreIsSeq == \A r \in Stores : r \in Seq(Nat) /\ Len(r) <= 1
<1> SUFFICES ASSUME NEW r \in Stores PROVE r \in Seq(Nat) /\ Len(r) <= 1
  OBVIOUS
<1>1. CASE r = <<>>
  BY <1>1
<1>2. ASSUME NEW v \in Nat, r = <<v>> PROVE r \in Seq(Nat) /\ Len(r) <= 1
  BY <1>2
<1> QED
  BY <1>1, <1>2 DEF Stores

LEMMA CallOverKeeps ==
  ASSUME CallOver PROVE WasiInv'
<1>1. call'.fn = "none"
  BY DEF CallOver, Idle
<1>2. <<>> \in Seq(Nat) /\ <<>> \in Seq(Judgement) /\ Len(<<>>) = 0
      /\ <<>> \in Seq([vec : Nat, whole : BOOLEAN])
  OBVIOUS
<1>3. WasiTypeOK'
  BY <1>1, <1>2, WordIsNat DEF CallOver, WasiTypeOK
<1>4. Fresh' /\ Table' /\ Buffers' /\ Trace' /\ Unrefused' /\ PanicOnlyOnWrap'
  BY <1>1 DEF CallOver, Fresh, Table, Buffers, In, Trace, Sources, Complete, Ordered, UpTo, Unrefused, PanicOnlyOnWrap
<1> QED
  BY <1>3, <1>4 DEF WasiInv

LEMMA Unjudged == <<>> \in Seq(Judgement)
OBVIOUS

(* A function without a loop ends where it begins.                         *)
LEMMA SimpleKeeps ==
  ASSUME NEW fn \in {"path_open", "clock_time_get", "clock_res_get", "random_get"},
         NEW a \in Errnos \cup {"frozen"}, NEW r \in Stores,
         NEW js \in Seq(Judgement), judged' = js,
         Simple(fn, a, r), Unrefused'
  PROVE  WasiInv'
<1>1. call'.fn = fn /\ answer' = a /\ result' = r /\ i' = 0 /\ total' = 0 /\ out' = <<>>
  BY DEF Simple, Started
<1>2. <<>> \in Seq([vec : Nat, whole : BOOLEAN])
  OBVIOUS
<1>3. WasiTypeOK'
  BY <1>1, <1>2, WordIsNat, StoreIsSeq DEF WasiTypeOK
<1>4. Fresh' /\ Table' /\ Buffers' /\ Trace' /\ PanicOnlyOnWrap'
  BY <1>1 DEF Fresh, Table, Buffers, In, Trace, PanicOnlyOnWrap
<1> QED
  BY <1>3, <1>4 DEF WasiInv

(* What the interceptor answers; AllowAll answers Allow here.              *)
LEMMA AskedDecides ==
  /\ \A hook : Asked(hook) \subseteq Decisions
  /\ \A hook \in {"OnWriteBuffer", "OnOpenFile", "OnClockGet"} :
       intercept = "AllowAll" => Asked(hook) = {"Allow"}
BY DEF Asked, AllowAllInterceptor, Decisions

(* A single judgement, of a path or a clock.                               *)
LEMMA JudgedOnce ==
  ASSUME NEW d \in Decisions, Judged(d)
  PROVE  /\ judged' = <<[vec |-> 0, how |-> d]>> /\ judged' \in Seq(Judgement)
         /\ \A k \in DOMAIN judged' : judged'[k].how = d
BY DEF Judged

LEMMA PathOpenKeeps ==
  ASSUME PathOpen, intercept' = intercept PROVE WasiInv'
<1> USE DEF Unrefused
<1>1. CASE Simple("path_open", "FAULT", Nothing) /\ judged' = <<>>
  <2>1. Unrefused'
    BY <1>1 DEF Simple, Started
  <2> QED
    BY <1>1, <2>1, Unjudged, SimpleKeeps DEF Stores
<1>2. ASSUME NEW d \in Asked("OnOpenFile"), Judged(d), 
             \/ d = "Deny" /\ Simple("path_open", "ACCES", Nothing)
             \/ d = "Freeze" /\ Simple("path_open", "frozen", Nothing)
             \/ d \in Passing \cup {"Dump"} /\ Stored("path_open", 42)
      PROVE  WasiInv'
  <2>1. d \in Decisions /\ (intercept = "AllowAll" => d = "Allow")
    BY <1>2, AskedDecides
  <2>2. PICK a \in Errnos \cup {"frozen"}, r \in {Nothing, <<42>>} :
          /\ Simple("path_open", a, r)
          /\ d = "Allow" => a \in {"SUCCESS", "FAULT"}
    BY <1>2 DEF Stored
  <2>3. Unrefused'
    BY <2>1, <2>2, <1>2, JudgedOnce DEF Simple, Started
  <2>4. r \in Stores
    BY <2>2 DEF Stores
  <2> QED
    BY <1>2, <2>1, <2>2, <2>3, <2>4, JudgedOnce, SimpleKeeps
<1> QED
  BY <1>1, <1>2 DEF PathOpen

LEMMA ClockTimeGetKeeps ==
  ASSUME ClockTimeGet, intercept' = intercept PROVE WasiInv'
<1>1. PICK d \in Asked("OnClockGet"), id \in 0 .. 2 : Judged(d) /\ Clocked(d, id)
  BY DEF ClockTimeGet
<1>2. d \in Decisions /\ (intercept = "AllowAll" => d = "Allow")
  BY <1>1, AskedDecides
<1>3. PICK a \in Errnos \cup {"frozen"}, r \in {Nothing, <<0>>} :
        /\ Simple("clock_time_get", a, r)
        /\ d = "Allow" => a \notin {"ACCES", "frozen"}
  BY <1>1 DEF Clocked, ClockStored, Stored
<1>4. Unrefused'
  BY <1>1, <1>2, <1>3, JudgedOnce DEF Unrefused, Simple, Started
<1>5. r \in Stores
  BY <1>3 DEF Stores
<1> QED
  BY <1>1, <1>2, <1>3, <1>4, <1>5, JudgedOnce, SimpleKeeps

LEMMA UnjudgedKeeps ==
  ASSUME ClockResGet \/ RandomGet PROVE WasiInv'
<1>1. PICK fn \in {"clock_res_get", "random_get"}, a \in {"SUCCESS", "FAULT", "IO"},
           r \in {Nothing, <<0>>} :
        Simple(fn, a, r) /\ judged' = <<>>
  BY DEF ClockResGet, RandomGet, Stored
<1>2. Unrefused'
  BY <1>1 DEF Unrefused, Simple, Started
<1>3. r \in Stores
  BY <1>1 DEF Stores
<1> QED
  BY <1>1, <1>2, <1>3, Unjudged, SimpleKeeps

-----------------------------------------------------------------------------
(* fd_write                                                                *)

LEMMA FdWriteKeeps ==
  ASSUME FdWrite PROVE WasiInv'
<1>1. PICK fd \in Fds, count \in Counts, tableOk, resultOk \in BOOLEAN :
        \E vecs \in [1 .. TableLen(count) -> Vecs] :
          /\ Started([fn |-> "fd_write", fd |-> fd, count |-> count,
                      vecs |-> vecs, resultOk |-> resultOk],
                     IF tableOk THEN "running" ELSE "FAULT", Nothing)
          /\ mem' = <<>> /\ judged' = <<>>
  BY DEF FdWrite
<1>2. PICK vecs \in [1 .. TableLen(count) -> Vecs] :
        /\ Started([fn |-> "fd_write", fd |-> fd, count |-> count,
                    vecs |-> vecs, resultOk |-> resultOk],
                   IF tableOk THEN "running" ELSE "FAULT", Nothing)
        /\ mem' = <<>> /\ judged' = <<>>
  BY <1>1
<1>3. /\ call'.fn = "fd_write" /\ call'.count = count /\ call'.vecs = vecs
      /\ answer' \in {"running", "FAULT"} /\ result' = Nothing
      /\ i' = 0 /\ total' = 0 /\ out' = <<>> /\ judged' = <<>>
  BY <1>2 DEF Started
<1>4. count \in Nat
  BY WasiAssumption
<1>5. WasiTypeOK'
  <2>1. <<>> \in Seq([vec : Nat, whole : BOOLEAN])
    OBVIOUS
  <2>2. result' \in Seq(Nat) /\ Len(result') <= 1
    BY <1>3, StoreIsSeq DEF Stores
  <2> QED
    BY <1>3, <2>1, <2>2, WordIsNat, Unjudged DEF WasiTypeOK
<1>6. Fresh' /\ Table' /\ Buffers' /\ Trace' /\ Unrefused' /\ PanicOnlyOnWrap'
  BY <1>3, <1>4 DEF Fresh, Table, Buffers, In, Trace, Sources, Complete, Ordered, UpTo, Unrefused, PanicOnlyOnWrap
<1> QED
  BY <1>5, <1>6 DEF WasiInv

LEMMA OutIsNat ==
  ASSUME WasiTypeOK
  PROVE  /\ out \in Seq([vec : Nat, whole : BOOLEAN]) /\ i \in Nat
         /\ judged \in Seq(Judgement)
         /\ Len(out) \in Nat /\ DOMAIN out = 1 .. Len(out)
         /\ Len(judged) \in Nat /\ DOMAIN judged = 1 .. Len(judged)
         /\ \A k \in DOMAIN out : out[k].vec \in Nat
<1>1. /\ out \in Seq([vec : Nat, whole : BOOLEAN]) /\ i \in Nat
      /\ judged \in Seq(Judgement)
  BY DEF WasiTypeOK
<1>2. \A k \in 1 .. Len(out) : out[k] \in [vec : Nat, whole : BOOLEAN]
  BY <1>1, ElementOfSeq
<1> QED
  BY <1>1, <1>2, LenProperties

(* A step that changes none of the histories and stays in the call.        *)
LEMMA TraceKept ==
  ASSUME WasiTypeOK, Trace, UNCHANGED <<call, judged, out>>, i' >= i, i' \in Nat,
         answer' = "running" => answer = "running"
  PROVE  Trace'
<1>1. UpTo => UpTo'
  BY OutIsNat DEF UpTo
<1>2. (Sources => Sources') /\ (Complete => Complete') /\ (Ordered => Ordered')
  BY DEF Sources, Complete, Ordered, Through
<1> QED
  BY <1>1, <1>2 DEF Trace

(* A buffer judged: what goes out is this buffer, when it is let through,  *)
(* and it comes after all that has gone out before.                        *)
LEMMA TraceGrows ==
  ASSUME WasiTypeOK, Trace, In("fd_write"), call' = call,
         NEW d \in Decisions, judged' = Append(judged, [vec |-> i + 1, how |-> d]),
         IF d \in Passing /\ call.fd \in {1, 2}
         THEN \E w \in BOOLEAN : out' = Append(out, [vec |-> i + 1, whole |-> w])
         ELSE UNCHANGED out,
         i' = i + 1 \/ (answer' # "running" /\ i' = i)
  PROVE  Trace' /\ judged' \in Seq(Judgement) /\ out' \in Seq([vec : Nat, whole : BOOLEAN])
<1> DEFINE new == [vec |-> i + 1, how |-> d]
           last == Len(judged) + 1
<1>1. new \in Judgement /\ new.vec = i + 1 /\ new.how = d /\ i \in Nat
  BY OutIsNat
<1>2. judged \in Seq(Judgement) /\ judged' = Append(judged, new)
  BY OutIsNat
<1> HIDE DEF new
<1>3. /\ judged' \in Seq(Judgement) /\ DOMAIN judged' = DOMAIN judged \cup {last}
      /\ judged'[last] = new
      /\ \A k \in DOMAIN judged : judged'[k] = judged[k]
  BY <1>1, <1>2
<1>4. Sources /\ Complete /\ Ordered /\ (\A k \in DOMAIN out : out[k].vec <= i)
  BY DEF Trace, In, UpTo
<1>5. CASE d \in Passing /\ call.fd \in {1, 2}
  <2>1. PICK w \in BOOLEAN : out' = Append(out, [vec |-> i + 1, whole |-> w])
    BY <1>5
  <2> DEFINE end == Len(out) + 1
  <2>2. out \in Seq([vec : Nat, whole : BOOLEAN]) /\ [vec |-> i + 1, whole |-> w] \in [vec : Nat, whole : BOOLEAN]
    BY OutIsNat
  <2>3. /\ out' \in Seq([vec : Nat, whole : BOOLEAN])
        /\ DOMAIN out' = DOMAIN out \cup {end}
        /\ out'[end].vec = i + 1
        /\ \A k \in DOMAIN out : out'[k] = out[k]
        /\ end \in Nat /\ DOMAIN out = 1 .. end - 1
    BY <2>1, <2>2
  <2>4. Sources'
    <3> SUFFICES ASSUME NEW k \in DOMAIN out'
                 PROVE  \E l \in DOMAIN judged' :
                          /\ call.fd \in {1, 2} /\ judged'[l].how \in Passing
                          /\ judged'[l].vec = out'[k].vec
      BY DEF Sources, Through
    <3>1. CASE k = end
      BY <3>1, <1>1, <1>3, <1>5, <2>3
    <3>2. CASE k \in DOMAIN out
      <4>1. out'[k] = out[k]
        BY <3>2, <2>3
      <4>2. PICK l \in DOMAIN judged :
              /\ call.fd \in {1, 2} /\ judged[l].how \in Passing
              /\ judged[l].vec = out[k].vec
        BY <3>2, <1>4 DEF Sources, Through
      <4>3. l \in DOMAIN judged' /\ judged'[l] = judged[l]
        BY <1>3
      <4> QED
        BY <4>1, <4>2, <4>3
    <3> QED
      BY <3>1, <3>2, <2>3
  <2>5. Complete'
    <3> SUFFICES ASSUME NEW l \in DOMAIN judged',
                        call.fd \in {1, 2}, judged'[l].how \in Passing
                 PROVE  \E k \in DOMAIN out' : out'[k].vec = judged'[l].vec
      BY DEF Complete, Through
    <3>1. CASE l = last
      BY <3>1, <1>1, <1>3, <2>3
    <3>2. CASE l \in DOMAIN judged
      BY <3>2, <1>3, <1>4, <2>3 DEF Complete, Through
    <3> QED
      BY <3>1, <3>2, <1>3
  <2>6. Ordered'
    <3> SUFFICES ASSUME NEW k \in DOMAIN out', NEW l \in DOMAIN out', k < l
                 PROVE  out'[k].vec < out'[l].vec
      BY DEF Ordered
    <3>1. k \in DOMAIN out
      BY <2>3
    <3>2. CASE l = end
      BY <3>1, <3>2, <1>1, <1>4, <2>3, OutIsNat
    <3>3. CASE l \in DOMAIN out
      BY <3>1, <3>3, <1>4, <2>3 DEF Ordered
    <3> QED
      BY <3>2, <3>3, <2>3
  <2>7. UpTo'
    BY <1>1, <1>4, <2>3, OutIsNat DEF UpTo
  <2> QED
    BY <1>3, <2>3, <2>4, <2>5, <2>6, <2>7 DEF Trace
<1>6. CASE ~(d \in Passing /\ call.fd \in {1, 2})
  <2>1. out' = out
    BY <1>6
  <2>2. Sources'
    <3> SUFFICES ASSUME NEW k \in DOMAIN out
                 PROVE  \E l \in DOMAIN judged' :
                          /\ call.fd \in {1, 2} /\ judged'[l].how \in Passing
                          /\ judged'[l].vec = out[k].vec
      BY <2>1 DEF Sources, Through
    <3> QED
      BY <1>3, <1>4 DEF Sources, Through
  <2>3. Complete'
    <3> SUFFICES ASSUME NEW l \in DOMAIN judged',
                        call.fd \in {1, 2}, judged'[l].how \in Passing
                 PROVE  \E k \in DOMAIN out : out[k].vec = judged'[l].vec
      BY <2>1 DEF Complete, Through
    <3>1. l \in DOMAIN judged
      BY <1>1, <1>3, <1>6
    <3> QED
      BY <3>1, <1>3, <1>4 DEF Complete, Through
  <2>4. Ordered'
    BY <1>4, <2>1 DEF Ordered
  <2>5. UpTo'
    <3>1. \A k \in DOMAIN out : out[k].vec <= i + 1
      BY <1>1, <1>4, OutIsNat
    <3> QED
      BY <3>1, <2>1 DEF UpTo
  <2> QED
    BY <1>3, <2>1, <2>2, <2>3, <2>4, <2>5, OutIsNat DEF Trace
<1> QED
  BY <1>5, <1>6

(* What is in the table, and that it is as long as it should be unless the *)
(* length has wrapped.                                                     *)
LEMMA TableIsRead ==
  ASSUME WasiInv, In("fd_write")
  PROVE  /\ call.count \in Nat /\ Len(call.vecs) = TableLen(call.count)
         /\ i \in Nat /\ total \in 0 .. Word - 1 /\ call.fn = "fd_write"
         /\ i >= 0 /\ Len(call.vecs) \in Nat
         /\ i < Len(call.vecs) => call.vecs[i + 1].len \in Nat
<1>1. call.count \in Nat /\ call.vecs \in [1 .. TableLen(call.count) -> Vecs]
      /\ i \in Nat /\ total \in 0 .. Word - 1 /\ call.fn = "fd_write"
  BY DEF WasiInv, Table, In, WasiTypeOK
<1>2. TableLen(call.count) \in Nat
  BY <1>1, TableFits
<1>3. call.vecs \in Seq(Vecs) /\ Len(call.vecs) = TableLen(call.count)
  BY <1>1, <1>2
<1>4. \A v \in Vecs : v.len \in Nat
  <2> SUFFICES ASSUME NEW v \in Vecs PROVE v.len \in Nat
    OBVIOUS
  <2>1. CASE v = Bad
    BY <2>1 DEF Bad
  <2>2. CASE v \in [len : Lengths, mapped : {TRUE}]
    BY <2>2, WasiAssumption
  <2> QED
    BY <2>1, <2>2 DEF Vecs
<1>5. i < Len(call.vecs) => call.vecs[i + 1] \in Vecs
  BY <1>1, <1>2, <1>3
<1> QED
  BY <1>1, <1>2, <1>3, <1>4, <1>5

LEMMA IovecKeeps ==
  ASSUME WasiInv, Iovec, intercept' = intercept PROVE WasiInv'
<1>1. /\ In("fd_write") /\ i < call.count /\ UNCHANGED <<call, mem, result>>
      /\ WasiTypeOK /\ Trace /\ Table /\ Unrefused /\ call.fn = "fd_write" /\ answer = "running"
  BY DEF Iovec, MoreVecs, WasiInv, In
<1>2. Table' /\ Fresh' /\ Buffers'
  BY <1>1 DEF Table, Fresh, Buffers, In
<1>3. CASE i >= Len(call.vecs)
  <2>1. Ends("panic") /\ UNCHANGED judged
    BY <1>1, <1>3, TableIsRead DEF Iovec
  <2>2. call.count * 8 >= Word
    <3>1. call.count \in Nat /\ TableLen(call.count) \in Nat /\ TableLen(call.count) # call.count
      BY <1>1, <1>3, TableIsRead
    <3>2. ~(call.count * 8 < Word)
      BY <3>1, TableFits
    <3>3. call.count * 8 \in Nat
      BY <3>1
    <3> QED
      BY <3>2, <3>3, WordIsNat
  <2>3. PanicOnlyOnWrap'
    BY <1>1, <2>2 DEF PanicOnlyOnWrap
  <2>4. WasiTypeOK' /\ Unrefused'
    BY <1>1, <2>1 DEF Ends, WasiTypeOK, Unrefused
  <2>5. Trace'
    BY <1>1, <2>1, TableIsRead, TraceKept DEF Ends
  <2> QED
    BY <1>2, <2>3, <2>4, <2>5 DEF WasiInv
<1>4. CASE i < Len(call.vecs)
  <2> DEFINE v == call.vecs[i + 1]
  <2>1. Vec(v) /\ v.len \in Nat
    BY <1>1, <1>4, TableIsRead DEF Iovec
  <2>2. answer' # "panic" => PanicOnlyOnWrap'
    BY DEF PanicOnlyOnWrap
  <2>3. CASE UNCHANGED judged /\ (EmptyVec \/ Ends("FAULT"))
    <3>1. WasiTypeOK' /\ Unrefused' /\ answer' # "panic"
      BY <1>1, <2>3 DEF EmptyVec, Ends, WasiTypeOK, Unrefused
    <3>2. Trace'
      BY <1>1, <2>3, TableIsRead, TraceKept DEF EmptyVec, Ends
    <3> QED
      BY <1>2, <2>2, <3>1, <3>2 DEF WasiInv
  <2>4. ASSUME NEW d \in Asked("OnWriteBuffer"), Decided(d, v.len),
               judged' = Append(judged, [vec |-> i + 1, how |-> d])
        PROVE  WasiInv'
    <3>1. d \in Decisions /\ (intercept = "AllowAll" => d = "Allow")
      BY <2>4, AskedDecides
    <3>2. /\ IF d \in Passing /\ call.fd \in {1, 2}
             THEN \E w \in BOOLEAN : out' = Append(out, [vec |-> i + 1, whole |-> w])
             ELSE UNCHANGED out
          /\ \/ i' = i + 1 /\ answer' = "running" /\ total' = (total + v.len) % Word
             \/ i' = i /\ answer' \in {"IO", "frozen"} /\ total' = total
          /\ d = "Allow" => answer' = "running"
      BY <1>1, <2>4 DEF Decided, Ends, Counted, WriteToFD
    <3>3. Trace' /\ judged' \in Seq(Judgement) /\ out' \in Seq([vec : Nat, whole : BOOLEAN])
      BY <1>1, <2>4, <3>1, <3>2, TraceGrows
    <3>4. total' \in 0 .. Word - 1
      <4>1. total \in Nat /\ total + v.len \in Nat /\ total \in 0 .. Word - 1
        BY <1>1, <2>1, TableIsRead, WordIsNat
      <4>2. (total + v.len) % Word \in 0 .. Word - 1
        BY <4>1, WordIsNat, Remainder
      <4> QED
        BY <3>2, <4>1, <4>2
    <3>5. WasiTypeOK'
      BY <1>1, <3>2, <3>3, <3>4 DEF WasiTypeOK
    <3>6. Unrefused'
      <4> SUFFICES ASSUME intercept = "AllowAll"
                   PROVE  /\ answer' \notin {"ACCES", "frozen"}
                          /\ \A k \in DOMAIN judged' : judged'[k].how = "Allow"
        BY DEF Unrefused
      <4>1. \A k \in DOMAIN judged : judged[k].how = "Allow"
        BY <1>1 DEF Unrefused
      <4> QED
        BY <1>1, <2>4, <3>1, <3>2, <4>1, OutIsNat
    <3> QED
      BY <1>2, <2>2, <3>2, <3>3, <3>5, <3>6 DEF WasiInv
  <2> QED
    BY <2>1, <2>3, <2>4 DEF Vec, EmptyVec
<1> QED
  BY <1>3, <1>4, TableIsRead, <1>1

LEMMA FdWriteEndsKeeps ==
  ASSUME WasiInv, FdWriteEnds, intercept' = intercept PROVE WasiInv'
<1>1. /\ call.fn = "fd_write" /\ UNCHANGED <<call, i, total, mem, judged, out>>
      /\ answer' \in {"SUCCESS", "FAULT"} /\ answer = "running"
      /\ result' \in {<<total>>, Nothing}
  BY DEF FdWriteEnds, In
<1>2. WasiTypeOK /\ Trace /\ Table /\ Unrefused /\ i \in Nat /\ total \in Nat
  BY <1>1, WordIsNat DEF WasiInv, WasiTypeOK
<1>3. result' \in Stores
  BY <1>1, <1>2 DEF Stores
<1>4. WasiTypeOK'
  BY <1>1, <1>2, <1>3, StoreIsSeq DEF WasiTypeOK
<1>5. Trace'
  BY <1>1, <1>2, TraceKept
<1>6. Fresh' /\ Table' /\ Buffers' /\ Unrefused' /\ PanicOnlyOnWrap'
  BY <1>1, <1>2 DEF Fresh, Table, Buffers, In, Unrefused, PanicOnlyOnWrap
<1> QED
  BY <1>4, <1>5, <1>6 DEF WasiInv

-----------------------------------------------------------------------------
(* poll_oneoff                                                             *)

(* The memory with its subscriptions, cleared where the events will be.    *)
LEMMA LaidIsMemory ==
  ASSUME NEW in \in Nat, NEW n \in Nat, NEW subs \in Subscriptions(n)
  PROVE  Laid(in, subs) \in [0 .. MemUnits - 1 -> Units]
<1>1. Len(subs) = n /\ subs \in [1 .. n -> [tag : Tags, timeout : Timeouts]]
  BY DEF Subscriptions
<1>2. Tags \subseteq Nat /\ Timeouts \subseteq Nat /\ MemUnits \in Nat
  BY WasiAssumption DEF Tags
<1>3. Zero \in Units /\ Other \in Units
  BY DEF Zero, Other, Unit, Units
<1>4. ASSUME NEW u \in in .. in + 3 * n - 1
      PROVE  LET k == (u - in) \div 3 + 1
             IN  Unit(k, subs[k].tag, 0) \in Units /\ Unit(0, subs[k].timeout, 0) \in Units
  <2> DEFINE k == (u - in) \div 3 + 1
  <2>1. u - in \in 0 .. 3 * n - 1
    BY <1>4
  <2>2. (u - in) \div 3 \in 0 .. n - 1
    BY <2>1, Z3
  <2>3. k \in 1 .. n /\ k \in Nat
    BY <2>2
  <2>4. subs[k].tag \in Nat /\ subs[k].timeout \in Nat
    BY <1>1, <1>2, <2>3
  <2> QED
    BY <2>3, <2>4 DEF Unit, Units
<1> QED
  BY <1>1, <1>2, <1>3, <1>4 DEF Laid

LEMMA PollOneoffKeeps ==
  ASSUME PollOneoff PROVE WasiInv'
<1>1. PICK n \in Subs, place \in Places, res \in Results :
        \E subs \in Subscriptions((Span(n, 3) + 2) \div 3) :
          PollCalled(n, place[1], place[2], subs, res)
  BY DEF PollOneoff
<1>2. PICK subs \in Subscriptions((Span(n, 3) + 2) \div 3) :
        PollCalled(n, place[1], place[2], subs, res)
  BY <1>1
<1> DEFINE laid == Laid(place[1], subs)
<1>3. n \in Nat /\ place[1] \in Nat /\ place[2] \in Nat
  BY WasiAssumption
<1>4. laid \in [0 .. MemUnits - 1 -> Units]
  <2>1. (Span(n, 3) + 2) \div 3 \in Nat
    BY <1>3, SpanFits, Thirds
  <2> QED
    BY <1>3, <2>1, LaidIsMemory
<1>5. Zero \in Units
  BY DEF Zero, Unit, Units
<1> HIDE DEF laid
<1>6. mem' \in [0 .. MemUnits - 1 -> Units]
  BY <1>2, <1>4, <1>5 DEF PollCalled, laid
<1>7. /\ call'.fn = "poll_oneoff" /\ call'.n = n /\ call'.in = place[1] /\ call'.at = place[2]
      /\ result' = Nothing /\ i' = 0 /\ total' = Forever /\ judged' = <<>> /\ out' = <<>>
      /\ answer' \in {"INVAL", "running", "FAULT"}
      /\ answer' = "running" =>
           InBounds(place[1], Span(n, 3)) /\ InBounds(place[2], Span(n, 2))
  BY <1>2 DEF PollCalled
<1>8. Buffers'
  BY <1>3, <1>6, <1>7 DEF Buffers, In
<1>9. WasiTypeOK'
  <2>1. <<>> \in Seq([vec : Nat, whole : BOOLEAN])
    OBVIOUS
  <2>2. result' \in Seq(Nat) /\ Len(result') <= 1
    BY <1>7, StoreIsSeq DEF Stores
  <2> QED
    BY <1>7, <2>1, <2>2, WordIsNat, Unjudged DEF WasiTypeOK
<1>10. Fresh' /\ Table' /\ Trace' /\ Unrefused' /\ PanicOnlyOnWrap'
  BY <1>7 DEF Fresh, Table, Trace, Unrefused, PanicOnlyOnWrap
<1> QED
  BY <1>8, <1>9, <1>10 DEF WasiInv

(* A place below the length of a buffer in the memory is in the memory.    *)
LEMMA Inside ==
  ASSUME NEW a \in Nat, NEW k \in Nat, NEW s \in Nat, NEW m \in Nat, k < s, a + s <= m
  PROVE  a + k \in 0 .. m - 1
  OBVIOUS

(* Every index that the loop computes is in the memory: what is past the   *)
(* end of a buffer panics first, which it does only on a wrapped length.   *)
LEMMA PollSubKeeps ==
  ASSUME WasiInv, PollSub, intercept' = intercept PROVE WasiInv'
<1> DEFINE sub  == mem[call.in + 3 * i]
           due  == mem[call.in + 3 * i + 1]
           wait == due.b8 + 65536 * due.b10
           held == 3 * i < Span(call.n, 3) /\ 2 * i < Span(call.n, 2)
           timed == 3 * i + 1 < Span(call.n, 3)
<1>1. /\ In("poll_oneoff") /\ i < call.n /\ UNCHANGED <<call, result, judged, out>>
      /\ WasiTypeOK /\ Buffers /\ Unrefused /\ call.fn = "poll_oneoff" /\ answer = "running"
  BY DEF PollSub, WasiInv, In
<1>2. /\ call.n \in Nat /\ call.in \in Nat /\ call.at \in Nat /\ i \in Nat /\ MemUnits \in Nat
      /\ call.in + Span(call.n, 3) <= MemUnits /\ call.at + Span(call.n, 2) <= MemUnits
      /\ mem \in [0 .. MemUnits - 1 -> Units] /\ total \in 0 .. Forever
      /\ Span(call.n, 3) \in Nat /\ Span(call.n, 2) \in Nat
  BY <1>1, WordIsNat, SpanFits DEF Buffers, InBounds, WasiTypeOK
<1>3. held => EventAt \in 0 .. MemUnits - 1 /\ sub \in Units
  <2> SUFFICES ASSUME held PROVE EventAt \in 0 .. MemUnits - 1 /\ sub \in Units
    OBVIOUS
  <2> DEFINE k == 3 * i
           l == 2 * i
  <2>3. k \in Nat /\ k < Span(call.n, 3) /\ l \in Nat /\ l < Span(call.n, 2)
    BY <1>2
  <2> HIDE DEF k, l
  <2>4. call.in + k \in 0 .. MemUnits - 1 /\ call.at + l \in 0 .. MemUnits - 1
    BY <1>2, <2>3, Inside
  <2>1. call.in + 3 * i \in 0 .. MemUnits - 1
    BY <2>4 DEF k
  <2>2. call.at + 2 * i \in 0 .. MemUnits - 1
    BY <2>4 DEF l
  <2> QED
    BY <1>2, <2>1, <2>2 DEF EventAt
<1>4. held /\ timed => due \in Units /\ wait \in Nat
  <2> SUFFICES ASSUME held, timed PROVE due \in Units /\ wait \in Nat
    OBVIOUS
  <2> DEFINE k == 3 * i + 1
  <2>1. k \in Nat /\ k < Span(call.n, 3)
    BY <1>2
  <2>2. call.in + 3 * i + 1 = call.in + k
    BY <1>2
  <2> HIDE DEF k
  <2>3. call.in + k \in 0 .. MemUnits - 1
    BY <1>2, <2>1, Inside
  <2>4. due \in Units
    BY <1>2, <2>2, <2>3
  <2> QED
    BY <2>4 DEF Units
<1>5. \/ ~held /\ answer' = "panic" /\ UNCHANGED <<i, total, mem>>
      \/ /\ held /\ answer' \in {"INVAL"} /\ UNCHANGED <<i, total>>
      \/ /\ held /\ ~timed /\ answer' = "panic" /\ UNCHANGED <<i, total>>
      \/ /\ held /\ timed /\ total' = IF wait < total THEN wait ELSE total
         /\ Event(sub) /\ i' = i + 1 /\ UNCHANGED answer
      \/ /\ held /\ Event(sub) /\ i' = i + 1 /\ UNCHANGED <<total, answer>>
  BY DEF PollSub
<1>6. i' \in Nat /\ total' \in 0 .. Forever /\ answer' \in {"running", "INVAL", "panic"}
  <2>1. held /\ timed => (IF wait < total THEN wait ELSE total) \in 0 .. Forever
    <3> HIDE DEF wait, held, timed
    <3> QED
      BY <1>2, <1>4, WordIsNat
  <2>2. total' \in 0 .. Forever
    <3> HIDE DEF wait, held, timed
    <3> QED
      BY <1>2, <1>5, <2>1
  <2> QED
    BY <1>1, <1>2, <1>5, <2>2
<1>7. WasiTypeOK'
  BY <1>1, <1>6 DEF WasiTypeOK
<1>8. PanicOnlyOnWrap'
  <2> SUFFICES ASSUME ~held \/ ~timed PROVE call.n * 48 >= Word
    BY <1>1, <1>5 DEF PanicOnlyOnWrap
  <2>1. 3 * i + 1 < call.n * 3 /\ 3 * i < call.n * 3 /\ 2 * i < call.n * 2
    BY <1>1, <1>2
  <2>2. Span(call.n, 3) # call.n * 3 \/ Span(call.n, 2) # call.n * 2
    BY <2>1
  <2>3. ~(call.n * 3 * 16 < Word) \/ ~(call.n * 2 * 16 < Word)
    BY <1>2, <2>2, SpanFits
  <2> QED
    BY <1>2, <2>3, WordIsNat
<1>9. Buffers'
  <2> SUFFICES ASSUME answer' = "running" PROVE mem' \in [0 .. MemUnits - 1 -> Units]
    BY <1>1 DEF Buffers, In
  <2>1. held /\ Event(sub)
    BY <1>5
  <2>2. Unit(sub.lo, IF sub.b8 = Clock THEN 0 ELSE Notsup, sub.b8) \in Units
    BY <1>3, <2>1 DEF Unit, Units, Notsup
  <2> QED
    BY <1>2, <2>1, <2>2 DEF Event
<1>10. Fresh' /\ Table' /\ Trace' /\ Unrefused'
  BY <1>1, <1>6 DEF Fresh, Table, Trace, Unrefused
<1> QED
  BY <1>7, <1>8, <1>9, <1>10 DEF WasiInv

LEMMA PollEndsKeeps ==
  ASSUME WasiInv, PollEnds, intercept' = intercept PROVE WasiInv'
<1>1. /\ call.fn = "poll_oneoff" /\ UNCHANGED <<call, i, total, judged, out>>
      /\ answer' \in {"SUCCESS", "FAULT"} /\ result' \in {<<i>>, result}
  BY DEF PollEnds, In
<1>2. WasiTypeOK /\ Unrefused /\ i \in Nat
  BY DEF WasiInv, WasiTypeOK
<1>3. <<i>> \in Stores
  BY <1>2 DEF Stores
<1>4. WasiTypeOK'
  BY <1>1, <1>2, <1>3, StoreIsSeq DEF WasiTypeOK
<1>5. Fresh' /\ Table' /\ Buffers' /\ Trace' /\ Unrefused' /\ PanicOnlyOnWrap'
  BY <1>1, <1>2 DEF Fresh, Table, Buffers, In, Trace, Unrefused, PanicOnlyOnWrap
<1> QED
  BY <1>4, <1>5 DEF WasiInv

-----------------------------------------------------------------------------
LEMMA GuestCallsKeep ==
  ASSUME GuestCalls, intercept' = intercept PROVE WasiInv'
BY FdWriteKeeps, PathOpenKeeps, ClockTimeGetKeeps, UnjudgedKeeps, PollOneoffKeeps
   DEF GuestCalls

LEMMA HostStepsKeep ==
  ASSUME WasiInv, HostSteps \/ HostReturns, intercept' = intercept PROVE WasiInv'
BY IovecKeeps, FdWriteEndsKeeps, PollSubKeeps, PollEndsKeeps, CallOverKeeps
   DEF HostSteps, HostReturns

LEMMA HostFollowsDecisions == WasiInv => OutputFollowsDecisions
<1> SUFFICES ASSUME WasiInv, call.fn = "fd_write"
             PROVE  /\ {out[k].vec : k \in DOMAIN out} =
                         {judged[k].vec : k \in {j \in DOMAIN judged :
                            call.fd \in {1, 2} /\ judged[j].how \in Passing}}
                    /\ \A j, k \in DOMAIN out : j < k => out[j].vec < out[k].vec
  BY DEF OutputFollowsDecisions
<1>1. Sources /\ Complete /\ Ordered
  BY DEF WasiInv, Trace
<1>2. \A k \in DOMAIN out : \E j \in DOMAIN judged :
        /\ call.fd \in {1, 2} /\ judged[j].how \in Passing
        /\ judged[j].vec = out[k].vec
  BY <1>1 DEF Sources, Through
<1>3. \A j \in DOMAIN judged : call.fd \in {1, 2} /\ judged[j].how \in Passing =>
        \E k \in DOMAIN out : out[k].vec = judged[j].vec
  BY <1>1 DEF Complete, Through
<1> QED
  BY <1>1, <1>2, <1>3 DEF Ordered

-----------------------------------------------------------------------------
(* What success means: what is known of a call that has not failed so far, *)
(* beside WasiInv.                                                         *)

Whole ==
  /\ answer \in {"running", "SUCCESS"} =>
       \A k \in DOMAIN judged : judged[k].how \notin {"Deny", "Freeze"}
  /\ answer # "SUCCESS" => result = Nothing

(* The lengths up to i are summed up, and their buffers are judged.        *)
Lens == [k \in 1 .. call.count |-> call.vecs[k].len]

Tallied ==
  call.fn = "fd_write" /\ answer \in {"running", "SUCCESS"} =>
    /\ i <= call.count /\ i <= Len(call.vecs)
    /\ \A k \in DOMAIN judged : judged[k].vec \in 1 .. i /\ Lens[judged[k].vec] > 0
    /\ \A k \in 1 .. i : Lens[k] > 0 => \E j \in DOMAIN judged : judged[j].vec = k
    /\ \A j, k \in DOMAIN judged : j < k => judged[j].vec < judged[k].vec
    /\ Sums(Lens)[i] \in Nat /\ total = Sums(Lens)[i] % Word
    /\ answer = "SUCCESS" => i = call.count /\ result = <<total>>

(* Induction over the numbers, by the least one that is not in a set.      *)
LEMMA Induct ==
  ASSUME NEW T, 0 \in T, \A n \in Nat : n \in T => n + 1 \in T PROVE Nat \subseteq T
<1> SUFFICES ASSUME Nat \ T # {} PROVE FALSE
  OBVIOUS
<1> DEFINE R == OpToRel(<, Nat)
<1>1. IsWellFoundedOn(R, Nat)
  BY NatLessThanWellFounded, Zenon
<1>2. \A x, y \in Nat : <<x, y>> \in R <=> x < y
  BY DEF OpToRel
<1> HIDE DEF R
<1>3. PICK x \in Nat \ T : \A y \in Nat \ T : ~(<<y, x>> \in R)
  BY <1>1, WFMin
<1>4. x # 0 /\ x - 1 \in Nat /\ x - 1 < x
  BY <1>3
<1>5. x - 1 \in T
  BY <1>2, <1>3, <1>4
<1>6. x - 1 + 1 \in T
  BY <1>4, <1>5
<1> QED
  BY <1>3, <1>6

SummedTo(f, h, n) == h = [k \in 0 .. n |-> IF k = 0 THEN 0 ELSE h[k - 1] + f[k]]

LEMMA SumsExist ==
  ASSUME NEW f PROVE \A n \in Nat : \E h : SummedTo(f, h, n)
<1> DEFINE T == {n \in Nat : \E h : SummedTo(f, h, n)}
           Plus(x, k) == x + f[k]
<1> HIDE DEF Plus
<1>1. 0 \in T
  <2> DEFINE h == [k \in 0 .. 0 |-> 0]
  <2>1. h = [k \in 0 .. 0 |-> IF k = 0 THEN 0 ELSE Plus(h[k - 1], k)]
    OBVIOUS
  <2> QED
    BY <2>1 DEF SummedTo, Plus
<1>2. ASSUME NEW n \in Nat, n \in T PROVE n + 1 \in T
  <2>1. PICK h : SummedTo(f, h, n)
    BY <1>2
  <2> DEFINE g == [k \in 0 .. n + 1 |-> IF k = n + 1 THEN Plus(h[n], k) ELSE h[k]]
  <2>2. ASSUME NEW k \in 0 .. n + 1
        PROVE  g[k] = IF k = 0 THEN 0 ELSE Plus(g[k - 1], k)
    <3>1. CASE k = n + 1
      <4>1. g[k] = Plus(h[n], k) /\ k # 0 /\ k - 1 = n /\ n \in 0 .. n + 1 /\ n # n + 1
        BY <3>1
      <4>2. g[n] = h[n]
        BY <4>1
      <4> QED
        BY <4>1, <4>2
    <3>2. CASE k \in 0 .. n /\ k # 0
      <4>1. k # n + 1 /\ k - 1 # n + 1 /\ k - 1 \in 0 .. n + 1
        BY <3>2
      <4>2. g[k] = h[k] /\ g[k - 1] = h[k - 1]
        BY <4>1
      <4>3. h[k] = Plus(h[k - 1], k)
        BY <2>1, <3>2 DEF SummedTo, Plus
      <4> QED
        BY <3>2, <4>2, <4>3
    <3>3. CASE k = 0
      <4>1. g[0] = h[0]
        OBVIOUS
      <4>2. h[0] = 0
        BY <2>1 DEF SummedTo
      <4> QED
        BY <3>3, <4>1, <4>2
    <3> QED
      BY <3>1, <3>2, <3>3
  <2>3. g = [k \in 0 .. n + 1 |-> g[k]]
    OBVIOUS
  <2> HIDE DEF g
  <2>4. SummedTo(f, g, n + 1)
    BY <2>2, <2>3 DEF SummedTo, Plus
  <2> QED
    BY <2>4
<1> HIDE DEF T
<1>3. Nat \subseteq T
  BY <1>1, <1>2, Induct
<1> QED
  BY <1>3 DEF T

(* Sums adds one element at a time.                                        *)
LEMMA SumsUnfold ==
  ASSUME NEW f, NEW n \in Nat, Len(f) = n
  PROVE  /\ Sums(f)[0] = 0
         /\ \A k \in 1 .. n : Sums(f)[k] = Sums(f)[k - 1] + f[k]
<1>1. PICK h : SummedTo(f, h, n)
  BY SumsExist
<1> DEFINE sums == Sums(f)
<1>2. SummedTo(f, sums, n)
  BY <1>1 DEF SummedTo, Sums
<1> HIDE DEF sums
<1>3. sums[0] = 0
  BY <1>2 DEF SummedTo
<1>4. ASSUME NEW k \in 1 .. n PROVE sums[k] = sums[k - 1] + f[k]
  <2>1. k \in 0 .. n /\ k # 0
    OBVIOUS
  <2> QED
    BY <1>2, <2>1 DEF SummedTo
<1> QED
  BY <1>3, <1>4 DEF sums

LEMMA LensAre ==
  ASSUME call.count \in Nat
  PROVE  /\ Len(Lens) = call.count
         /\ Sums(Lens)[0] = 0
         /\ \A k \in 1 .. call.count : Sums(Lens)[k] = Sums(Lens)[k - 1] + Lens[k]
<1>1. Len(Lens) = call.count
  BY DEF Lens
<1> QED
  BY <1>1, SumsUnfold

-----------------------------------------------------------------------------
(* fd_write, whole and tallied                                             *)

LEMMA FdWriteTallies ==
  ASSUME FdWrite PROVE Whole' /\ Tallied'
<1>1. /\ call'.fn = "fd_write" /\ call'.count \in Nat /\ call'.vecs \in [1 .. TableLen(call'.count) -> Vecs]
      /\ answer' \in {"running", "FAULT"} /\ result' = Nothing
      /\ i' = 0 /\ total' = 0 /\ judged' = <<>>
  BY WasiAssumption DEF FdWrite, Started
<1>2. TableLen(call'.count) \in Nat
  BY <1>1, TableFits
<1>3. Len(call'.vecs) \in Nat
  BY <1>1, <1>2
<1>4. Sums(Lens')[0] = 0
  <2>1. PICK lens : lens = Lens'
    OBVIOUS
  <2>2. Len(lens) = call'.count
    BY <1>1, <2>1 DEF Lens
  <2> QED
    BY <1>1, <2>1, <2>2, SumsUnfold
<1>5. 0 % Word = 0
  BY WordIsNat, OnWord
<1>6. Whole'
  BY <1>1 DEF Whole
<1>7. Tallied'
  BY <1>1, <1>3, <1>4, <1>5 DEF Tallied
<1> QED
  BY <1>6, <1>7

LEMMA IovecTallies ==
  ASSUME WasiInv, Whole, Tallied, Iovec PROVE Whole' /\ Tallied'
<1>1. /\ In("fd_write") /\ i < call.count /\ UNCHANGED <<call, mem, result>>
      /\ WasiTypeOK /\ call.fn = "fd_write" /\ answer = "running" /\ result = Nothing
  BY DEF Iovec, MoreVecs, WasiInv, In, Whole
<1>2. /\ call.count \in Nat /\ i \in Nat /\ total \in 0 .. Word - 1 /\ Len(call.vecs) \in Nat
      /\ i < Len(call.vecs) => call.vecs[i + 1].len \in Nat
  BY <1>1, TableIsRead
<1>3. ASSUME answer' \notin {"running", "SUCCESS"} PROVE Whole' /\ Tallied'
  BY <1>1, <1>3 DEF Whole, Tallied
<1>4. CASE i >= Len(call.vecs)
  <2>1. answer' = "panic"
    BY <1>2, <1>4 DEF Iovec, Ends
  <2> QED
    BY <1>3, <2>1
<1>5. CASE i < Len(call.vecs)
  <2>1. PICK v : v = call.vecs[i + 1]
    OBVIOUS
  <2>2. Vec(v) /\ v.len \in Nat
    BY <1>2, <1>5, <2>1 DEF Iovec
  <2>3. PICK lens : lens = Lens
    OBVIOUS
  <2>4. lens[i + 1] = v.len
    <3>1. i + 1 \in 1 .. call.count
      BY <1>1, <1>2
    <3> QED
      BY <2>1, <2>3, <3>1 DEF Lens
  <2>5. Sums(lens)[i + 1] = Sums(lens)[i] + v.len
    <3>1. i + 1 \in 1 .. call.count /\ i + 1 - 1 = i
      BY <1>1, <1>2
    <3> QED
      BY <1>2, <2>3, <2>4, <3>1, LensAre
  <2>6. lens = Lens' /\ i + 1 <= call.count /\ i + 1 <= Len(call.vecs)
    BY <1>1, <1>2, <1>5, <2>3 DEF Lens
  <2>7. /\ \A k \in DOMAIN judged : judged[k].vec \in 1 .. i /\ lens[judged[k].vec] > 0
        /\ \A k \in 1 .. i : lens[k] > 0 => \E j \in DOMAIN judged : judged[j].vec = k
        /\ \A j, k \in DOMAIN judged : j < k => judged[j].vec < judged[k].vec
        /\ Sums(lens)[i] \in Nat /\ total = Sums(lens)[i] % Word
        /\ \A k \in DOMAIN judged : judged[k].how \notin {"Deny", "Freeze"}
    BY <1>1, <2>3 DEF Tallied, Whole
  <2>8. \A k \in 1 .. i + 1 : k \in 1 .. i \/ k = i + 1
    BY <1>2
  <2>9. \A k \in 1 .. i : k \in 1 .. i + 1
    BY <1>2
  <2>10. CASE EmptyVec /\ v.len = 0
    <3>1. i' = i + 1 /\ UNCHANGED <<total, answer, judged>>
      BY <2>10 DEF EmptyVec
    <3>2. Sums(lens)[i + 1] = Sums(lens)[i]
      BY <2>5, <2>7, <2>10
    <3>3. ASSUME NEW k \in 1 .. i + 1, lens[k] > 0 PROVE \E j \in DOMAIN judged : judged[j].vec = k
      <4>1. k # i + 1
        BY <2>4, <2>10, <3>3
      <4> QED
        BY <2>7, <2>8, <3>3, <4>1
    <3>4. Whole'
      BY <1>1, <2>7, <3>1 DEF Whole
    <3>5. Tallied'
      BY <1>1, <2>6, <2>7, <2>9, <3>1, <3>2, <3>3 DEF Tallied
    <3> QED
      BY <3>4, <3>5
  <2>11. CASE Ends("FAULT")
    BY <1>3, <2>11 DEF Ends
  <2>12. ASSUME NEW d \in Asked("OnWriteBuffer"), Decided(d, v.len), v.len # 0,
                judged' = Append(judged, [vec |-> i + 1, how |-> d])
         PROVE  Whole' /\ Tallied'
    <3>1. CASE d \in {"Deny", "Freeze"}
      <4>1. answer' \in {"IO", "frozen"}
        BY <2>12, <3>1 DEF Decided, Ends
      <4> QED
        BY <1>3, <4>1
    <3>2. CASE d \notin {"Deny", "Freeze"}
      <4>1. i' = i + 1 /\ total' = (total + v.len) % Word /\ answer' = answer
        BY <2>12, <3>2 DEF Decided, Counted
      <4>2. d \in Decisions
        BY <2>12, AskedDecides
      <4> DEFINE j2 == [vec |-> i + 1, how |-> d]
      <4>3. j2 \in Judgement /\ judged \in Seq(Judgement) /\ j2.vec = i + 1 /\ j2.how = d
        BY <1>1, <1>2, <4>2, OutIsNat
      <4>4. PICK n \in Nat : n = Len(judged)
        BY <4>3
      <4>5. /\ DOMAIN judged = 1 .. n /\ DOMAIN judged' = 1 .. n + 1
            /\ \A k \in 1 .. n : judged'[k] = judged[k]
            /\ judged'[n + 1].vec = i + 1 /\ judged'[n + 1].how = d
        BY <2>12, <4>3, <4>4, AppendProperties
      <4>6. \A k \in 1 .. n + 1 : k \in 1 .. n \/ k = n + 1
        OBVIOUS
      <4>7. n + 1 \in 1 .. n + 1 /\ \A k \in 1 .. n : k \in 1 .. n + 1
        OBVIOUS
      <4> HIDE DEF j2
      <4>8. Whole'
        BY <1>1, <2>7, <3>2, <4>1, <4>5, <4>6 DEF Whole
      <4>9. ASSUME NEW k \in DOMAIN judged'
            PROVE  judged'[k].vec \in 1 .. i + 1 /\ lens[judged'[k].vec] > 0
        <5>1. i + 1 \in 1 .. i + 1 /\ lens[i + 1] > 0
          BY <1>2, <2>2, <2>4, <2>12
        <5> QED
          BY <2>7, <2>9, <4>5, <4>6, <5>1
      <4>10. ASSUME NEW k \in 1 .. i + 1, lens[k] > 0
             PROVE  \E j \in DOMAIN judged' : judged'[j].vec = k
        <5>1. CASE k \in 1 .. i
          BY <2>7, <4>5, <4>7, <4>10, <5>1
        <5>2. CASE k = i + 1
          BY <4>5, <4>7, <5>2
        <5> QED
          BY <2>8, <5>1, <5>2
      <4>11. ASSUME NEW j \in DOMAIN judged', NEW k \in DOMAIN judged', j < k
             PROVE  judged'[j].vec < judged'[k].vec
        <5>1. j \in 1 .. n
          BY <4>5, <4>11
        <5>2. CASE k \in 1 .. n
          BY <2>7, <4>5, <4>11, <5>1, <5>2
        <5>3. CASE k = n + 1
          <6>1. judged[j].vec \in 1 .. i
            BY <2>7, <4>5, <5>1
          <6> QED
            BY <1>2, <4>5, <5>1, <5>3, <6>1
        <5> QED
          BY <4>5, <4>6, <5>2, <5>3
      <4>12. Sums(lens)[i + 1] \in Nat /\ total' = Sums(lens)[i + 1] % Word
        <5>1. PICK s \in Nat : s = Sums(lens)[i] /\ total = s % Word
          BY <2>7
        <5>2. ((s % Word) + v.len) % Word = (s + v.len) % Word
          BY <2>2, WordIsNat, RemainderOfSum
        <5>3. s + v.len \in Nat
          BY <2>2
        <5> QED
          BY <2>5, <4>1, <5>1, <5>2, <5>3
      <4>13. Tallied'
        BY <1>1, <2>6, <4>1, <4>9, <4>10, <4>11, <4>12 DEF Tallied
      <4> QED
        BY <4>8, <4>13
    <3> QED
      BY <3>1, <3>2
  <2> QED
    BY <2>2, <2>10, <2>11, <2>12 DEF Vec
<1> QED
  BY <1>2, <1>4, <1>5

LEMMA FdWriteEndsTallies ==
  ASSUME WasiInv, Whole, Tallied, FdWriteEnds PROVE Whole' /\ Tallied'
<1>1. /\ call.fn = "fd_write" /\ UNCHANGED <<call, i, total, judged>> /\ answer = "running"
      /\ ~(i < call.count) /\ In("fd_write")
      /\ \/ answer' = "SUCCESS" /\ result' = <<total>>
         \/ answer' = "FAULT" /\ result' = Nothing
  BY DEF FdWriteEnds, MoreVecs, In
<1>2. i \in Nat /\ call.count \in Nat
  BY <1>1, TableIsRead
<1>3. i = call.count
  BY <1>1, <1>2 DEF Tallied
<1>4. Lens' = Lens
  BY <1>1 DEF Lens
<1> QED
  BY <1>1, <1>3, <1>4 DEF Whole, Tallied

-----------------------------------------------------------------------------
(* poll_oneoff, whole and answered                                         *)

(* The subscriptions that begin in the table are there, and those before i *)
(* are answered, if the events are not written over the table, nor nevents *)
(* over the events.                                                        *)
Apart ==
  /\ (call.in .. call.in + 3 * call.n - 1) \cap (call.at .. call.at + 2 * call.n - 1) = {}
  /\ call.res \notin call.at .. call.at + 2 * call.n - 1

Told == IF answer = "SUCCESS" THEN {call.res} ELSE {}

Waits(k) == call.subs[k].tag = Clock

Answered ==
  /\ \A u \in DOMAIN mem \ ((call.at .. call.at + 2 * call.n - 1) \cup Told) :
       mem[u] = Laid(call.in, call.subs)[u]
  /\ \A k \in 1 .. i :
       /\ call.subs[k].tag \in {0, 1, 2}
       /\ mem[call.at + 2 * (k - 1)]
            = Unit(k, IF Waits(k) THEN 0 ELSE Notsup, call.subs[k].tag)
  /\ total = Forever \/ \E k \in 1 .. i : Waits(k) /\ total = call.subs[k].timeout
  /\ \A k \in 1 .. i : Waits(k) => total <= call.subs[k].timeout

Polled ==
  call.fn = "poll_oneoff" /\ answer \in {"running", "SUCCESS"} =>
    /\ {call.n, call.in, call.at, call.res} \subseteq Nat
    /\ call.subs \in Subscriptions((Span(call.n, 3) + 2) \div 3)
    /\ i <= call.n /\ i <= (Span(call.n, 3) + 2) \div 3
    /\ answer = "SUCCESS" => i = call.n /\ result = <<i>> /\ mem[call.res].lo = i
    /\ Apart => Answered

LEMMA PollOneoffPolls ==
  ASSUME PollOneoff PROVE Whole' /\ Polled'
<1>1. PICK n \in Subs, place \in Places, res \in Results :
        \E subs \in Subscriptions((Span(n, 3) + 2) \div 3) :
          PollCalled(n, place[1], place[2], subs, res)
  BY DEF PollOneoff
<1>2. PICK subs \in Subscriptions((Span(n, 3) + 2) \div 3) :
        PollCalled(n, place[1], place[2], subs, res)
  BY <1>1
<1>3. PICK in \in Nat, at \in Nat : in = place[1] /\ at = place[2]
  BY WasiAssumption
<1>4. n \in Nat /\ res \in Nat
  BY WasiAssumption
<1>5. PICK laid : laid = Laid(in, subs)
  OBVIOUS
<1>6. /\ call' = [fn |-> "poll_oneoff", n |-> n, in |-> in, at |-> at,
                  subs |-> subs, res |-> res]
      /\ result' = Nothing /\ i' = 0 /\ total' = Forever /\ judged' = <<>>
      /\ answer' \in {"INVAL", "running", "FAULT"}
  BY <1>2, <1>3 DEF PollCalled
<1>7. PICK b \in BOOLEAN :
        mem' = [u \in DOMAIN laid |-> IF b /\ u \in at .. at + Span(n, 2) - 1 THEN Zero ELSE laid[u]]
  BY <1>2, <1>3, <1>5 DEF PollCalled
<1>8. /\ call'.fn = "poll_oneoff" /\ call'.n = n /\ call'.in = in /\ call'.at = at /\ call'.subs = subs
      /\ call'.res = res
  BY <1>6
<1>9. (Span(n, 3) + 2) \div 3 \in Nat /\ Span(n, 2) \in Nat /\ Span(n, 2) <= 2 * n
  BY <1>4, SpanFits, Thirds, SpanIsNoLonger
<1>10. ASSUME NEW u \in DOMAIN mem', u \notin at .. at + 2 * n - 1 PROVE mem'[u] = laid[u]
  <2>1. u \notin at .. at + Span(n, 2) - 1
    <3>1. ASSUME NEW s \in Nat, s <= 2 * n PROVE at .. at + s - 1 \subseteq at .. at + 2 * n - 1
      BY <1>4, <3>1
    <3> QED
      BY <1>9, <1>10, <3>1
  <2> QED
    BY <1>7, <1>10, <2>1
<1>11. Answered'
  <2>1. \A k \in 1 .. 0 : FALSE
    OBVIOUS
  <2> QED
    BY <1>5, <1>6, <1>8, <1>10, <2>1 DEF Answered
<1>12. Whole'
  BY <1>6 DEF Whole
<1>13. Polled'
  BY <1>4, <1>6, <1>8, <1>9, <1>11 DEF Polled
<1> QED
  BY <1>12, <1>13

(* A guest's table as it was laid out, at subscription k + 1.              *)
LEMMA LaidSub ==
  ASSUME NEW in \in Nat, NEW s \in Nat, NEW subs \in Subscriptions(s), NEW k \in 0 .. s - 1
  PROVE  /\ in + 3 * k \in 0 .. MemUnits - 1 =>
              Laid(in, subs)[in + 3 * k] = Unit(k + 1, subs[k + 1].tag, 0)
         /\ in + 3 * k + 1 \in 0 .. MemUnits - 1 =>
              Laid(in, subs)[in + 3 * k + 1] = Unit(0, subs[k + 1].timeout, 0)
<1>1. Len(subs) = s
  BY DEF Subscriptions
<1>2. ASSUME NEW u, u = in + 3 * k, u \in 0 .. MemUnits - 1
      PROVE  Laid(in, subs)[u] = Unit(k + 1, subs[k + 1].tag, 0)
  <2>1. /\ u \in in .. in + 3 * Len(subs) - 1 /\ u - in = 3 * k
    BY <1>1, <1>2
  <2>2. (u - in) \div 3 = k /\ (u - in) % 3 = 0
    BY <2>1, Z3
  <2> QED
    BY <1>2, <2>1, <2>2 DEF Laid
<1>3. ASSUME NEW u, u = in + 3 * k + 1, u \in 0 .. MemUnits - 1
      PROVE  Laid(in, subs)[u] = Unit(0, subs[k + 1].timeout, 0)
  <2>1. /\ u \in in .. in + 3 * Len(subs) - 1 /\ u - in = 3 * k + 1
    BY <1>1, <1>3
  <2>2. (u - in) \div 3 = k /\ (u - in) % 3 = 1 /\ (u - in) % 3 # 0
    BY <2>1, Z3
  <2> QED
    BY <1>3, <2>1, <2>2 DEF Laid
<1> QED
  BY <1>2, <1>3

LEMMA PollSubPolls ==
  ASSUME WasiInv, Whole, Polled, PollSub PROVE Whole' /\ Polled'
<1> DEFINE sub  == mem[call.in + 3 * i]
           due  == mem[call.in + 3 * i + 1]
           held == 3 * i < Span(call.n, 3) /\ 2 * i < Span(call.n, 2)
           timed == 3 * i + 1 < Span(call.n, 3)
<1>1. /\ In("poll_oneoff") /\ i < call.n /\ UNCHANGED <<call, result, judged, out>>
      /\ call.fn = "poll_oneoff" /\ answer = "running" /\ result = Nothing
  BY DEF PollSub, WasiInv, In, Whole
<1>2. PICK n \in Nat, in \in Nat, at \in Nat, m \in Nat, s3 \in Nat, k \in Nat :
        /\ n = call.n /\ in = call.in /\ at = call.at /\ m = MemUnits /\ k = i
        /\ s3 = Span(call.n, 3) /\ in + s3 <= m
  BY <1>1, WordIsNat, SpanFits DEF WasiInv, Buffers, InBounds, WasiTypeOK
<1>3. PICK s \in Nat : s = (s3 + 2) \div 3 /\ s3 <= 3 * s
  BY Thirds
<1>4. PICK subs \in Subscriptions(s) : subs = call.subs
  BY <1>1, <1>2, <1>3 DEF Polled
<1>5. mem \in [0 .. m - 1 -> Units] /\ total \in 0 .. Forever
  BY <1>1, <1>2 DEF WasiInv, Buffers, WasiTypeOK
<1>6. ASSUME answer' \notin {"running", "SUCCESS"} PROVE Whole' /\ Polled'
  BY <1>1, <1>6 DEF Whole, Polled
<1>7. CASE answer' \in {"panic", "INVAL"}
  BY <1>6, <1>7
<1>8. CASE answer' \notin {"panic", "INVAL"}
  <2>1. /\ held /\ answer' = answer /\ i' = i + 1 /\ Event(sub)
        /\ \/ /\ sub.b8 = Clock /\ timed
              /\ total' = IF due.b8 + 65536 * due.b10 < total
                          THEN due.b8 + 65536 * due.b10 ELSE total
           \/ sub.b8 \in {1, 2} /\ total' = total
    BY <1>8 DEF PollSub
  <2>2. k < n /\ 3 * k < s3 /\ k + 1 <= n
    BY <1>1, <1>2, <2>1
  <2>3. k + 1 <= s /\ k \in 0 .. s - 1
    BY <1>3, <2>2
  <2>4. Whole'
    BY <1>1, <2>1 DEF Whole
  <2>5. ASSUME Apart PROVE Answered'
    <3> DEFINE outs == at .. at + 2 * n - 1
    <3>1. /\ \A u \in DOMAIN mem \ outs : mem[u] = Laid(in, subs)[u]
          /\ \A l \in 1 .. k :
               /\ subs[l].tag \in {0, 1, 2}
               /\ mem[at + 2 * (l - 1)]
                    = Unit(l, IF subs[l].tag = Clock THEN 0 ELSE Notsup, subs[l].tag)
          /\ total = Forever \/ \E l \in 1 .. k : subs[l].tag = Clock /\ total = subs[l].timeout
          /\ \A l \in 1 .. k : subs[l].tag = Clock => total <= subs[l].timeout
      BY <1>1, <1>2, <1>4, <2>5 DEF Polled, Answered, Waits, Told
    <3>2. ASSUME NEW u \in in .. in + 3 * n - 1, u \in 0 .. m - 1 PROVE mem[u] = Laid(in, subs)[u]
      <4>1. u \notin outs
        BY <1>2, <2>5, <3>2 DEF Apart
      <4> QED
        BY <1>5, <3>1, <3>2, <4>1
    <3>3. /\ subs[k + 1].tag \in Tags /\ subs[k + 1].timeout \in Nat
          /\ \A l \in 1 .. k : l \in 1 .. s /\ subs[l].timeout \in Nat
      <4>1. \A l \in 1 .. s : subs[l] \in [tag : Tags, timeout : Timeouts]
        BY DEF Subscriptions
      <4>2. k + 1 \in 1 .. s /\ \A l \in 1 .. k : l \in 1 .. s
        BY <2>3
      <4>3. \A t \in Timeouts : t \in Nat
        BY WasiAssumption
      <4> QED
        BY <4>1, <4>2, <4>3
    <3>4. PICK tag \in Tags, time \in Nat : tag = subs[k + 1].tag /\ time = subs[k + 1].timeout
      BY <3>3
    <3>5. sub = Unit(k + 1, tag, 0)
      <4>1. in + 3 * k \in 0 .. m - 1 /\ in + 3 * k \in in .. in + 3 * n - 1
        BY <1>2, <2>2
      <4>2. Laid(in, subs)[in + 3 * k] = Unit(k + 1, tag, 0)
        BY <1>2, <2>3, <3>4, <4>1, LaidSub
      <4> QED
        BY <1>2, <3>2, <4>1, <4>2
    <3>6. sub.lo = k + 1 /\ sub.b8 = tag
      BY <3>5 DEF Unit
    <3>7. timed => due.b8 + 65536 * due.b10 = time
      <4> SUFFICES ASSUME timed PROVE due.b8 + 65536 * due.b10 = time
        OBVIOUS
      <4>0. 3 * k + 1 < s3
        BY <1>2
      <4>1. in + 3 * k + 1 \in 0 .. m - 1 /\ in + 3 * k + 1 \in in .. in + 3 * n - 1
        BY <1>2, <2>2, <4>0
      <4>2. Laid(in, subs)[in + 3 * k + 1] = Unit(0, time, 0)
        BY <1>2, <2>3, <3>4, <4>1, LaidSub
      <4>3. due = Unit(0, time, 0)
        BY <1>2, <3>2, <4>1, <4>2
      <4> QED
        BY <4>3 DEF Unit
    <3>8. PICK here : here = at + 2 * k
      OBVIOUS
    <3>9. /\ here \in outs
          /\ \A l \in 1 .. k : at + 2 * (l - 1) # here
          /\ at + 2 * (k + 1 - 1) = here
          /\ \A l \in 1 .. k + 1 : l \in 1 .. k \/ l = k + 1
      BY <2>2, <3>8
    <3>10. PICK e : e = Unit(k + 1, IF tag = Clock THEN 0 ELSE Notsup, tag)
      OBVIOUS
    <3>11. mem' = [mem EXCEPT ![here] = e] /\ here \in 0 .. m - 1
      <4>1. EventAt = here
        BY <1>2, <3>8 DEF EventAt
      <4>2. mem' = [mem EXCEPT ![here] = e]
        BY <2>1, <3>6, <3>10, <4>1 DEF Event
      <4>3. PICK s2 \in Nat : s2 = Span(call.n, 2)
        BY <1>2, SpanFits
      <4>4. at + s2 <= m
        BY <1>1, <1>2, <4>3 DEF WasiInv, Buffers, InBounds
      <4>5. 2 * k < s2
        BY <1>2, <2>1, <4>3
      <4>6. here \in 0 .. m - 1
        BY <1>2, <3>8, <4>4, <4>5
      <4> QED
        BY <4>2, <4>6
    <3> HIDE DEF sub, due, held, timed, outs
    <3>12. \A u \in DOMAIN mem' \ outs : mem'[u] = Laid(in, subs)[u]
      BY <1>5, <3>1, <3>9, <3>11
    <3>13. tag \in {0, 1, 2}
      BY <2>1, <3>6 DEF Clock
    <3>14. ASSUME NEW l \in 1 .. k + 1
           PROVE  /\ subs[l].tag \in {0, 1, 2}
                  /\ mem'[at + 2 * (l - 1)]
                       = Unit(l, IF subs[l].tag = Clock THEN 0 ELSE Notsup, subs[l].tag)
      <4>1. CASE l \in 1 .. k
        <5>1. PICK u : u = at + 2 * (l - 1)
          OBVIOUS
        <5>2. u # here
          BY <3>9, <4>1, <5>1
        <5>3. PICK x : x = Unit(l, IF subs[l].tag = Clock THEN 0 ELSE Notsup, subs[l].tag)
          OBVIOUS
        <5>4. mem[u] = x /\ subs[l].tag \in {0, 1, 2}
          BY <3>1, <4>1, <5>1, <5>3
        <5>5. u \in DOMAIN mem
          <6>1. u \in Nat /\ u <= here
            BY <3>8, <4>1, <5>1
          <6> QED
            BY <1>5, <3>11, <6>1
        <5>6. mem'[u] = x
          BY <3>11, <5>2, <5>4, <5>5
        <5> QED
          BY <5>1, <5>3, <5>4, <5>6
      <4>2. CASE l = k + 1
        <5>1. mem'[here] = e
          BY <1>5, <3>11
        <5> QED
          BY <3>4, <3>9, <3>10, <3>13, <4>2, <5>1
      <4> QED
        BY <3>9, <4>1, <4>2
    <3>15. /\ total' = Forever \/ \E l \in 1 .. k + 1 : subs[l].tag = Clock /\ total' = subs[l].timeout
           /\ \A l \in 1 .. k + 1 : subs[l].tag = Clock => total' <= subs[l].timeout
      <4>1. total \in Nat /\ k + 1 \in 1 .. k + 1 /\ \A l \in 1 .. k : l \in 1 .. k + 1
        BY <1>5, WordIsNat
      <4>2. CASE tag # Clock
        <5>1. total' = total
          BY <2>1, <3>6, <4>2
        <5> QED
          BY <3>1, <3>4, <3>9, <4>1, <4>2, <5>1
      <4>3. CASE tag = Clock
        <5>1. total' = IF time < total THEN time ELSE total
          BY <2>1, <3>6, <3>7, <4>3 DEF Clock
        <5>2. CASE time < total
          <6>1. ASSUME NEW l \in 1 .. k + 1, subs[l].tag = Clock PROVE time <= subs[l].timeout
            <7>1. CASE l \in 1 .. k
              <8>1. total <= subs[l].timeout /\ subs[l].timeout \in Nat
                BY <3>1, <3>3, <6>1, <7>1
              <8> QED
                BY <4>1, <5>2, <8>1
            <7>2. CASE l = k + 1
              BY <3>4, <7>2
            <7> QED
              BY <3>9, <7>1, <7>2
          <6>2. total' = time
            BY <5>1, <5>2
          <6> QED
            BY <3>4, <4>1, <4>3, <6>1, <6>2
        <5>3. CASE ~(time < total)
          <6>1. total' = total /\ total <= time
            BY <4>1, <5>1, <5>3
          <6> QED
            BY <3>1, <3>4, <3>9, <4>1, <6>1
        <5> QED
          BY <5>2, <5>3
      <4> QED
        BY <4>2, <4>3
    <3>16. call' = call /\ i' = k + 1 /\ answer' = "running"
      BY <1>1, <1>2, <2>1
    <3> QED
      BY <1>2, <1>4, <3>12, <3>14, <3>15, <3>16 DEF Answered, Waits, Told, outs
  <2>6. Polled'
    <3>1. call' = call /\ i' = k + 1 /\ answer' = "running" /\ Apart' = Apart
      BY <1>1, <1>2, <2>1 DEF Apart
    <3>2. /\ {call.n, call.in, call.at, call.res} \subseteq Nat
          /\ call.subs \in Subscriptions((Span(call.n, 3) + 2) \div 3)
      BY <1>1 DEF Polled
    <3>3. Apart' => Answered'
      BY <2>5, <3>1
    <3>4. i' <= call.n /\ i' <= (Span(call.n, 3) + 2) \div 3
      BY <1>2, <1>3, <2>2, <2>3, <3>1
    <3> QED
      BY <3>1, <3>2, <3>3, <3>4 DEF Polled
  <2> QED
    BY <2>4, <2>6
<1> QED
  BY <1>7, <1>8

LEMMA PollEndsPolls ==
  ASSUME WasiInv, Whole, Polled, PollEnds PROVE Whole' /\ Polled'
<1>1. /\ call.fn = "poll_oneoff" /\ UNCHANGED <<call, i, total, judged>> /\ answer = "running"
      /\ i = call.n
      /\ \/ /\ call.res < MemUnits /\ answer' = "SUCCESS" /\ result' = <<i>>
            /\ mem' = [mem EXCEPT ![call.res].lo = i]
         \/ answer' = "FAULT" /\ UNCHANGED <<result, mem>>
  BY DEF PollEnds, In
<1>2. CASE answer' = "FAULT"
  BY <1>1, <1>2 DEF Whole, Polled
<1>3. CASE answer' # "FAULT"
  <2>1. /\ answer' = "SUCCESS" /\ result' = <<i>> /\ Apart' = Apart
        /\ mem' = [mem EXCEPT ![call.res].lo = i]
    BY <1>1, <1>3 DEF Apart
  <2>2. mem \in [0 .. MemUnits - 1 -> Units] /\ call.res \in 0 .. MemUnits - 1
    BY <1>1, <1>3, WordIsNat DEF WasiInv, Buffers, In, Polled
  <2>3. mem'[call.res].lo = i /\ \A u \in DOMAIN mem \ {call.res} : mem'[u] = mem[u]
    BY <2>1, <2>2 DEF Units
  <2>4. ASSUME Apart PROVE Answered'
    <3>1. Answered /\ call.res \notin call.at .. call.at + 2 * call.n - 1
      BY <1>1, <2>4 DEF Polled, Apart
    <3>2. \A u \in DOMAIN mem \ ((call.at .. call.at + 2 * call.n - 1) \cup {call.res}) :
            mem'[u] = Laid(call.in, call.subs)[u]
      BY <1>1, <2>3, <3>1 DEF Answered, Told
    <3>3. ASSUME NEW k \in 1 .. i
          PROVE  mem'[call.at + 2 * (k - 1)] = mem[call.at + 2 * (k - 1)]
      <4>1. PICK n \in Nat, at \in Nat : n = call.n /\ at = call.at /\ i = n
        BY <1>1 DEF Polled
      <4>2. at + 2 * (k - 1) \in at .. at + 2 * n - 1
        BY <4>1
      <4>3. at + 2 * (k - 1) # call.res
        BY <3>1, <4>1, <4>2
      <4> QED
        BY <2>1, <2>2, <4>1, <4>3
    <3>4. DOMAIN mem' = DOMAIN mem /\ Told' = {call.res}
      BY <1>1, <2>1, <2>2 DEF Told
    <3> QED
      BY <1>1, <3>1, <3>2, <3>3, <3>4 DEF Answered, Waits
  <2> QED
    BY <1>1, <2>1, <2>3, <2>4 DEF Whole, Polled
<1> QED
  BY <1>2, <1>3

-----------------------------------------------------------------------------
(* The other calls, and all of them together                               *)

Succeeds == Whole /\ Tallied /\ Polled

(* A call without a loop: what it stored and judged fits its errno.        *)
LEMMA SimpleSucceeds ==
  ASSUME NEW fn \in {"path_open", "clock_time_get", "clock_res_get", "random_get"},
         NEW a \in Errnos \cup {"frozen"}, NEW r, Simple(fn, a, r),
         a # "SUCCESS" => r = Nothing,
         \/ judged' = <<>>
         \/ \E d \in Decisions : Judged(d) /\ (a = "SUCCESS" => d \notin {"Deny", "Freeze"})
  PROVE  Succeeds'
<1>1. call'.fn = fn /\ answer' = a /\ result' = r
  BY DEF Simple, Started
<1>2. a = "SUCCESS" => \A k \in DOMAIN judged' : judged'[k].how \notin {"Deny", "Freeze"}
  BY JudgedOnce
<1>3. a # "running"
  OBVIOUS
<1>4. Whole'
  BY <1>1, <1>2, <1>3 DEF Whole
<1> QED
  BY <1>1, <1>4 DEF Succeeds, Tallied, Polled

LEMMA PathOpenSucceeds ==
  ASSUME PathOpen PROVE Succeeds'
<1>1. CASE Simple("path_open", "FAULT", Nothing) /\ judged' = <<>>
  BY <1>1, SimpleSucceeds
<1>2. ASSUME NEW d \in Asked("OnOpenFile"), Judged(d),
             \/ d = "Deny" /\ Simple("path_open", "ACCES", Nothing)
             \/ d = "Freeze" /\ Simple("path_open", "frozen", Nothing)
             \/ d \in Passing \cup {"Dump"} /\ Stored("path_open", 42)
      PROVE  Succeeds'
  <2>1. d \in Decisions
    BY <1>2, AskedDecides
  <2>2. PICK a \in Errnos \cup {"frozen"}, r \in {Nothing, <<42>>} :
          /\ Simple("path_open", a, r) /\ (a # "SUCCESS" => r = Nothing)
          /\ a = "SUCCESS" => d \notin {"Deny", "Freeze"}
    BY <1>2 DEF Stored
  <2> QED
    BY <1>2, <2>1, <2>2, SimpleSucceeds
<1> QED
  BY <1>1, <1>2 DEF PathOpen

LEMMA ClockTimeGetSucceeds ==
  ASSUME ClockTimeGet PROVE Succeeds'
<1>1. PICK d \in Asked("OnClockGet"), id \in 0 .. 2 : Judged(d) /\ Clocked(d, id)
  BY DEF ClockTimeGet
<1>2. d \in Decisions
  BY <1>1, AskedDecides
<1>3. PICK a \in Errnos \cup {"frozen"}, r \in {Nothing, <<0>>} :
        /\ Simple("clock_time_get", a, r) /\ (a # "SUCCESS" => r = Nothing)
        /\ a = "SUCCESS" => d \notin {"Deny", "Freeze"}
  BY <1>1 DEF Clocked, ClockStored, Stored
<1> QED
  BY <1>1, <1>2, <1>3, SimpleSucceeds

LEMMA UnjudgedSucceeds ==
  ASSUME ClockResGet \/ RandomGet PROVE Succeeds'
<1>1. PICK fn \in {"clock_res_get", "random_get"}, a \in {"SUCCESS", "FAULT", "IO"},
           r \in {Nothing, <<0>>} :
        Simple(fn, a, r) /\ judged' = <<>> /\ (a # "SUCCESS" => r = Nothing)
  BY DEF ClockResGet, RandomGet, Stored
<1> QED
  BY <1>1, SimpleSucceeds

LEMMA GuestCallsSucceed ==
  ASSUME GuestCalls PROVE Succeeds'
<1>1. CASE FdWrite
  <2>1. call'.fn = "fd_write"
    BY <1>1 DEF FdWrite, Started
  <2> QED
    BY <1>1, <2>1, FdWriteTallies DEF Succeeds, Polled
<1>2. CASE PollOneoff
  <2>1. call'.fn = "poll_oneoff"
    BY <1>2 DEF PollOneoff, PollCalled
  <2> QED
    BY <1>2, <2>1, PollOneoffPolls DEF Succeeds, Tallied
<1> QED
  BY <1>1, <1>2, PathOpenSucceeds, ClockTimeGetSucceeds, UnjudgedSucceeds DEF GuestCalls

LEMMA CallOverSucceeds ==
  ASSUME CallOver PROVE Succeeds'
  BY DEF CallOver, Idle, Succeeds, Whole, Tallied, Polled

LEMMA HostStepsSucceed ==
  ASSUME WasiInv, Succeeds, HostSteps \/ HostReturns PROVE Succeeds'
<1>1. CASE Iovec
  <2>1. call'.fn = "fd_write"
    BY <1>1 DEF Iovec, In
  <2> QED
    BY <1>1, <2>1, IovecTallies DEF Succeeds, Polled
<1>2. CASE FdWriteEnds
  <2>1. call'.fn = "fd_write"
    BY <1>2 DEF FdWriteEnds, In
  <2> QED
    BY <1>2, <2>1, FdWriteEndsTallies DEF Succeeds, Polled
<1>3. CASE PollSub
  <2>1. call'.fn = "poll_oneoff"
    BY <1>3 DEF PollSub, In
  <2> QED
    BY <1>3, <2>1, PollSubPolls DEF Succeeds, Tallied
<1>4. CASE PollEnds
  <2>1. call'.fn = "poll_oneoff"
    BY <1>4 DEF PollEnds, In
  <2> QED
    BY <1>4, <2>1, PollEndsPolls DEF Succeeds, Tallied
<1>5. CASE HostReturns
  BY <1>5, CallOverSucceeds DEF HostReturns
<1> QED
  BY <1>1, <1>2, <1>3, <1>4, <1>5 DEF HostSteps

LEMMA SuccessKept ==
  ASSUME Succeeds, UNCHANGED wasiVars PROVE Succeeds'
<1>1. UNCHANGED <<call, i, total, mem, answer, result, judged, out>>
  BY DEF wasiVars
<1>2. Lens' = Lens /\ Apart' = Apart
  BY <1>1 DEF Lens, Apart
<1>3. Whole'
  BY <1>1 DEF Succeeds, Whole
<1>4. Tallied'
  BY <1>1, <1>2 DEF Succeeds, Tallied
<1>5. Answered => Answered'
  BY <1>1 DEF Answered, Waits, Told
<1>6. Polled'
  BY <1>1, <1>2, <1>5 DEF Succeeds, Polled
<1> QED
  BY <1>3, <1>4, <1>6 DEF Succeeds

LEMMA HostSuccessMeansAll ==
  ASSUME WasiInv, Succeeds PROVE SuccessMeansAll
<1>1. ASSUME answer = "SUCCESS", NEW k \in DOMAIN judged PROVE judged[k].how \notin {"Deny", "Freeze"}
  BY <1>1 DEF Succeeds, Whole
<1>2. answer # "SUCCESS" => result = Nothing
  BY DEF Succeeds, Whole
<1>3. ASSUME call.fn = "fd_write", answer = "SUCCESS"
      PROVE  /\ Len(call.vecs) = call.count
             /\ {judged[k].vec : k \in DOMAIN judged} = {k \in 1 .. call.count : Lens[k] > 0}
             /\ \A j, k \in DOMAIN judged : j < k => judged[j].vec < judged[k].vec
             /\ result = <<Sums(Lens)[call.count] % Word>>
  <2>1. /\ i = call.count /\ i <= Len(call.vecs) /\ result = <<total>>
        /\ \A k \in DOMAIN judged : judged[k].vec \in 1 .. i /\ Lens[judged[k].vec] > 0
        /\ \A k \in 1 .. i : Lens[k] > 0 => \E j \in DOMAIN judged : judged[j].vec = k
        /\ \A j, k \in DOMAIN judged : j < k => judged[j].vec < judged[k].vec
        /\ total = Sums(Lens)[i] % Word
    BY <1>3 DEF Succeeds, Tallied
  <2>2. /\ call.count \in Nat /\ call.vecs \in [1 .. TableLen(call.count) -> Vecs]
        /\ TableLen(call.count) \in Nat /\ TableLen(call.count) <= call.count
    BY <1>3, TableFits, TableIsNoLonger DEF WasiInv, Table
  <2>3. Len(call.vecs) = TableLen(call.count)
    BY <2>2
  <2>4. Len(call.vecs) = call.count
    BY <2>1, <2>2, <2>3
  <2>5. {judged[k].vec : k \in DOMAIN judged} = {k \in 1 .. call.count : Lens[k] > 0}
    BY <2>1
  <2> QED
    BY <2>1, <2>4, <2>5
<1> QED
  BY <1>1, <1>2, <1>3 DEF SuccessMeansAll, Lens

LEMMA HostAnswersSubscriptions ==
  ASSUME WasiInv, Succeeds PROVE PollAnswersItsSubscriptions
<1> SUFFICES ASSUME call.fn = "poll_oneoff", answer = "SUCCESS", Apart
             PROVE  LET n    == call.n
                        tag  == [k \in 1 .. n |-> call.subs[k].tag]
                        outs == call.at .. call.at + 2 * call.n - 1
                        dues == {call.subs[k].timeout : k \in {j \in 1 .. n : tag[j] = Clock}}
                                  \cup {Forever}
                    IN  /\ result = <<n>> /\ mem[call.res].lo = n
                        /\ \A k \in 1 .. n :
                             /\ tag[k] \in {0, 1, 2}
                             /\ mem[call.at + 2 * (k - 1)]
                                  = Unit(k, IF tag[k] = Clock THEN 0 ELSE Notsup, tag[k])
                        /\ total \in dues /\ \A d \in dues : total <= d
                        /\ \A u \in DOMAIN mem \ (outs \cup {call.res}) :
                             mem[u] = Laid(call.in, call.subs)[u]
  BY DEF PollAnswersItsSubscriptions, Apart
<1>1. /\ i = call.n /\ result = <<i>> /\ mem[call.res].lo = i /\ Answered
      /\ Told = {call.res}
  BY DEF Succeeds, Polled, Told
<1>2. total \in 0 .. Forever /\ Forever \in Nat
  BY WordIsNat DEF WasiInv, WasiTypeOK
<1>3. total <= Forever
  BY <1>2
<1> QED
  BY <1>1, <1>3 DEF Answered, Waits

-----------------------------------------------------------------------------
(* GuestExecutor: the life cycle, and what ties it to the calls.           *)

(* Runtimes are numbered as they are made.                                 *)
Numbered ==
  /\ loads \in Nat /\ runtime \in 0 .. loads /\ module \in 0 .. loads
  /\ cancel \in 0 .. loads /\ open \subseteq 1 .. loads /\ live \subseteq 1 .. loads

Bounded ==
  /\ loads <= MaxLoads /\ calls \in 0 .. MaxCalls /\ closed \in BOOLEAN
  /\ run \in {"idle", "loading", "guest"}
  /\ ret \in {"none", "loaded", "code", "error", "panic"}

(* A call is made by a guest under way only, and its Load chose the        *)
(* interceptor; before the first Load there is none.                       *)
Chosen ==
  /\ run = "idle" => call.fn = "none"
  /\ run # "idle" => loads > 0
  /\ config \in {"nil", "policy"}
  /\ intercept = IF loads > 0 THEN InterceptorOf(config) ELSE "nil"

IInv == WasiInv /\ Numbered /\ Bounded /\ Chosen /\ LoadedIsWhole

LEMMA Initially == Init => IInv
<1> SUFFICES ASSUME Init PROVE IInv
  OBVIOUS
<1>1. call.fn = "none" /\ i = 0 /\ total = 0 /\ answer = "running"
      /\ result = <<>> /\ judged = <<>> /\ out = <<>>
  BY DEF Init, WasiInit, Idle, Nothing
<1>2. WasiTypeOK
  <2>1. <<>> \in Seq(Nat) /\ Len(<<>>) = 0 /\ <<>> \in Seq([vec : Nat, whole : BOOLEAN])
    OBVIOUS
  <2> QED
    BY <1>1, <2>1, Unjudged, WordIsNat DEF WasiTypeOK
<1>3. WasiInv
  BY <1>1, <1>2 DEF WasiInv, Fresh, Table, Buffers, In, Trace, Unrefused, PanicOnlyOnWrap, Nothing
<1>4. Numbered
  BY DEF Init, Numbered
<1>5. Chosen
  BY <1>1 DEF Init, Chosen
<1>6. Bounded
  <2>1. loads <= MaxLoads /\ calls \in 0 .. MaxCalls
    BY ExecutorAssumption DEF Init
  <2>2. closed \in BOOLEAN
    BY DEF Init
  <2> QED
    BY <2>1, <2>2 DEF Init, Bounded
<1>7. LoadedIsWhole
  BY DEF Init, LoadedIsWhole
<1> QED
  BY <1>3, <1>4, <1>5, <1>6, <1>7 DEF IInv

(* An idle executor has no call under way, so whoever changes the          *)
(* interceptor changes it for none.                                        *)
LEMMA NoCallAnyInterceptor ==
  ASSUME WasiInv, call.fn = "none", UNCHANGED wasiVars PROVE WasiInv'
<1>1. judged = <<>> /\ answer = "running"
  BY DEF WasiInv, Fresh
<1>2. Unrefused'
  BY <1>1 DEF Unrefused, wasiVars
<1> QED
  BY <1>2 DEF WasiInv, wasiVars, WasiTypeOK, Fresh, Table, Buffers, In, Trace, Through,
     Sources, Complete, Ordered, UpTo, PanicOnlyOnWrap

LEMMA WasiKept ==
  ASSUME WasiInv, UNCHANGED <<wasiVars, intercept>> PROVE WasiInv'
BY DEF WasiInv, wasiVars, WasiTypeOK, Fresh, Table, Buffers, In, Trace, Through,
   Sources, Complete, Ordered, UpTo, Unrefused, PanicOnlyOnWrap

LEMMA LoadStartsKeeps ==
  ASSUME IInv, LoadStarts, run' \in {"idle", "loading"}
  PROVE  /\ WasiInv' /\ Chosen'
         /\ loads \in Nat /\ loads' = loads + 1 /\ loads' <= MaxLoads /\ cancel' = loads'
         /\ live \subseteq 1 .. loads /\ live' = live \cup {loads'}
         /\ calls' \in 0 .. MaxCalls /\ closed' \in BOOLEAN
         /\ open = {} /\ module' = 0
<1>1. run = "idle" /\ call.fn = "none" /\ loads \in Nat /\ WasiInv /\ live \subseteq 1 .. loads
  BY DEF IInv, LoadStarts, Chosen, Numbered
<1>2. WasiInv'
  BY <1>1, NoCallAnyInterceptor DEF LoadStarts
<1>3. loads' = loads + 1 /\ UNCHANGED <<wasiVars, module, calls, closed>>
  BY DEF LoadStarts
<1>4. Chosen'
  BY <1>1, <1>3 DEF LoadStarts, Chosen, wasiVars
<1>5. open = {} /\ module = 0
  BY <1>1 DEF IInv, LoadStarts, LoadedIsWhole
<1>6. loads + 1 <= MaxLoads
  BY <1>1, ExecutorAssumption DEF LoadStarts
<1> QED
  BY <1>1, <1>2, <1>3, <1>4, <1>5, <1>6 DEF LoadStarts, IInv, Bounded

LEMMA LoadBeginsKeeps == IInv /\ (LoadInstantiates \/ LoadFails) => IInv'
<1> SUFFICES ASSUME IInv, LoadInstantiates \/ LoadFails PROVE IInv'
  OBVIOUS
<1>1. /\ LoadStarts /\ run' \in {"idle", "loading"}
      /\ ret' \in {"none", "error"}
      /\ \/ run' = "loading" /\ runtime' = loads' /\ open' = open \cup {loads'}
         \/ run' = "idle" /\ runtime' = 0 /\ open' = open \ {loads'}
  BY DEF LoadInstantiates, LoadFails, ClosesRuntime, LoadStarts
<1>2. /\ loads \in Nat /\ loads' = loads + 1 /\ loads' <= MaxLoads /\ cancel' = loads'
      /\ live' = live \cup {loads'} /\ live \subseteq 1 .. loads
      /\ calls' \in 0 .. MaxCalls /\ closed' \in BOOLEAN
      /\ open = {} /\ module' = 0
  BY <1>1, LoadStartsKeeps
<1>3. Numbered'
  BY <1>1, <1>2 DEF Numbered
<1>4. Bounded'
  BY <1>1, <1>2 DEF Bounded
<1>5. LoadedIsWhole'
  BY <1>1, <1>2 DEF LoadedIsWhole
<1> QED
  BY <1>1, <1>3, <1>4, <1>5, LoadStartsKeeps DEF IInv

LEMMA GuestStops ==
  ASSUME WasiInv, GuestOver \/ GuestDies, intercept' = intercept
  PROVE  WasiInv' /\ call'.fn = "none"
BY WasiKept, CallOverKeeps DEF GuestOver, GuestDies, CallOver, Idle, wasiVars

(* The end of Load, with a module, an error or a panic.                    *)
LEMMA LoadEndsKeeps == IInv /\ (LoadEnds \/ InstanceFails) => IInv'
<1> SUFFICES ASSUME IInv, LoadEnds \/ InstanceFails PROVE IInv'
  OBVIOUS
<1>1. /\ run = "loading" /\ run' = "idle" /\ module = 0 /\ open = {runtime} \ {0}
      /\ UNCHANGED <<cancel, closed, live, config, intercept, loads, calls>>
      /\ GuestOver \/ GuestDies
      /\ ret' \in {"loaded", "error", "panic"}
      /\ \/ module' = runtime /\ UNCHANGED <<runtime, open>>
         \/ module' = 0 /\ runtime' = 0 /\ open' = open \ {runtime}
         \/ module' = 0 /\ runtime = 0 /\ UNCHANGED <<runtime, open>>
  BY DEF IInv, LoadedIsWhole, LoadEnds, InstanceFails, Loading, ClosesRuntime
<1>2. WasiInv' /\ call'.fn = "none"
  BY <1>1, GuestStops DEF IInv
<1>3. Numbered'
  BY <1>1 DEF IInv, Numbered
<1>4. Bounded'
  BY <1>1 DEF IInv, Bounded
<1>5. LoadedIsWhole'
  BY <1>1 DEF IInv, LoadedIsWhole
<1>6. Chosen'
  BY <1>1, <1>2 DEF IInv, Chosen
<1> QED
  BY <1>2, <1>3, <1>4, <1>5, <1>6 DEF IInv

(* A step of a guest, or one that changes nothing but ret.                 *)
LEMMA LifeKept ==
  ASSUME IInv, UNCHANGED <<exeVars, intercept, loads>>, WasiInv',
         calls' \in 0 .. MaxCalls,
         ret' \in {"none", "loaded", "code", "error", "panic"},
         run' \in {"idle", "loading", "guest"},
         run' = "loading" <=> run = "loading",
         run' = "idle" => call'.fn = "none",
         run' # "idle" => loads > 0
  PROVE  IInv'
<1>1. Numbered' /\ LoadedIsWhole' /\ Bounded'
  BY DEF IInv, exeVars, Numbered, LoadedIsWhole, Bounded
<1>2. Chosen'
  BY DEF IInv, exeVars, Chosen
<1> QED
  BY <1>1, <1>2 DEF IInv

LEMMA RunKeeps ==
  IInv /\ (AlreadyLoaded \/ RunRefuses \/ Run \/ RunReturns \/ UNCHANGED vars) => IInv'
<1> USE DEF Bounded
<1> SUFFICES ASSUME IInv PROVE
      AlreadyLoaded \/ RunRefuses \/ Run \/ RunReturns \/ UNCHANGED vars => IInv'
  OBVIOUS
<1>1. WasiInv /\ Bounded /\ Chosen /\ (module # 0 => loads > 0)
  BY DEF IInv, Numbered
<1>2. ASSUME AlreadyLoaded \/ RunRefuses \/ UNCHANGED vars PROVE IInv'
  <2>1. UNCHANGED <<wasiVars, exeVars, intercept, loads, calls, run>>
        /\ ret' \in {ret, "error"}
    BY <1>2 DEF AlreadyLoaded, RunRefuses, vars
  <2>2. WasiInv' /\ call' = call
    BY <1>1, <2>1, WasiKept DEF wasiVars
  <2> QED
    BY <1>1, <2>1, <2>2, LifeKept DEF Chosen
<1>3. ASSUME Run PROVE IInv'
  <2>1. WasiInv'
    BY <1>1, <1>3, WasiKept DEF Run
  <2> QED
    BY <1>1, <1>3, <2>1, LifeKept DEF Run
<1>4. ASSUME RunReturns PROVE IInv'
  <2>1. WasiInv' /\ call'.fn = "none"
    BY <1>1, <1>4, GuestStops DEF RunReturns
  <2> QED
    BY <1>1, <1>4, <2>1, LifeKept DEF RunReturns
<1> QED
  BY <1>2, <1>3, <1>4

LEMMA GuestKeeps == IInv /\ (GuestCall \/ HostStep) => IInv'
<1> SUFFICES ASSUME IInv PROVE GuestCall \/ HostStep => IInv'
  OBVIOUS
<1>1. WasiInv /\ Bounded /\ Chosen
  BY DEF IInv
<1>2. ASSUME GuestCall PROVE IInv'
  <2>1. WasiInv'
    BY <1>2, GuestCallsKeep DEF GuestCall
  <2>2. calls' \in 0 .. MaxCalls
    BY <1>1, <1>2, ExecutorAssumption DEF GuestCall, Bounded
  <2> QED
    BY <1>1, <1>2, <2>1, <2>2, LifeKept DEF GuestCall, Bounded, Chosen
<1>3. ASSUME HostStep PROVE IInv'
  <2>1. WasiInv'
    BY <1>1, <1>3, HostStepsKeep DEF HostStep
  <2>2. run = "idle" => call'.fn = "none"
    BY <1>1, <1>3 DEF Chosen, HostStep, HostSteps, Iovec, FdWriteEnds, PollSub,
       PollEnds, HostReturns, CallOver, In, Idle
  <2> QED
    BY <1>1, <1>3, <2>1, <2>2, LifeKept DEF HostStep, Bounded, Chosen
<1> QED
  BY <1>2, <1>3

LEMMA TerminateKeeps == IInv /\ Terminate => IInv'
<1> SUFFICES ASSUME IInv, Terminate PROVE IInv'
  OBVIOUS
<1>1. open' = {} /\ runtime' = 0 /\ module' = 0 /\ live' \subseteq live
  BY DEF IInv, Terminate, LoadedIsWhole
<1>2. Numbered' /\ LoadedIsWhole' /\ Bounded' /\ Chosen'
  BY <1>1 DEF IInv, Terminate, Numbered, LoadedIsWhole, Bounded, Chosen, wasiVars
<1>3. WasiInv'
  BY WasiKept DEF IInv, Terminate
<1> QED
  BY <1>2, <1>3 DEF IInv

(* The inductive invariant of the executor and its guests.                 *)
THEOREM Invariant == Spec => []IInv
<1>1. IInv /\ [Next]_vars => IInv'
  BY LoadBeginsKeeps, LoadEndsKeeps, RunKeeps, GuestKeeps, TerminateKeeps DEF Next
<1> QED
  BY Initially, <1>1, PTL DEF Spec

(* No variable leaves its type: the counter of fd_write stays in its word, *)
(* and a call stores at most one result.                                   *)
THEOREM TypeCorrect == Spec => []TypeOK
<1>1. IInv => TypeOK
  BY ExecutorAssumption DEF IInv, WasiInv, Numbered, Bounded, Chosen, InterceptorOf,
     Interceptors, TypeOK
<1> QED
  BY Invariant, <1>1, PTL

(* After any sequence of Load, Run and Terminate, failed ones and a        *)
(* Terminate out of a start section included, the executor holds one open  *)
(* runtime, with its context and, once Load has ended, its module, or none.*)
THEOREM LoadedWhole == Spec => []LoadedIsWhole
<1>1. IInv => LoadedIsWhole
  BY DEF IInv
<1> QED
  BY Invariant, <1>1, PTL

(* The stdout and stderr of the host are handed what the interceptor let   *)
(* through, in order and once, for any tables, buffers and decisions.      *)
THEOREM OutputIsDecided == Spec => []OutputFollowsDecisions
<1>1. IInv => OutputFollowsDecisions
  BY HostFollowsDecisions DEF IInv
<1> QED
  BY Invariant, <1>1, PTL

(* The loops of fd_write and poll_oneoff stay inside the buffers they were *)
(* given, for any word, as long as the length did not wrap around it.      *)
THEOREM PanicNeedsWrap == Spec => []PanicOnlyOnWrap
<1>1. IInv => PanicOnlyOnWrap
  BY DEF IInv, WasiInv
<1> QED
  BY Invariant, <1>1, PTL

(* A guest loaded without an interceptor is refused nothing, whatever the  *)
(* Loads before it were given.                                             *)
THEOREM DefaultAllows == Spec => []DefaultRefusesNothing
<1>1. IInv => DefaultRefusesNothing
  <2> SUFFICES ASSUME IInv, config = "nil"
               PROVE  /\ answer \notin {"ACCES", "frozen"}
                      /\ \A k \in DOMAIN judged : judged[k].how = "Allow"
    BY DEF DefaultRefusesNothing
  <2>1. CASE call.fn = "none"
    BY <2>1 DEF IInv, WasiInv, Fresh
  <2>2. CASE call.fn # "none"
    <3>1. intercept = "AllowAll"
      BY <2>2 DEF IInv, Bounded, Chosen, InterceptorOf
    <3> QED
      BY <3>1 DEF IInv, WasiInv, Unrefused
  <2> QED
    BY <2>1, <2>2
<1> QED
  BY Invariant, <1>1, PTL

LEMMA Successful ==
  ASSUME IInv, Succeeds, [Next]_vars PROVE Succeeds'
<1>1. WasiInv
  BY DEF IInv
<1>2. CASE GuestCall
  BY <1>2, GuestCallsSucceed DEF GuestCall
<1>3. CASE HostStep
  BY <1>1, <1>3, HostStepsSucceed DEF HostStep
<1>4. CASE RunReturns \/ LoadEnds \/ InstanceFails
  <2>1. GuestOver \/ GuestDies
    BY <1>4 DEF RunReturns, LoadEnds, InstanceFails
  <2> QED
    BY <2>1, CallOverSucceeds, SuccessKept DEF GuestOver, GuestDies
<1>5. CASE \/ LoadInstantiates \/ LoadFails \/ AlreadyLoaded \/ RunRefuses \/ Run
           \/ Terminate \/ UNCHANGED vars
  BY <1>5, SuccessKept DEF LoadInstantiates, LoadFails, LoadStarts, AlreadyLoaded, RunRefuses,
     Run, Terminate, vars
<1> QED
  BY <1>2, <1>3, <1>4, <1>5 DEF Next

(* What is known of calls that have not failed, at any time.               *)
THEOREM SuccessInvariant == Spec => []Succeeds
<1>1. Init => Succeeds
  BY DEF Init, WasiInit, Idle, Succeeds, Whole, Tallied, Polled
<1>2. IInv /\ Succeeds /\ [Next]_vars => Succeeds'
  BY Successful
<1> QED
  BY Invariant, <1>1, <1>2, PTL DEF Spec

(* A call that reports success was refused in no part, and an fd_write     *)
(* that does has had every non-empty buffer judged, in order, and tells    *)
(* the guest the sum of all the lengths as a uint32 has it, for any table  *)
(* and any width of the counter; a call that does not succeed stores       *)
(* nothing.                                                                *)
THEOREM SuccessIsWhole == Spec => []SuccessMeansAll
<1>1. IInv /\ Succeeds => SuccessMeansAll
  BY HostSuccessMeansAll DEF IInv
<1> QED
  BY Invariant, SuccessInvariant, <1>1, PTL

(* A poll_oneoff that succeeds has answered every subscription, each in    *)
(* its place, waits for the earliest clock and has changed nothing beside  *)
(* its events and their number, for any number of subscriptions and any    *)
(* memory in which the events overlap neither the table nor that number.   *)
THEOREM PollIsAnswered == Spec => []PollAnswersItsSubscriptions
<1>1. IInv /\ Succeeds => PollAnswersItsSubscriptions
  BY HostAnswersSubscriptions DEF IInv
<1> QED
  BY Invariant, SuccessInvariant, <1>1, PTL
=============================================================================
