----------------------------- MODULE Tui_proofs -----------------------------
(***************************************************************************)
(* The trace table of gbrl-tui shows the latest events, for any capacity   *)
(* of eventCh and of the channel of updates, any length of the table, any  *)
(* number of dumps at a time, of syscalls and of keys.                     *)
(***************************************************************************)
EXTENDS Tui, TLAPS, SequenceTheorems

(* What QueueUpdateDraw carries: a closure belongs to a goroutine that has *)
(* posted and not been served, and only the drain goroutine's adds a row.  *)
Kinds == {"none", "log", "row", "STEPPING", "ERROR", "EXITED"}
Body  == [kind : Kinds, event : Nat]

Bodies ==
  /\ body \in [Goroutines -> Body]
  /\ \A g \in Goroutines :
       /\ post[g] = "none" => body[g] = Nothing
       /\ body[g].kind = "row" => g = "drain" /\ body[g].event \in 1 .. MaxEvents

(* TableShowsLatest, event by event: Shown events are in the past of the   *)
(* table, the next one may be in the hands of the drain goroutine, and the *)
(* channel has the rest.                                                   *)
InHand == IF body["drain"].kind = "row" THEN 1 ELSE 0
Shown  == Len(sent) - Len(eventCh) - InHand

Latest ==
  /\ sent \in Seq(1 .. MaxEvents) /\ Shown >= 0
  /\ \A k \in 1 .. Len(eventCh) : eventCh[k] = sent[Len(sent) - Len(eventCh) + k]
  /\ InHand = 1 => body["drain"].event = sent[Shown + 1]
  /\ Len(rows) = IF Shown > MaxRows THEN MaxRows ELSE Shown
  /\ \A k \in 1 .. Len(rows) : rows[k] = sent[Shown - Len(rows) + k]
  /\ traceRow = Len(rows) + 1

IInv == TypeOK /\ Bodies /\ Latest

-----------------------------------------------------------------------------
LEMMA Constants ==
  /\ EventCap \in Nat \ {0} /\ UpdatesCap \in Nat \ {0} /\ MaxRows \in Nat \ {0}
  /\ MaxEvents \in Nat /\ MaxKeys \in Nat
  /\ \A d \in Dumpers : d \notin {"main", "monitor", "drain", "entropy", "clock"}
  BY TuiAssumption

LEMMA Appended ==
  ASSUME NEW S, NEW s \in Seq(S), NEW e \in S, NEW t, t = Append(s, e)
  PROVE  /\ t \in Seq(S) /\ Len(s) \in Nat /\ Len(t) = Len(s) + 1
         /\ t[Len(s) + 1] = e /\ \A k \in 1 .. Len(s) : t[k] = s[k]
  BY AppendProperties, LenProperties

LEMMA HeadTaken ==
  ASSUME NEW S, NEW s \in Seq(S), s # <<>>, NEW t, t = Tail(s)
  PROVE  /\ t \in Seq(S) /\ Len(s) \in Nat /\ Len(s) >= 1 /\ Len(t) = Len(s) - 1
         /\ Head(s) = s[1] /\ s[1] \in S /\ \A k \in 1 .. Len(s) - 1 : t[k] = s[k + 1]
<1>1. Len(s) \in Nat /\ Len(s) >= 1
  BY EmptySeq, LenProperties
<1>2. s[1] \in S /\ Head(s) = s[1]
  BY <1>1
<1> QED BY <1>1, <1>2, HeadTailProperties

LEMMA InitHolds == Init => IInv
<1> SUFFICES ASSUME Init PROVE IInv
  OBVIOUS
<1>0. <<>> \in Seq(Goroutines) /\ <<>> \in Seq(1 .. MaxEvents) /\ <<>> \in Seq({"F1", "F2", "F3", "Q"})
      /\ Len(<<>>) = 0
  BY EmptySeq
<1>1. TypeOK
  <2>1. post \in [Goroutines -> {"none", "send", "wait"}] /\ pressed \in 0 .. MaxKeys
        /\ events \in 0 .. MaxEvents /\ traceRow \in 1 .. MaxRows + 1
    BY Constants DEF Init
  <2>2. Len(updates) <= UpdatesCap /\ Len(eventCh) <= EventCap /\ Len(rows) <= MaxRows
    BY <1>0, Constants DEF Init
  <2> QED BY <1>0, <2>1, <2>2 DEF Init, TypeOK
<1>2. Bodies
  BY DEF Init, Bodies, Body, Kinds, Nothing
<1>3. body["drain"] = Nothing /\ InHand = 0
  BY DEF Init, InHand, Nothing, Goroutines
<1>4. Latest
  BY <1>3, Constants DEF Init, Latest, Shown
<1> QED BY <1>1, <1>2, <1>4 DEF IInv

(* A goroutine other than the drain goroutine posts.                       *)
LEMMA PostKeeps ==
  ASSUME TypeOK, Bodies, NEW g \in Goroutines, g # "drain",
         NEW b \in Body, b.kind # "row", Post(g, b)
  PROVE  /\ Bodies' /\ post' \in [Goroutines -> {"none", "send", "wait"}]
         /\ updates' = updates /\ body'["drain"] = body["drain"]
<1>1. "drain" \in Goroutines
  BY DEF Goroutines
<1>2. post' = [post EXCEPT ![g] = "send"] /\ body' = [body EXCEPT ![g] = b]
  BY DEF Post
<1>3. post \in [Goroutines -> {"none", "send", "wait"}] /\ body \in [Goroutines -> Body]
  BY DEF TypeOK, Bodies
<1>4. Bodies'
  BY <1>2, <1>3 DEF Bodies
<1> QED BY <1>1, <1>2, <1>3, <1>4 DEF Post

(* A step that leaves the events where they are.                           *)
LEMMA LatestStays ==
  ASSUME Latest, UNCHANGED <<rows, traceRow, eventCh, sent>>, body'["drain"] = body["drain"]
  PROVE  Latest'
<1>1. InHand' = InHand /\ Shown' = Shown
  BY DEF InHand, Shown
<1> QED BY <1>1 DEF Latest

LEMMA LogIsBody ==
  /\ Log \in Body /\ Log.kind # "row"
  /\ \A s \in {"STEPPING", "ERROR", "EXITED"} : Header(s) \in Body /\ Header(s).kind # "row"
  BY DEF Log, Header, Body, Kinds

-----------------------------------------------------------------------------
(* The steps that move an event                                            *)

LEMMA OfferKeeps ==
  ASSUME IInv, RunEvent
  PROVE  IInv'
<1>1. /\ events' \in 1 .. MaxEvents /\ Offer(events') /\ mpc' \in {"top", "frozen"}
      /\ UNCHANGED <<closed, pid, loopVars, postVars, uiVars, dpc, dumping>>
  BY Constants DEF RunEvent, IInv, TypeOK, MonitorGo
<1>2. UNCHANGED <<body, post, updates, rows, traceRow>> /\ InHand' = InHand
  BY <1>1 DEF postVars, uiVars, InHand
<1>3. /\ eventCh \in Seq(1 .. MaxEvents) /\ sent \in Seq(1 .. MaxEvents)
      /\ Len(eventCh) <= EventCap /\ InHand \in {0, 1} /\ MaxRows \in Nat /\ EventCap \in Nat
      /\ Len(eventCh) \in Nat /\ Len(sent) \in Nat /\ Len(rows) \in Nat
  BY Constants DEF IInv, TypeOK, Latest, InHand
<1>4. CASE UNCHANGED <<eventCh, sent>>
  <2>1. Latest'
    BY <1>2, <1>4, LatestStays DEF IInv
  <2>2. TypeOK'
    BY <1>1, <1>4 DEF IInv, TypeOK, loopVars, postVars, uiVars
  <2>3. Bodies'
    BY <1>2 DEF IInv, Bodies
  <2> QED BY <2>1, <2>2, <2>3 DEF IInv
<1>5. CASE /\ Len(eventCh) < EventCap
           /\ eventCh' = Append(eventCh, events') /\ sent' = Append(sent, events')
  <2>1. /\ eventCh' \in Seq(1 .. MaxEvents) /\ sent' \in Seq(1 .. MaxEvents)
        /\ Len(eventCh') = Len(eventCh) + 1 /\ Len(sent') = Len(sent) + 1
        /\ \A k \in 1 .. Len(sent) : sent'[k] = sent[k]
        /\ \A k \in 1 .. Len(eventCh) : eventCh'[k] = eventCh[k]
        /\ sent'[Len(sent) + 1] = events' /\ eventCh'[Len(eventCh) + 1] = events'
    BY <1>1, <1>3, <1>5, AppendProperties
  <2>2. Shown' = Shown /\ Shown \in Nat /\ Shown + InHand <= Len(sent)
    BY <1>2, <1>3, <2>1 DEF Shown, Latest, IInv
  <2>3. \A k \in 1 .. Len(eventCh') : eventCh'[k] = sent'[Len(sent') - Len(eventCh') + k]
    <3> SUFFICES ASSUME NEW k \in 1 .. Len(eventCh')
                 PROVE  eventCh'[k] = sent'[Len(sent') - Len(eventCh') + k]
      OBVIOUS
    <3>1. CASE k = Len(eventCh) + 1
      BY <3>1, <1>3, <2>1
    <3>2. CASE k \in 1 .. Len(eventCh)
      <4>1. Len(eventCh) <= Len(sent)
        BY <1>3, <2>2 DEF Shown
      <4>2. PICK l : l = Len(sent) - Len(eventCh) + k
        OBVIOUS
      <4>3. l \in 1 .. Len(sent) /\ Len(sent') - Len(eventCh') + k = l
        BY <3>2, <1>3, <2>1, <4>1, <4>2
      <4>4. eventCh[k] = sent[l]
        BY <3>2, <4>2 DEF Latest, IInv
      <4> QED BY <3>2, <2>1, <4>3, <4>4
    <3> QED BY <3>1, <3>2, <1>3, <2>1
  <2>4. Latest'
    <3>1. /\ Len(rows) = IF Shown > MaxRows THEN MaxRows ELSE Shown
          /\ \A k \in 1 .. Len(rows) : rows[k] = sent[Shown - Len(rows) + k]
          /\ InHand = 1 => body["drain"].event = sent[Shown + 1]
          /\ traceRow = Len(rows) + 1
      BY DEF IInv, Latest
    <3>2. \A k \in 1 .. Len(rows) : rows[k] = sent'[Shown - Len(rows) + k]
      <4> SUFFICES ASSUME NEW k \in 1 .. Len(rows)
                   PROVE  rows[k] = sent'[Shown - Len(rows) + k]
        OBVIOUS
      <4>1. Shown - Len(rows) + k \in 1 .. Len(sent)
        BY <1>3, <2>2, <3>1
      <4> QED BY <2>1, <3>1, <4>1
    <3>3. InHand = 1 => body["drain"].event = sent'[Shown + 1]
      BY <1>3, <2>1, <2>2, <3>1
    <3> QED BY <1>2, <2>1, <2>2, <2>3, <3>1, <3>2, <3>3 DEF Latest
  <2>5. TypeOK'
    BY <1>1, <1>3, <1>5, <2>1 DEF IInv, TypeOK, loopVars, postVars, uiVars
  <2>6. Bodies'
    BY <1>2 DEF IInv, Bodies
  <2> QED BY <2>4, <2>5, <2>6 DEF IInv
<1> QED BY <1>1, <1>4, <1>5 DEF Offer

LEMMA DrainEventKeeps ==
  ASSUME IInv, DrainEvent
  PROVE  IInv'
<1>1. /\ eventCh # <<>> /\ eventCh' = Tail(eventCh) /\ post["drain"] = "none"
      /\ Post("drain", Row(Head(eventCh)))
      /\ UNCHANGED <<mpc, closed, pid, events, sent, loopVars, uiVars, dpc, dumping>>
  BY DEF DrainEvent, Idle
<1>2. /\ eventCh \in Seq(1 .. MaxEvents) /\ sent \in Seq(1 .. MaxEvents) /\ "drain" \in Goroutines
      /\ Len(eventCh) \in Nat /\ Len(sent) \in Nat /\ Len(rows) \in Nat
      /\ body \in [Goroutines -> Body] /\ post \in [Goroutines -> {"none", "send", "wait"}]
  BY DEF IInv, TypeOK, Latest, Bodies, Goroutines
<1>3. /\ Head(eventCh) = eventCh[1] /\ eventCh[1] \in 1 .. MaxEvents
      /\ Tail(eventCh) \in Seq(1 .. MaxEvents)
      /\ Len(eventCh') = Len(eventCh) - 1 /\ Len(eventCh) >= 1
      /\ \A k \in 1 .. Len(eventCh') : eventCh'[k] = eventCh[k + 1]
  <2> DEFINE E == 1 .. MaxEvents
  <2>1. eventCh \in Seq(E) /\ eventCh # <<>> /\ eventCh' = Tail(eventCh)
    BY <1>1, <1>2
  <2> HIDE DEF E
  <2>2. /\ eventCh' \in Seq(E) /\ Len(eventCh) >= 1 /\ Len(eventCh') = Len(eventCh) - 1
        /\ Head(eventCh) = eventCh[1] /\ eventCh[1] \in E
        /\ \A k \in 1 .. Len(eventCh) - 1 : eventCh'[k] = eventCh[k + 1]
    BY <2>1, HeadTaken
  <2> QED BY <2>1, <2>2 DEF E
<1>4. body["drain"] = Nothing /\ InHand = 0
  BY <1>1, <1>2 DEF IInv, Bodies, InHand, Nothing
<1>5. /\ body' = [body EXCEPT !["drain"] = [kind |-> "row", event |-> eventCh[1]]]
      /\ post' = [post EXCEPT !["drain"] = "send"] /\ updates' = updates
  BY <1>1, <1>3 DEF Post, Row
<1>6. body'["drain"] = [kind |-> "row", event |-> eventCh[1]] /\ InHand' = 1
  BY <1>2, <1>5 DEF InHand
<1>7. Bodies'
  BY <1>2, <1>3, <1>5, Constants DEF IInv, Bodies, Body, Kinds
<1>8. Latest'
  <2>1. Shown' = Shown /\ Shown \in Nat /\ sent' = sent /\ rows' = rows /\ traceRow' = traceRow
    BY <1>1, <1>2, <1>3, <1>4, <1>6 DEF Shown, Latest, IInv, uiVars
  <2>2. \A k \in 1 .. Len(eventCh') : eventCh'[k] = sent'[Len(sent') - Len(eventCh') + k]
    <3> SUFFICES ASSUME NEW k \in 1 .. Len(eventCh')
                 PROVE  eventCh[k + 1] = sent[Len(sent) - Len(eventCh') + k]
      BY <1>3, <2>1
    <3>1. k + 1 \in 1 .. Len(eventCh) /\ Len(sent) - Len(eventCh') + k = Len(sent) - Len(eventCh) + (k + 1)
      BY <1>2, <1>3
    <3> QED BY <3>1 DEF IInv, Latest
  <2>3. body'["drain"].event = sent'[Shown' + 1]
    <3>1. eventCh[1] = sent[Len(sent) - Len(eventCh) + 1]
      BY <1>2, <1>3 DEF IInv, Latest
    <3>2. Shown + 1 = Len(sent) - Len(eventCh) + 1
      BY <1>2, <1>4 DEF Shown
    <3> QED BY <1>6, <2>1, <3>1, <3>2
  <2> QED BY <1>2, <2>1, <2>2, <2>3, <1>6 DEF IInv, Latest
<1>9. TypeOK'
  <2>1. eventCh' \in Seq(1 .. MaxEvents) /\ Len(eventCh') <= EventCap
    BY <1>1, <1>2, <1>3, Constants DEF IInv, TypeOK
  <2>2. post' \in [Goroutines -> {"none", "send", "wait"}]
    BY <1>2, <1>5
  <2> QED BY <1>1, <1>5, <2>1, <2>2 DEF IInv, TypeOK, loopVars, uiVars
<1> QED BY <1>7, <1>8, <1>9 DEF IInv

(* The table when the drain goroutine's row goes into it.                  *)
LEMMA RowAdded ==
  ASSUME TypeOK, Latest, InHand = 1, body["drain"].event \in 1 .. MaxEvents,
         AddRow(body["drain"].event),
         InHand' = 0, eventCh' = eventCh, sent' = sent
  PROVE  /\ Latest' /\ rows' \in Seq(1 .. MaxEvents) /\ Len(rows') <= MaxRows
         /\ traceRow' \in 1 .. MaxRows + 1
<1> DEFINE e == body["drain"].event
<1>1. /\ rows \in Seq(1 .. MaxEvents) /\ Len(rows) \in Nat /\ Len(rows) <= MaxRows
      /\ MaxRows \in Nat \ {0}
      /\ sent \in Seq(1 .. MaxEvents) /\ Len(sent) \in Nat /\ Len(eventCh) \in Nat
      /\ traceRow = Len(rows) + 1
  BY Constants DEF TypeOK, Latest
<1>2. /\ Shown \in Nat /\ e = sent[Shown + 1]
      /\ Len(rows) = IF Shown > MaxRows THEN MaxRows ELSE Shown
      /\ \A k \in 1 .. Len(rows) : rows[k] = sent[Shown - Len(rows) + k]
  <2>1. Shown \in Nat
    BY <1>1 DEF Latest, Shown
  <2> QED BY <2>1 DEF Latest
<1>5. Shown' = Shown + 1
  BY <1>1 DEF Shown
<1> HIDE DEF e
<1>3. CASE Len(rows) >= MaxRows
  <2>0. rows' = Append(Tail(rows), e) /\ traceRow' = traceRow
    BY <1>1, <1>3 DEF AddRow, Full, e
  <2>1. /\ Tail(rows) \in Seq(1 .. MaxEvents)
        /\ Len(Tail(rows)) = Len(rows) - 1
        /\ \A k \in 1 .. Len(rows) - 1 : Tail(rows)[k] = rows[k + 1]
    <3>1. rows # <<>>
      BY <1>1, <1>3
    <3> QED BY <1>1, <3>1, HeadTaken
  <2>2. /\ rows' \in Seq(1 .. MaxEvents) /\ Len(rows') = Len(rows)
        /\ \A k \in 1 .. Len(rows) - 1 : rows'[k] = rows[k + 1]
        /\ rows'[Len(rows)] = e
    <3>1. e \in 1 .. MaxEvents /\ rows' = Append(Tail(rows), e)
      BY <2>0 DEF e
    <3>2. /\ rows' \in Seq(1 .. MaxEvents) /\ Len(rows') = Len(Tail(rows)) + 1
          /\ rows'[Len(Tail(rows)) + 1] = e
          /\ \A k \in 1 .. Len(Tail(rows)) : rows'[k] = Tail(rows)[k]
      BY <2>1, <3>1, Appended
    <3> QED BY <1>1, <2>1, <3>2
  <2>3. \A k \in 1 .. Len(rows') : rows'[k] = sent[Shown + 1 - Len(rows') + k]
    <3> SUFFICES ASSUME NEW k \in 1 .. Len(rows)
                 PROVE  rows'[k] = sent[Shown + 1 - Len(rows) + k]
      BY <2>2
    <3>1. CASE k = Len(rows)
      BY <3>1, <1>1, <1>2, <2>2
    <3>2. CASE k \in 1 .. Len(rows) - 1
      <4>1. k + 1 \in 1 .. Len(rows) /\ Shown - Len(rows) + (k + 1) = Shown + 1 - Len(rows) + k
        <5>1. Shown \in Nat /\ Len(rows) \in Nat
          BY <1>1, <1>2
        <5> QED BY <3>2, <5>1
      <4>2. rows'[k] = rows[k + 1] /\ rows[k + 1] = sent[Shown - Len(rows) + (k + 1)]
        BY <3>2, <4>1, <1>2, <2>2
      <4> QED BY <4>1, <4>2
    <3>3. k = Len(rows) \/ k \in 1 .. Len(rows) - 1
      BY <1>1
    <3> QED BY <3>1, <3>2, <3>3
  <2>4. Len(rows') = IF Shown' > MaxRows THEN MaxRows ELSE Shown'
    BY <1>1, <1>2, <1>3, <1>5, <2>2
  <2>5. \A k \in 1 .. Len(rows') : rows'[k] = sent'[Shown' - Len(rows') + k]
    <3>1. Shown' - Len(rows') = Shown + 1 - Len(rows') /\ sent' = sent
      BY <1>1, <1>2, <1>5, <2>2
    <3> QED BY <2>3, <3>1
  <2>6. Shown' >= 0
    BY <1>2, <1>5
  <2> QED BY <1>1, <2>0, <2>2, <2>4, <2>5, <2>6 DEF Latest
<1>4. CASE Len(rows) < MaxRows
  <2>0. rows' = Append(rows, e) /\ traceRow' = traceRow + 1
    BY <1>1, <1>4 DEF AddRow, Full, e
  <2>1. /\ rows' \in Seq(1 .. MaxEvents) /\ Len(rows') = Len(rows) + 1
        /\ \A k \in 1 .. Len(rows) : rows'[k] = rows[k]
        /\ rows'[Len(rows) + 1] = e
    <3>1. e \in 1 .. MaxEvents /\ rows' = Append(rows, e)
      BY <2>0 DEF e
    <3> QED BY <1>1, <3>1, Appended
  <2>2. Len(rows) = Shown
    BY <1>1, <1>2, <1>4
  <2>3. \A k \in 1 .. Len(rows') : rows'[k] = sent[Shown + 1 - Len(rows') + k]
    <3> SUFFICES ASSUME NEW k \in 1 .. Shown + 1 PROVE rows'[k] = sent[k]
      BY <1>2, <2>1, <2>2
    <3>1. CASE k = Shown + 1
      BY <3>1, <1>1, <1>2, <2>1, <2>2
    <3>2. CASE k \in 1 .. Shown
      <4>1. k \in 1 .. Len(rows) /\ Shown - Len(rows) + k = k
        BY <3>2, <1>1, <1>2, <2>2
      <4> QED BY <4>1, <1>2, <2>1
    <3>3. k = Shown + 1 \/ k \in 1 .. Shown
      BY <1>2
    <3> QED BY <3>1, <3>2, <3>3
  <2>4. Len(rows') = IF Shown' > MaxRows THEN MaxRows ELSE Shown'
    BY <1>1, <1>2, <1>4, <1>5, <2>1, <2>2
  <2> QED BY <1>1, <1>2, <1>4, <1>5, <2>0, <2>1, <2>3, <2>4 DEF Latest
<1> QED BY <1>1, <1>3, <1>4

LEMMA LoopUpdateKeeps ==
  ASSUME IInv, LoopUpdate
  PROVE  IInv'
<1> DEFINE g == Head(updates)
<1>1. /\ updates \in Seq(Goroutines) /\ g \in Goroutines /\ Tail(updates) \in Seq(Goroutines)
      /\ Len(Tail(updates)) <= UpdatesCap
      /\ body \in [Goroutines -> Body] /\ post \in [Goroutines -> {"none", "send", "wait"}]
      /\ "drain" \in Goroutines
  BY Constants, HeadTailProperties DEF LoopUpdate, IInv, TypeOK, Bodies, Goroutines
<1>2. /\ post' = [post EXCEPT ![g] = "none"] /\ body' = [body EXCEPT ![g] = Nothing]
      /\ IF body[g].kind = "row" THEN AddRow(body[g].event) ELSE UNCHANGED <<rows, traceRow>>
      /\ status' = IF body[g].kind \in {"STEPPING", "ERROR", "EXITED"}
                     THEN body[g].kind ELSE status
      /\ updates' = Tail(updates)
      /\ UNCHANGED <<loopVars, monVars, stepMode, killed, dpc, dumping>>
  BY DEF LoopUpdate
<1>3. Nothing \in Body /\ Nothing.kind # "row"
  BY DEF Nothing, Body, Kinds
<1>4. Bodies'
  BY <1>1, <1>2, <1>3 DEF IInv, Bodies
<1>5. /\ Latest' /\ rows' \in Seq(1 .. MaxEvents) /\ Len(rows') <= MaxRows
      /\ traceRow' \in 1 .. MaxRows + 1
  <2>1. CASE body[g].kind = "row"
    <3>1. g = "drain" /\ body["drain"].event \in 1 .. MaxEvents /\ InHand = 1
      BY <2>1, <1>1 DEF IInv, Bodies, InHand
    <3>2. InHand' = 0
      BY <3>1, <1>1, <1>2, <1>3 DEF InHand
    <3>3. AddRow(body["drain"].event) /\ eventCh' = eventCh /\ sent' = sent
      BY <2>1, <3>1, <1>2 DEF monVars
    <3> QED BY <3>1, <3>2, <3>3, RowAdded DEF IInv
  <2>2. CASE body[g].kind # "row"
    <3>1. InHand' = InHand
      BY <2>2, <1>1, <1>2, <1>3 DEF InHand
    <3>2. UNCHANGED <<rows, traceRow>> /\ eventCh' = eventCh /\ sent' = sent
      BY <2>2, <1>2 DEF monVars
    <3>3. InHand = 1 => body'["drain"] = body["drain"]
      BY <2>2, <1>1, <1>2 DEF InHand
    <3>4. Latest'
      BY <3>1, <3>2, <3>3 DEF IInv, Latest, Shown
    <3> QED BY <3>2, <3>4 DEF IInv, TypeOK
  <2> QED BY <2>1, <2>2
<1>6. TypeOK'
  BY <1>1, <1>2, <1>5 DEF IInv, TypeOK, loopVars, monVars
<1> QED BY <1>4, <1>5, <1>6 DEF IInv

-----------------------------------------------------------------------------
(* The other steps                                                         *)

(* A step that neither moves an event nor posts.                           *)
LEMMA NothingPosted ==
  ASSUME IInv, UNCHANGED <<rows, traceRow, eventCh, sent, post, body>>
  PROVE  Bodies' /\ Latest'
<1>1. Latest'
  BY LatestStays DEF IInv
<1> QED BY <1>1 DEF IInv, Bodies

(* A step that posts for a goroutine other than the drain goroutine.       *)
LEMMA OtherPosted ==
  ASSUME IInv, UNCHANGED <<rows, traceRow, eventCh, sent>>, NEW g \in Goroutines, g # "drain",
         NEW b \in Body, b.kind # "row", Post(g, b)
  PROVE  /\ Bodies' /\ Latest' /\ updates' = updates
         /\ post' \in [Goroutines -> {"none", "send", "wait"}]
<1>1. /\ Bodies' /\ updates' = updates /\ body'["drain"] = body["drain"]
      /\ post' \in [Goroutines -> {"none", "send", "wait"}]
  BY PostKeeps DEF IInv
<1> QED BY <1>1, LatestStays DEF IInv

LEMMA SendKeeps ==
  ASSUME IInv, NEW g \in Goroutines, Send(g)
  PROVE  IInv'
<1>1. /\ updates \in Seq(Goroutines) /\ updates' = Append(updates, g) /\ Len(updates) < UpdatesCap
      /\ post[g] = "send" /\ post' = [post EXCEPT ![g] = "wait"]
      /\ post \in [Goroutines -> {"none", "send", "wait"}] /\ body' = body
      /\ UNCHANGED <<loopVars, monVars, uiVars, dpc, dumping>>
  BY DEF Send, IInv, TypeOK
<1>2. updates' \in Seq(Goroutines) /\ Len(updates') <= UpdatesCap
  BY <1>1, Appended, Constants
<1>3. Bodies'
  BY <1>1 DEF IInv, Bodies
<1>4. Latest'
  BY <1>1, LatestStays DEF IInv, uiVars, monVars
<1>5. post' \in [Goroutines -> {"none", "send", "wait"}]
  BY <1>1
<1>6. TypeOK'
  BY <1>1, <1>2, <1>5 DEF IInv, TypeOK, loopVars, monVars, uiVars
<1> QED BY <1>3, <1>4, <1>6 DEF IInv

LEMMA KeyPressedKeeps ==
  ASSUME IInv, NEW k \in {"F1", "F2", "F3", "Q"}, KeyPressed(k)
  PROVE  IInv'
<1>1. /\ keys' = Append(keys, k) /\ keys \in Seq({"F1", "F2", "F3", "Q"})
      /\ pressed' = pressed + 1 /\ pressed < MaxKeys /\ pressed \in Nat
      /\ UNCHANGED <<loop, stopped, postVars, monVars, uiVars, dpc, dumping>>
  BY DEF KeyPressed, IInv, TypeOK
<1>2. keys' \in Seq({"F1", "F2", "F3", "Q"}) /\ pressed' \in 0 .. MaxKeys
  BY <1>1, Constants, AppendProperties
<1>3. TypeOK'
  BY <1>1, <1>2 DEF IInv, TypeOK, postVars, monVars, uiVars
<1>4. Bodies' /\ Latest'
  BY <1>1, NothingPosted DEF postVars, monVars, uiVars
<1> QED BY <1>3, <1>4 DEF IInv

LEMMA HandlesKeeps ==
  ASSUME TypeOK, NEW k, Handles(k)
  PROVE  /\ keys' \in Seq({"F1", "F2", "F3", "Q"}) /\ loop' \in {"select", "ended"}
         /\ pressed' \in 0 .. MaxKeys
  BY HeadTailProperties DEF Handles, TypeOK

LEMMA F1Keeps ==
  ASSUME IInv, F1
  PROVE  IInv'
<1>1. /\ UNCHANGED <<stopped, eventCh, closed, pid, events, sent, killed, rows, traceRow, status, dpc,
                     dumping>>
      /\ Handles("F1")
  BY DEF F1
<1>2. CASE /\ UNCHANGED <<stepMode, postVars>> /\ mpc' \in {mpc, "serve"}
  <2>1. Bodies' /\ Latest'
    BY <1>1, <1>2, NothingPosted DEF postVars
  <2>2. TypeOK'
    BY <1>1, <1>2, HandlesKeeps DEF IInv, TypeOK, postVars
  <2> QED BY <2>1, <2>2 DEF IInv
<1>3. CASE stepMode' = TRUE /\ Post("main", Header("STEPPING")) /\ mpc' = mpc
  <2>1. /\ Bodies' /\ Latest' /\ updates' = updates
        /\ post' \in [Goroutines -> {"none", "send", "wait"}]
    BY <1>1, <1>3, LogIsBody, OtherPosted DEF Goroutines
  <2>2. TypeOK'
    BY <1>1, <1>3, <2>1, HandlesKeeps DEF IInv, TypeOK
  <2> QED BY <2>1, <2>2 DEF IInv
<1> QED BY <1>2, <1>3 DEF F1

LEMMA F2Keeps ==
  ASSUME IInv, F2
  PROVE  IInv'
<1>1. Handles("F2") /\ UNCHANGED <<stopped, monVars, stepMode, rows, traceRow, status, dpc,
                                    dumping>>
  BY DEF F2
<1>2. CASE UNCHANGED <<killed, postVars>>
  <2>1. Bodies' /\ Latest'
    BY <1>1, <1>2, NothingPosted DEF postVars, monVars
  <2>2. TypeOK'
    BY <1>1, <1>2, HandlesKeeps DEF IInv, TypeOK, postVars, monVars
  <2> QED BY <2>1, <2>2 DEF IInv
<1>3. CASE killed' = TRUE /\ Post("main", Log)
  <2>1. /\ Bodies' /\ Latest' /\ updates' = updates
        /\ post' \in [Goroutines -> {"none", "send", "wait"}]
    BY <1>1, <1>3, LogIsBody, OtherPosted DEF Goroutines, monVars
  <2>2. TypeOK'
    BY <1>1, <1>3, <2>1, HandlesKeeps DEF IInv, TypeOK, monVars
  <2> QED BY <2>1, <2>2 DEF IInv
<1> QED BY <1>2, <1>3 DEF F2

LEMMA QuietKeyKeeps ==
  ASSUME IInv, F3 \/ Q \/ LoopEnds
  PROVE  IInv'
<1>1. Bodies' /\ Latest'
  BY NothingPosted DEF F3, Q, LoopEnds, postVars, monVars, uiVars
<1>2. CASE F3
  <2>1. dumping' \subseteq Dumpers
    BY <1>2 DEF F3, IInv, TypeOK
  <2> QED BY <1>1, <1>2, <2>1, HandlesKeeps DEF F3, IInv, TypeOK, postVars, monVars, uiVars
<1>3. CASE Q
  BY <1>1, <1>3, HandlesKeeps DEF Q, IInv, TypeOK, postVars, monVars, uiVars
<1>4. CASE LoopEnds
  BY <1>1, <1>4 DEF LoopEnds, IInv, TypeOK, postVars, monVars, uiVars
<1> QED BY <1>2, <1>3, <1>4

(* The monitor goroutine, when no event is emitted.                        *)
LEMMA MonitorKeeps ==
  ASSUME IInv, Monitor, ~ RunEvent
  PROVE  IInv'
<1>1. /\ UNCHANGED <<eventCh, events, sent, loopVars, uiVars, dpc, dumping>>
      /\ closed' \in BOOLEAN /\ pid' \in BOOLEAN
      /\ mpc' \in {"top", "done", "step", "serve", "exit", "close"}
  BY DEF Monitor, Launch, LaunchFails, RunTop, RunQuiet, RunReturns, TraceeExited,
         CloseEventCh, MonitorGo, IInv, TypeOK
<1>2. \/ \E b \in {Log, Header("ERROR"), Header("EXITED")} : Post("monitor", b)
      \/ UNCHANGED postVars
  BY DEF Monitor, Launch, LaunchFails, RunTop, RunQuiet, RunReturns, TraceeExited,
         CloseEventCh
<1>3. /\ Bodies' /\ Latest' /\ updates' = updates
      /\ post' \in [Goroutines -> {"none", "send", "wait"}]
  <2>1. CASE UNCHANGED postVars
    BY <1>1, <2>1, NothingPosted DEF postVars, uiVars, IInv, TypeOK
  <2>2. ASSUME NEW b \in {Log, Header("ERROR"), Header("EXITED")}, Post("monitor", b)
        PROVE  /\ Bodies' /\ Latest' /\ updates' = updates
               /\ post' \in [Goroutines -> {"none", "send", "wait"}]
    <3>1. b \in Body /\ b.kind # "row"
      BY LogIsBody
    <3> QED BY <1>1, <2>2, <3>1, OtherPosted DEF Goroutines, uiVars
  <2> QED BY <1>2, <2>1, <2>2
<1>4. TypeOK'
  BY <1>1, <1>3 DEF IInv, TypeOK, loopVars, uiVars
<1> QED BY <1>3, <1>4 DEF IInv

LEMMA OthersKeep ==
  ASSUME IInv, \/ DrainClosed
               \/ \E g \in Tickers : Tick(g)
               \/ \E d \in Dumpers : DumpDone(d)
  PROVE  IInv'
<1>1. CASE DrainClosed
  <2>1. Bodies' /\ Latest'
    BY <1>1, NothingPosted DEF DrainClosed, postVars, monVars, uiVars
  <2> QED BY <1>1, <2>1 DEF DrainClosed, IInv, TypeOK, loopVars, postVars, monVars, uiVars
<1>2. ASSUME NEW g \in Goroutines, g # "drain", Post(g, Log),
             UNCHANGED <<loopVars, monVars, uiVars, dpc>>, dumping' \subseteq Dumpers
      PROVE  IInv'
  <2>1. /\ Bodies' /\ Latest' /\ updates' = updates
        /\ post' \in [Goroutines -> {"none", "send", "wait"}]
    BY <1>2, LogIsBody, OtherPosted DEF monVars, uiVars
  <2> QED BY <1>2, <2>1 DEF IInv, TypeOK, loopVars, monVars, uiVars
<1>3. ASSUME NEW g \in Tickers, Tick(g) PROVE IInv'
  <2>1. g \in Goroutines /\ g # "drain"
    BY DEF Goroutines, Tickers
  <2> QED BY <1>2, <1>3, <2>1 DEF Tick, IInv, TypeOK
<1>4. ASSUME NEW d \in Dumpers, DumpDone(d) PROVE IInv'
  <2>1. d \in Goroutines /\ d # "drain"
    BY Constants DEF Goroutines
  <2> QED BY <1>2, <1>4, <2>1 DEF DumpDone, IInv, TypeOK
<1> QED BY <1>1, <1>3, <1>4

LEMMA StepKeeps == IInv /\ [Next]_vars => IInv'
<1> SUFFICES ASSUME IInv, [Next]_vars PROVE IInv'
  OBVIOUS
<1>1. CASE UNCHANGED vars
  <2>1. Bodies' /\ Latest'
    BY <1>1, NothingPosted DEF vars, postVars, monVars, uiVars
  <2> QED BY <1>1, <2>1 DEF vars, IInv, TypeOK, loopVars, postVars, monVars, uiVars
<1>2. CASE Next
  BY <1>2, SendKeeps, LoopUpdateKeeps, F1Keeps, F2Keeps, QuietKeyKeeps, KeyPressedKeeps,
     OfferKeeps, MonitorKeeps, DrainEventKeeps, OthersKeep DEF Next, Key
<1> QED BY <1>1, <1>2

LEMMA InvariantHolds == Spec => []IInv
  BY InitHolds, StepKeeps, PTL DEF Spec

(* Every variable of the interface has its type; the channels and the      *)
(* table never hold more than their capacity.                              *)
THEOREM TypeCorrect == Spec => []TypeOK
<1>1. IInv => TypeOK
  BY DEF IInv
<1> QED BY <1>1, InvariantHolds, PTL

-----------------------------------------------------------------------------
(* Latest says of every event what TableShowsLatest says of the sequences. *)
LEMMA TableOfLatest == IInv => TableShowsLatest
<1> SUFFICES ASSUME IInv PROVE TableShowsLatest
  OBVIOUS
<1> DEFINE E == 1 .. MaxEvents
           waiting == Pending \o eventCh
           shown   == SubSeq(sent, 1, Len(sent) - Len(waiting))
<1>1. /\ sent \in Seq(E) /\ eventCh \in Seq(E) /\ rows \in Seq(E) /\ MaxRows \in Nat \ {0}
      /\ Len(sent) \in Nat /\ Len(eventCh) \in Nat /\ Len(rows) \in Nat
      /\ InHand = 1 => body["drain"].event \in E
  BY Constants DEF IInv, Latest, TypeOK, Bodies, InHand, Goroutines
<1>2. /\ Shown \in Nat /\ InHand \in {0, 1} /\ Shown = Len(sent) - Len(eventCh) - InHand
      /\ \A k \in 1 .. Len(eventCh) : eventCh[k] = sent[Len(sent) - Len(eventCh) + k]
      /\ InHand = 1 => body["drain"].event = sent[Shown + 1]
      /\ Len(rows) = IF Shown > MaxRows THEN MaxRows ELSE Shown
      /\ \A k \in 1 .. Len(rows) : rows[k] = sent[Shown - Len(rows) + k]
  <2>1. InHand \in {0, 1} /\ Shown = Len(sent) - Len(eventCh) - InHand /\ Shown >= 0
    BY DEF IInv, Latest, Shown, InHand
  <2>2. Shown \in Nat
    BY <1>1, <2>1
  <2> QED BY <2>1, <2>2 DEF IInv, Latest
<1>3. Pending = IF InHand = 1 THEN <<body["drain"].event>> ELSE <<>>
  BY DEF Pending, InHand
<1> HIDE DEF E
<1>4. /\ Pending \in Seq(E) /\ Len(Pending) = InHand
      /\ InHand = 1 => Pending[1] = body["drain"].event
  BY <1>1, <1>2, <1>3
<1>5. /\ waiting \in Seq(E) /\ Len(waiting) = InHand + Len(eventCh)
      /\ \A k \in 1 .. InHand + Len(eventCh) :
           waiting[k] = IF k <= InHand THEN Pending[k] ELSE eventCh[k - InHand]
  BY <1>1, <1>4, ConcatProperties
<1> HIDE DEF waiting
<1>6. /\ shown \in Seq(E) /\ Len(shown) = Shown
      /\ \A k \in 1 .. Shown : shown[k] = sent[k]
  <2>1. Len(sent) - Len(waiting) = Shown /\ Shown <= Len(sent)
    BY <1>1, <1>2, <1>5
  <2>2. \A k \in 1 .. Shown : sent[k] \in E
    BY <1>1, <1>2, <2>1
  <2>3. /\ SubSeq(sent, 1, Shown) \in Seq(E)
        /\ Len(SubSeq(sent, 1, Shown)) = IF 1 <= Shown THEN Shown - 1 + 1 ELSE 0
        /\ \A k \in 1 .. Shown - 1 + 1 : SubSeq(sent, 1, Shown)[k] = sent[1 + k - 1]
    BY <1>2, <2>2, SubSeqProperties
  <2> QED BY <1>2, <2>1, <2>3
<1> HIDE DEF shown
<1>7. sent = shown \o waiting
  <2>1. /\ shown \o waiting \in Seq(E) /\ Len(shown \o waiting) = Shown + Len(waiting)
        /\ \A k \in 1 .. Shown + Len(waiting) :
             (shown \o waiting)[k] = IF k <= Shown THEN shown[k] ELSE waiting[k - Shown]
    BY <1>5, <1>6, ConcatProperties
  <2>2. Len(sent) = Shown + Len(waiting)
    BY <1>1, <1>2, <1>5
  <2>3. ASSUME NEW k \in 1 .. Len(sent) PROVE sent[k] = (shown \o waiting)[k]
    <3>1. CASE k <= Shown
      BY <3>1, <1>2, <1>6, <2>1, <2>2
    <3>2. CASE k = Shown + 1 /\ InHand = 1
      <4>1. k - Shown = 1 /\ waiting[1] = Pending[1]
        BY <3>2, <1>1, <1>2, <1>5
      <4> QED BY <3>2, <4>1, <1>2, <1>4, <2>1, <2>2
    <3>3. CASE k > Shown + InHand
      <4> DEFINE l == k - Shown - InHand
      <4>1. l \in 1 .. Len(eventCh) /\ k - Shown \in 1 .. Len(waiting) /\ k - Shown > InHand
        BY <3>3, <1>1, <1>2, <1>5, <2>2
      <4>2. waiting[k - Shown] = eventCh[l]
        BY <4>1, <1>2, <1>5
      <4>3. Len(sent) - Len(eventCh) + l = k
        BY <1>1, <1>2
      <4>4. eventCh[l] = sent[k]
        BY <4>1, <4>3, <1>2
      <4>5. (shown \o waiting)[k] = waiting[k - Shown]
        <5>1. k \in 1 .. Shown + Len(waiting) /\ ~(k <= Shown)
          BY <3>3, <1>1, <1>2, <2>2
        <5> QED BY <2>1, <5>1
      <4> QED BY <4>2, <4>4, <4>5
    <3>4. k <= Shown \/ k > Shown + InHand \/ (k = Shown + 1 /\ InHand = 1)
      <4>1. k \in Int /\ Shown \in Int
        BY <1>1, <1>2
      <4>2. CASE InHand = 0
        BY <4>1, <4>2
      <4>3. CASE InHand = 1
        BY <4>1, <4>3
      <4> QED BY <1>2, <4>2, <4>3
    <3> QED BY <3>1, <3>2, <3>3, <3>4
  <2> QED BY <1>1, <2>1, <2>2, <2>3, SeqEqual
<1>8. rows = LastOf(shown, MaxRows)
  <2> DEFINE from == IF Shown > MaxRows THEN Shown - MaxRows + 1 ELSE 1
  <2>1. LastOf(shown, MaxRows) = SubSeq(shown, from, Shown)
    BY <1>6 DEF LastOf
  <2>2. from \in 1 .. Shown + 1 /\ Len(rows) = Shown - from + 1
    BY <1>1, <1>2
  <2> HIDE DEF from
  <2>3. /\ SubSeq(shown, from, Shown) \in Seq(E)
        /\ Len(SubSeq(shown, from, Shown)) = IF from <= Shown THEN Shown - from + 1 ELSE 0
        /\ \A k \in 1 .. Shown - from + 1 : SubSeq(shown, from, Shown)[k] = shown[from + k - 1]
    <3>1. \A k \in from .. Shown : shown[k] \in E
      BY <1>2, <1>6, <2>2
    <3> QED BY <1>2, <2>2, <3>1, SubSeqProperties
  <2>4. ASSUME NEW k \in 1 .. Len(rows) PROVE rows[k] = SubSeq(shown, from, Shown)[k]
    <3>1. from + k - 1 \in 1 .. Shown /\ Shown - Len(rows) + k = from + k - 1
      <4> DEFINE n == Len(rows)
      <4>1. /\ n \in Nat /\ Shown \in Nat /\ n = Shown - from + 1 /\ k \in 1 .. n
            /\ from \in 1 .. Shown + 1
        BY <1>1, <1>2, <2>2
      <4> HIDE DEF n
      <4>2. from + k - 1 \in 1 .. Shown /\ Shown - n + k = from + k - 1
        BY <4>1
      <4> QED BY <4>2 DEF n
    <3>2. rows[k] = sent[from + k - 1]
      BY <3>1, <1>2
    <3>3. shown[from + k - 1] = sent[from + k - 1]
      BY <3>1, <1>6
    <3> QED BY <3>2, <3>3, <2>2, <2>3
  <2>5. Len(rows) = Len(SubSeq(shown, from, Shown))
    BY <1>2, <2>2, <2>3
  <2> QED BY <1>1, <2>1, <2>3, <2>4, <2>5, SeqEqual
<1> QED BY <1>7, <1>8 DEF TableShowsLatest, waiting, shown

(* Whatever the goroutines do to each other, the trace table holds the     *)
(* latest of the events that eventCh accepted, in the order of the         *)
(* syscalls, and the rest is on its way to it.                             *)
THEOREM TableIsLatest == Spec => []TableShowsLatest
  BY TableOfLatest, InvariantHolds, PTL
=============================================================================
