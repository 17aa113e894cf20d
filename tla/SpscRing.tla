------------------------------ MODULE SpscRing ------------------------------
(***************************************************************************)
(* telemetry.RingBuffer at the grain of its atomic operations: one         *)
(* producer (the monitor goroutine) runs Push, one consumer (the CSV       *)
(* goroutine) runs Pop.  Every action performs one access to shared        *)
(* memory: a load or a store of head or tail, or the copy of an item into  *)
(* or out of its slot.  Len, which nothing calls, is left out.             *)
(*                                                                         *)
(* head and tail are uint64 counters that wrap.  They live here modulo     *)
(* Modulus == Laps * Cap: a power-of-two capacity divides 2^64, and a      *)
(* buffer that fits in memory is far smaller than 2^64, hence Laps > 1.    *)
(***************************************************************************)
EXTENDS Integers, Sequences

CONSTANTS
  Cap,        \* capacity given to NewRingBuffer
  Laps,       \* how often the buffer fits into the range of a counter
  Items,      \* what can be pushed
  NoItem      \* the zero value of an item; also Pop's result with ErrEmpty

ASSUME CapAssumption == Cap \in Nat \ {0}
ASSUME LapsAssumption == Laps \in Nat /\ Laps > 1
ASSUME NoItemAssumption == NoItem \notin Items

VARIABLES
  buf, head, tail,         \* the fields of the RingBuffer
  ppc, pItem, pHead,       \* Push: where it is, its argument, its local head
  pushRet,                 \* the result of the last Push
  cpc, cTail, cItem,       \* Pop: where it is, its local tail, its local item
  popRet                   \* the result of the last Pop (NoItem: ErrEmpty)

ringVars == <<buf, head, tail>>
prodVars == <<ppc, pItem, pHead, pushRet>>
consVars == <<cpc, cTail, cItem, popRet>>
vars     == <<ringVars, prodVars, consVars>>

-----------------------------------------------------------------------------
Modulus == Laps * Cap
Counters == 0 .. Modulus - 1

Slot(n)   == n % Cap                  \* n & mask, mask = Cap - 1
Inc(n)    == (n + 1) % Modulus        \* n + 1 on a uint64
Sub(m, n) == (m - n) % Modulus        \* m - n on a uint64

FullOffByOne(h, t) == Sub(h, t) > Cap \* mutant: one item too many
FullBySum(h, t) ==                    \* mutant: head > tail+r.mask
  h > (t + (Cap - 1)) % Modulus
Full(h, t) == Sub(h, t) > Cap - 1     \* head-tail > r.mask

Init ==
  /\ buf = [s \in 0 .. Cap - 1 |-> NoItem] /\ head = 0 /\ tail = 0
  /\ ppc = "idle" /\ pItem = NoItem /\ pHead = 0 /\ pushRet = "nil"
  /\ cpc = "idle" /\ cTail = 0 /\ cItem = NoItem /\ popRet = NoItem

-----------------------------------------------------------------------------
(* Push                                                                    *)

PushCall(i) ==
  /\ ppc = "idle"
  /\ pItem' = i
  /\ pHead' = head
  /\ ppc' = "check"
  /\ UNCHANGED <<pushRet, ringVars, consVars>>

PushFull ==
  /\ ppc = "check"
  /\ Full(pHead, tail)
  /\ pushRet' = "ErrFull"
  /\ ppc' = "idle"
  /\ UNCHANGED <<pItem, pHead, ringVars, consVars>>

\* mutant: head is stored before the slot has been written
PushPublishesFirst ==
  /\ ppc = "check"
  /\ ~ Full(pHead, tail)
  /\ head' = Inc(pHead)
  /\ ppc' = "write"
  /\ UNCHANGED <<buf, tail, pItem, pHead, pushRet, consVars>>

PushHasRoom ==
  /\ ppc = "check"
  /\ ~ Full(pHead, tail)
  /\ ppc' = "write"
  /\ UNCHANGED <<pItem, pHead, pushRet, ringVars, consVars>>

PushWrite ==
  /\ ppc = "write"
  /\ buf' = [buf EXCEPT ![Slot(pHead)] = pItem]
  /\ ppc' = "publish"
  /\ UNCHANGED <<head, tail, pItem, pHead, pushRet, consVars>>

PushPublish ==
  /\ ppc = "publish"
  /\ head' = Inc(pHead)
  /\ pushRet' = "nil"
  /\ ppc' = "idle"
  /\ UNCHANGED <<buf, tail, pItem, pHead, consVars>>

-----------------------------------------------------------------------------
(* Pop                                                                     *)

PopCall ==
  /\ cpc = "idle"
  /\ cTail' = tail
  /\ cpc' = "check"
  /\ UNCHANGED <<cItem, popRet, ringVars, prodVars>>

PopEmpty ==
  /\ cpc = "check"
  /\ head = cTail
  /\ popRet' = NoItem
  /\ cpc' = "idle"
  /\ UNCHANGED <<cTail, cItem, ringVars, prodVars>>

PopHasItem ==
  /\ cpc = "check"
  /\ head # cTail
  /\ cpc' = "read"
  /\ UNCHANGED <<cTail, cItem, popRet, ringVars, prodVars>>

PopRead ==
  /\ cpc = "read"
  /\ cItem' = buf[Slot(cTail)]
  /\ cpc' = "advance"
  /\ UNCHANGED <<cTail, popRet, ringVars, prodVars>>

PopAdvance ==
  /\ cpc = "advance"
  /\ tail' = Inc(cTail)
  /\ popRet' = cItem
  /\ cpc' = "idle"
  /\ UNCHANGED <<buf, head, cTail, cItem, prodVars>>

-----------------------------------------------------------------------------
Producer == (\E i \in Items : PushCall(i)) \/ PushFull \/ PushHasRoom
              \/ PushWrite \/ PushPublish
Consumer == PopCall \/ PopEmpty \/ PopHasItem \/ PopRead \/ PopAdvance

Next == Producer \/ Consumer

Spec == Init /\ [][Next]_vars

-----------------------------------------------------------------------------
(* Properties                                                              *)

\* The number of occupied slots, whatever the counters have wrapped to.
Occupied == Sub(head, tail)

\* The slots between tail and head, in order.
Contents == [n \in 1 .. Occupied |-> buf[Slot((tail + (n - 1)) % Modulus)]]

Types ==
  /\ buf \in [0 .. Cap - 1 -> Items \cup {NoItem}]
  /\ head \in Counters /\ tail \in Counters
  /\ ppc \in {"idle", "check", "write", "publish"}
  /\ pItem \in Items \cup {NoItem} /\ pHead \in Counters
  /\ pushRet \in {"nil", "ErrFull"}
  /\ cpc \in {"idle", "check", "read", "advance"}
  /\ cItem \in Items \cup {NoItem} /\ cTail \in Counters
  /\ popRet \in Items \cup {NoItem}

(* The variables have their types, and so has what the buffer holds: head  *)
(* is at most Cap ahead of tail, on either side of the point where a       *)
(* uint64 wraps, and every slot from tail up to head holds an item that    *)
(* was pushed, never the zero value of a slot not yet written.             *)
TypeOK == Types /\ Occupied <= Cap /\ Contents \in Seq(Items)

(* The producer never copies an item into a slot while the consumer is     *)
(* copying an item out of it: the plain accesses to r.buf (ringbuf.go:47   *)
(* and :60) are race free although nothing but head and tail is atomic.    *)
NoSlotRace ==
  ~ (ppc = "write" /\ cpc = "read" /\ Slot(pHead) = Slot(cTail))

Queue == INSTANCE BoundedQueue WITH
  Capacity <- Cap, ErrEmpty <- NoItem, queue <- Contents

(* The contents are a bounded FIFO queue: nothing is lost, duplicated or   *)
(* reordered, ErrFull is reported only when the buffer is full and         *)
(* ErrEmpty only when it is empty.                                         *)
ImplementsQueue == Queue!QueueSpec
=============================================================================
