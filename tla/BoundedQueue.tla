---------------------------- MODULE BoundedQueue ----------------------------
(***************************************************************************)
(* What telemetry.RingBuffer promises its two callers: a bounded FIFO      *)
(* queue with atomic operations.  A push either appends or, only when the  *)
(* queue holds Capacity items, reports ErrFull; a pop either takes the     *)
(* oldest item or, only when the queue is empty, reports ErrEmpty.         *)
(***************************************************************************)
EXTENDS Naturals, Sequences

CONSTANTS
  Capacity,   \* slots of the buffer, the argument of NewRingBuffer
  Items,      \* what can be pushed
  ErrEmpty    \* the "error" result of Pop; not an item

VARIABLES
  queue,      \* the items accepted and not yet taken, oldest first
  pushRet,    \* the result of the last Push: "nil" or "ErrFull"
  popRet      \* the result of the last Pop: an item or ErrEmpty

queueVars == <<queue, pushRet, popRet>>

QueueInit ==
  /\ queue = <<>>
  /\ pushRet = "nil"
  /\ popRet = ErrEmpty

PushOneTooMany(i) ==          \* mutant: one item past the capacity
  /\ Len(queue) <= Capacity
  /\ queue' = Append(queue, i)
  /\ pushRet' = "nil"
  /\ UNCHANGED popRet

Push(i) ==
  /\ Len(queue) < Capacity
  /\ queue' = Append(queue, i)
  /\ pushRet' = "nil"
  /\ UNCHANGED popRet

PushFull ==
  /\ Len(queue) = Capacity
  /\ pushRet' = "ErrFull"
  /\ UNCHANGED <<queue, popRet>>

Pop ==
  /\ queue # <<>>
  /\ popRet' = Head(queue)
  /\ queue' = Tail(queue)
  /\ UNCHANGED pushRet

PopEmpty ==
  /\ queue = <<>>
  /\ popRet' = ErrEmpty
  /\ UNCHANGED <<queue, pushRet>>

QueueNext == (\E i \in Items : Push(i)) \/ PushFull \/ Pop \/ PopEmpty

QueueSpec == QueueInit /\ [][QueueNext]_queueVars
=============================================================================
