--------------------------- MODULE SpscRing_proofs --------------------------
(***************************************************************************)
(* The ring buffer is type correct, free of races on its slots, and        *)
(* implements the bounded queue, for every capacity, every number of laps  *)
(* of its counters and every set of items.                                 *)
(***************************************************************************)
EXTENDS SpscRing, TLAPS, SequenceTheorems

(* Arithmetic of the counters                                              *)

LEMMA ModSmall ==
  ASSUME NEW m \in Nat \ {0}, NEW x \in 0 .. m - 1
  PROVE  x % m = x
  BY Z3

LEMMA ModNegative ==
  ASSUME NEW m \in Nat \ {0}, NEW x \in 1 - m .. -1
  PROVE  x % m = x + m
  BY Z3

LEMMA DivMod ==
  ASSUME NEW c \in Nat \ {0}, NEW x \in Nat
  PROVE  /\ x = c * (x \div c) + (x % c)
         /\ x \div c \in Nat
         /\ x % c \in 0 .. c - 1
  BY Z3

LEMMA NotAMultiple ==
  ASSUME NEW c \in Nat \ {0}, NEW d \in 1 .. c - 1, NEW k \in Int
  PROVE  c * k # d
<1>1. CASE k <= 0
  <2>1. c * k <= 0
    BY <1>1, Z3
  <2> QED BY <2>1, Z3
<1>2. CASE k >= 1
  <2>1. c * k >= c
    BY <1>2, Z3
  <2> QED BY <2>1, Z3
<1> QED BY <1>1, <1>2, Z3

LEMMA ModulusIsNat == Modulus \in Nat /\ Modulus > Cap
<1>1. Laps \in Nat /\ Laps >= 2 /\ Cap \in Nat /\ Cap >= 1
  BY CapAssumption, LapsAssumption
<1>2. Laps * Cap \in Nat /\ Laps * Cap >= 2 * Cap
  BY <1>1, Z3
<1> QED BY <1>1, <1>2, Z3 DEF Modulus

\* The distance of two counters, and how a step of either changes it.
LEMMA SubCases ==
  ASSUME NEW h \in Counters, NEW t \in Counters
  PROVE  /\ Sub(h, t) = IF h >= t THEN h - t ELSE h - t + Modulus
         /\ Sub(h, t) \in Counters
<1>1. Modulus \in Nat \ {0}
  BY ModulusIsNat, CapAssumption
<1>2. CASE h >= t
  <2>1. h - t \in 0 .. Modulus - 1
    BY <1>1, <1>2 DEF Counters
  <2> QED BY <1>1, <1>2, <2>1, ModSmall DEF Sub, Counters
<1>3. CASE h < t
  <2>1. h - t \in 1 - Modulus .. -1
    BY <1>1, <1>3 DEF Counters
  <2>2. Sub(h, t) = h - t + Modulus
    BY <1>1, <2>1, ModNegative DEF Sub
  <2> QED BY <1>1, <1>3, <2>1, <2>2 DEF Counters
<1> QED BY <1>2, <1>3 DEF Counters

LEMMA IncCases ==
  ASSUME NEW n \in Counters
  PROVE  /\ Inc(n) = IF n = Modulus - 1 THEN 0 ELSE n + 1
         /\ Inc(n) \in Counters
<1>1. Modulus \in Nat \ {0}
  BY ModulusIsNat, CapAssumption
<1>2. CASE n = Modulus - 1
  <2>1. Modulus % Modulus = 0
    BY <1>1, Z3
  <2> QED BY <1>1, <1>2, <2>1 DEF Inc, Counters
<1>3. CASE n # Modulus - 1
  <2>1. n + 1 \in 0 .. Modulus - 1
    BY <1>1, <1>3 DEF Counters
  <2> QED BY <1>1, <1>3, <2>1, ModSmall DEF Inc, Counters
<1> QED BY <1>2, <1>3

LEMMA IncHead ==
  ASSUME NEW h \in Counters, NEW t \in Counters, Sub(h, t) < Modulus - 1
  PROVE  Sub(Inc(h), t) = Sub(h, t) + 1
<1> DEFINE i == Inc(h)
<1>1. Modulus \in Nat \ {0}
  BY ModulusIsNat, CapAssumption
<1>2. i \in Counters /\ i = IF h = Modulus - 1 THEN 0 ELSE h + 1
  BY IncCases
<1>3. Sub(h, t) = IF h >= t THEN h - t ELSE h - t + Modulus
  BY SubCases
<1> HIDE DEF i
<1>4. Sub(i, t) = IF i >= t THEN i - t ELSE i - t + Modulus
  BY <1>2, SubCases
<1>5. Sub(i, t) = Sub(h, t) + 1
  BY <1>1, <1>2, <1>3, <1>4 DEF Counters
<1> QED BY <1>5 DEF i

LEMMA IncTail ==
  ASSUME NEW h \in Counters, NEW t \in Counters, Sub(h, t) > 0
  PROVE  Sub(h, Inc(t)) = Sub(h, t) - 1
<1> DEFINE i == Inc(t)
<1>1. Modulus \in Nat \ {0}
  BY ModulusIsNat, CapAssumption
<1>2. i \in Counters /\ i = IF t = Modulus - 1 THEN 0 ELSE t + 1
  BY IncCases
<1>3. Sub(h, t) = IF h >= t THEN h - t ELSE h - t + Modulus
  BY SubCases
<1> HIDE DEF i
<1>4. Sub(h, i) = IF h >= i THEN h - i ELSE h - i + Modulus
  BY <1>2, SubCases
<1>5. Sub(h, i) = Sub(h, t) - 1
  BY <1>1, <1>2, <1>3, <1>4 DEF Counters
<1> QED BY <1>5 DEF i

\* Two positions less than a lap of the buffer apart are different slots:
\* the capacity divides the range of the counters.
LEMMA SlotsDiffer ==
  ASSUME NEW h \in Counters, NEW t \in Counters, Sub(h, t) \in 1 .. Cap - 1
  PROVE  Slot(h) # Slot(t)
<1> DEFINE d == Sub(h, t)
           q == h \div Cap
           r == t \div Cap
<1> SUFFICES ASSUME Slot(h) = Slot(t) PROVE FALSE
  OBVIOUS
<1>1. Cap \in Nat \ {0} /\ Laps \in Nat /\ h \in Nat /\ t \in Nat
  BY CapAssumption, LapsAssumption, ModulusIsNat DEF Counters
<1>2. /\ h = Cap * q + (h % Cap) /\ q \in Nat /\ h % Cap \in Int
      /\ t = Cap * r + (t % Cap) /\ r \in Nat /\ t % Cap \in Int
  <2>1. h = Cap * q + (h % Cap) /\ q \in Nat /\ h % Cap \in 0 .. Cap - 1
    BY <1>1, DivMod
  <2>2. t = Cap * r + (t % Cap) /\ r \in Nat /\ t % Cap \in 0 .. Cap - 1
    BY <1>1, DivMod
  <2> QED BY <1>1, <2>1, <2>2
<1>3. h % Cap = t % Cap
  BY DEF Slot
<1> HIDE DEF q, r
<1>4. h - t = Cap * (q - r)
  BY <1>1, <1>2, <1>3, Z3
<1>5. CASE h >= t
  <2>1. d = Cap * (q - r)
    BY <1>4, <1>5, SubCases
  <2>2. q - r \in Int
    BY <1>2
  <2> QED BY <1>1, <2>1, <2>2, NotAMultiple
<1>6. CASE h < t
  <2>1. d = Cap * (q - r) + Laps * Cap
    BY <1>1, <1>4, <1>6, SubCases DEF Modulus
  <2>2. d = Cap * (q - r + Laps)
    BY <1>1, <1>2, <2>1, Z3
  <2>3. q - r + Laps \in Int
    BY <1>1, <1>2
  <2> QED BY <1>1, <2>2, <2>3, NotAMultiple
<1> QED BY <1>1, <1>5, <1>6

-----------------------------------------------------------------------------
(* The invariant                                                           *)

\* What the locals of Push and Pop say of the shared counters: only the
\* producer moves head, only the consumer moves tail, so that room once seen
\* stays, and so does an item once seen.
Window ==
  /\ Occupied <= Cap
  /\ ppc # "idle" => pHead = head
  /\ ppc \in {"write", "publish"} => Occupied < Cap
  /\ cpc # "idle" => cTail = tail
  /\ cpc \in {"read", "advance"} => Occupied > 0

IInv == Types /\ Window

(* Init establishes the invariant.                                         *)
LEMMA InitIInv == Init => IInv
<1> SUFFICES ASSUME Init PROVE IInv
  OBVIOUS
<1>1. Cap \in Nat \ {0} /\ 0 \in Counters
  BY CapAssumption, ModulusIsNat DEF Counters
<1>2. Occupied = 0
  BY <1>1, SubCases DEF Init, Occupied, Counters
<1> QED BY <1>1, <1>2 DEF Init, IInv, Types, Window

(* The types of the variables are preserved on their own.                  *)
LEMMA TypeStep == Types /\ [Next]_vars => Types'
<1> SUFFICES ASSUME Types, [Next]_vars PROVE Types'
  OBVIOUS
<1> USE DEF Types
<1>1. /\ head \in Counters /\ tail \in Counters
      /\ Inc(pHead) \in Counters /\ Inc(cTail) \in Counters
  BY IncCases
<1>2. /\ Slot(pHead) \in 0 .. Cap - 1
      /\ Slot(cTail) \in 0 .. Cap - 1
  BY CapAssumption, ModulusIsNat, DivMod DEF Slot, Counters
<1>3. ASSUME NEW i \in Items, PushCall(i) PROVE Types'
  BY <1>3 DEF PushCall, ringVars, consVars
<1>4. CASE PushFull
  BY <1>4 DEF PushFull, ringVars, consVars
<1>5. CASE PushHasRoom
  BY <1>5 DEF PushHasRoom, ringVars, consVars
<1>6. CASE PushWrite
  BY <1>2, <1>6 DEF PushWrite, consVars
<1>7. CASE PushPublish
  BY <1>1, <1>7 DEF PushPublish, consVars
<1>8. CASE PopCall
  BY <1>8 DEF PopCall, ringVars, prodVars
<1>9. CASE PopEmpty
  BY <1>9 DEF PopEmpty, ringVars, prodVars
<1>10. CASE PopHasItem
  BY <1>10 DEF PopHasItem, ringVars, prodVars
<1>11. CASE PopRead
  BY <1>2, <1>11 DEF PopRead, ringVars, prodVars
<1>12. CASE PopAdvance
  BY <1>1, <1>12 DEF PopAdvance, prodVars
<1>13. CASE UNCHANGED vars
  BY <1>13 DEF vars, ringVars, prodVars, consVars
<1> QED
  BY <1>3, <1>4, <1>5, <1>6, <1>7, <1>8, <1>9, <1>10, <1>11, <1>12, <1>13
     DEF Next, Producer, Consumer

(* Every step preserves what the locals say of the counters.               *)
LEMMA WindowStep == IInv /\ [Next]_vars => Window'
<1> SUFFICES ASSUME IInv, [Next]_vars PROVE Window'
  OBVIOUS
<1> USE DEF IInv, Window
<1>1. /\ head \in Counters /\ tail \in Counters /\ Occupied \in Counters
      /\ Cap \in Nat \ {0} /\ Modulus \in Nat /\ Modulus > Cap
  BY SubCases, CapAssumption, ModulusIsNat DEF Types, Occupied
<1>2. Occupied \in Nat
  BY <1>1 DEF Counters
<1>3. ASSUME UNCHANGED <<head, tail>> PROVE Occupied' = Occupied
  BY <1>3 DEF Occupied, Sub
<1>4. ASSUME NEW i \in Items, PushCall(i) PROVE Window'
  BY <1>3, <1>4 DEF PushCall, ringVars, consVars
<1>5. CASE PushFull
  BY <1>3, <1>5 DEF PushFull, ringVars, consVars
<1>6. CASE PushHasRoom
  <2>1. ~ (Occupied > Cap - 1)
    BY <1>6 DEF PushHasRoom, Full, Occupied
  <2> QED BY <1>1, <1>2, <1>3, <1>6, <2>1 DEF PushHasRoom, ringVars, consVars
<1>7. CASE PushWrite
  BY <1>3, <1>7 DEF PushWrite, consVars
<1>8. CASE PushPublish
  <2>1. Occupied < Cap /\ pHead = head
    BY <1>8 DEF PushPublish
  <2>2. Sub(Inc(head), tail) = Sub(head, tail) + 1
    BY <1>1, <1>2, <2>1, IncHead DEF Occupied
  <2>3. Occupied' = Occupied + 1
    BY <2>1, <2>2, <1>8 DEF PushPublish, Occupied, Sub
  <2> QED BY <1>1, <1>2, <2>1, <2>3, <1>8 DEF PushPublish, consVars
<1>9. CASE PopCall
  BY <1>3, <1>9 DEF PopCall, ringVars, prodVars
<1>10. CASE PopEmpty
  BY <1>3, <1>10 DEF PopEmpty, ringVars, prodVars
<1>11. CASE PopHasItem
  <2>1. head # tail
    BY <1>11 DEF PopHasItem
  <2>2. Occupied = IF head >= tail THEN head - tail ELSE head - tail + Modulus
    BY <1>1, SubCases DEF Occupied
  <2>3. Occupied > 0
    BY <1>1, <2>1, <2>2 DEF Counters
  <2> QED BY <1>3, <1>11, <2>3 DEF PopHasItem, ringVars, prodVars
<1>12. CASE PopRead
  BY <1>3, <1>12 DEF PopRead, ringVars, prodVars
<1>13. CASE PopAdvance
  <2>1. Occupied > 0 /\ cTail = tail
    BY <1>13 DEF PopAdvance
  <2>2. Sub(head, Inc(tail)) = Sub(head, tail) - 1
    BY <1>1, <2>1, IncTail DEF Occupied
  <2>3. Occupied' = Occupied - 1
    BY <2>1, <2>2, <1>13 DEF PopAdvance, Occupied, Sub
  <2> QED BY <1>1, <1>2, <2>1, <2>3, <1>13 DEF PopAdvance, prodVars
<1>14. CASE UNCHANGED vars
  BY <1>3, <1>14 DEF vars, ringVars, prodVars, consVars
<1> QED
  BY <1>4, <1>5, <1>6, <1>7, <1>8, <1>9, <1>10, <1>11, <1>12, <1>13, <1>14
     DEF Next, Producer, Consumer

(* The invariant excludes a race: with a free slot and an item, head and   *)
(* tail are less than a lap apart.                                         *)
LEMMA NoRace == IInv => NoSlotRace
<1> SUFFICES ASSUME IInv, ppc = "write", cpc = "read" PROVE Slot(pHead) # Slot(cTail)
  BY DEF NoSlotRace
<1>1. head \in Counters /\ tail \in Counters /\ Cap \in Nat
  BY CapAssumption DEF IInv, Types
<1>2. Sub(head, tail) \in Int
  BY <1>1, SubCases, ModulusIsNat DEF Counters
<1>3. Sub(head, tail) \in 1 .. Cap - 1 /\ pHead = head /\ cTail = tail
  BY <1>1, <1>2 DEF IInv, Window, Occupied
<1> QED BY <1>1, <1>3, SlotsDiffer

-----------------------------------------------------------------------------
(* The inductive invariant holds throughout.                               *)
THEOREM InvariantHolds == Spec => []IInv
<1>1. IInv /\ [Next]_vars => IInv'
  BY TypeStep, WindowStep DEF IInv
<1> QED BY InitIInv, <1>1, PTL DEF Spec

(* Producer and consumer never touch the same slot at the same time,       *)
(* although only head and tail are atomic.                                 *)
THEOREM RaceFree == Spec => []NoSlotRace
<1> QED BY InvariantHolds, NoRace, PTL

-----------------------------------------------------------------------------
(* Refinement of the bounded queue                                         *)

(* The position k places after t, around the range of a counter.           *)
LEMMA ModOnce ==
  ASSUME NEW m \in Nat \ {0}, NEW x \in Nat, m <= x, x < m + m
  PROVE  x % m = x - m
  BY Z3

After(t, k) == (t + k) % Modulus

LEMMA AfterCases ==
  ASSUME NEW t \in Counters, NEW k \in 0 .. Cap
  PROVE  /\ After(t, k) = IF t + k >= Modulus THEN t + k - Modulus ELSE t + k
         /\ After(t, k) \in Counters
<1>1. Modulus \in Nat \ {0} /\ Cap \in Nat /\ Modulus > Cap
  BY ModulusIsNat, CapAssumption
<1>2. CASE t + k >= Modulus
  <2>1. t + k \in Nat /\ Modulus <= t + k /\ t + k < Modulus + Modulus
    BY <1>1, <1>2 DEF Counters
  <2>2. (t + k) % Modulus = (t + k) - Modulus
    BY <1>1, <2>1, ModOnce
  <2> QED BY <1>1, <1>2, <2>2 DEF Counters, After
<1>3. CASE t + k < Modulus
  <2>1. t + k \in 0 .. Modulus - 1
    BY <1>1, <1>3 DEF Counters
  <2>2. After(t, k) = t + k
    BY <1>1, <2>1, ModSmall DEF After
  <2> QED BY <1>1, <1>3, <2>2 DEF Counters
<1> QED BY <1>1, <1>2, <1>3 DEF Counters

\* After the last item comes head; the item after tail's successor is the
\* second after tail; an item is as far from head as there are items left.
LEMMA AfterFacts ==
  ASSUME NEW h \in Counters, NEW t \in Counters, Sub(h, t) <= Cap
  PROVE  /\ After(t, 0) = t
         /\ After(t, Sub(h, t)) = h
         /\ \A k \in 0 .. Cap - 1 : After(Inc(t), k) = After(t, k + 1)
         /\ \A k \in 0 .. Sub(h, t) - 1 : Sub(h, After(t, k)) = Sub(h, t) - k
<1>1. Modulus \in Nat \ {0} /\ Cap \in Nat \ {0} /\ Modulus > Cap
  BY ModulusIsNat, CapAssumption
<1>2. /\ Sub(h, t) = IF h >= t THEN h - t ELSE h - t + Modulus
      /\ Sub(h, t) \in 0 .. Cap
  BY <1>1, SubCases DEF Counters
<1>3. After(t, 0) = t
  BY <1>1, AfterCases DEF Counters
<1>4. After(t, Sub(h, t)) = h
  <2> DEFINE d == Sub(h, t)
  <2>1. After(t, d) = IF t + d >= Modulus THEN t + d - Modulus ELSE t + d
    BY <1>2, AfterCases
  <2> QED BY <1>1, <1>2, <2>1 DEF Counters
<1>5. ASSUME NEW k \in 0 .. Cap - 1 PROVE After(Inc(t), k) = After(t, k + 1)
  <2> DEFINE i == Inc(t)
  <2>1. i \in Counters /\ i = IF t = Modulus - 1 THEN 0 ELSE t + 1
    BY IncCases
  <2>2. k \in 0 .. Cap /\ k + 1 \in 0 .. Cap
    BY <1>1, <1>5
  <2> HIDE DEF i
  <2>3. After(i, k) = IF i + k >= Modulus THEN i + k - Modulus ELSE i + k
    BY <2>1, <2>2, AfterCases
  <2>4. After(t, k + 1) = IF t + (k + 1) >= Modulus THEN t + (k + 1) - Modulus
                                                    ELSE t + (k + 1)
    BY <2>2, AfterCases
  <2>5. After(i, k) = After(t, k + 1)
    BY <1>1, <2>1, <2>2, <2>3, <2>4 DEF Counters
  <2> QED BY <2>5 DEF i
<1>6. ASSUME NEW k \in 0 .. Sub(h, t) - 1 PROVE Sub(h, After(t, k)) = Sub(h, t) - k
  <2> DEFINE a == After(t, k)
  <2>1. k \in 0 .. Cap
    BY <1>1, <1>2, <1>6
  <2>2. a \in Counters /\ a = IF t + k >= Modulus THEN t + k - Modulus ELSE t + k
    BY <2>1, AfterCases
  <2> HIDE DEF a
  <2>3. Sub(h, a) = IF h >= a THEN h - a ELSE h - a + Modulus
    BY <2>2, SubCases
  <2>4. Sub(h, a) = Sub(h, t) - k
    BY <1>1, <1>2, <1>6, <2>1, <2>2, <2>3 DEF Counters
  <2> QED BY <2>4 DEF a
<1> QED BY <1>3, <1>4, <1>5, <1>6

-----------------------------------------------------------------------------
(* What the slots between two counters hold                                *)

Values == Items \cup {NoItem}
Buffers == [0 .. Cap - 1 -> Values]

Row(b, h, t) == [n \in 1 .. Sub(h, t) |-> b[Slot(After(t, n - 1))]]

LEMMA SlotInRange ==
  ASSUME NEW n \in Counters
  PROVE  Slot(n) \in 0 .. Cap - 1
<1>1. Cap \in Nat \ {0} /\ n \in Nat
  BY CapAssumption, ModulusIsNat DEF Counters
<1> QED BY <1>1, DivMod DEF Slot

LEMMA RowFacts ==
  ASSUME NEW b \in Buffers, NEW h \in Counters, NEW t \in Counters,
         Sub(h, t) <= Cap
  PROVE  /\ Row(b, h, t) \in Seq(Values)
         /\ Len(Row(b, h, t)) = Sub(h, t)
         /\ Sub(h, t) \in Nat
         /\ \A n \in 1 .. Sub(h, t) :
              Row(b, h, t)[n] = b[Slot(After(t, n - 1))]
<1> DEFINE d == Sub(h, t)
<1>1. d \in 0 .. Cap /\ Cap \in Nat
  BY SubCases, ModulusIsNat, CapAssumption DEF Counters
<1>2. ASSUME NEW n \in 1 .. d PROVE b[Slot(After(t, n - 1))] \in Values
  <2>1. n - 1 \in 0 .. Cap
    BY <1>1, <1>2
  <2>2. Slot(After(t, n - 1)) \in 0 .. Cap - 1
    BY <2>1, AfterCases, SlotInRange
  <2> QED BY <2>2 DEF Buffers
<1>3. Row(b, h, t) \in [1 .. d -> Values]
  BY <1>2 DEF Row
<1> HIDE DEF d
<1>4. Row(b, h, t) \in Seq(Values) /\ Len(Row(b, h, t)) = d
  BY <1>1, <1>3
<1> QED BY <1>1, <1>4 DEF Row, d

\* Writing the free slot at head does not change them.
LEMMA RowWrite ==
  ASSUME NEW b \in Buffers, NEW h \in Counters, NEW t \in Counters,
         Sub(h, t) < Cap, NEW x \in Values
  PROVE  Row([b EXCEPT ![Slot(h)] = x], h, t) = Row(b, h, t)
<1> DEFINE c == [b EXCEPT ![Slot(h)] = x]
<1>1. Cap \in Nat /\ Sub(h, t) \in Nat /\ Sub(h, t) <= Cap
  BY SubCases, ModulusIsNat, CapAssumption DEF Counters
<1>2. ASSUME NEW n \in 1 .. Sub(h, t)
      PROVE  c[Slot(After(t, n - 1))] = b[Slot(After(t, n - 1))]
  <2> DEFINE k == n - 1
             a == After(t, k)
  <2>1. k \in 0 .. Sub(h, t) - 1 /\ k \in 0 .. Cap
    BY <1>1, <1>2
  <2> HIDE DEF k
  <2>2. a \in Counters
    BY <2>1, AfterCases
  <2>3. Sub(h, a) = Sub(h, t) - k
    BY <1>1, <2>1, AfterFacts
  <2>4. Sub(h, a) \in 1 .. Cap - 1
    BY <1>1, <2>1, <2>3
  <2> HIDE DEF a
  <2>5. Slot(h) # Slot(a)
    BY <2>2, <2>4, SlotsDiffer
  <2>6. c[Slot(a)] = b[Slot(a)]
    BY <2>2, <2>5, SlotInRange DEF Buffers
  <2> QED BY <2>6 DEF a, k
<1> HIDE DEF c
<1> QED BY <1>2 DEF Row, c

\* Advancing head appends what its slot holds.
LEMMA RowPush ==
  ASSUME NEW b \in Buffers, NEW h \in Counters, NEW t \in Counters,
         Sub(h, t) < Cap
  PROVE  Row(b, Inc(h), t) = Append(Row(b, h, t), b[Slot(h)])
<1> DEFINE d == Sub(h, t)
           i == Inc(h)
           r == Row(b, h, t)
           s == Row(b, i, t)
<1>1. d \in Nat /\ Cap \in Nat /\ d <= Cap /\ d < Modulus - 1 /\ d + 1 <= Cap
  <2>1. d \in Counters /\ Modulus \in Nat /\ Modulus > Cap /\ Cap \in Nat
    BY SubCases, ModulusIsNat, CapAssumption
  <2>2. d < Cap
    OBVIOUS
  <2> HIDE DEF d
  <2> QED BY <2>1, <2>2 DEF Counters
<1>2. i \in Counters /\ Sub(i, t) = d + 1
  BY <1>1, IncCases, IncHead
<1>3. b[Slot(h)] \in Values
  BY SlotInRange DEF Buffers
<1>4. After(t, d) = h
  BY <1>1, AfterFacts
<1> HIDE DEF d, i
<1>5. /\ r \in Seq(Values) /\ Len(r) = d
      /\ \A n \in 1 .. d : r[n] = b[Slot(After(t, n - 1))]
  BY <1>1, RowFacts DEF d
<1>6. /\ s \in Seq(Values) /\ Len(s) = d + 1
      /\ \A n \in 1 .. d + 1 : s[n] = b[Slot(After(t, n - 1))]
  BY <1>1, <1>2, RowFacts
<1> HIDE DEF r, s
<1>7. /\ Append(r, b[Slot(h)]) \in Seq(Values)
      /\ Len(Append(r, b[Slot(h)])) = d + 1
      /\ \A n \in 1 .. d : Append(r, b[Slot(h)])[n] = r[n]
      /\ Append(r, b[Slot(h)])[d + 1] = b[Slot(h)]
  BY <1>3, <1>5, AppendProperties
<1>8. ASSUME NEW n \in 1 .. d + 1 PROVE s[n] = Append(r, b[Slot(h)])[n]
  <2>1. CASE n = d + 1
    <3>1. n - 1 = d
      BY <1>1, <2>1
    <3> QED BY <1>4, <1>6, <1>7, <2>1, <3>1
  <2>2. CASE n \in 1 .. d
    BY <1>5, <1>6, <1>7, <2>2
  <2>3. n = d + 1 \/ n \in 1 .. d
    BY <1>1, <1>8
  <2> QED BY <2>1, <2>2, <2>3
<1>9. s = Append(r, b[Slot(h)])
  BY <1>6, <1>7, <1>8, SeqEqual
<1> QED BY <1>9 DEF i, r, s

\* Advancing tail drops the first of them, which the slot at tail holds.
LEMMA RowPop ==
  ASSUME NEW b \in Buffers, NEW h \in Counters, NEW t \in Counters,
         Sub(h, t) > 0, Sub(h, t) <= Cap
  PROVE  /\ Row(b, h, t) # <<>>
         /\ Head(Row(b, h, t)) = b[Slot(t)]
         /\ Row(b, h, Inc(t)) = Tail(Row(b, h, t))
<1> DEFINE d == Sub(h, t)
           i == Inc(t)
           r == Row(b, h, t)
           s == Row(b, h, i)
<1>1. d \in Nat \ {0} /\ Cap \in Nat /\ d <= Cap /\ d - 1 <= Cap
  <2>1. d \in Counters /\ Modulus \in Nat /\ Cap \in Nat
    BY SubCases, ModulusIsNat, CapAssumption
  <2>2. d > 0 /\ d <= Cap
    OBVIOUS
  <2> HIDE DEF d
  <2> QED BY <2>1, <2>2 DEF Counters
<1>2. i \in Counters /\ Sub(h, i) = d - 1
  BY IncCases, IncTail
<1>3. /\ After(t, 0) = t
      /\ \A k \in 0 .. Cap - 1 : After(i, k) = After(t, k + 1)
  BY AfterFacts
<1> HIDE DEF d, i
<1>4. /\ r \in Seq(Values) /\ Len(r) = d
      /\ \A n \in 1 .. d : r[n] = b[Slot(After(t, n - 1))]
  BY <1>1, RowFacts DEF d
<1>5. /\ s \in Seq(Values) /\ Len(s) = d - 1
      /\ \A n \in 1 .. d - 1 : s[n] = b[Slot(After(i, n - 1))]
  BY <1>1, <1>2, RowFacts
<1> HIDE DEF r, s
<1>6. r # <<>> /\ Head(r) = r[1]
  BY <1>1, <1>4
<1>7. /\ Tail(r) \in Seq(Values) /\ Len(Tail(r)) = d - 1
      /\ \A n \in 1 .. d - 1 : Tail(r)[n] = r[n + 1]
  BY <1>1, <1>4, <1>6, HeadTailProperties
<1>8. r[1] = b[Slot(t)]
  BY <1>1, <1>3, <1>4
<1>9. ASSUME NEW n \in 1 .. d - 1 PROVE s[n] = Tail(r)[n]
  <2>1. n - 1 \in 0 .. Cap - 1 /\ (n - 1) + 1 = n /\ n + 1 \in 1 .. d
        /\ (n + 1) - 1 = n
    BY <1>1, <1>9
  <2>2. After(i, n - 1) = After(t, n)
    BY <1>3, <2>1
  <2> QED BY <1>4, <1>5, <1>7, <1>9, <2>1, <2>2
<1>10. s = Tail(r)
  BY <1>5, <1>7, <1>9, SeqEqual
<1> QED BY <1>6, <1>8, <1>10 DEF i, r, s

-----------------------------------------------------------------------------
(* The invariant of the data                                               *)

\* What Push has written is in the slot it is about to publish; what Pop has
\* read is still in the slot it is about to free.
Data ==
  /\ ppc # "idle" => pItem \in Items
  /\ ppc = "publish" => buf[Slot(head)] = pItem
  /\ cpc = "advance" => cItem = buf[Slot(tail)]

LEMMA InitData == Init => Data
BY DEF Init, Data

LEMMA DataStep == IInv /\ Data /\ [Next]_vars => Data'
<1> SUFFICES ASSUME IInv, Data, [Next]_vars PROVE Data'
  OBVIOUS
<1> USE DEF Data
<1>1. ASSUME NEW i \in Items, PushCall(i) PROVE Data'
  BY <1>1 DEF PushCall, ringVars, consVars, Slot
<1>2. CASE PushFull
  BY <1>2 DEF PushFull, ringVars, consVars, Slot
<1>3. CASE PushHasRoom
  BY <1>3 DEF PushHasRoom, ringVars, consVars, Slot
<1>4. CASE PushWrite
  <2>1. /\ pHead = head /\ head \in Counters /\ tail \in Counters
        /\ Sub(head, tail) < Cap /\ Cap \in Nat
        /\ cpc = "advance" => cTail = tail /\ Sub(head, tail) > 0
    BY <1>4, CapAssumption DEF PushWrite, IInv, Types, Window, Occupied
  <2>2. /\ UNCHANGED <<head, tail, pItem, cpc, cItem>>
        /\ buf' = [buf EXCEPT ![Slot(head)] = pItem]
        /\ ppc = "write" /\ ppc' = "publish"
    BY <1>4, <2>1 DEF PushWrite, consVars
  <2>3. /\ Slot(head)' = Slot(head) /\ Slot(tail)' = Slot(tail)
        /\ buf'[Slot(head)] = pItem
    BY <2>1, <2>2, SlotInRange DEF Slot, IInv, Types
  <2>4. ASSUME cpc = "advance" PROVE buf'[Slot(tail)] = buf[Slot(tail)]
    <3>1. Sub(head, tail) \in Counters /\ Modulus \in Nat
      BY <2>1, SubCases, ModulusIsNat
    <3>2. Sub(head, tail) \in 1 .. Cap - 1
      BY <2>1, <2>4, <3>1 DEF Counters
    <3>3. Slot(head) # Slot(tail)
      BY <2>1, <3>2, SlotsDiffer
    <3> QED BY <2>1, <2>2, <3>3, SlotInRange DEF IInv, Types
  <2> QED BY <2>2, <2>3, <2>4
<1>5. CASE PushPublish
  BY <1>5 DEF PushPublish, consVars, Slot
<1>6. CASE PopCall
  BY <1>6 DEF PopCall, ringVars, prodVars, Slot
<1>7. CASE PopEmpty
  BY <1>7 DEF PopEmpty, ringVars, prodVars, Slot
<1>8. CASE PopHasItem
  BY <1>8 DEF PopHasItem, ringVars, prodVars, Slot
<1>9. CASE PopRead
  <2>1. cTail = tail
    BY <1>9 DEF PopRead, IInv, Window
  <2> QED BY <1>9, <2>1 DEF PopRead, ringVars, prodVars, Slot
<1>10. CASE PopAdvance
  BY <1>10 DEF PopAdvance, prodVars, Slot
<1>11. CASE UNCHANGED vars
  BY <1>11 DEF vars, ringVars, prodVars, consVars, Slot
<1> QED
  BY <1>1, <1>2, <1>3, <1>4, <1>5, <1>6, <1>7, <1>8, <1>9, <1>10, <1>11
     DEF Next, Producer, Consumer

-----------------------------------------------------------------------------
(* Every step is a step of the queue or leaves it alone                    *)

LEMMA ContentsIsRow ==
  /\ Contents = Row(buf, head, tail)
  /\ Contents' = Row(buf', head', tail')
BY DEF Contents, Occupied, Row, After, Sub, Slot

LEMMA RefineInit == Init => Queue!QueueInit
<1> SUFFICES ASSUME Init PROVE Queue!QueueInit
  OBVIOUS
<1>1. Occupied = 0
  <2>1. 0 \in Counters
    BY ModulusIsNat, CapAssumption DEF Counters
  <2> QED BY <2>1, SubCases DEF Init, Occupied
<1>2. Contents = <<>>
  BY <1>1 DEF Contents
<1> QED BY <1>2 DEF Init, Queue!QueueInit

LEMMA RefineStep ==
  IInv /\ Data /\ [Next]_vars => [Queue!QueueNext]_(Queue!queueVars)
<1> SUFFICES ASSUME IInv, Data, [Next]_vars
             PROVE  Queue!QueueNext \/ UNCHANGED Queue!queueVars
  BY DEF Queue!queueVars
<1> DEFINE r == Row(buf, head, tail)
<1>1. /\ buf \in Buffers /\ head \in Counters /\ tail \in Counters
      /\ Sub(head, tail) <= Cap /\ Cap \in Nat \ {0}
  BY CapAssumption DEF IInv, Types, Window, Occupied, Buffers, Values
<1>2. r \in Seq(Values) /\ Len(r) = Sub(head, tail) /\ Sub(head, tail) \in Nat
  BY <1>1, RowFacts
<1>3. Contents = r /\ Contents' = Row(buf', head', tail')
  BY ContentsIsRow
<1> HIDE DEF r
<1>4. ASSUME UNCHANGED <<buf, head, tail>> PROVE Contents' = Contents
  BY <1>3, <1>4 DEF r
<1>5. ASSUME UNCHANGED <<buf, head, tail, pushRet, popRet>>
      PROVE  UNCHANGED Queue!queueVars
  BY <1>4, <1>5 DEF Queue!queueVars
<1>6. ASSUME NEW i \in Items, PushCall(i) PROVE UNCHANGED Queue!queueVars
  BY <1>5, <1>6 DEF PushCall, ringVars, consVars
<1>7. CASE PushFull
  <2>1. pHead = head /\ Sub(head, tail) > Cap - 1
    BY <1>7 DEF PushFull, Full, IInv, Window
  <2>2. Len(Contents) = Cap
    BY <1>1, <1>2, <1>3, <2>1
  <2>3. Queue!PushFull
    BY <1>4, <1>7, <2>2 DEF PushFull, ringVars, consVars, Queue!PushFull
  <2> QED BY <2>3 DEF Queue!QueueNext
<1>8. CASE PushHasRoom
  BY <1>5, <1>8 DEF PushHasRoom, ringVars, consVars
<1>9. CASE PushWrite
  <2>1. pHead = head /\ Sub(head, tail) < Cap /\ pItem \in Values
    BY <1>9 DEF PushWrite, IInv, Window, Occupied, Data, Values
  <2>2. /\ buf' = [buf EXCEPT ![Slot(head)] = pItem]
        /\ UNCHANGED <<head, tail, pushRet, popRet>>
    BY <1>9, <2>1 DEF PushWrite, consVars
  <2>3. Row([buf EXCEPT ![Slot(head)] = pItem], head, tail) = r
    BY <1>1, <2>1, RowWrite DEF r
  <2>4. Contents' = Contents
    BY <1>3, <2>2, <2>3
  <2> QED BY <2>2, <2>4 DEF Queue!queueVars
<1>10. CASE PushPublish
  <2>1. /\ pHead = head /\ Sub(head, tail) < Cap
        /\ pItem \in Items /\ buf[Slot(head)] = pItem
    BY <1>10 DEF PushPublish, IInv, Window, Occupied, Data
  <2>2. head' = Inc(head) /\ pushRet' = "nil" /\ UNCHANGED <<buf, tail, popRet>>
    BY <1>10, <2>1 DEF PushPublish, consVars
  <2>3. Row(buf, Inc(head), tail) = Append(r, pItem)
    BY <1>1, <2>1, RowPush DEF r
  <2>4. Contents' = Append(Contents, pItem)
    BY <1>3, <2>2, <2>3
  <2>5. Len(Contents) < Cap
    BY <1>2, <1>3, <2>1
  <2>6. Queue!Push(pItem)
    BY <2>2, <2>4, <2>5 DEF Queue!Push
  <2> QED BY <2>1, <2>6 DEF Queue!QueueNext
<1>11. CASE PopCall
  BY <1>5, <1>11 DEF PopCall, ringVars, prodVars
<1>12. CASE PopEmpty
  <2>1. head = tail
    BY <1>12 DEF PopEmpty, IInv, Window
  <2>2. Sub(head, tail) = 0
    BY <1>1, <2>1, SubCases, ModulusIsNat DEF Counters
  <2>3. Contents = <<>>
    BY <1>2, <1>3, <2>2
  <2>4. Queue!PopEmpty
    BY <1>4, <1>12, <2>3 DEF PopEmpty, ringVars, prodVars, Queue!PopEmpty
  <2> QED BY <2>4 DEF Queue!QueueNext
<1>13. CASE PopHasItem
  BY <1>5, <1>13 DEF PopHasItem, ringVars, prodVars
<1>14. CASE PopRead
  BY <1>5, <1>14 DEF PopRead, ringVars, prodVars
<1>15. CASE PopAdvance
  <2>1. cTail = tail /\ Sub(head, tail) > 0 /\ cItem = buf[Slot(tail)]
    BY <1>15 DEF PopAdvance, IInv, Window, Occupied, Data
  <2>2. tail' = Inc(tail) /\ popRet' = cItem /\ UNCHANGED <<buf, head, pushRet>>
    BY <1>15, <2>1 DEF PopAdvance, prodVars
  <2>3. r # <<>> /\ Head(r) = cItem /\ Row(buf, head, Inc(tail)) = Tail(r)
    BY <1>1, <2>1, RowPop DEF r
  <2>4. /\ Contents # <<>> /\ Head(Contents) = cItem
        /\ Contents' = Tail(Contents)
    BY <1>3, <2>2, <2>3
  <2>5. Queue!Pop
    BY <2>2, <2>4 DEF Queue!Pop
  <2> QED BY <2>5 DEF Queue!QueueNext
<1>16. CASE UNCHANGED vars
  BY <1>5, <1>16 DEF vars, ringVars, prodVars, consVars
<1> QED
  BY <1>6, <1>7, <1>8, <1>9, <1>10, <1>11, <1>12, <1>13, <1>14, <1>15, <1>16
     DEF Next, Producer, Consumer

(* A queue of items takes only items.                                      *)
LEMMA ContentsStep ==
  ASSUME IInv, Data, Contents \in Seq(Items), [Next]_vars
  PROVE  Contents' \in Seq(Items)
<1>1. PICK q \in Seq(Items) : q = Contents
  OBVIOUS
<1>2. \/ \E i \in Items : Contents' = Append(q, i)
      \/ q # <<>> /\ Contents' = Tail(q)
      \/ Contents' = q
  BY <1>1, RefineStep DEF Queue!QueueNext, Queue!Push, Queue!PushFull, Queue!Pop,
     Queue!PopEmpty, Queue!queueVars
<1>3. ASSUME NEW i \in Items PROVE Append(q, i) \in Seq(Items)
  BY AppendProperties
<1>4. q # <<>> => Tail(q) \in Seq(Items)
  BY HeadTailProperties
<1> QED
  BY <1>2, <1>3, <1>4

-----------------------------------------------------------------------------
(* What is written is published and what is read is delivered: the copies  *)
(* in the slots are never overwritten while a call still relies on them.   *)
THEOREM DataHolds == Spec => []Data
<1> QED BY InitData, DataStep, InvariantHolds, PTL DEF Spec

(* The variables keep their types, head is never more than Cap ahead of    *)
(* tail whatever the counters have wrapped to, and between them are items  *)
(* only, for every capacity and every number of laps.                      *)
THEOREM TypeCorrect == Spec => []TypeOK
<1>1. Init => Contents \in Seq(Items)
  <2>1. ASSUME Init PROVE Contents = <<>>
    BY <2>1, RefineInit DEF Queue!QueueInit
  <2> QED BY <2>1
<1>2. IInv /\ Data /\ Contents \in Seq(Items) /\ [Next]_vars => (Contents \in Seq(Items))'
  BY ContentsStep
<1>3. Spec => [](Contents \in Seq(Items))
  BY <1>1, <1>2, InvariantHolds, DataHolds, PTL DEF Spec
<1>4. IInv /\ Contents \in Seq(Items) => TypeOK
  BY DEF IInv, Window, TypeOK
<1> QED BY <1>3, <1>4, InvariantHolds, PTL

(* Seen through the slots between tail and head, Push and Pop are the      *)
(* atomic operations of a bounded FIFO queue: nothing is lost, duplicated  *)
(* or reordered, ErrFull means full and ErrEmpty means empty.              *)
THEOREM RingIsQueue == Spec => ImplementsQueue
<1>1. Spec => []IInv /\ []Data
  BY InvariantHolds, DataHolds, PTL
<1>2. Spec => Queue!QueueInit
  BY RefineInit DEF Spec
<1>3. Spec => [][Queue!QueueNext]_(Queue!queueVars)
  BY <1>1, RefineStep, PTL DEF Spec
<1> QED BY <1>2, <1>3, PTL DEF ImplementsQueue, Queue!QueueSpec
=============================================================================
