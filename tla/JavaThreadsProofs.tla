-------------------------- MODULE JavaThreadsProofs --------------------------
(***************************************************************************)
(* Proofs about the Java programs whose threads share objects: the         *)
(* volatile counter (AtomicTest), the basket (Basket) and the service      *)
(* discoverer (Discoverer).                                                *)
(***************************************************************************)
EXTENDS AtomicTest, Basket, Discoverer, FiniteSetTheorems, TLAPS

-----------------------------------------------------------------------------
(* The volatile counter, for any number of threads and increments.         *)

Turns == Threads \X (1 .. Share)

(* The turns whose count-down, and those whose write is still to come.     *)
ToCount == {p \in Turns : p[2] <= left[p[1]]}
ToWrite == {p \in ToCount : ~(p[2] = left[p[1]] /\ pc[p[1]] = "countDown")}

CounterTypeInv ==
  /\ inc \in Nat
  /\ pc \in [Threads -> {"read", "write", "countDown", "done"}]
  /\ value \in [Threads -> Nat]
  /\ left \in [Threads -> 0 .. Share]
  /\ latch \in Nat
  /\ printed \in Int

LatchInv ==
  /\ latch = Cardinality(ToCount)
  /\ \A t \in Threads : pc[t] = "done" <=> left[t] = 0

(* Neither the field nor a value read from it runs ahead of the writes.    *)
UpperInv ==
  /\ inc + Cardinality(ToWrite) <= Total
  /\ \A t \in Threads : pc[t] = "write" => value[t] + Cardinality(ToWrite) <= Total

(* After a write the field is positive, so is what is read then, and the   *)
(* last write of all follows such a read.                                  *)
LowerInv ==
  /\ \A t \in Threads : left[t] < Share \/ pc[t] = "countDown" => inc >= 1
  /\ \A t \in Threads : pc[t] = "write" /\ left[t] < Share => value[t] >= 1
  /\ ToWrite = {} => inc >= IF Share > 1 THEN 2 ELSE 1

PrintInv == printed # -1 => latch = 0 /\ printed = inc

CounterInv == CounterTypeInv /\ LatchInv /\ UpperInv /\ LowerInv /\ PrintInv

-----------------------------------------------------------------------------
(* The latch starts from as many counts as there are turns.                *)
LEMMA Sizes ==
  /\ Share \in Nat \ {0} /\ IsFiniteSet(Turns) /\ Cardinality(Turns) = Total
<1> USE AtomicTestAssumption
<1> DEFINE n == Cardinality(Threads)
<1>1. n \in Nat \ {0}
  BY FS_CardinalityType, FS_EmptySet
<1>2. Total \in Nat \ {0} /\ Total % n = 0 /\ Share = Total \div n
  BY DEF Share
<1> HIDE DEF n
<1>3. Share \in Nat /\ n * Share = Total
  BY <1>1, <1>2
<1>4. Share # 0
  BY <1>1, <1>2, <1>3
<1>5. IsFiniteSet(1 .. Share) /\ Cardinality(1 .. Share) = Share
  BY <1>3, FS_Interval
<1>6. IsFiniteSet(Turns) /\ Cardinality(Turns) = n * Share
  BY <1>5, FS_Product DEF Turns, n
<1> QED
  BY <1>3, <1>4, <1>6

(* Both sets are finite, and have a number of elements.                    *)
LEMMA Finite ==
  /\ IsFiniteSet(ToCount) /\ Cardinality(ToCount) \in Nat
  /\ IsFiniteSet(ToWrite) /\ Cardinality(ToWrite) \in Nat
<1>1. ToCount \subseteq Turns /\ ToWrite \subseteq Turns
  BY DEF ToCount, ToWrite
<1> QED
  BY <1>1, Sizes, FS_Subset, FS_CardinalityType

(* No thread has begun.                                                    *)
LEMMA CounterInit == AtomicInit => CounterInv
<1> SUFFICES ASSUME AtomicInit PROVE CounterInv
  OBVIOUS
<1> USE AtomicTestAssumption
<1>1. CounterTypeInv
  BY Sizes DEF AtomicInit, CounterTypeInv
<1>2. ToCount = Turns
  BY Sizes DEF AtomicInit, ToCount, Turns
<1>3. ToWrite = Turns
  BY <1>2 DEF AtomicInit, ToWrite, Turns
<1>4. LatchInv /\ UpperInv
  BY <1>2, <1>3, Sizes DEF AtomicInit, LatchInv, UpperInv
<1>5. ToWrite # {}
  BY <1>3, Sizes, FS_EmptySet
<1>6. LowerInv
  BY <1>5, Sizes DEF AtomicInit, LowerInv
<1>7. PrintInv
  BY DEF AtomicInit, PrintInv
<1> QED
  BY <1>1, <1>4, <1>6, <1>7 DEF CounterInv

(* A read changes neither set.                                             *)
LEMMA ReadStep ==
  ASSUME CounterInv, NEW t \in Threads, Read(t)
  PROVE  CounterInv'
<1>1. /\ pc[t] = "read" /\ UNCHANGED <<inc, left, latch, printed>>
      /\ pc' = [pc EXCEPT ![t] = "write"] /\ value' = [value EXCEPT ![t] = inc]
  BY DEF Read
<1>2. /\ pc'[t] = "write" /\ value'[t] = inc
      /\ \A u \in Threads \ {t} : pc'[u] = pc[u] /\ value'[u] = value[u]
  BY <1>1 DEF CounterInv, CounterTypeInv
<1>3. CounterTypeInv'
  BY <1>1 DEF CounterInv, CounterTypeInv
<1>4. ToCount' = ToCount
  BY <1>1 DEF ToCount
<1>5. ToWrite' = ToWrite
  <2>1. \A u \in Threads : pc'[u] = "countDown" <=> pc[u] = "countDown"
    BY <1>1, <1>2
  <2>2. \A p \in ToCount : p[1] \in Threads
    BY DEF ToCount, Turns
  <2> QED
    BY <1>1, <1>4, <2>1, <2>2 DEF ToWrite
<1>6. LatchInv'
  BY <1>1, <1>2, <1>4 DEF CounterInv, LatchInv
<1>7. UpperInv'
  BY <1>1, <1>2, <1>5 DEF CounterInv, UpperInv
<1>8. LowerInv'
  BY <1>1, <1>2, <1>5 DEF CounterInv, LowerInv
<1>9. PrintInv'
  BY <1>1 DEF CounterInv, PrintInv
<1> QED
  BY <1>3, <1>6, <1>7, <1>8, <1>9 DEF CounterInv

(* A write, whatever was written since the read.                           *)
LEMMA WriteStep ==
  ASSUME CounterInv, NEW t \in Threads, Write(t)
  PROVE  CounterInv'
<1> DEFINE w == <<t, left[t]>>
<1>1. /\ pc[t] = "write" /\ UNCHANGED <<value, left, latch, printed>>
      /\ pc' = [pc EXCEPT ![t] = "countDown"] /\ inc' = value[t] + 1
  BY DEF Write
<1>2. /\ pc'[t] = "countDown"
      /\ \A u \in Threads \ {t} : pc'[u] = pc[u]
  BY <1>1 DEF CounterInv, CounterTypeInv
<1>3. CounterTypeInv'
  BY <1>1 DEF CounterInv, CounterTypeInv
<1>4. ToCount' = ToCount
  BY <1>1 DEF ToCount
<1>5. left[t] \in 1 .. Share /\ Share \in Nat
  BY <1>1, Sizes DEF CounterInv, CounterTypeInv, LatchInv
<1>6. w \in ToCount
  BY <1>5 DEF ToCount, Turns
<1>7. w \in ToWrite
  BY <1>1, <1>6 DEF ToWrite
<1>8. ToWrite' = ToWrite \ {w}
  <2> SUFFICES ASSUME NEW p \in ToCount
               PROVE  p \in ToWrite' <=> p \in ToWrite /\ p # w
    BY <1>4 DEF ToWrite
  <2>1. PICK u \in Threads, i \in 1 .. Share : p = <<u, i>>
    BY DEF ToCount, Turns
  <2>2. CASE u = t
    BY <1>1, <1>2, <1>4, <2>1, <2>2 DEF ToWrite
  <2>3. CASE u # t
    BY <1>1, <1>2, <1>4, <2>1, <2>3 DEF ToWrite
  <2> QED
    BY <2>2, <2>3
<1>9. Cardinality(ToWrite') = Cardinality(ToWrite) - 1
  BY <1>7, <1>8, Finite, FS_RemoveElement
<1>10. value[t] \in Nat /\ inc \in Nat /\ Total \in Nat
  BY AtomicTestAssumption DEF CounterInv, CounterTypeInv
<1>11. LatchInv'
  BY <1>1, <1>2, <1>4, <1>5 DEF CounterInv, LatchInv
<1>12. UpperInv'
  <2>1. inc' + Cardinality(ToWrite') <= Total
    BY <1>1, <1>9, <1>10, Finite DEF CounterInv, UpperInv
  <2>2. ASSUME NEW u \in Threads, pc'[u] = "write"
        PROVE  value'[u] + Cardinality(ToWrite') <= Total
    <3>1. pc[u] = "write" /\ value'[u] = value[u] /\ value[u] \in Nat
      BY <1>1, <1>2, <2>2 DEF CounterInv, CounterTypeInv
    <3> QED
      BY <1>9, <1>10, <3>1, Finite DEF CounterInv, UpperInv
  <2> QED
    BY <2>1, <2>2 DEF UpperInv
<1>13. LowerInv'
  <2>1. inc' >= 1
    BY <1>1, <1>10
  <2>2. ASSUME NEW u \in Threads, pc'[u] = "write", left'[u] < Share
        PROVE  value'[u] >= 1
    BY <1>1, <1>2, <2>2 DEF CounterInv, LowerInv
  <2>3. ASSUME ToWrite' = {}, Share > 1
        PROVE  inc' >= 2
    <3>1. left[t] = 1
      <4> SUFFICES ASSUME left[t] # 1 PROVE FALSE
        OBVIOUS
      <4>1. <<t, 1>> \in ToCount
        BY <1>5 DEF ToCount, Turns
      <4>2. <<t, 1>> \in ToWrite'
        BY <1>1, <1>4, <4>1 DEF ToWrite
      <4> QED
        BY <2>3, <4>2
    <3>2. value[t] >= 1
      BY <1>1, <2>3, <3>1 DEF CounterInv, LowerInv
    <3> QED
      BY <1>1, <1>10, <3>2
  <2> QED
    BY <2>1, <2>2, <2>3 DEF LowerInv
<1>14. PrintInv'
  <2>1. latch # 0
    <3>1. ToCount # {}
      BY <1>6
    <3> QED
      BY <3>1, Finite, FS_EmptySet DEF CounterInv, LatchInv
  <2> QED
    BY <1>1, <2>1 DEF CounterInv, PrintInv
<1> QED
  BY <1>3, <1>11, <1>12, <1>13, <1>14 DEF CounterInv

(* A count-down takes the turn out of the set that the latch counts.       *)
LEMMA CountDownStep ==
  ASSUME CounterInv, NEW t \in Threads, CountDown(t)
  PROVE  CounterInv'
<1> DEFINE w == <<t, left[t]>>
<1>1. /\ pc[t] = "countDown" /\ UNCHANGED <<inc, value, printed>>
      /\ latch' = IF latch > 0 THEN latch - 1 ELSE 0
      /\ left' = [left EXCEPT ![t] = @ - 1]
      /\ pc' = [pc EXCEPT ![t] = IF left[t] = 1 THEN "done" ELSE "read"]
  BY DEF CountDown
<1>2. left[t] \in 1 .. Share /\ Share \in Nat
  BY <1>1, Sizes DEF CounterInv, CounterTypeInv, LatchInv
<1>3. /\ pc'[t] = IF left[t] = 1 THEN "done" ELSE "read"
      /\ left'[t] = left[t] - 1
      /\ \A u \in Threads \ {t} : pc'[u] = pc[u] /\ left'[u] = left[u]
  BY <1>1 DEF CounterInv, CounterTypeInv
<1>4. w \in ToCount
  BY <1>2 DEF ToCount, Turns
<1>5. ToCount' = ToCount \ {w}
  <2> SUFFICES ASSUME NEW p \in Turns
               PROVE  p \in ToCount' <=> p \in ToCount /\ p # w
    BY DEF ToCount
  <2>1. PICK u \in Threads, i \in 1 .. Share : p = <<u, i>>
    BY DEF Turns
  <2>2. CASE u = t
    BY <1>2, <1>3, <2>1, <2>2 DEF ToCount
  <2>3. CASE u # t
    BY <1>3, <2>1, <2>3 DEF ToCount
  <2> QED
    BY <2>2, <2>3
<1>6. ToWrite' = ToWrite
  <2>1. w \notin ToWrite
    BY <1>1 DEF ToWrite
  <2>2. ASSUME NEW p \in ToCount, p # w
        PROVE  p \in ToWrite' <=> p \in ToWrite
    <3>1. PICK u \in Threads, i \in 1 .. Share : p = <<u, i>>
      BY DEF ToCount, Turns
    <3>2. p \in ToCount'
      BY <1>5, <2>2
    <3>3. CASE u = t
      <4>1. pc'[u] # "countDown" /\ i # left[u]
        BY <1>3, <2>2, <3>1, <3>3
      <4> QED
        BY <3>1, <3>2, <4>1 DEF ToWrite
    <3>4. CASE u # t
      BY <1>3, <3>1, <3>2, <3>4 DEF ToWrite
    <3> QED
      BY <3>3, <3>4
  <2>3. ToWrite \subseteq ToCount /\ ToWrite' \subseteq ToCount'
    BY DEF ToWrite
  <2> QED
    BY <1>5, <2>1, <2>2, <2>3
<1>7. /\ Cardinality(ToCount') = Cardinality(ToCount) - 1
      /\ Cardinality(ToCount') \in Nat
  <2>1. IsFiniteSet(ToCount') /\ Cardinality(ToCount') = Cardinality(ToCount) - 1
    BY <1>4, <1>5, Finite, FS_RemoveElement
  <2> QED
    BY <2>1, FS_CardinalityType
<1>8. latch' = Cardinality(ToCount') /\ latch # 0
  BY <1>1, <1>7, Finite DEF CounterInv, LatchInv
<1>9. CounterTypeInv'
  <2>1. left' \in [Threads -> 0 .. Share]
    BY <1>1, <1>2 DEF CounterInv, CounterTypeInv
  <2>2. pc' \in [Threads -> {"read", "write", "countDown", "done"}]
    BY <1>1 DEF CounterInv, CounterTypeInv
  <2> QED
    BY <1>1, <1>7, <1>8, <2>1, <2>2 DEF CounterInv, CounterTypeInv
<1>10. LatchInv'
  <2> SUFFICES ASSUME NEW u \in Threads
               PROVE  pc'[u] = "done" <=> left'[u] = 0
    BY <1>8 DEF LatchInv
  <2> QED
    BY <1>2, <1>3 DEF CounterInv, LatchInv
<1>11. UpperInv'
  <2>1. \A u \in Threads : pc'[u] = "write" => pc[u] = "write"
    BY <1>3
  <2> QED
    BY <1>1, <1>6, <2>1 DEF CounterInv, UpperInv
<1>12. LowerInv'
  <2>1. inc >= 1
    BY <1>1 DEF CounterInv, LowerInv
  <2>2. ASSUME NEW u \in Threads, pc'[u] = "write", left'[u] < Share
        PROVE  value'[u] >= 1
    BY <1>1, <1>3, <2>2 DEF CounterInv, LowerInv
  <2> QED
    BY <1>1, <1>6, <2>1, <2>2 DEF CounterInv, LowerInv
<1>13. PrintInv'
  BY <1>1, <1>8 DEF CounterInv, PrintInv
<1> QED
  BY <1>9, <1>10, <1>11, <1>12, <1>13 DEF CounterInv

(* Every step keeps the invariant.                                         *)
LEMMA CounterStep == CounterInv /\ [AtomicNext]_atomicVars => CounterInv'
<1> SUFFICES ASSUME CounterInv, [AtomicNext]_atomicVars PROVE CounterInv'
  OBVIOUS
<1>1. CASE PrintInc
  BY <1>1 DEF PrintInc, CounterInv, CounterTypeInv, LatchInv, UpperInv, LowerInv, PrintInv,
              ToCount, ToWrite
<1>2. CASE UNCHANGED atomicVars
  BY <1>2 DEF atomicVars, CounterInv, CounterTypeInv, LatchInv, UpperInv, LowerInv, PrintInv,
              ToCount, ToWrite
<1> QED
  BY <1>1, <1>2, ReadStep, WriteStep, CountDownStep DEF AtomicNext, Thread

-----------------------------------------------------------------------------
(* For any number of threads and any total they can share: the printed     *)
(* value is final, at most the total, and at least two where a thread      *)
(* makes two increments or more.                                           *)
THEOREM FinalValue == AtomicSpec => []PrintedIsFinal
<1>1. CounterInv => PrintedIsFinal
  <2> SUFFICES ASSUME CounterInv PROVE PrintedIsFinal
    OBVIOUS
  <2>1. ASSUME latch = 0
        PROVE  ToCount = {} /\ ToWrite = {} /\ \A t \in Threads : pc[t] = "done"
    <3>1. ToCount = {}
      BY <2>1, Finite, FS_EmptySet DEF CounterInv, LatchInv
    <3>2. ASSUME NEW t \in Threads, left[t] # 0
          PROVE  FALSE
      <4>1. left[t] \in 1 .. Share
        BY <3>2, Sizes DEF CounterInv, CounterTypeInv
      <4>2. <<t, left[t]>> \in ToCount
        BY <4>1, Sizes DEF ToCount, Turns
      <4> QED
        BY <3>1, <4>2
    <3> QED
      BY <3>1, <3>2 DEF CounterInv, LatchInv, ToWrite
  <2>2. inc <= Total
    BY Finite, AtomicTestAssumption DEF CounterInv, CounterTypeInv, UpperInv
  <2> QED
    BY <2>1, <2>2 DEF CounterInv, LowerInv, PrintInv, PrintedIsFinal
<1> QED
  BY <1>1, CounterInit, CounterStep, PTL DEF AtomicSpec

-----------------------------------------------------------------------------
(* The basket, for every capacity.                                         *)

(* What holds however waits end.                                           *)
WaitInv == TypeOK /\ WaitsForAReason

(* As long as no wait of the farmer ends by itself, the bound is inductive *)
(* together with what a notified farmer may rely on.                       *)
TradeInv == WaitInv /\ (woken \/ (BasketBounded /\ ResumesRightly))

-----------------------------------------------------------------------------
(* Every turn keeps the basket's type and leaves no thread waiting for     *)
(* something that has already happened.                                    *)
LEMMA WaitStep == WaitInv /\ [Next]_vars => WaitInv'
<1> SUFFICES ASSUME WaitInv, [Next]_vars PROVE WaitInv'
  OBVIOUS
<1> USE BasketAssumption DEF WaitInv, TypeOK, WaitsForAReason, Positions
<1>1. CASE FarmerEnters
  BY <1>1 DEF FarmerEnters, Put, Notify
<1>2. CASE FarmerResumes
  BY <1>2 DEF FarmerResumes, Put, Notify
<1>3. CASE ChildEnters
  BY <1>3 DEF ChildEnters, Take, Notify
<1>4. CASE ChildResumes
  BY <1>4 DEF ChildResumes, Take, Notify
<1>5. CASE WakeFarmer
  BY <1>5 DEF WakeFarmer
<1>6. CASE WakeChild
  BY <1>6 DEF WakeChild
<1>7. CASE UNCHANGED vars
  BY <1>7 DEF vars
<1>8. QED
  BY <1>1, <1>2, <1>3, <1>4, <1>5, <1>6, <1>7 DEF Next, Farmer, Child

(* WaitInv holds at the start.                                             *)
LEMMA WaitInit == Init => WaitInv
<1> SUFFICES ASSUME Init PROVE WaitInv
  OBVIOUS
<1>1. woken \in BOOLEAN
  BY Zenon DEF Init
<1> QED
  BY <1>1, BasketAssumption DEF Init, WaitInv, TypeOK, WaitsForAReason, Positions

(* The waits of Farmer.run and Child.run lose no wake-up, even when a wait *)
(* may end by itself.                                                      *)
THEOREM NoLostWakeup == Spec => []WaitsForAReason
<1>1. Init => WaitInv
  BY WaitInit
<1>2. WaitInv => WaitsForAReason
  BY DEF WaitInv
<1>3. QED
  BY <1>1, <1>2, WaitStep, PTL DEF Spec

-----------------------------------------------------------------------------
(* The if statements are enough for a thread that was notified: a farmer   *)
(* finds room when it has the monitor again.                               *)
LEMMA TradeStep == TradeInv /\ [Next]_vars => TradeInv'
<1> SUFFICES ASSUME TradeInv, [Next]_vars PROVE TradeInv'
  OBVIOUS
<1>0. WaitInv'
  BY WaitStep DEF TradeInv
<1> SUFFICES ASSUME ~woken' PROVE (BasketBounded /\ ResumesRightly)'
  BY <1>0 DEF TradeInv
<1> USE BasketAssumption DEF TradeInv, WaitInv, TypeOK, WaitsForAReason,
        Positions, BasketBounded, ResumesRightly
<1>1. CASE FarmerEnters
  BY <1>1 DEF FarmerEnters, Put, Notify
<1>2. CASE FarmerResumes
  BY <1>2 DEF FarmerResumes, Put, Notify
<1>3. CASE ChildEnters
  BY <1>3 DEF ChildEnters, Take, Notify
<1>4. CASE ChildResumes
  BY <1>4 DEF ChildResumes, Take, Notify
<1>5. CASE WakeFarmer \/ WakeChild
  BY <1>5 DEF WakeFarmer, WakeChild
<1>6. CASE UNCHANGED vars
  BY <1>6 DEF vars
<1>7. QED
  BY <1>1, <1>2, <1>3, <1>4, <1>5, <1>6 DEF Next, Farmer, Child

(* TradeInv holds at the start.                                            *)
LEMMA TradeInit == Init => TradeInv
BY BasketAssumption, WaitInit DEF Init, TradeInv, BasketBounded, ResumesRightly

(* Kuang.java, line 5, for every capacity: the basket holds more than it   *)
(* may only after a wait of the farmer has ended by itself.                *)
THEOREM NeverOverfull == Spec => []BoundedUnlessWoken
<1>1. TradeInv => BoundedUnlessWoken
  BY DEF TradeInv, BoundedUnlessWoken
<1>2. QED
  BY <1>1, TradeStep, TradeInit, PTL DEF Spec

(* A step of the threads puts one piece, takes one piece, or leaves the    *)
(* basket alone, unless a wait of the farmer has ended by itself.          *)
LEMMA BufferStep == TradeInv /\ [Next]_vars => [woken \/ Buffer!BNext]_kuang
<1> SUFFICES ASSUME TradeInv, [Next]_vars, ~woken PROVE [Buffer!BNext]_kuang
  OBVIOUS
<1> USE BasketAssumption DEF TradeInv, WaitInv, TypeOK, BasketBounded,
        ResumesRightly, Buffer!BNext, Buffer!BPut, Buffer!BTake
<1>1. CASE FarmerEnters
  BY <1>1 DEF FarmerEnters, Put
<1>2. CASE FarmerResumes
  BY <1>2 DEF FarmerResumes, Put
<1>3. CASE ChildEnters
  BY <1>3 DEF ChildEnters, Take
<1>4. CASE ChildResumes
  BY <1>4 DEF ChildResumes, Take
<1>5. CASE WakeFarmer \/ WakeChild \/ UNCHANGED vars
  BY <1>5 DEF WakeFarmer, WakeChild, vars
<1>6. QED
  BY <1>1, <1>2, <1>3, <1>4, <1>5 DEF Next, Farmer, Child

(* Farmer and Child together implement a bounded buffer until a wait of    *)
(* the farmer ends by itself; waits of the child may.                      *)
THEOREM Refinement == Spec => IsBoundedBuffer
<1>1. Init => Buffer!BInit
  BY DEF Init, Buffer!BInit
<1>2. QED
  BY <1>1, TradeStep, BufferStep, TradeInit, PTL DEF Spec, IsBoundedBuffer

-----------------------------------------------------------------------------
(* The service discoverer, for any callers and services.                   *)

CallerPositions == {"get", "lock", "start", "put", "found", "thrown", "close"}

CloserStates == [pc : {"idle", "closing", "closed", "thrown"},
                 by : Callers \cup {"nobody"}, bound : Nat, cursor : Nat]

DiscovererTypeInv ==
  /\ providers \subseteq Services
  /\ closeables \in Seq(Services)
  /\ locked \in Callers \cup {"nobody"}
  /\ caller \in [Callers ->
       [pc : CallerPositions, name : Services]]
  /\ seen \in [Callers -> Nat]
  /\ closer \in CloserStates
  /\ closer.pc # "idle" => closer.by \in Callers

(* Between the second look and the put, a caller owns the lock.            *)
LockInv == \A t \in Callers : caller[t].pc \in {"start", "put"} => locked = t

(* A listed provider is in the map, or about to be put there; a service    *)
(* whose provider is being made is not in the map.                         *)
Putting == {t \in Callers : caller[t].pc = "put"}

ListInv ==
  /\ \A i, j \in 1 .. Len(closeables) : closeables[i] = closeables[j] => i = j
  /\ \A s \in providers : \E i \in 1 .. Len(closeables) : closeables[i] = s
  /\ \A i \in 1 .. Len(closeables) :
       closeables[i] \in providers \cup {caller[t].name : t \in Putting}
  /\ \A t \in Putting : \E i \in 1 .. Len(closeables) : closeables[i] = caller[t].name
  /\ \A t \in Callers : caller[t].pc = "start" => caller[t].name \notin providers

(* What the loop of close() has done.                                      *)
CloseInv ==
  /\ \A t \in Callers : seen[t] <= Len(closeables)
  /\ closer.pc = "closing" => caller[closer.by].pc = "close"
  /\ closer.bound <= Len(closeables)
  /\ closer.pc \in {"closing", "closed"} =>
       \/ \A p \in 1 .. closer.bound :
            (closer.pc = "closing" => p <= closer.cursor) => p \in closed
       \/ Len(closeables) > closer.bound /\ Len(closeables) > ArrayLength
  /\ closer.pc = "thrown" => Len(closeables) > closer.bound

DiscovererInv == DiscovererTypeInv /\ LockInv /\ ListInv /\ CloseInv

-----------------------------------------------------------------------------
(* Nothing is listed at first.                                             *)
LEMMA DiscovererInvInit == DiscovererInit => DiscovererInv
<1> SUFFICES ASSUME DiscovererInit PROVE DiscovererInv
  OBVIOUS
<1>1. DiscovererTypeInv /\ LockInv /\ CloseInv
  BY DEF DiscovererInit, DiscovererTypeInv, LockInv, CloseInv, CloserStates,
         CallerPositions
<1>2. ListInv
  BY DEF DiscovererInit, ListInv, Putting
<1> QED
  BY <1>1, <1>2 DEF DiscovererInv

(* A step of a caller moves that caller only.                              *)
LEMMA CallerMoves ==
  ASSUME DiscovererTypeInv, NEW t \in Callers, NEW at, Goto(t, at)
  PROVE  /\ caller'[t].pc = at /\ caller'[t].name = caller[t].name
         /\ \A u \in Callers \ {t} : caller'[u] = caller[u]
         /\ at \in CallerPositions =>
              caller' \in [Callers -> [pc : CallerPositions, name : Services]]
<1> DEFINE r == [caller[t] EXCEPT !.pc = at]
<1>1. caller' = [caller EXCEPT ![t] = r]
  BY DEF Goto
<1>2. r.pc = at /\ r.name = caller[t].name
  BY DEF DiscovererTypeInv
<1>3. at \in CallerPositions => r \in [pc : CallerPositions, name : Services]
  BY DEF DiscovererTypeInv
<1> HIDE DEF r
<1> QED
  BY <1>1, <1>2, <1>3 DEF DiscovererTypeInv

(* A step that neither lists a provider nor has to do with one being made. *)
LEMMA SameList ==
  ASSUME ListInv, UNCHANGED <<providers, closeables>>, Putting' = Putting,
         \A t \in Putting : caller'[t].name = caller[t].name,
         \A t \in Callers : caller'[t].pc = "start" => caller'[t].name \notin providers
  PROVE  ListInv'
<1>1. {caller'[t].name : t \in Putting'} = {caller[t].name : t \in Putting}
  OBVIOUS
<1> QED
  BY <1>1 DEF ListInv

(* The two looks, and the next call.                                       *)
LEMMA LookStep ==
  ASSUME DiscovererInv, NEW t \in Callers, Get(t) \/ EnterLock(t) \/ CallAgain(t)
  PROVE  DiscovererTypeInv' /\ LockInv' /\ ListInv'
<1> USE DiscovererAssumption
<1>0. DiscovererTypeInv /\ LockInv /\ ListInv
  BY DEF DiscovererInv
<1>1. CASE Get(t)
  <2>1. PICK at \in {"found", "lock"} : Goto(t, at)
    BY <1>1 DEF Get
  <2>2. /\ UNCHANGED <<providers, closeables, locked, seen, closer>>
        /\ caller[t].pc = "get"
    BY <1>1 DEF Get, At
  <2>3. DiscovererTypeInv' /\ LockInv'
    BY <1>0, <2>1, <2>2, CallerMoves DEF DiscovererTypeInv, LockInv, CallerPositions
  <2>4. Putting' = Putting
    BY <1>0, <2>1, <2>2, CallerMoves DEF Putting
  <2>5. ListInv'
    BY <1>0, <2>1, <2>2, <2>4, CallerMoves, SameList DEF Putting, ListInv
  <2> QED
    BY <2>3, <2>5
<1>2. CASE EnterLock(t)
  <2>1. /\ UNCHANGED <<providers, closeables, closer>>
        /\ seen' = [seen EXCEPT ![t] = Len(closeables)]
        /\ caller[t].pc = "lock" /\ locked = "nobody"
        /\ \/ Goto(t, "found") /\ locked' = locked
           \/ Goto(t, "start") /\ locked' = t /\ caller[t].name \notin providers
    BY <1>2 DEF EnterLock, At
  <2>2. \A u \in Callers : caller[u].pc \notin {"start", "put"}
    BY <1>0, <2>1 DEF LockInv
  <2>a. seen' \in [Callers -> Nat]
    BY <1>0, <2>1 DEF DiscovererTypeInv
  <2>3. DiscovererTypeInv' /\ LockInv'
    BY <1>0, <2>1, <2>2, <2>a, CallerMoves DEF DiscovererTypeInv, LockInv, CallerPositions
  <2>4. Putting' = Putting
    BY <1>0, <2>1, CallerMoves DEF Putting
  <2>5. ListInv'
    BY <1>0, <2>1, <2>2, <2>4, CallerMoves, SameList DEF Putting, ListInv
  <2> QED
    BY <2>3, <2>5
<1>3. CASE CallAgain(t)
  <2>1. PICK name \in Services :
          caller' = [caller EXCEPT ![t] = [pc |-> "get", name |-> name]]
    BY <1>3 DEF CallAgain
  <2>2. /\ UNCHANGED <<providers, closeables, locked, seen, closer>>
        /\ caller[t].pc \in {"found", "thrown"}
    BY <1>3 DEF CallAgain
  <2>3. caller'[t].pc = "get" /\ (\A u \in Callers \ {t} : caller'[u] = caller[u])
    BY <1>0, <2>1 DEF DiscovererTypeInv
  <2>4. DiscovererTypeInv' /\ LockInv'
    BY <1>0, <2>1, <2>2, <2>3 DEF DiscovererTypeInv, LockInv, CallerPositions
  <2>5. Putting' = Putting
    BY <2>2, <2>3 DEF Putting
  <2>6. ListInv'
    BY <1>0, <2>2, <2>3, <2>5, SameList DEF Putting, ListInv
  <2> QED
    BY <2>4, <2>6
<1> QED
  BY <1>1, <1>2, <1>3

(* A provider is made: one that failed to start is forgotten, one that     *)
(* started is listed, and its service is new to the list.                  *)
LEMMA StartStep ==
  ASSUME DiscovererInv, NEW t \in Callers, StartProvider(t)
  PROVE  DiscovererTypeInv' /\ LockInv' /\ ListInv'
<1> USE DiscovererAssumption
<1>0. DiscovererTypeInv /\ LockInv /\ ListInv
  BY DEF DiscovererInv
<1>1. /\ UNCHANGED <<providers, closer>>
      /\ caller[t].pc = "start" /\ caller[t].name \in Services
    BY <1>0 DEF StartProvider, At, DiscovererTypeInv
<1>2. \A u \in Callers \ {t} : caller[u].pc \notin {"start", "put"}
  BY <1>0, <1>1 DEF LockInv
<1>3. Putting = {}
  BY <1>1, <1>2 DEF Putting
<1>4. CASE /\ Goto(t, "thrown") /\ locked' = "nobody"
           /\ UNCHANGED <<closeables, seen>>
  <2>1. DiscovererTypeInv' /\ LockInv'
    <3>1. \A u \in Callers : caller'[u].pc \notin {"start", "put"}
      BY <1>0, <1>2, <1>4, CallerMoves
    <3>2. DiscovererTypeInv'
      BY <1>0, <1>1, <1>4, CallerMoves DEF DiscovererTypeInv, CallerPositions
    <3> QED
      BY <3>1, <3>2 DEF LockInv
  <2>2. Putting' = Putting
    BY <1>0, <1>1, <1>4, CallerMoves DEF Putting
  <2>3. ListInv'
    BY <1>0, <1>1, <1>2, <1>4, <2>2, CallerMoves, SameList DEF Putting, ListInv
  <2> QED
    BY <2>1, <2>3
<1>5. CASE /\ Goto(t, "put") /\ UNCHANGED locked
           /\ closeables' = Append(closeables, caller[t].name)
           /\ seen' = [seen EXCEPT ![t] = Len(closeables')]
  <2>a. closeables' \in Seq(Services) /\ Len(closeables') \in Nat
    BY <1>0, <1>1, <1>5 DEF DiscovererTypeInv
  <2>b. seen' \in [Callers -> Nat]
    BY <1>0, <1>5, <2>a DEF DiscovererTypeInv
  <2>1. DiscovererTypeInv' /\ LockInv'
    BY <1>0, <1>1, <1>2, <1>5, <2>a, <2>b, CallerMoves
    DEF DiscovererTypeInv, LockInv, CallerPositions
  <2>2. Putting' = {t}
    BY <1>0, <1>2, <1>5, CallerMoves DEF Putting
  <2>3. \A i \in 1 .. Len(closeables) :
          closeables[i] \in providers /\ closeables[i] # caller[t].name
    BY <1>0, <1>1, <1>3 DEF ListInv
  <2>4. /\ Len(closeables) \in Nat /\ Len(closeables') = Len(closeables) + 1
        /\ closeables'[Len(closeables')] = caller[t].name
        /\ \A i \in 1 .. Len(closeables) : closeables'[i] = closeables[i]
    BY <1>0, <1>1, <1>5 DEF DiscovererTypeInv
  <2>5. caller'[t].pc = "put" /\ caller'[t].name = caller[t].name
    BY <1>0, <1>5, CallerMoves
  <2>6. \A i, j \in 1 .. Len(closeables') : closeables'[i] = closeables'[j] => i = j
    BY <1>0, <2>3, <2>4 DEF ListInv
  <2>7. \A s \in providers : \E i \in 1 .. Len(closeables') : closeables'[i] = s
    <3> SUFFICES ASSUME NEW s \in providers
                 PROVE  \E i \in 1 .. Len(closeables') : closeables'[i] = s
      OBVIOUS
    <3>1. PICK i \in 1 .. Len(closeables) : closeables[i] = s
      BY <1>0 DEF ListInv
    <3>2. i \in 1 .. Len(closeables')
      BY <2>4
    <3> QED
      BY <2>4, <3>1, <3>2
  <2>8. \A i \in 1 .. Len(closeables') :
          closeables'[i] \in providers \cup {caller'[u].name : u \in {t}}
    BY <2>3, <2>4, <2>5
  <2>9. \E i \in 1 .. Len(closeables') : closeables'[i] = caller'[t].name
    BY <2>4, <2>5
  <2>10. \A u \in Callers : caller'[u].pc # "start"
    BY <1>0, <1>2, <1>5, <2>5, CallerMoves
  <2>11. ListInv'
    BY <1>1, <2>2, <2>6, <2>7, <2>8, <2>9, <2>10 DEF ListInv
  <2> QED
    BY <2>1, <2>11
<1> QED
  BY <1>4, <1>5 DEF StartProvider

(* The listed provider is put into the map.                                *)
LEMMA PutStep ==
  ASSUME DiscovererInv, NEW t \in Callers, PutProvider(t)
  PROVE  DiscovererTypeInv' /\ LockInv' /\ ListInv'
<1> USE DiscovererAssumption
<1>0. DiscovererTypeInv /\ LockInv /\ ListInv
  BY DEF DiscovererInv
<1>1. /\ UNCHANGED <<closeables, seen, closer>> /\ locked' = "nobody"
      /\ caller[t].pc = "put" /\ caller[t].name \in Services
      /\ providers' = providers \cup {caller[t].name} /\ Goto(t, "found")
    BY <1>0 DEF PutProvider, At, DiscovererTypeInv
<1>2. \A u \in Callers \ {t} : caller[u].pc \notin {"start", "put"}
  BY <1>0, <1>1 DEF LockInv
<1>3. Putting = {t} /\ Putting' = {}
  BY <1>0, <1>1, <1>2, CallerMoves DEF Putting
<1>4. \A u \in Callers : caller'[u].pc \notin {"start", "put"}
  BY <1>0, <1>1, <1>2, CallerMoves
<1>5. DiscovererTypeInv' /\ LockInv'
  <2>1. DiscovererTypeInv'
    BY <1>0, <1>1, CallerMoves DEF DiscovererTypeInv, CallerPositions
  <2> QED
    BY <1>4, <2>1 DEF LockInv
<1>6. ListInv'
  BY <1>0, <1>1, <1>3, <1>4 DEF ListInv
<1> QED
  BY <1>5, <1>6

(* Steps of callers: the list only grows, and the closing thread stays     *)
(* where it is.                                                            *)
LEMMA GrowStep ==
  ASSUME DiscovererInv, NEW t \in Callers,
         Get(t) \/ EnterLock(t) \/ StartProvider(t) \/ PutProvider(t) \/ CallAgain(t)
  PROVE  CloseInv'
<1>0. DiscovererTypeInv /\ CloseInv /\ Len(closeables) \in Nat
  BY DEF DiscovererInv, DiscovererTypeInv
<1>1. /\ UNCHANGED <<closer, closed>> /\ Len(closeables') >= Len(closeables)
      /\ Len(closeables') \in Nat
      /\ \/ seen' = seen
         \/ seen' = [seen EXCEPT ![t] = Len(closeables)]
         \/ seen' = [seen EXCEPT ![t] = Len(closeables')]
  BY <1>0 DEF Get, EnterLock, StartProvider, PutProvider, CallAgain, DiscovererTypeInv
<1>2. ASSUME NEW u \in Callers PROVE seen'[u] <= Len(closeables')
  <2>1. seen[u] \in Nat /\ seen[u] <= Len(closeables) /\ seen \in [Callers -> Nat]
    BY <1>0 DEF DiscovererTypeInv, CloseInv
  <2> QED
    BY <1>0, <1>1, <2>1
<1>3. caller[t].pc # "close" /\ \A u \in Callers \ {t} : caller'[u] = caller[u]
  BY <1>0 DEF Get, EnterLock, StartProvider, PutProvider, CallAgain, At, Goto,
              DiscovererTypeInv
<1>4. closer.pc = "closing" => caller'[closer.by].pc = "close"
  BY <1>0, <1>3 DEF CloseInv, DiscovererTypeInv
<1>5. closer.bound \in Nat /\ ArrayLength \in Nat
  BY <1>0, DiscovererAssumption DEF DiscovererTypeInv, CloserStates
<1> QED
  BY <1>0, <1>1, <1>2, <1>4, <1>5 DEF CloseInv

(* close() begins: the thread that calls it is between two other calls.    *)
LEMMA CloseStartsStep ==
  ASSUME DiscovererInv, NEW t \in Callers, CloseStarts(t)
  PROVE  DiscovererInv'
<1> USE DiscovererAssumption
<1>0. DiscovererTypeInv /\ LockInv /\ ListInv /\ CloseInv /\ Len(closeables) \in Nat
  BY DEF DiscovererInv, DiscovererTypeInv
<1>1. /\ UNCHANGED <<providers, closeables, locked, seen, closed>>
      /\ caller[t].pc \in {"found", "thrown"} /\ Goto(t, "close")
      /\ closer' = [pc |-> "closing", by |-> t, bound |-> seen[t], cursor |-> 0]
  BY DEF CloseStarts
<1>2. /\ caller'[t].pc = "close" /\ \A u \in Callers \ {t} : caller'[u] = caller[u]
      /\ caller' \in [Callers -> [pc : CallerPositions, name : Services]]
  BY <1>0, <1>1, CallerMoves DEF CallerPositions
<1>3. seen[t] \in Nat /\ seen[t] <= Len(closeables)
  BY <1>0 DEF DiscovererTypeInv, CloseInv
<1>4. DiscovererTypeInv' /\ LockInv'
  BY <1>0, <1>1, <1>2, <1>3 DEF DiscovererTypeInv, CloserStates, LockInv
<1>5. Putting' = Putting
  BY <1>1, <1>2 DEF Putting
<1>6. ListInv'
  BY <1>0, <1>1, <1>2, <1>5, SameList DEF Putting, ListInv
<1>7. /\ closer'.pc = "closing" /\ closer'.by = t
      /\ closer'.bound = seen[t] /\ closer'.cursor = 0
  BY <1>1
<1>8. CloseInv'
  BY <1>0, <1>1, <1>2, <1>3, <1>7 DEF CloseInv
<1> QED
  BY <1>4, <1>6, <1>8 DEF DiscovererInv

(* close() returns to its thread, normally or with the exception.          *)
LEMMA CloseReturnsStep ==
  ASSUME DiscovererInv, NEW how \in {"closed", "thrown"}, closer.pc = "closing",
         CloseReturns(how), UNCHANGED <<providers, closeables, locked, seen>>,
         how = "closed" => closer.cursor >= closer.bound,
         how = "thrown" => Len(closeables) > closer.bound
  PROVE  DiscovererInv'
<1> USE DiscovererAssumption
<1> DEFINE t == closer.by
<1>0. DiscovererTypeInv /\ LockInv /\ ListInv /\ CloseInv /\ Len(closeables) \in Nat
  BY DEF DiscovererInv, DiscovererTypeInv
<1>1. t \in Callers /\ caller[t].pc = "close" /\ Goto(t, "found") /\ closed' = closed
  BY <1>0 DEF CloseReturns, DiscovererTypeInv, CloseInv
<1>a. closer' = [closer EXCEPT !.pc = how] /\ closer \in CloserStates
  BY <1>0 DEF CloseReturns, DiscovererTypeInv
<1>2. /\ closer'.pc = how /\ closer'.by = t /\ closer' \in CloserStates
      /\ closer'.bound = closer.bound /\ closer'.cursor = closer.cursor
      /\ closer.bound \in Nat /\ closer.cursor \in Nat
  BY <1>a DEF CloserStates
<1> HIDE DEF t
<1>3. /\ caller'[t].pc = "found" /\ \A u \in Callers \ {t} : caller'[u] = caller[u]
      /\ caller' \in [Callers -> [pc : CallerPositions, name : Services]]
  BY <1>0, <1>1, CallerMoves DEF CallerPositions
<1>4. DiscovererTypeInv' /\ LockInv'
  BY <1>0, <1>1, <1>2, <1>3 DEF DiscovererTypeInv, LockInv
<1>5. Putting' = Putting
  BY <1>1, <1>3 DEF Putting
<1>6. ListInv'
  BY <1>0, <1>1, <1>3, <1>5, SameList DEF Putting, ListInv
<1>7. CloseInv'
  BY <1>0, <1>1, <1>2 DEF CloseInv
<1> QED
  BY <1>4, <1>6, <1>7 DEF DiscovererInv

(* The loop of close() goes on: a provider it is bound to see is closed.   *)
LEMMA CloseGoesOnStep ==
  ASSUME DiscovererInv, closer.pc = "closing",
         UNCHANGED <<providers, closeables, locked, caller, seen>>,
         closer' = [closer EXCEPT !.cursor = @ + 1],
         \/ closed' = closed \cup {closer.cursor + 1}
         \/ ~SurelySeen(closer.cursor + 1) /\ UNCHANGED closed
  PROVE  DiscovererInv'
<1> USE DiscovererAssumption
<1>0. DiscovererTypeInv /\ LockInv /\ ListInv /\ CloseInv /\ Len(closeables) \in Nat
  BY DEF DiscovererInv, DiscovererTypeInv
<1>a. closer \in CloserStates /\ closer.cursor \in Nat
  BY <1>0 DEF DiscovererTypeInv, CloserStates
<1>1. /\ closer'.pc = "closing" /\ closer'.by = closer.by /\ closer' \in CloserStates
      /\ closer'.bound = closer.bound /\ closer'.cursor = closer.cursor + 1
      /\ closer.bound \in Nat /\ closer.cursor \in Nat
  BY <1>a DEF CloserStates
<1>2. DiscovererTypeInv' /\ LockInv'
  BY <1>0, <1>1 DEF DiscovererTypeInv, LockInv
<1>3. ListInv'
  BY <1>0 DEF ListInv, Putting
<1>4. \/ \A p \in 1 .. closer.bound : p <= closer.cursor + 1 => p \in closed'
      \/ Len(closeables) > closer.bound /\ Len(closeables) > ArrayLength
  BY <1>0, <1>1 DEF CloseInv, SurelySeen
<1>5. CloseInv'
  BY <1>0, <1>1, <1>4 DEF CloseInv
<1> QED
  BY <1>2, <1>3, <1>5 DEF DiscovererInv

(* Every step keeps the invariant.                                         *)
LEMMA DiscovererStep == DiscovererInv /\ [DiscovererNext]_discovererVars => DiscovererInv'
<1> SUFFICES ASSUME DiscovererInv, [DiscovererNext]_discovererVars PROVE DiscovererInv'
  OBVIOUS
<1>1. CASE CloseNext
  <2>1. Len(closeables) \in Nat /\ closer.bound \in Nat /\ closer.cursor \in Nat
    BY DEF DiscovererInv, DiscovererTypeInv, CloserStates
  <2>2. CASE closer.cursor \in SizesSeen /\ CloseReturns("closed")
    BY <1>1, <2>1, <2>2, CloseReturnsStep DEF CloseNext, SizesSeen
  <2>3. CASE Len(closeables) > closer.bound /\ CloseReturns("thrown")
    BY <1>1, <2>3, CloseReturnsStep DEF CloseNext
  <2>4. CASE /\ closer' = [closer EXCEPT !.cursor = @ + 1]
             /\ \/ closed' = closed \cup {closer.cursor + 1}
                \/ ~SurelySeen(closer.cursor + 1) /\ UNCHANGED closed
             /\ UNCHANGED caller
    BY <1>1, <2>4, CloseGoesOnStep DEF CloseNext
  <2> QED
    BY <1>1, <2>2, <2>3, <2>4 DEF CloseNext
<1>2. ASSUME NEW t \in Callers,
             Get(t) \/ EnterLock(t) \/ StartProvider(t) \/ PutProvider(t) \/ CallAgain(t)
      PROVE  DiscovererInv'
  BY <1>2, LookStep, StartStep, PutStep, GrowStep DEF DiscovererInv
<1>3. ASSUME NEW t \in Callers, CloseStarts(t)
      PROVE  DiscovererInv'
  BY <1>3, CloseStartsStep
<1>4. CASE UNCHANGED discovererVars
  BY <1>4 DEF discovererVars, DiscovererInv, DiscovererTypeInv, LockInv, ListInv, Putting, CloseInv
<1> QED
  BY <1>1, <1>2, <1>3, <1>4 DEF DiscovererNext

-----------------------------------------------------------------------------
(* For any number of threads and services, the look before the lock and    *)
(* the look under it give each service at most one provider, and all of    *)
(* them can be closed.                                                     *)
THEOREM OneProvider == DiscovererSpec => []OneProviderPerService
<1>1. DiscovererInv => OneProviderPerService
  BY DEF DiscovererInv, ListInv, DiscovererTypeInv, OneProviderPerService, IsInjective, Range
<1> QED
  BY <1>1, DiscovererInvInit, DiscovererStep, PTL DEF DiscovererSpec

(* For any number of threads and services, close() closes the providers    *)
(* its thread is synchronized with, or others have since moved the list to *)
(* a larger array; it fails only if others have added a provider since.    *)
THEOREM ClosesWhatItFound == DiscovererSpec => []ClosedUnlessRaced
<1>1. DiscovererInv => ClosedUnlessRaced
  BY DEF DiscovererInv, CloseInv, ClosedUnlessRaced
<1> QED
  BY <1>1, DiscovererInvInit, DiscovererStep, PTL DEF DiscovererSpec
=============================================================================
