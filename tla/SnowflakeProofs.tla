--------------------------- MODULE SnowflakeProofs ---------------------------
(***************************************************************************)
(* Proofs about Snowflake for every deployment, every field size and every *)
(* behaviour of the clock.                                                 *)
(***************************************************************************)
EXTENDS Snowflake, TLAPS

(* The thread that owns the monitor of g, and no other, is inside its      *)
(* nextId.                                                                 *)
MonitorInv ==
  \A t \in Threads : pc[t] # "idle" => on[t] \in live /\ lock[on[t]] = t

(* Only instances the constructor accepted are live or have issued ids.    *)
ValidInv ==
  /\ \A g \in live : ValidIds(g)
  /\ \A r \in issued : ValidIds(r.gen)

Blocked(g) == \E t \in Threads : pc[t] = "block" /\ on[t] = g

(* Records of a live incarnation precede its fields: their timestamp is   *)
(* at most lastTimestamp, and in the last millisecond their sequence is    *)
(* at most the field, except while a caller waits for the next millisecond *)
(* after the wrap.                                                         *)
FieldsInv ==
  /\ \A r \in issued :
       /\ r.epoch <= epoch[r.gen]
       /\ r.gen \in live /\ r.epoch = epoch[r.gen] =>
            /\ r.n < count[r.gen]
            /\ r.ts <= lastTimestamp[r.gen]
            /\ r.ts = lastTimestamp[r.gen] =>
                 Blocked(r.gen) \/ r.seq <= sequence[r.gen]

(* Later is larger, and no two records have the same number.               *)
Before(a, b) == a.ts < b.ts \/ (a.ts = b.ts /\ a.seq < b.seq)

OrderInv ==
  \A a, b \in issued :
    a.gen = b.gen /\ a.epoch = b.epoch =>
      /\ a.n < b.n => Before(a, b)
      /\ a.n = b.n => a = b

IInv == TypeOK /\ MonitorInv /\ ValidInv /\ FieldsInv /\ OrderInv

-----------------------------------------------------------------------------
(* A product preserves the order of its first factors.                     *)
LEMMA MulMono ==
  ASSUME NEW x \in Int, NEW y \in Int, NEW k \in Nat, x <= y
  PROVE  x * k <= y * k
OBVIOUS

(* Putting a field of size k below x and y keeps their order.              *)
LEMMA PackOrder ==
  ASSUME NEW x \in Int, NEW y \in Int, NEW k \in Nat \ {0},
         NEW u \in 0 .. (k - 1), NEW v \in 0 .. (k - 1), x < y
  PROVE  x * k + u < y * k + v
<1>1. (x + 1) * k <= y * k
  BY MulMono
<1>2. (x + 1) * k = x * k + k
  OBVIOUS
<1>3. x * k \in Int /\ y * k \in Int
  OBVIOUS
<1> QED
  BY <1>1, <1>2, <1>3

(* Packed values are equal only when both parts are.                       *)
LEMMA PackInjective ==
  ASSUME NEW x \in Int, NEW y \in Int, NEW k \in Nat \ {0},
         NEW u \in 0 .. (k - 1), NEW v \in 0 .. (k - 1),
         x * k + u = y * k + v
  PROVE  x = y /\ u = v
<1>1. x * k \in Int /\ y * k \in Int
  OBVIOUS
<1>2. CASE x < y
  <2>1. x * k + u < y * k + v
    BY <1>2, PackOrder
  <2> QED
    BY <1>1, <2>1
<1>3. CASE y < x
  <2>1. y * k + v < x * k + u
    BY <1>3, PackOrder
  <2> QED
    BY <1>1, <2>1
<1>4. CASE x = y
  BY <1>1, <1>4
<1> QED
  BY <1>2, <1>3, <1>4

(* Ids of one instance are ordered as their timestamps and sequences.      *)
LEMMA IdOrder ==
  ASSUME NEW a \in Record, NEW b \in Record, a.gen = b.gen, ValidIds(a.gen),
         Before(a, b)
  PROVE  IdOf(a) < IdOf(b)
<1> DEFINE high(r) == (r.ts - StartTime) * DataCenterSize + DataCenterOf[r.gen]
           mid(r) == high(r) * WorkerSize + WorkerOf[r.gen]
<1> USE SnowflakeAssumption
<1>1. a.gen \in Gens /\ a.ts \in Nat /\ b.ts \in Nat
      /\ a.seq \in 0 .. (SeqSize - 1) /\ b.seq \in 0 .. (SeqSize - 1)
  BY DEF Record
<1>2. DataCenterOf[a.gen] \in 0 .. (DataCenterSize - 1)
      /\ WorkerOf[a.gen] \in 0 .. (WorkerSize - 1)
  BY DEF ValidIds
<1>3. /\ IdOf(a) = mid(a) * SeqSize + a.seq
      /\ IdOf(b) = mid(b) * SeqSize + b.seq
  BY DEF IdOf, Id
<1>4. /\ high(a) \in Int /\ high(b) \in Int
      /\ mid(a) \in Int /\ mid(b) \in Int
  BY <1>1, <1>2
<1>5. CASE a.ts < b.ts
  <2>1. a.ts - StartTime < b.ts - StartTime
        /\ a.ts - StartTime \in Int /\ b.ts - StartTime \in Int
    BY <1>1, <1>5
  <2>2. high(a) < high(b)
    <3> DEFINE x == a.ts - StartTime
               y == b.ts - StartTime
               u == DataCenterOf[a.gen]
    <3>1. x < y /\ x \in Int /\ y \in Int /\ u \in 0 .. (DataCenterSize - 1)
      BY <2>1, <1>2
    <3> HIDE DEF x, y, u
    <3>2. x * DataCenterSize + u < y * DataCenterSize + u
      BY <3>1, PackOrder
    <3> QED BY <3>2 DEF x, y, u
  <2>3. mid(a) < mid(b)
    <3> DEFINE x == high(a)
               y == high(b)
               u == WorkerOf[a.gen]
    <3>1. x < y /\ x \in Int /\ y \in Int /\ u \in 0 .. (WorkerSize - 1)
      BY <2>2, <1>2, <1>4
    <3> HIDE DEF x, y, u
    <3>2. x * WorkerSize + u < y * WorkerSize + u
      BY <3>1, PackOrder
    <3> QED BY <3>2 DEF x, y, u
  <2> DEFINE x == mid(a)
             y == mid(b)
  <2>4. x < y /\ x \in Int /\ y \in Int
    BY <2>3, <1>4
  <2> HIDE DEF x, y
  <2>5. x * SeqSize + a.seq < y * SeqSize + b.seq
    BY <2>4, <1>1, PackOrder
  <2> QED BY <2>5, <1>3 DEF x, y
<1>6. CASE a.ts = b.ts /\ a.seq < b.seq
  <2>1. mid(a) = mid(b)
    BY <1>6
  <2>2. mid(a) * SeqSize \in Int
    <3> HIDE DEF mid
    <3> QED BY <1>4
  <2> HIDE DEF mid
  <2> QED BY <2>1, <2>2, <1>1, <1>3, <1>6
<1> QED
  BY <1>5, <1>6 DEF Before

(* Equal ids have the same instance, timestamp and sequence.               *)
LEMMA IdInjective ==
  ASSUME NEW a \in Record, NEW b \in Record,
         ValidIds(a.gen), ValidIds(b.gen), IdOf(a) = IdOf(b)
  PROVE  a.gen = b.gen /\ a.ts = b.ts /\ a.seq = b.seq
<1> DEFINE high(r) == (r.ts - StartTime) * DataCenterSize + DataCenterOf[r.gen]
           mid(r) == high(r) * WorkerSize + WorkerOf[r.gen]
<1>1. /\ a.gen \in Gens /\ b.gen \in Gens /\ a.ts \in Nat /\ b.ts \in Nat
      /\ a.seq \in 0 .. (SeqSize - 1) /\ b.seq \in 0 .. (SeqSize - 1)
  BY DEF Record
<1>2. /\ DataCenterOf[a.gen] \in 0 .. (DataCenterSize - 1)
      /\ DataCenterOf[b.gen] \in 0 .. (DataCenterSize - 1)
      /\ WorkerOf[a.gen] \in 0 .. (WorkerSize - 1)
      /\ WorkerOf[b.gen] \in 0 .. (WorkerSize - 1)
  BY DEF ValidIds
<1>0. SeqSize \in Nat \ {0} /\ WorkerSize \in Nat \ {0}
      /\ DataCenterSize \in Nat \ {0} /\ StartTime \in Nat
  BY SnowflakeAssumption
<1>3. mid(a) * SeqSize + a.seq = mid(b) * SeqSize + b.seq
  BY DEF IdOf, Id
<1>4. /\ high(a) \in Int /\ high(b) \in Int
      /\ mid(a) \in Int /\ mid(b) \in Int
  BY <1>0, <1>1, <1>2
<1>5. mid(a) = mid(b) /\ a.seq = b.seq
  <2> DEFINE x == mid(a)
             y == mid(b)
             u == a.seq
             v == b.seq
  <2>1. /\ x * SeqSize + u = y * SeqSize + v
        /\ x \in Int /\ y \in Int
        /\ u \in 0 .. (SeqSize - 1) /\ v \in 0 .. (SeqSize - 1)
    BY <1>1, <1>3, <1>4
  <2> HIDE DEF x, y, u, v
  <2>2. x = y /\ u = v
    BY <2>1, <1>0, PackInjective
  <2> QED BY <2>2 DEF x, y, u, v
<1>6. high(a) = high(b) /\ WorkerOf[a.gen] = WorkerOf[b.gen]
  <2>1. high(a) * WorkerSize + WorkerOf[a.gen]
          = high(b) * WorkerSize + WorkerOf[b.gen]
    BY <1>5
  <2> DEFINE x == high(a)
             y == high(b)
             u == WorkerOf[a.gen]
             v == WorkerOf[b.gen]
  <2>2. /\ x * WorkerSize + u = y * WorkerSize + v
        /\ x \in Int /\ y \in Int
        /\ u \in 0 .. (WorkerSize - 1) /\ v \in 0 .. (WorkerSize - 1)
    BY <2>1, <1>2, <1>4
  <2> HIDE DEF x, y, u, v
  <2>3. x = y /\ u = v
    BY <2>2, <1>0, PackInjective
  <2> QED BY <2>3 DEF x, y, u, v
<1>7. a.ts - StartTime \in Int /\ b.ts - StartTime \in Int
  BY <1>0, <1>1
<1>8. a.ts - StartTime = b.ts - StartTime
      /\ DataCenterOf[a.gen] = DataCenterOf[b.gen]
  <2> DEFINE x == a.ts - StartTime
             y == b.ts - StartTime
             u == DataCenterOf[a.gen]
             v == DataCenterOf[b.gen]
  <2>1. x * DataCenterSize + u = y * DataCenterSize + v
    BY <1>6
  <2>2. x \in Int /\ y \in Int
        /\ u \in 0 .. (DataCenterSize - 1) /\ v \in 0 .. (DataCenterSize - 1)
    BY <1>2, <1>7
  <2> HIDE DEF x, y, u, v
  <2>3. x = y /\ u = v
    BY <2>1, <2>2, <1>0, PackInjective
  <2> QED BY <2>3 DEF x, y, u, v
<1> HIDE DEF high, mid
<1>9. a.ts = b.ts
  BY <1>0, <1>1, <1>8
<1>10. a.gen = b.gen
  BY <1>1, <1>6, <1>8, SnowflakeAssumption
<1> QED
  BY <1>5, <1>9, <1>10

-----------------------------------------------------------------------------
(* The invariant holds before any instance is constructed.                 *)
LEMMA InitInv == Init => IInv
BY SnowflakeAssumption
   DEF Init, IInv, TypeOK, MonitorInv, ValidInv, FieldsInv, OrderInv, Record

(* What Return does to the invariant: the record it appends follows every  *)
(* record of its incarnation.                                              *)
LEMMA ReturnInv ==
  ASSUME IInv, NEW t \in Threads, NEW ts \in Nat, NEW seq \in 0 .. (SeqSize - 1),
         pc[t] # "idle", Return(t, ts, seq),
         UNCHANGED <<clock, backs, live, on>>,
         ts >= lastTimestamp[on[t]],
         \A r \in issued :
            r.gen = on[t] /\ r.epoch = epoch[on[t]] /\ r.ts = ts => r.seq < seq
  PROVE  IInv'
<1> DEFINE g == on[t]
           new == [gen |-> g, epoch |-> epoch[g], n |-> count[g],
                   ts |-> ts, seq |-> seq]
<1> USE SnowflakeAssumption
<1>1. g \in Gens /\ g \in live /\ lock[g] = t
  BY DEF IInv, TypeOK, MonitorInv
<1>2. new \in Record
  BY <1>1 DEF IInv, TypeOK, Record
<1>3. issued' = issued \cup {new}
  BY DEF Return
<1>4. TypeOK'
  BY <1>1, <1>2, <1>3 DEF IInv, TypeOK, Return, Leave
<1>5. MonitorInv'
  BY <1>1 DEF IInv, TypeOK, MonitorInv, Return, Leave
<1>6. ValidInv'
  BY <1>1, <1>3 DEF IInv, ValidInv, ValidIds
<1>7. \A h \in Gens : h # g => (Blocked(h) => Blocked(h)')
  BY DEF IInv, TypeOK, Blocked, Return, Leave
<1>8. \A r \in issued : r \in Record
  BY DEF IInv, TypeOK
<1>9. FieldsInv'
  <2> SUFFICES ASSUME NEW r \in issued'
               PROVE  /\ r.epoch <= epoch'[r.gen]
                      /\ r.gen \in live' /\ r.epoch = epoch'[r.gen] =>
                           /\ r.n < count'[r.gen]
                           /\ r.ts <= lastTimestamp'[r.gen]
                           /\ r.ts = lastTimestamp'[r.gen] =>
                                Blocked(r.gen)' \/ r.seq <= sequence'[r.gen]
    BY DEF FieldsInv
  <2>1. CASE r = new
    BY <2>1, <1>1, <1>2 DEF IInv, TypeOK, Return
  <2>2. CASE r \in issued /\ r.gen = g
    BY <2>2, <1>1, <1>8 DEF IInv, TypeOK, FieldsInv, Return, Record
  <2>3. CASE r \in issued /\ r.gen # g
    BY <2>3, <1>1, <1>7, <1>8 DEF IInv, TypeOK, FieldsInv, Return, Record
  <2> QED
    BY <1>3, <2>1, <2>2, <2>3
<1>10. \A r \in issued : r.gen = g /\ r.epoch = epoch[g] => r.n < count[g]
  BY <1>1 DEF IInv, FieldsInv
<1>11. \A r \in issued : r.gen = g /\ r.epoch = epoch[g] => Before(r, new)
  BY <1>1, <1>8 DEF IInv, TypeOK, FieldsInv, Before, Record
<1>12. OrderInv'
  <2> SUFFICES ASSUME NEW a \in issued', NEW b \in issued',
                      a.gen = b.gen, a.epoch = b.epoch
               PROVE  /\ a.n < b.n => Before(a, b)
                      /\ a.n = b.n => a = b
    BY DEF OrderInv, Before
  <2>1. CASE a \in issued /\ b \in issued
    BY <2>1 DEF IInv, OrderInv
  <2>2. CASE a \in issued /\ b = new
    BY <2>2, <1>8, <1>10, <1>11, <1>2 DEF Record
  <2>3. CASE a = new /\ b \in issued
    BY <2>3, <1>8, <1>10, <1>11, <1>2 DEF Record
  <2>4. CASE a = new /\ b = new
    BY <2>4, <1>2 DEF Record
  <2> QED
    BY <1>3, <2>1, <2>2, <2>3, <2>4
<1> QED
  BY <1>4, <1>5, <1>6, <1>9, <1>12 DEF IInv

(* The masked increment either adds one or wraps to zero.                  *)
LEMMA NextSequenceStep ==
  ASSUME NEW s \in 0 .. (SeqSize - 1)
  PROVE  /\ NextSequence(s) \in 0 .. (SeqSize - 1)
         /\ NextSequence(s) # 0 => NextSequence(s) = s + 1
<1> USE SnowflakeAssumption DEF NextSequence
<1>1. CASE s + 1 < SeqSize
  <2>1. (s + 1) % SeqSize = s + 1
    BY <1>1
  <2> QED BY <2>1, <1>1
<1>2. CASE s + 1 = SeqSize
  <2>1. SeqSize % SeqSize = 0
    OBVIOUS
  <2> QED BY <2>1, <1>2
<1> QED
  BY <1>1, <1>2

(* Nobody else is inside nextId of an instance whose monitor t owns.       *)
LEMMA NotBlocked ==
  ASSUME IInv, NEW t \in Threads, pc[t] = "check"
  PROVE  ~Blocked(on[t])
BY DEF IInv, MonitorInv, Blocked

(* Each way through nextId after its entry preserves the invariant.        *)
LEMMA NextIdInv ==
  ASSUME IInv, NEW t \in Threads, NextId(t)
  PROVE  IInv'
<1> DEFINE g == on[t]
<1> USE SnowflakeAssumption
<1>1. /\ g \in Gens /\ g \in live /\ lock[g] = t
      /\ timestamp[t] \in Nat /\ clock \in Nat
      /\ sequence[g] \in 0 .. (SeqSize - 1)
      /\ lastTimestamp[g] \in Nat \cup {-1}
  BY DEF IInv, TypeOK, MonitorInv, NextId, ClockMovedBackwards, SameMillisecond,
         NewMillisecond, BlockTillNextMillis
<1>2. \A r \in issued : r \in Record
  BY DEF IInv, TypeOK
<1>3. \A r \in issued : r.gen = g /\ r.epoch = epoch[g] =>
         /\ r.ts <= lastTimestamp[g]
         /\ r.ts = lastTimestamp[g] => Blocked(g) \/ r.seq <= sequence[g]
  BY <1>1 DEF IInv, FieldsInv
<1>4. CASE ClockMovedBackwards(t)
  <2>1. TypeOK' /\ MonitorInv'
    BY <1>4, <1>1 DEF IInv, TypeOK, MonitorInv, ClockMovedBackwards, Leave, fields
  <2>2. ValidInv' /\ OrderInv'
    BY <1>4 DEF IInv, ValidInv, ValidIds, OrderInv, Before, ClockMovedBackwards, fields
  <2>3. \A h \in Gens : Blocked(h) => Blocked(h)'
    BY <1>4 DEF IInv, TypeOK, Blocked, ClockMovedBackwards, Leave
  <2>4. FieldsInv'
    BY <1>4, <1>2, <2>3 DEF IInv, FieldsInv, ClockMovedBackwards, fields, Record
  <2> QED BY <2>1, <2>2, <2>4 DEF IInv
<1>5. CASE SameMillisecond(t)
  <2> DEFINE next == NextSequence(sequence[g])
  <2>1. next \in 0 .. (SeqSize - 1) /\ (next # 0 => next = sequence[g] + 1)
    BY <1>1, NextSequenceStep
  <2>2. ~Blocked(g)
    BY <1>5, NotBlocked DEF SameMillisecond
  <2>3. CASE next # 0 /\ Return(t, timestamp[t], next)
    <3>1. \A r \in issued :
            r.gen = g /\ r.epoch = epoch[g] /\ r.ts = timestamp[t] => r.seq < next
      BY <1>1, <1>2, <1>3, <1>5, <2>1, <2>2, <2>3 DEF SameMillisecond, Record
    <3>2. UNCHANGED <<clock, backs, live, on>> /\ timestamp[t] >= lastTimestamp[g]
          /\ pc[t] # "idle"
      BY <1>1, <1>5 DEF SameMillisecond
    <3> HIDE DEF next
    <3> QED BY <2>1, <2>3, <3>1, <3>2, <1>1, ReturnInv
  <2>4. CASE /\ next = 0
             /\ sequence' = [sequence EXCEPT ![g] = 0]
             /\ pc' = [pc EXCEPT ![t] = "block"]
             /\ UNCHANGED <<lock, timestamp, lastTimestamp, epoch, count, issued>>
    <3>1. UNCHANGED <<clock, backs, live, on>>
      BY <1>5 DEF SameMillisecond
    <3>2. TypeOK' /\ MonitorInv'
      BY <2>4, <3>1, <1>1 DEF IInv, TypeOK, MonitorInv
    <3>3. ValidInv' /\ OrderInv'
      BY <2>4, <3>1 DEF IInv, ValidInv, ValidIds, OrderInv, Before
    <3>4. Blocked(g)' /\ \A h \in Gens : Blocked(h) => Blocked(h)'
      BY <2>4, <3>1 DEF IInv, TypeOK, Blocked
    <3>5. FieldsInv'
      BY <2>4, <3>1, <3>4, <1>1, <1>2 DEF IInv, TypeOK, FieldsInv, Record
    <3> QED BY <3>2, <3>3, <3>5 DEF IInv
  <2> QED BY <1>5, <2>3, <2>4 DEF SameMillisecond
<1>6. CASE NewMillisecond(t)
  <2>1. \A r \in issued :
          r.gen = g /\ r.epoch = epoch[g] /\ r.ts = timestamp[t] => r.seq < 0
    BY <1>1, <1>2, <1>3, <1>6 DEF NewMillisecond, Record
  <2>2. UNCHANGED <<clock, backs, live, on>> /\ timestamp[t] >= lastTimestamp[g]
        /\ pc[t] # "idle" /\ 0 \in 0 .. (SeqSize - 1) /\ Return(t, timestamp[t], 0)
    BY <1>1, <1>6 DEF NewMillisecond
  <2> QED BY <2>1, <2>2, <1>1, ReturnInv
<1>7. CASE BlockTillNextMillis(t)
  <2>1. \A r \in issued :
          r.gen = g /\ r.epoch = epoch[g] /\ r.ts = clock => r.seq < sequence[g]
    BY <1>1, <1>2, <1>3, <1>7 DEF BlockTillNextMillis, Record
  <2>2. UNCHANGED <<clock, backs, live, on>> /\ clock >= lastTimestamp[g]
        /\ pc[t] # "idle" /\ Return(t, clock, sequence[g])
    BY <1>1, <1>7 DEF BlockTillNextMillis
  <2> QED BY <2>1, <2>2, <1>1, ReturnInv
<1> QED
  BY <1>4, <1>5, <1>6, <1>7 DEF NextId

(* Every step of the system preserves the invariant.                       *)
LEMMA StepInv == IInv /\ [Next]_vars => IInv'
<1> SUFFICES ASSUME IInv, [Next]_vars PROVE IInv'
  OBVIOUS
<1> USE SnowflakeAssumption
<1>0. \A r \in issued : r \in Record
  BY DEF IInv, TypeOK
<1>1. ASSUME Tick \/ SetBack PROVE IInv'
  <2>1. UNCHANGED <<live, lock, on, pc, timestamp, fields>> /\ clock' \in Nat
        /\ backs' \in Nat
    BY <1>1 DEF Tick, SetBack, IInv, TypeOK
  <2>2. TypeOK' /\ MonitorInv' /\ ValidInv' /\ OrderInv'
    BY <2>1 DEF IInv, TypeOK, MonitorInv, ValidInv, ValidIds, OrderInv, Before, fields
  <2>3. FieldsInv'
    BY <2>1 DEF IInv, FieldsInv, Blocked, fields
  <2> QED BY <2>2, <2>3 DEF IInv
<1>2. ASSUME NEW g \in Gens, New(g) PROVE IInv'
  <2>1. TypeOK' /\ MonitorInv'
    BY <1>2 DEF New, IInv, TypeOK, MonitorInv
  <2>2. ValidInv' /\ OrderInv'
    BY <1>2 DEF New, IInv, ValidInv, ValidIds, OrderInv, Before
  <2>3. \A h \in Gens : Blocked(h) => Blocked(h)'
    BY <1>2 DEF New, Blocked
  <2>4. FieldsInv'
    <3> SUFFICES ASSUME NEW r \in issued'
                 PROVE  /\ r.epoch <= epoch'[r.gen]
                        /\ r.gen \in live' /\ r.epoch = epoch'[r.gen] =>
                             /\ r.n < count'[r.gen]
                             /\ r.ts <= lastTimestamp'[r.gen]
                             /\ r.ts = lastTimestamp'[r.gen] =>
                                  Blocked(r.gen)' \/ r.seq <= sequence'[r.gen]
      BY DEF FieldsInv
    <3>1. r \in issued /\ r \in Record
      BY <1>0, <1>2 DEF New
    <3>2. CASE r.gen = g
      BY <3>1, <3>2, <1>2 DEF New, IInv, TypeOK, FieldsInv, Record
    <3>3. CASE r.gen # g
      BY <3>1, <3>3, <1>2, <2>3 DEF New, IInv, TypeOK, FieldsInv, Record
    <3> QED BY <3>2, <3>3
  <2> QED BY <2>1, <2>2, <2>4 DEF IInv
<1>3. ASSUME NEW g \in Gens, Crash(g) PROVE IInv'
  <2>1. TypeOK' /\ MonitorInv'
    BY <1>3 DEF Crash, IInv, TypeOK, MonitorInv, fields
  <2>2. ValidInv' /\ OrderInv'
    BY <1>3 DEF Crash, IInv, ValidInv, ValidIds, OrderInv, Before, fields
  <2>3. \A h \in Gens : h # g /\ Blocked(h) => Blocked(h)'
    BY <1>3 DEF Crash, Blocked, IInv, TypeOK
  <2>4. FieldsInv'
    BY <1>0, <1>3, <2>3 DEF Crash, IInv, FieldsInv, fields, Record
  <2> QED BY <2>1, <2>2, <2>4 DEF IInv
<1>4. ASSUME NEW t \in Threads, NEW g \in Gens, Enter(t, g) PROVE IInv'
  <2>1. TypeOK'
    BY <1>4 DEF Enter, IInv, TypeOK, fields
  <2>2. MonitorInv'
    BY <1>4 DEF Enter, IInv, TypeOK, MonitorInv
  <2>3. ValidInv' /\ OrderInv'
    BY <1>4 DEF Enter, IInv, ValidInv, ValidIds, OrderInv, Before, fields
  <2>4. \A h \in Gens : Blocked(h) => Blocked(h)'
    BY <1>4 DEF Enter, Blocked, IInv, TypeOK
  <2>5. FieldsInv'
    BY <1>0, <1>4, <2>4 DEF Enter, IInv, FieldsInv, fields, Record
  <2> QED BY <2>1, <2>2, <2>3, <2>5 DEF IInv
<1>5. ASSUME NEW t \in Threads, NextId(t) PROVE IInv'
  BY <1>5, NextIdInv
<1>6. CASE UNCHANGED vars
  <2>1. TypeOK' /\ MonitorInv' /\ ValidInv' /\ OrderInv'
    BY <1>6 DEF vars, IInv, TypeOK, MonitorInv, ValidInv, ValidIds, OrderInv, Before
  <2>2. FieldsInv'
    BY <1>6 DEF vars, IInv, FieldsInv, Blocked
  <2> QED BY <2>1, <2>2 DEF IInv
<1> QED
  BY <1>1, <1>2, <1>3, <1>4, <1>5, <1>6 DEF Next

(* The inductive invariant holds in every reachable state.                 *)
THEOREM Invariance == Spec => []IInv
BY InitInv, StepInv, PTL DEF Spec

(* Type correctness of the generator's fields, monitors and history.       *)
THEOREM TypeCorrect == Spec => []TypeOK
<1>1. IInv => TypeOK
  BY DEF IInv
<1> QED BY <1>1, Invariance, PTL

(* nextId returns strictly increasing ids for the life of an instance,     *)
(* whatever the clock does and however calls interleave.                   *)
THEOREM Increasing == Spec => []IncreasingIds
<1>1. IInv => IncreasingIds
  <2> SUFFICES ASSUME IInv, NEW a \in issued, NEW b \in issued,
                      a.gen = b.gen, a.epoch = b.epoch, a.n < b.n
               PROVE  IdOf(a) < IdOf(b)
    BY DEF IncreasingIds
  <2>1. Before(a, b) /\ ValidIds(a.gen) /\ a \in Record /\ b \in Record
    BY DEF IInv, OrderInv, ValidInv, TypeOK
  <2> QED BY <2>1, IdOrder
<1> QED BY <1>1, Invariance, PTL

(* Ids collide only across a restart within one millisecond.               *)
THEOREM NoCollision == Spec => []CollisionOnlyAfterRestart
<1>1. IInv => CollisionOnlyAfterRestart
  <2> SUFFICES ASSUME IInv, NEW a \in issued, NEW b \in issued, a # b,
                      IdOf(a) = IdOf(b)
               PROVE  a.gen = b.gen /\ a.epoch # b.epoch /\ a.ts = b.ts
    BY DEF CollisionOnlyAfterRestart
  <2>1. ValidIds(a.gen) /\ ValidIds(b.gen) /\ a \in Record /\ b \in Record
    BY DEF IInv, ValidInv, TypeOK
  <2>2. a.gen = b.gen /\ a.ts = b.ts /\ a.seq = b.seq
    BY <2>1, IdInjective
  <2>3. ASSUME a.epoch = b.epoch PROVE FALSE
    <3>1. a.n # b.n
      BY <2>2, <2>3 DEF IInv, OrderInv
    <3>2. a.n \in Nat /\ b.n \in Nat /\ a.seq \in Int /\ a.ts \in Nat
      BY <2>1 DEF Record
    <3>3. Before(a, b) \/ Before(b, a)
      BY <2>2, <2>3, <3>1, <3>2 DEF IInv, OrderInv
    <3> QED BY <2>2, <3>2, <3>3 DEF Before
  <2> QED BY <2>2, <2>3
<1> QED BY <1>1, Invariance, PTL
=============================================================================
