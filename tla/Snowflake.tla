------------------------------ MODULE Snowflake ------------------------------
(***************************************************************************)
(* SnowflakeIdGenerator.java: 64-bit ids made of a millisecond timestamp,  *)
(* a data-center id, a worker id and a per-millisecond sequence number.    *)
(*                                                                         *)
(* Several generator instances (Gens) read one wall clock, which ticks but *)
(* may also be set back.  Any thread may call the synchronized method      *)
(* nextId of any live instance.  A process may crash and construct its     *)
(* generator again: the class keeps sequence and lastTimestamp in memory   *)
(* only.                                                                   *)
(***************************************************************************)
EXTENDS Integers

CONSTANTS
  Gens,            \* generator instances of the deployment
  Threads,         \* callers of nextId
  WorkerOf,        \* constructor argument workerId of each instance
  DataCenterOf,    \* constructor argument dataCenterId of each instance
  SeqSize,         \* 1 << sequenceBits
  WorkerSize,      \* 1 << workerIdBits
  DataCenterSize,  \* 1 << dataCenterIdBits
  StartTime,       \* startTime, the epoch of the timestamps
  NoThread,        \* an unlocked monitor
  MaxClock,        \* bound: last clock value explored
  MaxBack,         \* bound: how often the clock is set back
  MaxIds,          \* bound: ids issued by one incarnation
  MaxEpoch         \* bound: incarnations of one instance

(* The fields have positive sizes, and every instance of the deployment is *)
(* given its own pair of worker and data-center ids.                       *)
ASSUME SnowflakeAssumption ==
  /\ SeqSize \in Nat \ {0}
  /\ WorkerSize \in Nat \ {0}
  /\ DataCenterSize \in Nat \ {0}
  /\ StartTime \in Nat
  /\ WorkerOf \in [Gens -> Int]
  /\ DataCenterOf \in [Gens -> Int]
  /\ \A g, h \in Gens : g # h => \/ WorkerOf[g] # WorkerOf[h]
                                 \/ DataCenterOf[g] # DataCenterOf[h]
  /\ NoThread \notin Threads
  /\ MaxClock \in Nat /\ MaxBack \in Nat /\ MaxIds \in Nat /\ MaxEpoch \in Nat

VARIABLES
  clock,          \* System.currentTimeMillis()
  backs,          \* how often the clock has been set back
  live,           \* instances that exist
  sequence,       \* field sequence of each instance
  lastTimestamp,  \* field lastTimestamp of each instance
  lock,           \* owner of the monitor of each instance
  on,             \* instance each thread is executing nextId of
  pc,             \* where in nextId each thread is
  timestamp,      \* local variable timestamp of each thread
  epoch,          \* history: number of the current incarnation
  count,          \* history: ids issued by the current incarnation
  issued          \* history: every id ever returned

vars == <<clock, backs, live, sequence, lastTimestamp, lock, on, pc, timestamp,
          epoch, count, issued>>

fields == <<sequence, lastTimestamp, epoch, count, issued>>

Record ==
  [gen : Gens, epoch : Nat, n : Nat, ts : Nat, seq : 0 .. (SeqSize - 1)]

TypeOK ==
  /\ clock \in Nat /\ backs \in Nat
  /\ live \subseteq Gens
  /\ sequence \in [Gens -> 0 .. (SeqSize - 1)]
  /\ lastTimestamp \in [Gens -> Nat \cup {-1}]
  /\ lock \in [Gens -> Threads \cup {NoThread}]
  /\ on \in [Threads -> Gens]
  /\ pc \in [Threads -> {"idle", "check", "block"}]
  /\ timestamp \in [Threads -> Nat]
  /\ epoch \in [Gens -> Nat] /\ count \in [Gens -> Nat]
  /\ issued \subseteq Record

(* The shifts and ors of nextId.  The constructor keeps workerId and       *)
(* dataCenterId inside their fields, so no field reaches into another and  *)
(* "|" is "+".  timestamp - startTime fits its 41 bits until 2087, so the  *)
(* shift does not overflow the long.                                       *)
Id(g, ts, seq) ==
  (((ts - StartTime) * DataCenterSize + DataCenterOf[g]) * WorkerSize
     + WorkerOf[g]) * SeqSize + seq

IdOf(r) == Id(r.gen, r.ts, r.seq)

Init ==
  /\ clock = StartTime /\ backs = 0
  /\ live = {}
  /\ sequence = [g \in Gens |-> 0]
  /\ lastTimestamp = [g \in Gens |-> -1]
  /\ lock = [g \in Gens |-> NoThread]
  /\ on \in [Threads -> Gens]
  /\ pc = [t \in Threads |-> "idle"]
  /\ timestamp = [t \in Threads |-> 0]
  /\ epoch = [g \in Gens |-> 0] /\ count = [g \in Gens |-> 0]
  /\ issued = {}

-----------------------------------------------------------------------------
(* External: time passes, or an administrator or NTP sets the clock back.  *)
Tick ==
  /\ clock < MaxClock
  /\ clock' = clock + 1
  /\ UNCHANGED <<backs, live, lock, on, pc, timestamp, fields>>

SetBack ==
  /\ backs < MaxBack /\ clock > StartTime
  /\ backs' = backs + 1
  /\ clock' \in StartTime .. (clock - 1)
  /\ UNCHANGED <<live, lock, on, pc, timestamp, fields>>

(* Mutant: the range check is off by one for the worker id.                *)
ValidIdsOffByOne(g) ==
  /\ WorkerOf[g] \in 0 .. WorkerSize
  /\ DataCenterOf[g] \in 0 .. (DataCenterSize - 1)

ValidIds(g) ==
  /\ WorkerOf[g] \in 0 .. (WorkerSize - 1)
  /\ DataCenterOf[g] \in 0 .. (DataCenterSize - 1)

(* The constructor; it throws, and no instance exists, unless ValidIds.    *)
New(g) ==
  /\ g \notin live /\ epoch[g] < MaxEpoch
  /\ ValidIds(g)
  /\ live' = live \cup {g}
  /\ sequence' = [sequence EXCEPT ![g] = 0]
  /\ lastTimestamp' = [lastTimestamp EXCEPT ![g] = -1]
  /\ epoch' = [epoch EXCEPT ![g] = @ + 1]
  /\ count' = [count EXCEPT ![g] = 0]
  /\ UNCHANGED <<clock, backs, lock, on, pc, timestamp, issued>>

(* The process of instance g dies, with the threads that run its nextId.   *)
Crash(g) ==
  /\ g \in live
  /\ live' = live \ {g}
  /\ lock' = [lock EXCEPT ![g] = NoThread]
  /\ pc' = [t \in Threads |-> IF on[t] = g THEN "idle" ELSE pc[t]]
  /\ timestamp' = [t \in Threads |-> IF on[t] = g THEN 0 ELSE timestamp[t]]
  /\ UNCHANGED <<clock, backs, on, fields>>

-----------------------------------------------------------------------------
(* nextId is entered: the monitor is taken and the clock read.             *)
Enter(t, g) ==
  /\ pc[t] = "idle" /\ g \in live /\ lock[g] = NoThread
  /\ count[g] < MaxIds
  /\ lock' = [lock EXCEPT ![g] = t]
  /\ on' = [on EXCEPT ![t] = g]
  /\ pc' = [pc EXCEPT ![t] = "check"]
  /\ timestamp' = [timestamp EXCEPT ![t] = clock]
  /\ UNCHANGED <<clock, backs, live, fields>>

(* The monitor is released and the locals of the call are gone.            *)
Leave(t) ==
  /\ lock' = [lock EXCEPT ![on[t]] = NoThread]
  /\ pc' = [pc EXCEPT ![t] = "idle"]
  /\ timestamp' = [timestamp EXCEPT ![t] = 0]

(* The end of nextId: lastTimestamp is stored and the id returned.         *)
Return(t, ts, seq) ==
  LET g == on[t] IN
  /\ Leave(t)
  /\ sequence' = [sequence EXCEPT ![g] = seq]
  /\ lastTimestamp' = [lastTimestamp EXCEPT ![g] = ts]
  /\ count' = [count EXCEPT ![g] = @ + 1]
  /\ issued' = issued \cup {[gen |-> g, epoch |-> epoch[g], n |-> count[g],
                              ts |-> ts, seq |-> seq]}
  /\ UNCHANGED epoch

(* The clock is behind lastTimestamp: nextId throws.                       *)
ClockMovedBackwards(t) ==
  /\ pc[t] = "check"
  /\ timestamp[t] < lastTimestamp[on[t]]
  /\ Leave(t)
  /\ UNCHANGED <<clock, backs, live, on, fields>>

NextSequence(seq) == (seq + 1) % SeqSize

SameMillisecond(t) ==
  LET g == on[t]
      next == NextSequence(sequence[g]) IN
  /\ pc[t] = "check"
  /\ timestamp[t] = lastTimestamp[g]
  /\ \/ /\ next # 0
        /\ Return(t, timestamp[t], next)
     \/ /\ next = 0
        /\ sequence' = [sequence EXCEPT ![g] = 0]
        /\ pc' = [pc EXCEPT ![t] = "block"]
        /\ UNCHANGED <<lock, timestamp, lastTimestamp, epoch, count, issued>>
  /\ UNCHANGED <<clock, backs, live, on>>

NewMillisecond(t) ==
  /\ pc[t] = "check"
  /\ timestamp[t] > lastTimestamp[on[t]]
  /\ Return(t, timestamp[t], 0)
  /\ UNCHANGED <<clock, backs, live, on>>

(* Mutant: the loop ends when the clock merely reaches lastTimestamp.      *)
BlockTillSameMillis(t) ==
  /\ pc[t] = "block"
  /\ clock >= lastTimestamp[on[t]]
  /\ Return(t, clock, sequence[on[t]])
  /\ UNCHANGED <<clock, backs, live, on>>

(* Mutant: the loop tests the time read on entry and never reads it again. *)
BlockWithoutPolling(t) ==
  /\ pc[t] = "block"
  /\ timestamp[t] > lastTimestamp[on[t]]
  /\ Return(t, timestamp[t], sequence[on[t]])
  /\ UNCHANGED <<clock, backs, live, on>>

(* blockTillNextMillis polls the clock; a poll that fails changes nothing. *)
BlockTillNextMillis(t) ==
  /\ pc[t] = "block"
  /\ clock > lastTimestamp[on[t]]
  /\ Return(t, clock, sequence[on[t]])
  /\ UNCHANGED <<clock, backs, live, on>>

NextId(t) ==
  \/ ClockMovedBackwards(t)
  \/ SameMillisecond(t)
  \/ NewMillisecond(t)
  \/ BlockTillNextMillis(t)

Next ==
  \/ Tick
  \/ SetBack
  \/ \E g \in Gens : New(g) \/ Crash(g)
  \/ \E t \in Threads : (\E g \in Gens : Enter(t, g)) \/ NextId(t)

Spec == Init /\ [][Next]_vars

(* Time passes, and the thread that owns a monitor keeps running.          *)
FairSpec == Spec /\ WF_vars(Tick) /\ \A t \in Threads : WF_vars(NextId(t))

-----------------------------------------------------------------------------
(* The ids one incarnation returns strictly increase in the order in which *)
(* they are returned, whatever the clock does meanwhile (nextId: refusal   *)
(* after a clock set back, sequence wrap and blockTillNextMillis).         *)
IncreasingIds ==
  \A a, b \in issued :
    a.gen = b.gen /\ a.epoch = b.epoch /\ a.n < b.n => IdOf(a) < IdOf(b)

(* Two calls get the same id only when one instance was constructed again  *)
(* and read the same millisecond before and after: the one duplicate that  *)
(* keeping lastTimestamp in memory cannot exclude.  In particular          *)
(* instances with different worker or data-center ids never collide.       *)
CollisionOnlyAfterRestart ==
  \A a, b \in issued :
    a # b /\ IdOf(a) = IdOf(b) =>
      a.gen = b.gen /\ a.epoch # b.epoch /\ a.ts = b.ts

(* A call of nextId ends, by return, exception or crash: the loop of       *)
(* blockTillNextMillis does not spin for ever, even after the clock was    *)
(* set back.  The exception is a generator that has issued ids at the last *)
(* value the bounded clock of the model can show.                          *)
CallsEnd ==
  \A t \in Threads :
    pc[t] # "idle" ~> pc[t] = "idle" \/ lastTimestamp[on[t]] = MaxClock
=============================================================================
