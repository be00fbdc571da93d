------------------------------ MODULE AtomicTest ------------------------------
(***************************************************************************)
(* richard.test.volatileCon.AtomicTest: threads increment the volatile     *)
(* field inc with inc++, a read and a write that other threads may come    *)
(* between, and count a latch down after each increment; main prints inc   *)
(* when the latch is open.                                                 *)
(***************************************************************************)
EXTENDS Integers, FiniteSets

CONSTANTS
  Threads,   \* threadCount of them, 200 in the code
  Total      \* increaseCount, which the latch starts from

(* increaseCount/threadCount, the increments of each thread.               *)
Share == Total \div Cardinality(Threads)

ASSUME AtomicTestAssumption ==
  /\ IsFiniteSet(Threads) /\ Threads # {}
  /\ Total \in Nat \ {0} /\ Total % Cardinality(Threads) = 0

VARIABLES
  inc,       \* the volatile field
  pc,        \* of each thread: "read", "write", "countDown", "done"
  value,     \* what each thread read
  left,      \* turns each thread has left
  latch,     \* count of the latch
  printed    \* what main printed, -1 before

atomicVars == <<inc, pc, value, left, latch, printed>>

AtomicTypeOK ==
  /\ inc \in 0 .. Total
  /\ pc \in [Threads -> {"read", "write", "countDown", "done"}]
  /\ value \in [Threads -> 0 .. Total]
  /\ left \in [Threads -> 0 .. Share]
  /\ latch \in 0 .. Total
  /\ printed \in -1 .. Total

(* Mutant: the latch is one short.                                         *)
InitShortLatch ==
  /\ inc = 0 /\ latch = Total - 1 /\ printed = -1
  /\ pc = [t \in Threads |-> "read"]
  /\ value = [t \in Threads |-> 0]
  /\ left = [t \in Threads |-> Share]

AtomicInit ==
  /\ inc = 0 /\ latch = Total /\ printed = -1
  /\ pc = [t \in Threads |-> "read"]
  /\ value = [t \in Threads |-> 0]
  /\ left = [t \in Threads |-> Share]

-----------------------------------------------------------------------------
Read(t) ==
  /\ pc[t] = "read"
  /\ value' = [value EXCEPT ![t] = inc]
  /\ pc' = [pc EXCEPT ![t] = "write"]
  /\ UNCHANGED <<inc, left, latch, printed>>

Write(t) ==
  /\ pc[t] = "write"
  /\ inc' = value[t] + 1
  /\ pc' = [pc EXCEPT ![t] = "countDown"]
  /\ UNCHANGED <<value, left, latch, printed>>

(* latch.countDown() stops at zero; then the next turn of the loop.        *)
CountDown(t) ==
  /\ pc[t] = "countDown"
  /\ latch' = IF latch > 0 THEN latch - 1 ELSE 0
  /\ left' = [left EXCEPT ![t] = @ - 1]
  /\ pc' = [pc EXCEPT ![t] = IF left[t] = 1 THEN "done" ELSE "read"]
  /\ UNCHANGED <<inc, value, printed>>

(* latch.await() returns and main prints inc.                              *)
PrintInc ==
  /\ latch = 0 /\ printed = -1
  /\ printed' = inc
  /\ UNCHANGED <<inc, pc, value, left, latch>>

Thread(t) == Read(t) \/ Write(t) \/ CountDown(t)

AtomicNext == PrintInc \/ \E t \in Threads : Thread(t)

AtomicSpec == AtomicInit /\ [][AtomicNext]_atomicVars

-----------------------------------------------------------------------------
(* The latch is open only when no increment is outstanding, so main prints *)
(* a value that no thread still changes.  Lost updates make it fall short, *)
(* but not below two as soon as every thread makes two increments: a       *)
(* thread's last read follows a write.                                     *)
PrintedIsFinal ==
  /\ latch = 0 => \A t \in Threads : pc[t] = "done"
  /\ printed # -1 =>
       /\ printed = inc /\ printed <= Total
       /\ printed >= IF Share > 1 THEN 2 ELSE 1
=============================================================================
