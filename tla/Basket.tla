-------------------------------- MODULE Basket --------------------------------
(***************************************************************************)
(* The producer-consumer demo richard.test.design.pattern.producer.        *)
(* consumer: a Farmer and a Child share the list Kuang.kuang and its       *)
(* monitor.  Each turn of a thread is one synchronized block.  The block   *)
(* gives the monitor up only in wait(), so everything before the wait, and *)
(* everything after it, is one atomic step.                                *)
(*                                                                         *)
(* wait() is called under an if, not in a loop, and the contract of        *)
(* Object.wait permits a wait to end without a notification: WakeFarmer    *)
(* and WakeChild.                                                          *)
(***************************************************************************)
EXTENDS Integers

CONSTANTS
  Capacity,   \* 10 in Farmer.run
  MaxFruit    \* bound: the size up to which an overfull basket is followed

ASSUME BasketAssumption ==
  /\ Capacity \in Nat \ {0}
  /\ MaxFruit \in Nat /\ MaxFruit > Capacity

VARIABLES
  kuang,    \* Kuang.kuang.size(): every element is the same string
  farmer,   \* "ready" (before the block), "waiting" or "notified"
  child,
  woken     \* history: a wait of the farmer has ended by itself

vars == <<kuang, farmer, child, woken>>

Positions == {"ready", "waiting", "notified"}

TypeOK ==
  /\ kuang \in Nat /\ farmer \in Positions /\ child \in Positions
  /\ woken \in BOOLEAN

Init == kuang = 0 /\ farmer = "ready" /\ child = "ready" /\ woken = FALSE

(* The value of a thread's position after notify(): a waiting thread is    *)
(* woken, otherwise the notification is lost.                              *)
Notify(p) == IF p = "waiting" THEN "notified" ELSE p

-----------------------------------------------------------------------------
(* Mutant: the farmer does not wake the child.                             *)
PutSilently ==
  /\ kuang' = kuang + 1
  /\ farmer' = "ready"
  /\ UNCHANGED <<child, woken>>

(* Lines 15-20: add, notify, leave the block.                              *)
Put ==
  /\ kuang < MaxFruit
  /\ kuang' = kuang + 1
  /\ child' = Notify(child)
  /\ farmer' = "ready"
  /\ UNCHANGED woken

(* Mutant: the farmer looks for room for one more than there is.           *)
FarmerOneTooMany ==
  /\ farmer = "ready"
  /\ \/ /\ kuang = Capacity + 1
        /\ farmer' = "waiting" /\ UNCHANGED <<kuang, child, woken>>
     \/ kuang # Capacity + 1 /\ Put

(* The farmer enters the block and waits when the basket is full.          *)
FarmerEnters ==
  /\ farmer = "ready"
  /\ \/ /\ kuang = Capacity
        /\ farmer' = "waiting" /\ UNCHANGED <<kuang, child, woken>>
     \/ kuang # Capacity /\ Put

(* The farmer comes back from wait() and goes on without a second look.    *)
FarmerResumes == farmer = "notified" /\ Put

(* Mutant: the child wakes the farmer only when the basket is empty.       *)
TakeThenWakeWhenEmpty ==
  /\ kuang' = IF kuang = 0 THEN 0 ELSE kuang - 1
  /\ farmer' = IF kuang' = 0 THEN Notify(farmer) ELSE farmer
  /\ child' = "ready"
  /\ UNCHANGED woken

(* Lines 14-19: remove("apple") takes one piece, or none from an empty     *)
(* list; notify; leave the block.                                          *)
Take ==
  /\ kuang' = IF kuang = 0 THEN 0 ELSE kuang - 1
  /\ farmer' = Notify(farmer)
  /\ child' = "ready"
  /\ UNCHANGED woken

ChildEnters ==
  /\ child = "ready"
  /\ \/ /\ kuang = 0
        /\ child' = "waiting" /\ UNCHANGED <<kuang, farmer, woken>>
     \/ kuang # 0 /\ Take

ChildResumes == child = "notified" /\ Take

(* External: a wait ends by itself.                                        *)
WakeFarmer ==
  /\ farmer = "waiting"
  /\ farmer' = "notified" /\ woken' = TRUE
  /\ UNCHANGED <<kuang, child>>

WakeChild ==
  /\ child = "waiting"
  /\ child' = "notified" /\ UNCHANGED <<kuang, farmer, woken>>

Farmer == FarmerEnters \/ FarmerResumes
Child == ChildEnters \/ ChildResumes

Next == Farmer \/ Child \/ WakeFarmer \/ WakeChild

Spec == Init /\ [][Next]_vars

(* Both loops are endless, sleep returns, and a thread that is not waiting *)
(* gets the monitor at last.                                               *)
BasketFairness == WF_vars(Farmer) /\ WF_vars(Child)

-----------------------------------------------------------------------------
(* Kuang.java, line 5: the basket holds at most ten pieces of fruit.  It   *)
(* does not when a wait of the farmer ends by itself.                      *)
BasketBounded == kuang <= Capacity

(* The basket is overfull only if a wait of the farmer has ended by        *)
(* itself; a child whose wait did cannot harm it.                          *)
BoundedUnlessWoken == woken \/ BasketBounded

(* No wake-up is lost: a thread is in wait() only as long as the condition *)
(* it waits for has not changed, so never both are.                        *)
WaitsForAReason ==
  /\ farmer = "waiting" => kuang = Capacity
  /\ child = "waiting" => kuang = 0

(* A farmer that was notified does not look again, and finds room.         *)
ResumesRightly == farmer = "notified" => kuang < Capacity

(* Both threads make progress for ever: the farmer puts and the child      *)
(* takes again and again.                                                  *)
KeepsTrading ==
  /\ []<><<Farmer /\ kuang' > kuang>>_vars
  /\ []<><<Child /\ kuang' < kuang>>_vars

Buffer == INSTANCE BoundedBuffer WITH count <- kuang

(* Every turn of the threads is a step of the bounded buffer until a wait  *)
(* of the farmer ends by itself; waits of the child may end as they like.  *)
IsBoundedBuffer == Buffer!BInit /\ [][woken \/ Buffer!BNext]_kuang

=============================================================================
