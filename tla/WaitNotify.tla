------------------------------ MODULE WaitNotify ------------------------------
(***************************************************************************)
(* richard.test.concurrent.WaitNotifyTest: a producer and a consumer share *)
(* a list and its monitor.  Each has one synchronized block, which the     *)
(* producer leaves only in wait() and the consumer only at its end: sleep, *)
(* yield and notify keep the monitor.  A wait may end without a            *)
(* notification (Object.wait): WakeProducer.                               *)
(***************************************************************************)
EXTENDS Integers

CONSTANTS
  SizeLimit,     \* SIZE_LIMIT, 10 in the code
  MaxProducts    \* bound: up to which a list beyond the limit is followed

ASSUME WaitNotifyAssumption ==
  SizeLimit \in Nat \ {0} /\ MaxProducts \in Nat /\ MaxProducts > SizeLimit

VARIABLES
  products,    \* size of the list
  owner,       \* of its monitor: "nobody", "producer" or "consumer"
  producer,    \* "start", "produce", "waiting", "notified"
  consumer,    \* "start", "consume", "ended"
  consumed,    \* history: how many products were taken
  unbidden     \* history: the producer's wait has ended by itself

waitVars == <<products, owner, producer, consumer, consumed, unbidden>>

WaitNotifyInit ==
  /\ products = 0 /\ owner = "nobody" /\ consumed = 0 /\ unbidden = FALSE
  /\ producer = "start" /\ consumer = "start"

(* Enters the block, or comes back from wait().                            *)
ProducerEnters ==
  /\ owner = "nobody" /\ producer \in {"start", "notified"}
  /\ owner' = "producer" /\ producer' = "produce"
  /\ UNCHANGED <<products, consumer, consumed, unbidden>>

(* A turn of the loop: one more product, and wait() when the limit is met. *)
Produce ==
  /\ owner = "producer" /\ products < MaxProducts
  /\ products' = products + 1
  /\ IF products' = SizeLimit THEN producer' = "waiting" /\ owner' = "nobody"
     ELSE UNCHANGED <<producer, owner>>
  /\ UNCHANGED <<consumer, consumed, unbidden>>

(* External: the wait ends by itself.                                      *)
WakeProducer ==
  /\ producer = "waiting"
  /\ producer' = "notified" /\ unbidden' = TRUE
  /\ UNCHANGED <<products, owner, consumer, consumed>>

ConsumerEnters ==
  /\ owner = "nobody" /\ consumer = "start"
  /\ owner' = "consumer" /\ consumer' = "consume"
  /\ UNCHANGED <<products, producer, consumed, unbidden>>

(* Mutant: the producer is not notified.                                   *)
ConsumeSilently ==
  /\ owner = "consumer" /\ products > 0
  /\ products' = products - 1 /\ consumed' = consumed + 1
  /\ UNCHANGED <<owner, producer, consumer, unbidden>>

(* A turn of the loop: one product less, and notify() below the limit.     *)
Consume ==
  /\ owner = "consumer" /\ products > 0
  /\ products' = products - 1 /\ consumed' = consumed + 1
  /\ producer' = IF producer = "waiting" /\ products' < SizeLimit THEN "notified" ELSE producer
  /\ UNCHANGED <<owner, consumer, unbidden>>

ConsumerEnds ==
  /\ owner = "consumer" /\ products = 0
  /\ owner' = "nobody" /\ consumer' = "ended"
  /\ UNCHANGED <<products, producer, consumed, unbidden>>

ProducerStep == ProducerEnters \/ Produce
ConsumerStep == ConsumerEnters \/ Consume \/ ConsumerEnds

WaitNotifyNext == ProducerStep \/ ConsumerStep \/ WakeProducer

(* Started threads are run, and get a monitor that is free.                *)
WaitNotifyFairness == WF_waitVars(ProducerStep) /\ WF_waitVars(ConsumerStep)

-----------------------------------------------------------------------------
(* The program never ends.  Whichever thread comes first, the producer is  *)
(* left in wait() before a full list that nobody will take from, and the   *)
(* consumer has taken everything there was when it came: all of the first  *)
(* filling, or nothing.  Only a wait that ends by itself undoes this.      *)
ProducerLeftWaiting ==
  \/ <>unbidden
  \/ <>[](/\ producer = "waiting" /\ products = SizeLimit
          /\ consumer = "ended" /\ consumed \in {0, SizeLimit})
=============================================================================
