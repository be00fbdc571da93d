---------------------------- MODULE MCJavaThreads ----------------------------
(* The Java demos in which threads share objects, one in each behaviour:   *)
(* the volatile counter with three threads of two increments, the basket,  *)
(* wait and notify, the service discoverer.                                *)
EXTENDS AtomicTest, Basket, WaitNotify, Discoverer

CONSTANTS t1, t2, t3, s1, s2, s3

ThreeThreads == {t1, t2, t3}
TwoCallers == {t1, t2}
ThreeServices == {s1, s2, s3}

VARIABLE demo   \* the program that runs

JavaInit ==
  /\ demo \in {"AtomicTest", "Basket", "WaitNotifyTest", "ServiceDiscoverer"}
  /\ AtomicInit /\ Init /\ WaitNotifyInit /\ DiscovererInit

JavaNext ==
  /\ UNCHANGED demo
  /\ \/ /\ demo = "AtomicTest" /\ AtomicNext
        /\ UNCHANGED <<vars, waitVars, discovererVars>>
     \/ /\ demo = "Basket" /\ Next
        /\ UNCHANGED <<atomicVars, waitVars, discovererVars>>
     \/ /\ demo = "WaitNotifyTest" /\ WaitNotifyNext
        /\ UNCHANGED <<atomicVars, vars, discovererVars>>
     \/ /\ demo = "ServiceDiscoverer" /\ DiscovererNext
        /\ UNCHANGED <<atomicVars, vars, waitVars>>

javaVars == <<demo, atomicVars, vars, waitVars, discovererVars>>

JavaSpec ==
  /\ JavaInit /\ [][JavaNext]_javaVars
  /\ demo = "WaitNotifyTest" => WaitNotifyFairness
  /\ demo = "Basket" => BasketFairness

-----------------------------------------------------------------------------
(* See WaitNotify: the producer is left in wait() before a full list.      *)
ProducerLeft == demo = "WaitNotifyTest" => ProducerLeftWaiting

(* See Basket: farmer and child trade for ever, even if waits end by       *)
(* themselves.                                                             *)
BasketKeepsTrading == demo = "Basket" => KeepsTrading
=============================================================================
