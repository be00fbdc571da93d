----------------------------- MODULE MCResources -----------------------------
(***************************************************************************)
(* The programs that hand out or pass on something limited: connections of *)
(* the MySQL pool, descriptors of the echo servers, places in the queue of *)
(* the Kafka producer.  A behaviour is one of them, as demo says; the      *)
(* variables of the others keep their values.                              *)
(***************************************************************************)
EXTENDS ConPool, EchoServers, KafkaProducer

VARIABLE demo

resourceVars == <<poolVars, echoVars, vars, demo>>

(* What the others are like in a behaviour of one: they have nothing to do. *)
NoPool ==
  /\ phase = "exited" /\ flag = [i \in Slots |-> 0] /\ busy = 0
  /\ cons = [i \in Slots |-> NoCon] /\ filled = 0
  /\ open = {} /\ held = [b \in Borrowers |-> {}]

NoServer == EchoServersInit /\ prog = "fork"

NoProducer ==
  /\ pc = "ended" /\ run = 1 /\ line = 0
  /\ inflight = {} /\ settled = {} /\ reported = [m \in Msgs |-> 0]
  /\ enqueued = <<>> /\ refused = {} /\ dropped = {}

ResourcesInit ==
  \/ demo = "pool" /\ PoolInit /\ NoServer /\ NoProducer
  \/ demo = "servers" /\ EchoServersInit /\ NoPool /\ NoProducer
  \/ demo = "producer" /\ Init /\ NoPool /\ NoServer

ResourcesNext ==
  /\ UNCHANGED demo
  /\ \/ demo = "pool" /\ PoolNext /\ UNCHANGED <<echoVars, vars>>
     \/ demo = "servers" /\ EchoServersNext /\ UNCHANGED <<poolVars, vars>>
     \/ demo = "producer" /\ Next /\ UNCHANGED <<poolVars, echoVars>>

(* The fairness of the servers' and the producer's modules; it asks        *)
(* nothing of a component that has nothing to do.                          *)
ResourcesSpec ==
  /\ ResourcesInit /\ [][ResourcesNext]_resourceVars
  /\ EchoFairness /\ ProducerFairness
=============================================================================
