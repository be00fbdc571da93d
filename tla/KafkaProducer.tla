---------------------------- MODULE KafkaProducer ----------------------------
(***************************************************************************)
(* cpp/kfk/producer.c: every line of standard input becomes a message for  *)
(* the bounded queue of librdkafka; a full queue makes the program poll    *)
(* and retry, and a message leaves the queue through one delivery report,  *)
(* which poll or flush hands to dr_msg_cb, or when the producer is         *)
(* destroyed.                                                              *)
(***************************************************************************)
EXTENDS Integers, Sequences, FiniteSets

CONSTANTS
  Lines,      \* number of non-empty lines on standard input
  QueueSize   \* queue.buffering.max.messages

ASSUME KafkaProducerAssumption ==
  Lines \in Nat /\ QueueSize \in Nat \ {0}

VARIABLES
  pc,        \* where main is
  run,       \* the flag run
  line,      \* number of lines read
  inflight,  \* messages in the queue not yet delivered or failed
  settled,   \* messages delivered or failed whose report waits for a poll
  reported,  \* how often dr_msg_cb was called for each message
  enqueued,  \* messages rd_kafka_produce accepted, in order
  refused,   \* history: messages it refused for another reason than the queue
  dropped    \* history: messages that were in the queue when it was destroyed

vars == <<pc, run, line, inflight, settled, reported, enqueued, refused, dropped>>

Msgs == 1 .. Lines

TypeOK ==
  /\ pc \in {"read", "produce", "retry", "poll", "flush", "ended",
             "crashed"}
  /\ run \in {0, 1}
  /\ line \in 0 .. Lines
  /\ inflight \subseteq Msgs /\ settled \subseteq Msgs
  /\ reported \in [Msgs -> Nat]
  /\ enqueued \in Seq(Msgs)
  /\ refused \subseteq Msgs /\ dropped \subseteq Msgs

Init ==
  /\ pc = "read" /\ run = 1 /\ line = 0
  /\ inflight = {} /\ settled = {}
  /\ reported = [m \in Msgs |-> 0]
  /\ enqueued = <<>> /\ refused = {} /\ dropped = {}

(* The queue counts messages until their report has been served.           *)
QueueFull == Cardinality(inflight \cup settled) >= QueueSize

-----------------------------------------------------------------------------
(* fgets returns a line, or NULL at the end of the input or after stop has *)
(* closed it.  An empty line only polls.                                   *)
ReadLine ==
  /\ pc = "read"
  /\ \/ /\ run = 1 /\ line < Lines
        /\ line' = line + 1
        /\ pc' = "produce"
     \/ /\ run = 1
        /\ pc' = "poll" /\ UNCHANGED line
     \/ /\ run = 0 \/ line = Lines
        /\ pc' = "flush" /\ UNCHANGED line
  /\ UNCHANGED <<run, inflight, settled, reported, enqueued, refused, dropped>>

(* Mutant: the program retries whenever the queue is full afterwards.      *)
ProduceRetryAfter ==
  /\ pc = "produce"
  /\ inflight' = inflight \cup {line}
  /\ enqueued' = Append(enqueued, line)
  /\ pc' = IF QueueFull THEN "retry" ELSE "poll"
  /\ UNCHANGED <<run, line, settled, reported, refused, dropped>>

(* rd_kafka_produce: accepted, refused because the queue is full, or       *)
(* refused for another reason, after which the line is dropped.            *)
Produce ==
  /\ pc = "produce"
  /\ \/ /\ ~QueueFull
        /\ inflight' = inflight \cup {line}
        /\ enqueued' = Append(enqueued, line)
        /\ pc' = "poll" /\ UNCHANGED refused
     \/ /\ QueueFull
        /\ pc' = "retry" /\ UNCHANGED <<inflight, enqueued, refused>>
     \/ /\ ~QueueFull
        /\ refused' = refused \cup {line}
        /\ pc' = "poll" /\ UNCHANGED <<inflight, enqueued>>
  /\ UNCHANGED <<run, line, settled, reported, dropped>>

(* Mutant: served reports stay queued.                                     *)
ServeAgain(S) ==
  /\ UNCHANGED settled
  /\ reported' = [m \in Msgs |-> IF m \in S THEN 1 + reported[m]
                                 ELSE reported[m]]

(* A poll calls dr_msg_cb for the reports in S.                            *)
Serve(S) ==
  /\ settled' = settled \ S
  /\ reported' = [m \in Msgs |-> IF m \in S THEN reported[m] + 1
                                 ELSE reported[m]]

(* Mutant: the program retries without polling.                            *)
RetryWithoutPoll ==
  /\ pc = "retry"
  /\ pc' = "produce"
  /\ UNCHANGED <<run, line, inflight, settled, reported, enqueued, refused, dropped>>

(* rd_kafka_poll(rk, 1000) after a full queue, then goto retry: without a  *)
(* look at run.                                                            *)
PollAndRetry ==
  /\ pc = "retry"
  /\ Serve(settled)
  /\ pc' = "produce"
  /\ UNCHANGED <<run, line, inflight, enqueued, refused, dropped>>

Poll ==
  /\ pc = "poll"
  /\ Serve(settled)
  /\ pc' = "read"
  /\ UNCHANGED <<run, line, inflight, enqueued, refused, dropped>>

(* rd_kafka_flush serves reports until the queue is empty or ten seconds   *)
(* are over, its result is not looked at; then topic and producer are      *)
(* destroyed, and with them the messages that are still in the queue.      *)
Flush ==
  /\ pc = "flush"
  /\ Serve(settled)
  /\ \/ /\ inflight # {}
        /\ UNCHANGED <<pc, inflight, dropped>>
     \/ /\ pc' = "ended"
        /\ inflight' = {} /\ dropped' = inflight
  /\ UNCHANGED <<run, line, enqueued, refused>>

Main == ReadLine \/ Produce \/ PollAndRetry \/ Poll \/ Flush

Alive == pc \notin {"ended", "crashed"}

(* SIGINT.  A second one closes stdin again, which is undefined: nothing   *)
(* happens or the process dies.                                            *)
Stop ==
  /\ Alive
  /\ run' = 0
  /\ \/ run = 1 /\ UNCHANGED pc
     \/ run = 0 /\ pc' \in {pc, "crashed"}
  /\ UNCHANGED <<line, inflight, settled, reported, enqueued, refused, dropped>>

(* External: a broker acknowledges a message, or its time-out fails it.    *)
Settle(m) ==
  /\ m \in inflight /\ Alive
  /\ inflight' = inflight \ {m}
  /\ settled' = settled \cup {m}
  /\ UNCHANGED <<pc, run, line, reported, enqueued, refused, dropped>>

Next == Main \/ Stop \/ \E m \in Msgs : Settle(m)

Spec == Init /\ [][Next]_vars

(* The program keeps running, and the library settles every message: at    *)
(* the latest after message.timeout.ms.                                    *)
ProducerFairness == WF_vars(Main) /\ \A m \in Msgs : WF_vars(Settle(m))

-----------------------------------------------------------------------------
Enqueued(m) == \E i \in 1 .. Len(enqueued) : enqueued[i] = m

(* The retry loop neither repeats, reorders nor skips a message: the       *)
(* library accepts the lines of the input in order, each at most once, and *)
(* a line it has not accepted is in hand or was refused for another reason *)
(* than a full queue.                                                      *)
ProducedInOrder ==
  /\ \A i, j \in 1 .. Len(enqueued) : i < j => enqueued[i] < enqueued[j]
  /\ \A m \in 1 .. line :
       \/ Enqueued(m) \/ m \in refused
       \/ m = line /\ pc \in {"produce", "retry", "crashed"}

(* A message is reported at most once and only after it was accepted; one  *)
(* that was accepted and not reported is in the queue, or was in it when   *)
(* the producer was destroyed at the end.                                  *)
ReportedOnce ==
  /\ \A m \in Msgs :
       (IF Enqueued(m) THEN 1 ELSE 0)
         = reported[m] + (IF m \in inflight \cup settled \cup dropped THEN 1 ELSE 0)
  /\ dropped # {} => pc = "ended"
  /\ pc = "ended" => inflight \cup settled = {}

(* producer.c, line 94: dr_msg_cb is called once for every message that    *)
(* rd_kafka_produce accepted.  It is not for those that rd_kafka_flush     *)
(* leaves in the queue when its ten seconds are over.                      *)
EveryMessageReported ==
  pc = "ended" => \A i \in 1 .. Len(enqueued) : reported[enqueued[i]] = 1

(* The retry loop ends: the line in hand is produced or dropped, unless a  *)
(* second SIGINT kills the process.                                        *)
RetryEnds == pc = "retry" ~> pc \in {"poll", "crashed"}
=============================================================================
