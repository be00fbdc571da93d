---------------------------- MODULE KafkaConsumer ----------------------------
(***************************************************************************)
(* cpp/kfk/consumer.c (and its copy kfk_test.c): a librdkafka consumer     *)
(* that prints messages until SIGINT clears run, then closes, destroys the *)
(* handle and waits for the library to finish.  The partition holds the    *)
(* offsets 0 .. Last - 1; the process may be started again.                *)
(*                                                                         *)
(* External: the library stores an offset when it hands the message out,   *)
(* commits the stored offset now and then and when the consumer is closed, *)
(* and resumes at the committed offset.                                    *)
(***************************************************************************)
EXTENDS Integers, FiniteSets

CONSTANTS
  Last,         \* number of messages in the partition
  MaxRuns,      \* bound: how often the program is started
  MaxSignals    \* bound: signals sent

ASSUME KafkaConsumerAssumption ==
  Last \in Nat /\ MaxRuns \in Nat /\ MaxSignals \in Nat

VARIABLES
  pc,         \* where main is
  run,        \* the flag and, at the end, the counter run
  rk,         \* handle: "null", "open", "closed", "destroyed"
  stdin,      \* "open" or "closed" (by the handler stop)
  topics,     \* topic list: "null", "allocated", "freed"
  msg,        \* what the last poll returned
  stored,     \* offset store of the library
  committed,  \* offset at the broker
  gone,       \* rd_kafka_wait_destroyed returned 0
  dumped,     \* main called rd_kafka_dump
  signals,    \* signals sent so far
  runs,       \* starts of the program
  badEnds,    \* runs that ended without committing what they had stored
  printed     \* how often each message was printed

handle == <<rk, topics, stdin>>
vars == <<pc, run, handle, msg, stored, committed, gone, dumped, signals,
          runs, badEnds, printed>>

Offsets == 0 .. (Last - 1)

(* Values of msg that are no message: nothing, or an error event.          *)
NoMsg == -1
Unknown == -2       \* unknown partition or topic
Events == {Unknown, -3, -4}   \* also end of partition, any other error

TypeOK ==
  /\ pc \in {"init", "loop", "consume", "close", "destroy", "wait", "check",
             "ended"}
  /\ run \in -1 .. 5
  /\ rk \in {"null", "open", "closed", "destroyed"}
  /\ topics \in {"null", "allocated", "freed"}
  /\ stdin \in {"open", "closed"}
  /\ msg \in Offsets \cup Events \cup {NoMsg}
  /\ stored \in 0 .. Last /\ committed \in 0 .. Last
  /\ gone \in BOOLEAN /\ dumped \in BOOLEAN
  /\ signals \in 0 .. MaxSignals /\ runs \in 1 .. MaxRuns
  /\ badEnds \in 0 .. MaxRuns
  /\ printed \in [Offsets -> 0 .. MaxRuns]

Init ==
  /\ pc = "init" /\ run = 1
  /\ rk = "null" /\ topics = "null" /\ stdin = "open"
  /\ msg = NoMsg /\ gone = FALSE /\ dumped = FALSE
  /\ stored = 0 /\ committed = 0
  /\ signals = 0 /\ runs = 1 /\ badEnds = 0
  /\ printed = [o \in Offsets |-> 0]

(* The process ends without the commit of rd_kafka_consumer_close.         *)
Die ==
  /\ pc' = "ended"
  /\ badEnds' = IF rk = "open" THEN badEnds + 1 ELSE badEnds
  /\ UNCHANGED <<run, handle, msg, stored, committed, gone, dumped, runs,
                 printed>>

-----------------------------------------------------------------------------
(* initKafka returns 1, or -1 from one of its error paths.  main tests     *)
(* !initKafka(...), which holds for neither, and enters the loop.  (With a *)
(* list but no subscription no message comes: the first case, idle.)       *)
InitKafka ==
  /\ pc = "init"
  /\ \/ rk' = "open" /\ topics' = "allocated" /\ stored' = committed
     \/ rk' = "null" /\ topics' = "null" /\ UNCHANGED stored
     \/ rk' = "open" /\ topics' = "null" /\ stored' = committed
  /\ pc' = "loop"
  /\ UNCHANGED <<run, stdin, msg, committed, gone, dumped, signals, runs, badEnds,
                 printed>>

(* rd_kafka_consumer_poll: a message, an error event or nothing.  A null   *)
(* handle kills the process.  Without a subscription no message comes.     *)
Poll ==
  /\ pc = "loop" /\ run # 0
  /\ \/ rk = "null" /\ Die /\ UNCHANGED signals
     \/ /\ rk = "open"
        /\ \/ /\ topics = "allocated" /\ stored < Last
              /\ msg' = stored
              /\ stored' = stored + 1
              /\ pc' = "consume"
           \/ /\ \E e \in Events : msg' = e
              /\ pc' = "consume"
              /\ UNCHANGED stored
           \/ UNCHANGED <<msg, stored, pc>>
        /\ UNCHANGED <<run, handle, committed, gone, dumped, signals, runs,
                       badEnds, printed>>

(* Mutant: an error event is printed as if it were the message before it.  *)
MsgConsumeTwice ==
  /\ pc = "consume"
  /\ printed' = IF msg \in Offsets THEN [printed EXCEPT ![msg] = @ + 1]
                ELSE IF stored > 0 THEN [printed EXCEPT ![stored - 1] = @ + 1]
                ELSE printed
  /\ msg' = NoMsg
  /\ pc' = "loop"
  /\ UNCHANGED <<run, handle, stored, committed, gone, dumped, signals, runs,
                 badEnds>>

(* Mutant: a message is destroyed without being printed.                   *)
MsgConsumeSkips ==
  /\ pc = "consume"
  /\ UNCHANGED printed
  /\ msg' = NoMsg
  /\ pc' = "loop"
  /\ UNCHANGED <<run, handle, stored, committed, gone, dumped, signals, runs,
                 badEnds>>

(* msg_consume and rd_kafka_message_destroy.                               *)
MsgConsume ==
  /\ pc = "consume"
  /\ printed' = IF msg \in Offsets
                THEN [printed EXCEPT ![msg] = @ + 1] ELSE printed
  /\ run' = IF msg = Unknown THEN 0 ELSE run
  /\ msg' = NoMsg
  /\ pc' = "loop"
  /\ UNCHANGED <<handle, stored, committed, gone, dumped, signals, runs,
                 badEnds>>

(* Mutant: the loop is while (run >= 0).                                   *)
LeaveLoopBelowZero ==
  /\ pc = "loop" /\ run < 0
  /\ pc' = "close"
  /\ UNCHANGED <<run, handle, msg, stored, committed, gone, dumped, signals,
                 runs, badEnds, printed>>

LeaveLoop ==
  /\ pc = "loop" /\ run = 0
  /\ pc' = "close"
  /\ UNCHANGED <<run, handle, msg, stored, committed, gone, dumped, signals,
                 runs, badEnds, printed>>

(* rd_kafka_consumer_close commits, or fails and only logs.                *)
ConsumerClose ==
  /\ pc = "close"
  /\ \/ rk = "null" /\ Die /\ UNCHANGED signals
     \/ /\ rk = "open"
        /\ \/ committed' = stored /\ UNCHANGED badEnds
           \/ UNCHANGED committed /\ badEnds' = badEnds + 1
        /\ rk' = "closed"
        /\ pc' = "destroy"
        /\ UNCHANGED <<run, topics, stdin, msg, stored, gone, dumped,
                       signals, runs, printed>>

(* The topic list and the handle are destroyed; destroying a null list     *)
(* kills the process.                                                      *)
Destroy ==
  /\ pc = "destroy"
  /\ \/ topics = "null" /\ Die /\ UNCHANGED signals
     \/ /\ topics = "allocated"
        /\ topics' = "freed" /\ rk' = "destroyed"
        /\ run' = 5
        /\ pc' = "wait"
        /\ UNCHANGED <<stdin, msg, stored, committed, gone, dumped, signals,
                       runs, badEnds, printed>>

(* while (run-- > 0 && rd_kafka_wait_destroyed(1000) == -1)                *)
WaitDestroyed ==
  /\ pc = "wait"
  /\ run' = run - 1
  /\ IF run > 0
     THEN \/ gone' = TRUE /\ pc' = "check"
          \/ UNCHANGED <<gone, pc>>
     ELSE pc' = "check" /\ UNCHANGED gone
  /\ UNCHANGED <<handle, msg, stored, committed, dumped, signals, runs,
                 badEnds, printed>>

(* if (run <= 0) rd_kafka_dump(stdout, rk)                                 *)
CheckRun ==
  /\ pc = "check"
  /\ dumped' = (run <= 0)
  /\ pc' = "ended"
  /\ UNCHANGED <<run, handle, msg, stored, committed, gone, signals, runs,
                 badEnds, printed>>

Main ==
  \/ InitKafka \/ Poll \/ MsgConsume \/ LeaveLoop
  \/ ConsumerClose \/ Destroy \/ WaitDestroyed \/ CheckRun

-----------------------------------------------------------------------------
(* SIGINT: the handler stop exits when run is already 0, and otherwise     *)
(* clears run and closes stdin.  Closing it again, after main has set run  *)
(* to 5, is undefined: nothing happens or the process dies.  In the middle *)
(* of run-- the assignment of the handler is overwritten.                  *)
Stop ==
  /\ pc # "ended" /\ signals < MaxSignals
  /\ signals' = signals + 1
  /\ \/ run = 0 /\ Die
     \/ run # 0 /\ stdin = "closed" /\ Die
     \/ /\ run # 0
        /\ run' = 0 \/ (pc = "wait" /\ run' = run)
        /\ stdin' = "closed"
        /\ UNCHANGED <<pc, rk, topics, msg, stored, committed, gone, dumped,
                       runs, badEnds, printed>>

(* SIGUSR1: the handler dumps rk, which may not be a live handle.          *)
SigUsr1 ==
  /\ pc # "ended" /\ signals < MaxSignals
  /\ signals' = signals + 1
  /\ \/ rk \in {"null", "destroyed"} /\ Die
     \/ UNCHANGED <<pc, run, handle, msg, stored, committed, gone, dumped,
                    runs, badEnds, printed>>

(* External: the automatic commit of the library.                          *)
AutoCommit ==
  /\ pc # "ended" /\ rk = "open" /\ committed # stored
  /\ committed' = stored
  /\ UNCHANGED <<pc, run, handle, msg, stored, gone, dumped, signals, runs,
                 badEnds, printed>>

(* The program is started again.                                           *)
Restart ==
  /\ pc = "ended" /\ runs < MaxRuns
  /\ pc' = "init" /\ run' = 1
  /\ rk' = "null" /\ topics' = "null" /\ stdin' = "open"
  /\ msg' = NoMsg /\ gone' = FALSE /\ dumped' = FALSE
  /\ runs' = runs + 1
  /\ UNCHANGED <<stored, committed, signals, badEnds, printed>>

Next == Main \/ Stop \/ SigUsr1 \/ AutoCommit \/ Restart

Spec == Init /\ [][Next]_vars

(* Main keeps running: poll and wait_destroyed return after a second.      *)
FairSpec == Spec /\ WF_vars(Main)

-----------------------------------------------------------------------------
(* As long as every run ended through rd_kafka_consumer_close, each        *)
(* committed message other than the one in hand was printed exactly once,  *)
(* and none twice.                                                         *)
ExactlyOnceIfClosed ==
  badEnds = 0 =>
    \A o \in Offsets : /\ printed[o] <= 1
                       /\ o < committed /\ msg # o => printed[o] = 1

(* A run that ends otherwise loses at most one committed message: the one  *)
(* polled but not yet printed.                                             *)
LossBounded ==
  Cardinality({o \in Offsets : o < committed /\ msg # o /\ printed[o] = 0})
    <= badEnds

(* After SIGINT has cleared run the program ends.                          *)
StopEnds == run = 0 /\ pc # "ended" ~> pc = "ended"
=============================================================================
