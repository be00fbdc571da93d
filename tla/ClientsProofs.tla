---------------------------- MODULE ClientsProofs ----------------------------
(***************************************************************************)
(* Proofs about the programs that receive from a server: the Kafka         *)
(* consumer and the HTTP clients.                                          *)
(***************************************************************************)
EXTENDS KafkaConsumer, HttpClients, FiniteSetTheorems, TLAPS

(* The Kafka consumer.                                                     *)
TypeInv ==
  /\ pc \in {"init", "loop", "consume", "close", "destroy", "wait", "check",
             "ended"}
  /\ rk \in {"null", "open", "closed", "destroyed"}
  /\ msg \in Offsets \cup Events \cup {NoMsg}
  /\ stored \in 0 .. Last /\ committed \in 0 .. Last
  /\ badEnds \in Nat
  /\ printed \in [Offsets -> Nat]

(* The handle at each point of main; a message is in hand only while it is *)
(* being printed, or for good when the process died there.                 *)
PhaseInv ==
  /\ pc = "init" => rk = "null"
  /\ pc \in {"loop", "close"} => rk \in {"null", "open"}
  /\ pc = "consume" => rk = "open"
  /\ pc = "destroy" => rk = "closed"
  /\ pc \in {"wait", "check"} => rk = "destroyed"
  /\ msg # NoMsg => pc \in {"consume", "ended"} /\ rk = "open"
  /\ msg \in Offsets => msg < stored

(* The offset store is never behind the broker.                            *)
OffsetInv == committed <= stored

(* No run has failed to commit: the offset store tells what was printed.   *)
CleanInv ==
  badEnds = 0 =>
    /\ rk # "open" \/ pc = "ended" => committed = stored
    /\ pc = "ended" => rk # "open"
    /\ \A o \in Offsets : printed[o] = IF o < stored /\ o # msg THEN 1 ELSE 0

(* What was handed out and never printed.                                  *)
Missing == {o \in Offsets : o < stored /\ o # msg /\ printed[o] = 0}

(* A message in hand when the process died will be missing after the next  *)
(* start; the end that lost it has been counted already.                   *)
MissingInv ==
  /\ Cardinality(Missing) <= badEnds
  /\ pc = "ended" /\ msg # NoMsg => Cardinality(Missing) < badEnds

(* A message is printed once more than there were bad ends only if no run  *)
(* from now on will be handed it.                                          *)
RepeatInv ==
  \A o \in Offsets :
    /\ printed[o] <= badEnds + 1
    /\ printed[o] = badEnds + 1 =>
         IF rk = "open" /\ pc # "ended" THEN o < stored /\ o # msg
         ELSE o < committed

ConsumerInv == TypeInv /\ PhaseInv /\ OffsetInv /\ CleanInv /\ MissingInv /\ RepeatInv

-----------------------------------------------------------------------------
(* Finitely many messages are missing.                                     *)
LEMMA MissingFinite ==
  ASSUME NEW S \in SUBSET Offsets
  PROVE  IsFiniteSet(S) /\ Cardinality(S) \in Nat
<1>1. IsFiniteSet(Offsets)
  BY KafkaConsumerAssumption, FS_Interval DEF Offsets
<1>2. IsFiniteSet(S)
  BY <1>1, FS_Subset
<1> QED
  BY <1>2, FS_CardinalityType

(* The program starts in the invariant.                                    *)
LEMMA ConsumerInvInit == Init => ConsumerInv
<1> SUFFICES ASSUME Init PROVE ConsumerInv
  OBVIOUS
<1> USE KafkaConsumerAssumption DEF Init
<1>1. TypeInv
  BY DEF TypeInv
<1>2. PhaseInv
  BY DEF PhaseInv, NoMsg, Offsets
<1>3. OffsetInv /\ CleanInv /\ RepeatInv
  BY DEF OffsetInv, CleanInv, RepeatInv, Offsets, NoMsg
<1>4. MissingInv
  <2>1. Missing = {}
    BY DEF Missing, Offsets
  <2> QED
    BY <2>1, FS_EmptySet DEF MissingInv
<1> QED
  BY <1>1, <1>2, <1>3, <1>4 DEF ConsumerInv

(* A death of the process keeps the invariant: an open handle makes it a   *)
(* bad end.                                                                *)
LEMMA DieInv ==
  ASSUME ConsumerInv, pc # "ended", Die
  PROVE  ConsumerInv'
<1> USE DEF ConsumerInv, Die, handle
<1>1. TypeInv' /\ PhaseInv' /\ OffsetInv'
  BY DEF TypeInv, PhaseInv, OffsetInv, Events
<1>2. CleanInv'
  BY DEF TypeInv, PhaseInv, CleanInv
<1>3. MissingInv'
  <2>1. Missing' = Missing
    BY DEF Missing
  <2>2. Cardinality(Missing) \in Nat
    BY MissingFinite DEF Missing
  <2> QED
    BY <2>1, <2>2 DEF TypeInv, PhaseInv, MissingInv
<1>4. RepeatInv'
  BY DEF TypeInv, PhaseInv, RepeatInv
<1> QED
  BY <1>1, <1>2, <1>3, <1>4

(* A step that leaves messages, offsets, the handle and the count of bad   *)
(* ends alone.                                                             *)
LEMMA FrameInv ==
  ASSUME ConsumerInv, UNCHANGED <<rk, msg, stored, committed, badEnds, printed>>,
         TypeInv', PhaseInv', pc = "ended" <=> pc' = "ended"
  PROVE  ConsumerInv'
<1> USE DEF ConsumerInv
<1>1. OffsetInv' /\ CleanInv' /\ RepeatInv'
  BY DEF OffsetInv, CleanInv, RepeatInv
<1>2. Missing' = Missing
  BY DEF Missing
<1>3. MissingInv'
  BY <1>2 DEF MissingInv
<1> QED
  BY <1>1, <1>3

(* initKafka resumes at the committed offset, or leaves the handle null.   *)
LEMMA InitKafkaInv ==
  ASSUME ConsumerInv, InitKafka
  PROVE  ConsumerInv'
<1> USE DEF ConsumerInv, InitKafka
<1>1. stored' \in {stored, committed} /\ committed' = committed
  OBVIOUS
<1>2. msg = NoMsg /\ rk = "null"
  BY DEF PhaseInv
<1>3. TypeInv' /\ PhaseInv' /\ OffsetInv'
  BY <1>1, <1>2 DEF TypeInv, PhaseInv, OffsetInv, Offsets, NoMsg
<1>4. CleanInv'
  BY <1>2 DEF CleanInv
<1>5. MissingInv'
  <2>1. Missing' \subseteq Missing
    BY <1>1 DEF Missing, OffsetInv, TypeInv, Offsets
  <2>2. Cardinality(Missing') <= Cardinality(Missing)
    BY <2>1, MissingFinite, FS_Subset DEF Missing
  <2>3. Cardinality(Missing') \in Nat /\ Cardinality(Missing) \in Nat
    BY <2>1, MissingFinite DEF Missing
  <2> QED
    BY <2>2, <2>3 DEF TypeInv, MissingInv
<1>6. RepeatInv'
  <2> SUFFICES ASSUME NEW o \in Offsets
               PROVE  /\ printed[o] <= badEnds + 1
                      /\ printed[o] = badEnds + 1 =>
                           /\ rk' = "open" => o < stored' /\ o # msg
                           /\ rk' # "open" => o < committed
    BY DEF RepeatInv
  <2>1. printed[o] <= badEnds + 1 /\ (printed[o] = badEnds + 1 => o < committed)
    BY <1>2 DEF RepeatInv
  <2>2. rk' = "open" => stored' = committed
    BY <1>2
  <2>3. o # msg
    BY <1>2 DEF Offsets, NoMsg
  <2> QED
    BY <2>1, <2>2, <2>3
<1> QED
  BY <1>3, <1>4, <1>5, <1>6

(* A poll hands out the next message, or none.                             *)
LEMMA PollInv ==
  ASSUME ConsumerInv, Poll
  PROVE  ConsumerInv'
<1> USE KafkaConsumerAssumption DEF ConsumerInv
<1>1. CASE rk = "null"
  BY <1>1, DieInv DEF Poll
<1>2. CASE rk = "open" /\ stored' = stored
  <2>1. msg = NoMsg /\ pc = "loop"
    BY DEF Poll, PhaseInv
  <2>2. /\ UNCHANGED <<rk, committed, badEnds, printed, stored>>
        /\ \/ pc' = "consume" /\ msg' \in Events
           \/ UNCHANGED <<pc, msg>>
    BY <1>2, <2>1 DEF Poll, handle, TypeInv
  <2>3. \A o \in Offsets : o # msg /\ o # msg'
    BY <2>1, <2>2 DEF Offsets, NoMsg, Events, Unknown
  <2>4. TypeInv' /\ PhaseInv' /\ OffsetInv'
    BY <1>2, <2>1, <2>2, <2>3 DEF TypeInv, PhaseInv, OffsetInv
  <2>5. CleanInv' /\ RepeatInv'
    BY <1>2, <2>1, <2>2, <2>3 DEF CleanInv, RepeatInv
  <2>6. Missing' = Missing
    BY <2>2, <2>3 DEF Missing
  <2> QED
    BY <2>1, <2>2, <2>4, <2>5, <2>6 DEF MissingInv
<1>3. CASE rk = "open" /\ stored' # stored
  <2>1. /\ pc = "loop" /\ pc' = "consume" /\ msg = NoMsg
        /\ stored < Last /\ msg' = stored /\ stored' = stored + 1
        /\ UNCHANGED <<rk, committed, badEnds, printed>>
    BY <1>3 DEF Poll, handle, PhaseInv
  <2>2. msg' \in Offsets /\ stored \in Nat
    BY <2>1 DEF TypeInv, Offsets
  <2>3. \A o \in Offsets : o # msg /\ (o < stored' /\ o # msg' <=> o < stored)
    BY <2>1, <2>2 DEF Offsets, NoMsg
  <2>4. TypeInv' /\ PhaseInv' /\ OffsetInv'
    BY <1>3, <2>1, <2>2 DEF TypeInv, PhaseInv, OffsetInv, Offsets, NoMsg
  <2>5. CleanInv' /\ RepeatInv'
    BY <1>3, <2>1, <2>3 DEF CleanInv, RepeatInv
  <2>6. Missing' = Missing
    BY <2>1, <2>3 DEF Missing
  <2> QED
    BY <2>1, <2>4, <2>5, <2>6 DEF MissingInv
<1> QED
  BY <1>1, <1>2, <1>3 DEF Poll

(* The message in hand is printed.                                         *)
LEMMA ConsumeInv ==
  ASSUME ConsumerInv, MsgConsume
  PROVE  ConsumerInv'
<1> USE DEF ConsumerInv
<1>1. /\ pc = "consume" /\ pc' = "loop" /\ msg' = NoMsg /\ rk = "open"
      /\ UNCHANGED <<rk, stored, committed, badEnds>>
  BY DEF MsgConsume, handle, PhaseInv
<1>2. /\ printed' \in [Offsets -> Nat]
      /\ \A o \in Offsets : printed'[o] = IF o = msg THEN printed[o] + 1 ELSE printed[o]
  BY DEF MsgConsume, TypeInv
<1>3. \A o \in Offsets : o # msg'
  BY <1>1 DEF Offsets, NoMsg
<1>4. \A o \in Offsets : o = msg => o < stored
  BY DEF PhaseInv
<1>5. TypeInv' /\ PhaseInv' /\ OffsetInv'
  BY <1>1, <1>2, <1>3 DEF TypeInv, PhaseInv, OffsetInv
<1>6. CleanInv'
  BY <1>1, <1>2, <1>3, <1>4 DEF CleanInv
<1>7. MissingInv'
  <2>1. Missing' \subseteq Missing
    BY <1>1, <1>2, <1>4 DEF Missing, TypeInv
  <2>2. Cardinality(Missing') <= Cardinality(Missing)
    BY <2>1, MissingFinite, FS_Subset DEF Missing
  <2>3. Cardinality(Missing') \in Nat /\ Cardinality(Missing) \in Nat
    BY <2>1, MissingFinite DEF Missing
  <2> QED
    BY <1>1, <2>2, <2>3 DEF TypeInv, MissingInv
<1>8. RepeatInv'
  BY <1>1, <1>2, <1>3, <1>4 DEF RepeatInv, TypeInv
<1> QED
  BY <1>5, <1>6, <1>7, <1>8

(* rd_kafka_consumer_close commits; when it fails, that is a bad end.      *)
LEMMA CloseInv ==
  ASSUME ConsumerInv, ConsumerClose
  PROVE  ConsumerInv'
<1> USE DEF ConsumerInv
<1>1. CASE rk = "null"
  BY <1>1, DieInv DEF ConsumerClose
<1>2. CASE rk = "open"
  <2>1. /\ pc = "close" /\ pc' = "destroy" /\ rk' = "closed" /\ msg = NoMsg
        /\ UNCHANGED <<msg, stored, printed>>
        /\ \/ committed' = stored /\ badEnds' = badEnds
           \/ committed' = committed /\ badEnds' = badEnds + 1
    BY <1>2 DEF ConsumerClose, PhaseInv
  <2>2. TypeInv' /\ PhaseInv' /\ OffsetInv'
    BY <2>1 DEF TypeInv, PhaseInv, OffsetInv
  <2>3. CleanInv'
    BY <1>2, <2>1 DEF CleanInv, TypeInv
  <2>4. Missing' = Missing /\ Cardinality(Missing) \in Nat
    BY <2>1, MissingFinite DEF Missing
  <2>5. MissingInv'
    BY <2>1, <2>4 DEF MissingInv, TypeInv
  <2>6. RepeatInv'
    BY <1>2, <2>1 DEF RepeatInv, TypeInv
  <2> QED
    BY <2>2, <2>3, <2>5, <2>6
<1> QED
  BY <1>1, <1>2 DEF ConsumerClose

(* The end of main: the handle is destroyed and awaited.                   *)
LEMMA ShutdownInv ==
  ASSUME ConsumerInv, LeaveLoop \/ Destroy \/ WaitDestroyed \/ CheckRun
  PROVE  ConsumerInv'
<1> USE DEF ConsumerInv
<1>1. CASE LeaveLoop
  <2>1. TypeInv' /\ PhaseInv'
    BY <1>1 DEF LeaveLoop, handle, TypeInv, PhaseInv
  <2> QED
    BY <1>1, <2>1, FrameInv DEF LeaveLoop, handle
<1>2. CASE Destroy
  <2>1. CASE topics = "null"
    BY <1>2, <2>1, DieInv DEF Destroy
  <2>2. CASE topics # "null"
    <3>1. /\ pc = "destroy" /\ pc' = "wait" /\ rk = "closed" /\ rk' = "destroyed"
          /\ msg = NoMsg
          /\ UNCHANGED <<msg, stored, committed, badEnds, printed>>
      BY <1>2, <2>2 DEF Destroy, PhaseInv
    <3>2. TypeInv' /\ PhaseInv' /\ OffsetInv'
      BY <3>1 DEF TypeInv, PhaseInv, OffsetInv
    <3>3. CleanInv' /\ RepeatInv'
      BY <3>1 DEF CleanInv, RepeatInv
    <3>4. Missing' = Missing
      BY <3>1 DEF Missing
    <3> QED
      BY <3>1, <3>2, <3>3, <3>4 DEF MissingInv
  <2> QED
    BY <2>1, <2>2
<1>3. CASE WaitDestroyed
  <2>1. /\ pc = "wait" /\ pc' \in {"wait", "check"}
        /\ UNCHANGED <<rk, msg, stored, committed, badEnds, printed>>
    BY <1>3 DEF WaitDestroyed, handle
  <2>2. TypeInv' /\ PhaseInv'
    BY <2>1 DEF TypeInv, PhaseInv
  <2> QED
    BY <2>1, <2>2, FrameInv
<1>4. CASE CheckRun
  <2>1. /\ pc = "check" /\ pc' = "ended" /\ msg = NoMsg /\ rk = "destroyed"
        /\ UNCHANGED <<rk, msg, stored, committed, badEnds, printed>>
    BY <1>4 DEF CheckRun, handle, PhaseInv
  <2>2. TypeInv' /\ PhaseInv' /\ OffsetInv'
    BY <2>1 DEF TypeInv, PhaseInv, OffsetInv
  <2>3. CleanInv' /\ RepeatInv'
    BY <2>1 DEF CleanInv, RepeatInv
  <2>4. Missing' = Missing
    BY <2>1 DEF Missing
  <2> QED
    BY <2>1, <2>2, <2>3, <2>4 DEF MissingInv
<1> QED
  BY <1>1, <1>2, <1>3, <1>4

(* Signals end the process, or only touch run and stdin.                   *)
LEMMA SignalInv ==
  ASSUME ConsumerInv, Stop \/ SigUsr1
  PROVE  ConsumerInv'
<1>1. pc # "ended"
  BY DEF Stop, SigUsr1
<1>2. CASE Die
  BY <1>1, <1>2, DieInv
<1>3. CASE ~Die
  <2>1. UNCHANGED <<pc, rk, msg, stored, committed, badEnds, printed>>
    BY <1>3 DEF Stop, SigUsr1, handle
  <2>2. TypeInv' /\ PhaseInv'
    BY <2>1 DEF ConsumerInv, TypeInv, PhaseInv
  <2> QED
    BY <2>1, <2>2, FrameInv
<1> QED
  BY <1>2, <1>3

(* The library commits what it has handed out.                             *)
LEMMA AutoCommitInv ==
  ASSUME ConsumerInv, AutoCommit
  PROVE  ConsumerInv'
<1> USE DEF ConsumerInv
<1>1. /\ pc # "ended" /\ rk = "open" /\ committed' = stored
      /\ UNCHANGED <<pc, rk, msg, stored, badEnds, printed>>
  BY DEF AutoCommit, handle
<1>2. TypeInv' /\ PhaseInv' /\ OffsetInv'
  BY <1>1 DEF TypeInv, PhaseInv, OffsetInv
<1>3. CleanInv' /\ RepeatInv'
  BY <1>1 DEF CleanInv, RepeatInv
<1>4. Missing' = Missing
  BY <1>1 DEF Missing
<1> QED
  BY <1>1, <1>2, <1>3, <1>4 DEF MissingInv

(* After a bad end the message that was in hand is missing.                *)
LEMMA RestartInv ==
  ASSUME ConsumerInv, Restart
  PROVE  ConsumerInv'
<1> USE DEF ConsumerInv
<1>1. /\ pc = "ended" /\ pc' = "init" /\ rk' = "null" /\ msg' = NoMsg
      /\ UNCHANGED <<stored, committed, badEnds, printed>>
  BY DEF Restart
<1>2. TypeInv' /\ PhaseInv' /\ OffsetInv'
  BY <1>1 DEF TypeInv, PhaseInv, OffsetInv, NoMsg, Offsets
<1>3. CleanInv'
  <2>1. badEnds = 0 => rk # "open" /\ msg = NoMsg
    BY <1>1 DEF CleanInv, PhaseInv
  <2> QED
    BY <1>1, <2>1 DEF CleanInv
<1>4. RepeatInv'
  BY <1>1 DEF RepeatInv
<1>5. MissingInv'
  <2>1. CASE msg = NoMsg
    <3>1. Missing' = Missing
      BY <1>1, <2>1 DEF Missing
    <3> QED
      BY <1>1, <3>1 DEF MissingInv
  <2>2. CASE msg # NoMsg
    <3>1. IsFiniteSet(Missing) /\ Cardinality(Missing) \in Nat
      BY MissingFinite DEF Missing
    <3>2. Missing' \subseteq Missing \cup {msg}
      BY <1>1 DEF Missing
    <3>3. /\ IsFiniteSet(Missing \cup {msg})
          /\ Cardinality(Missing \cup {msg}) <= Cardinality(Missing) + 1
          /\ Cardinality(Missing \cup {msg}) \in Nat
      BY <3>1, FS_AddElement, FS_CardinalityType
    <3>4. Cardinality(Missing') <= Cardinality(Missing \cup {msg})
      BY <3>2, <3>3, FS_Subset
    <3>5. Cardinality(Missing') \in Nat
      BY <3>2, <3>3, FS_Subset, FS_CardinalityType
    <3> QED
      BY <1>1, <2>2, <3>1, <3>3, <3>4, <3>5 DEF MissingInv, TypeInv
  <2> QED
    BY <2>1, <2>2
<1> QED
  BY <1>2, <1>3, <1>4, <1>5

(* Every step of main, the handlers and the library keeps the invariant.   *)
LEMMA ConsumerStep == ConsumerInv /\ [Next]_vars => ConsumerInv'
<1> SUFFICES ASSUME ConsumerInv, [Next]_vars PROVE ConsumerInv'
  OBVIOUS
<1>1. CASE Main
  BY <1>1, InitKafkaInv, PollInv, ConsumeInv, CloseInv, ShutdownInv DEF Main
<1>2. CASE Stop \/ SigUsr1 \/ AutoCommit \/ Restart
  BY <1>2, SignalInv, AutoCommitInv, RestartInv
<1>3. CASE UNCHANGED vars
  <2>1. TypeInv' /\ PhaseInv'
    BY <1>3 DEF vars, handle, ConsumerInv, TypeInv, PhaseInv
  <2> QED
    BY <1>3, <2>1, FrameInv DEF vars, handle
<1> QED
  BY <1>1, <1>2, <1>3 DEF Next

-----------------------------------------------------------------------------
(* The invariant holds in every reachable state.                           *)
THEOREM ConsumerInvariance == Spec => []ConsumerInv
BY ConsumerInvInit, ConsumerStep, PTL DEF Spec

(* For any number of messages, starts and signals: while every run ended   *)
(* through rd_kafka_consumer_close, committed messages were printed once.  *)
THEOREM ExactlyOnce == Spec => []ExactlyOnceIfClosed
<1>1. ConsumerInv => ExactlyOnceIfClosed
  BY DEF ConsumerInv, TypeInv, OffsetInv, CleanInv, ExactlyOnceIfClosed, Offsets
<1> QED
  BY <1>1, ConsumerInvariance, PTL

(* For any number of messages, starts and signals: no more committed       *)
(* messages are lost than runs ended badly.                                *)
THEOREM AtMostOneLostPerBadEnd == Spec => []LossBounded
<1>1. ConsumerInv => LossBounded
  <2> SUFFICES ASSUME ConsumerInv PROVE LossBounded
    OBVIOUS
  <2> DEFINE Lost == {o \in Offsets : o < committed /\ msg # o /\ printed[o] = 0}
  <2>1. Lost \subseteq Missing
    BY DEF ConsumerInv, TypeInv, OffsetInv, Missing, Offsets
  <2>2. Cardinality(Lost) <= Cardinality(Missing)
    BY <2>1, MissingFinite, FS_Subset DEF Missing
  <2>3. Cardinality(Lost) \in Nat /\ Cardinality(Missing) \in Nat
    BY MissingFinite DEF Missing
  <2> QED
    BY <2>2, <2>3 DEF ConsumerInv, TypeInv, MissingInv, LossBounded
<1> QED
  BY <1>1, ConsumerInvariance, PTL

(* For any number of messages, starts and signals: a message is printed    *)
(* again at most once for every run that ended badly.                      *)
THEOREM AtMostOneRepeatPerBadEnd ==
  Spec => [](\A o \in Offsets : printed[o] <= badEnds + 1)
<1>1. ConsumerInv => \A o \in Offsets : printed[o] <= badEnds + 1
  BY DEF ConsumerInv, RepeatInv
<1> QED
  BY <1>1, ConsumerInvariance, PTL

-----------------------------------------------------------------------------
(* The HTTP clients.                                                       *)
Chars == {"x", "\r", "\n"}

Connections ==
  [answer : Seq(Chars), arrived : Nat, taken : Nat,
   state : {"open", "closed", "reset", "gone"}]

ClientStates ==
  [prog : {"download", "get_data", "writemsg"}, pc : {"connect", "send", "read", "done"},
   sent : Nat, i : Nat, got : Seq(Nat), armed : BOOLEAN, ret : Int]

ClientsTypeInv ==
  /\ net \in Connections /\ net.taken <= net.arrived /\ net.arrived <= Len(net.answer)
  /\ cl \in ClientStates

(* Nothing is taken before the request is sent.                            *)
EarlyInv ==
  /\ cl.pc = "connect" \/ (cl.pc = "send" /\ cl.prog # "download") => cl.sent = 0
  /\ cl.pc \in {"connect", "send"} => net.taken = 0 /\ cl.i = 0 /\ cl.got = <<>>

(* The sequence g is a run of positions that begins after h.               *)
RunFrom(h, g) == \A j \in 1 .. Len(g) : g[j] = h + j

(* Four line ends in a row in the answer a, the last of them at j.         *)
IsLineEnd(a, k) == a[k] \in {"\r", "\n"}
HeadEnd(a, j) == \A k \in j - 3 .. j : IsLineEnd(a, k)

(* In the head: i counts the line ends in a row that were read last.       *)
InHead(a, t, i) ==
  /\ i \in 0 .. 3 /\ i <= t
  /\ \A j \in 4 .. t : ~HeadEnd(a, j)
  /\ \A k \in t - i + 1 .. t : IsLineEnd(a, k)
  /\ t > i => ~IsLineEnd(a, t - i)

(* In the body, which began after the first end of a head.                 *)
InBody(a, t, g) ==
  \E h \in 4 .. t : /\ HeadEnd(a, h) /\ \A j \in 4 .. h - 1 : ~HeadEnd(a, j)
                    /\ Len(g) = t - h /\ RunFrom(h, g)

DownloadInv ==
  cl.prog = "download" =>
    \/ cl.got = <<>> /\ InHead(net.answer, net.taken, cl.i)
    \/ cl.i = 4 /\ InBody(net.answer, net.taken, cl.got)

GetDataInv ==
  cl.prog = "get_data" =>
    /\ cl.pc = "read" => net.taken = 0 /\ cl.got = <<>>
    /\ cl.pc = "done" => /\ RunFrom(0, cl.got) /\ Len(cl.got) <= PollSize
                         /\ cl.ret = -1 => cl.got = <<>>
                         /\ cl.sent > 0 /\ cl.got = <<>> /\ cl.ret = 0 => net.state = "gone"

WritemsgInv ==
  cl.prog = "writemsg" =>
    /\ cl.pc = "read" =>
         RunFrom(0, cl.got) /\ Len(cl.got) = net.taken /\ net.taken % Chunk = 0
    /\ cl.pc = "done" /\ cl.sent > 0 =>
         /\ RunFrom(0, cl.got)
         /\ \/ cl.ret = Len(cl.got) /\ cl.ret = net.taken
               /\ (cl.ret % Chunk = 0 => net.state # "open")
            \/ cl.ret = net.taken - 1 /\ net.taken % Chunk = 0 /\ net.state = "gone"

ClientsInv == ClientsTypeInv /\ EarlyInv /\ DownloadInv /\ GetDataInv /\ WritemsgInv

-----------------------------------------------------------------------------
(* The smaller of two numbers.                                             *)
LEMMA MinOfTwo ==
  ASSUME NEW a \in Int, NEW b \in Int
  PROVE  Min({a, b}) \in {a, b} /\ Min({a, b}) <= a /\ Min({a, b}) <= b
<1>1. \E x \in {a, b} : \A y \in {a, b} : x <= y
  OBVIOUS
<1> QED
  BY <1>1 DEF Min

(* A count is divided by the length of a full piece.                       *)
LEMMA PieceRemainder ==
  ASSUME NEW c \in Nat \ {0}, NEW q \in Nat, NEW k \in 0 .. c - 1
  PROVE  (q * c + k) % c = k
OBVIOUS

(* Full pieces and one more that is full, or that is not.                  *)
LEMMA PiecesRemainder ==
  ASSUME NEW c \in Nat \ {0}, NEW t \in Nat, t % c = 0
  PROVE  (t + c) % c = 0 /\ \A k \in 1 .. c - 1 : (t + k) % c = k
<1>1. t = c * (t \div c) /\ t \div c \in Nat
  OBVIOUS
<1> DEFINE q == t \div c
<1>2. q \in Nat /\ t = q * c
  BY <1>1
<1> HIDE DEF q
<1>3. (t + c) % c = 0
  <2>1. t + c = (q + 1) * c + 0 /\ q + 1 \in Nat /\ 0 \in 0 .. c - 1
    BY <1>2
  <2> QED
    BY <2>1, PieceRemainder
<1>4. ASSUME NEW k \in 1 .. c - 1 PROVE (t + k) % c = k
  <2>1. t + k = q * c + k /\ k \in 0 .. c - 1
    BY <1>2
  <2> QED
    BY <1>2, <2>1, PieceRemainder
<1> QED
  BY <1>3, <1>4

(* recv and read return at least one byte of those that arrived.           *)
LEMMA AvailableRange ==
  ASSUME ClientsTypeInv, NEW n \in Int, NEW k \in Available(n)
  PROVE  k \in Nat \ {0} /\ k <= n /\ net.taken + k <= net.arrived
<1>1. net.arrived \in Nat /\ net.taken \in Nat
  BY DEF ClientsTypeInv, Connections
<1> DEFINE m == net.arrived - net.taken
<1>2. m \in Int
  BY <1>1
<1>3. k \in 1 .. Min({n, m})
  BY DEF Available
<1> HIDE DEF m
<1>4. Min({n, m}) \in Int /\ Min({n, m}) <= n /\ Min({n, m}) <= m
  BY <1>2, MinOfTwo
<1>5. k \in Nat \ {0} /\ k <= n /\ k <= m
  BY <1>2, <1>3, <1>4
<1> QED
  BY <1>1, <1>5 DEF m

(* Taking bytes leaves the rest of the connection as it was.               *)
LEMMA TakeUpFacts ==
  ASSUME ClientsTypeInv, NEW k \in Nat, TakeUp(k), net.taken + k <= net.arrived
  PROVE  /\ net' \in Connections /\ net'.taken <= net'.arrived
         /\ net'.arrived <= Len(net'.answer) /\ net'.answer = net.answer
         /\ net'.taken = net.taken + k /\ net'.state = net.state
BY DEF ClientsTypeInv, Connections, TakeUp

(* The positions of the next k bytes.                                      *)
LEMMA TakenFacts ==
  ASSUME ClientsTypeInv, NEW k \in Nat
  PROVE  /\ Taken(k) \in Seq(Nat) /\ Len(Taken(k)) = k
         /\ \A j \in 1 .. k : Taken(k)[j] = net.taken + j
<1>1. net.taken \in Nat
  BY DEF ClientsTypeInv, Connections
<1> QED
  BY <1>1 DEF Taken

(* Reporting an error takes no bytes.                                      *)
LEMMA ErrorReportedFacts ==
  ASSUME ClientsTypeInv, ErrorReported
  PROVE  /\ net' \in Connections /\ net'.taken <= net'.arrived
         /\ net'.arrived <= Len(net'.answer) /\ net'.answer = net.answer
         /\ net'.taken = net.taken /\ net'.state = "gone"
BY DEF ClientsTypeInv, Connections, ErrorReported

(* A run that is continued.                                                *)
LEMMA RunContinued ==
  ASSUME NEW h \in Nat, NEW g \in Seq(Nat), RunFrom(h, g),
         NEW s \in Seq(Nat), NEW m, m = h + Len(g), RunFrom(m, s)
  PROVE  g \o s \in Seq(Nat) /\ Len(g \o s) = Len(g) + Len(s) /\ RunFrom(h, g \o s)
<1>1. /\ g \o s \in Seq(Nat) /\ Len(g \o s) = Len(g) + Len(s)
      /\ Len(g) \in Nat /\ Len(s) \in Nat
      /\ \A j \in 1 .. Len(g) : (g \o s)[j] = g[j]
      /\ \A j \in 1 .. Len(s) : (g \o s)[Len(g) + j] = s[j]
  OBVIOUS
<1> DEFINE w == g \o s  l == Len(g)  k == Len(s)
<1>2. /\ Len(w) = l + k /\ l \in Nat /\ k \in Nat
      /\ \A j \in 1 .. l : w[j] = g[j]
      /\ \A j \in 1 .. k : w[l + j] = s[j]
  BY <1>1
<1>3. (\A j \in 1 .. l : g[j] = h + j) /\ (\A j \in 1 .. k : s[j] = h + l + j)
  BY DEF RunFrom
<1> HIDE DEF w, l, k
<1>4. ASSUME NEW j \in 1 .. l + k PROVE w[j] = h + j
  <2>1. CASE j <= l
    BY <1>2, <1>3, <2>1
  <2>2. CASE j > l
    <3>1. j - l \in 1 .. k /\ j = l + (j - l) /\ h + l + (j - l) = h + j
      BY <1>2, <2>2
    <3> QED
      BY <1>2, <1>3, <3>1
  <2> QED
    BY <1>2, <2>1, <2>2
<1>5. RunFrom(h, w)
  BY <1>2, <1>4 DEF RunFrom
<1> QED
  BY <1>1, <1>5 DEF w

(* A line end that does not complete the end of the head.                  *)
LEMMA HeadGoesOn ==
  ASSUME NEW a, NEW t \in Nat, NEW i \in 0 .. 2, InHead(a, t, i), IsLineEnd(a, t + 1)
  PROVE  InHead(a, t + 1, i + 1)
<1>1. i <= t /\ (t > i => ~IsLineEnd(a, t - i))
  BY DEF InHead
<1>2. ASSUME NEW j \in 4 .. t + 1 PROVE ~HeadEnd(a, j)
  <2>1. CASE j <= t
    BY <2>1 DEF InHead
  <2>2. CASE j = t + 1
    <3>1. t > i /\ t - i \in j - 3 .. j
      BY <2>2
    <3> QED
      BY <1>1, <3>1 DEF HeadEnd
  <2> QED
    BY <2>1, <2>2
<1>3. ASSUME NEW k \in (t + 1) - (i + 1) + 1 .. t + 1 PROVE IsLineEnd(a, k)
  <2>1. k \in t - i + 1 .. t \/ k = t + 1
    OBVIOUS
  <2> QED
    BY <2>1 DEF InHead
<1>4. (t + 1) - (i + 1) = t - i
  OBVIOUS
<1> QED
  BY <1>1, <1>2, <1>3, <1>4 DEF InHead

(* A character in the head that is no line end.                            *)
LEMMA HeadBegins ==
  ASSUME NEW a, NEW t \in Nat, NEW i \in 0 .. 3, InHead(a, t, i), ~IsLineEnd(a, t + 1)
  PROVE  InHead(a, t + 1, 0)
<1>1. ASSUME NEW j \in 4 .. t + 1 PROVE ~HeadEnd(a, j)
  <2>1. CASE j <= t
    BY <2>1 DEF InHead
  <2>2. CASE j = t + 1
    <3>1. t + 1 \in j - 3 .. j
      BY <2>2
    <3> QED
      BY <3>1 DEF HeadEnd
  <2> QED
    BY <2>1, <2>2
<1>2. (t + 1) - 0 = t + 1
  OBVIOUS
<1> QED
  BY <1>1, <1>2 DEF InHead

(* The fourth line end in a row.                                           *)
LEMMA BodyBegins ==
  ASSUME NEW a, NEW t \in Nat, InHead(a, t, 3), IsLineEnd(a, t + 1)
  PROVE  InBody(a, t + 1, <<>>)
<1>1. t >= 3
  BY DEF InHead
<1>2. HeadEnd(a, t + 1)
  <2>1. ASSUME NEW k \in (t + 1) - 3 .. t + 1 PROVE IsLineEnd(a, k)
    <3>1. k \in t - 3 + 1 .. t \/ k = t + 1
      OBVIOUS
    <3> QED
      BY <3>1 DEF InHead
  <2> QED
    BY <2>1 DEF HeadEnd
<1>3. \A j \in 4 .. (t + 1) - 1 : ~HeadEnd(a, j)
  BY DEF InHead
<1>4. Len(<<>>) = (t + 1) - (t + 1) /\ RunFrom(t + 1, <<>>) /\ t + 1 \in 4 .. t + 1
  BY <1>1 DEF RunFrom
<1> QED
  BY <1>2, <1>3, <1>4 DEF InBody

(* A byte of the body.                                                     *)
LEMMA BodyGoesOn ==
  ASSUME NEW a, NEW t \in Nat, NEW g \in Seq(Nat), InBody(a, t, g),
         NEW s \in Seq(Nat), Len(s) = 1, RunFrom(t, s)
  PROVE  InBody(a, t + 1, g \o s)
<1>1. PICK h \in 4 .. t : /\ HeadEnd(a, h) /\ \A j \in 4 .. h - 1 : ~HeadEnd(a, j)
                          /\ Len(g) = t - h /\ RunFrom(h, g)
  BY DEF InBody
<1>2. h + Len(g) = t /\ h \in Nat /\ h \in 4 .. t + 1
  BY <1>1
<1>3. Len(g \o s) = Len(g) + 1 /\ RunFrom(h, g \o s)
  <2>1. t = h + Len(g) /\ h \in Nat
    BY <1>2
  <2> QED
    BY <1>1, <2>1, RunContinued
<1>4. Len(g \o s) = (t + 1) - h
  BY <1>1, <1>2, <1>3
<1> QED
  BY <1>1, <1>2, <1>3, <1>4 DEF InBody

-----------------------------------------------------------------------------
(* Nothing was taken at the start.                                         *)
LEMMA ClientsInvInit == HttpClientsInit => ClientsInv
<1> SUFFICES ASSUME HttpClientsInit PROVE ClientsInv
  OBVIOUS
<1>1. PICK a \in ServerAnswers : net = [answer |-> a, arrived |-> 0, taken |-> 0, state |-> "open"]
  BY DEF HttpClientsInit
<1>2. PICK prog \in {"download", "get_data", "writemsg"} : cl = Client(prog, "connect")
  BY DEF HttpClientsInit
<1>3. a \in Seq(Chars) /\ Len(a) \in Nat
  BY HttpClientsAssumption DEF Chars
<1>4. ClientsTypeInv
  BY <1>1, <1>2, <1>3 DEF ClientsTypeInv, Connections, ClientStates, Client
<1>5. /\ cl.pc = "connect" /\ cl.sent = 0 /\ cl.i = 0 /\ cl.got = <<>> /\ net.taken = 0
  BY <1>1, <1>2 DEF Client
<1>6. InHead(net.answer, 0, 0)
  BY DEF InHead
<1> QED
  BY <1>4, <1>5, <1>6 DEF ClientsInv, EarlyInv, DownloadInv, GetDataInv, WritemsgInv

(* A step that takes nothing and leaves the client alone.                  *)
LEMMA ServerFrame ==
  ASSUME ClientsInv, UNCHANGED cl, net' \in Connections,
         net'.taken <= net'.arrived, net'.arrived <= Len(net'.answer),
         net'.answer = net.answer, net'.taken = net.taken,
         net.state # "open" => net'.state # "open",
         net.state = "gone" => net'.state = "gone"
  PROVE  ClientsInv'
<1>1. ClientsTypeInv' /\ EarlyInv'
  BY DEF ClientsInv, ClientsTypeInv, EarlyInv
<1>2. DownloadInv'
  BY DEF ClientsInv, DownloadInv
<1>3. GetDataInv'
  BY DEF ClientsInv, GetDataInv
<1>4. WritemsgInv'
  BY DEF ClientsInv, WritemsgInv
<1> QED
  BY <1>1, <1>2, <1>3, <1>4 DEF ClientsInv

(* The server.                                                             *)
LEMMA RemoteStep ==
  ClientsInv /\ (ServerSends \/ ServerCloses \/ ServerResets) => ClientsInv'
<1> SUFFICES ASSUME ClientsInv, ServerSends \/ ServerCloses \/ ServerResets
             PROVE  ClientsInv'
  OBVIOUS
<1>1. /\ net \in Connections /\ net.arrived \in Nat /\ net.taken \in Nat
      /\ net.taken <= net.arrived /\ net.arrived <= Len(net.answer) /\ Len(net.answer) \in Nat
  BY DEF ClientsInv, ClientsTypeInv, Connections
<1>2. /\ net' \in Connections /\ net'.taken <= net'.arrived /\ net'.arrived <= Len(net'.answer)
      /\ net'.answer = net.answer /\ net'.taken = net.taken /\ UNCHANGED cl
      /\ net.state # "open" => net'.state # "open"
      /\ net.state = "gone" => net'.state = "gone"
  <2>1. CASE ServerSends
    <3>1. /\ net' = [net EXCEPT !.arrived = net.arrived + 1] /\ UNCHANGED cl
          /\ net.arrived + 1 \in Nat /\ net.arrived + 1 <= Len(net.answer)
          /\ net.taken <= net.arrived + 1
      BY <1>1, <2>1 DEF ServerSends
    <3>2. /\ net' \in Connections /\ net'.arrived = net.arrived + 1 /\ net'.answer = net.answer
          /\ net'.taken = net.taken /\ net'.state = net.state
      BY <1>1, <3>1 DEF Connections
    <3> QED
      BY <3>1, <3>2
  <2>2. CASE ServerCloses
    BY <1>1, <2>2 DEF ServerCloses, Connections
  <2>3. CASE ServerResets
    <3>1. /\ net' = [net EXCEPT !.arrived = net.taken, !.state = "reset"] /\ UNCHANGED cl
          /\ net.state # "gone" /\ net.taken <= Len(net.answer)
      BY <1>1, <2>3 DEF ServerResets
    <3>2. /\ net' \in Connections /\ net'.arrived = net.taken /\ net'.answer = net.answer
          /\ net'.taken = net.taken /\ net'.state = "reset"
      BY <1>1, <3>1 DEF Connections
    <3> QED
      BY <1>1, <3>1, <3>2
  <2> QED
    BY <2>1, <2>2, <2>3
<1> QED
  BY <1>2, ServerFrame

-----------------------------------------------------------------------------
(* A client ends and returns r.                                            *)
LEMMA DoneFacts ==
  ASSUME NEW c \in ClientStates, NEW r \in Int, Done(c, r)
  PROVE  /\ cl' \in ClientStates /\ cl'.pc = "done" /\ cl'.ret = r /\ cl'.prog = c.prog
         /\ cl'.sent = c.sent /\ cl'.i = c.i /\ cl'.got = c.got
BY DEF Done, ClientStates

(* A client ends before anything of an answer was taken, and before the    *)
(* request was sent.                                                       *)
LEMMA EndsEarly ==
  ASSUME ClientsInv, cl.pc \in {"connect", "send"}, cl' \in ClientStates, cl'.pc = "done",
         cl'.prog = cl.prog, cl'.sent = 0 \/ cl.prog = "download", cl'.i = cl.i,
         cl'.got = cl.got, cl'.ret \in {0, 1}, net' \in Connections,
         net'.taken <= net'.arrived, net'.arrived <= Len(net'.answer),
         net'.answer = net.answer, net'.taken = net.taken
  PROVE  ClientsInv'
<1>1. ClientsTypeInv' /\ EarlyInv'
  BY DEF ClientsTypeInv, EarlyInv
<1>2. cl.got = <<>>
  BY DEF ClientsInv, EarlyInv
<1>3. DownloadInv'
  BY DEF ClientsInv, DownloadInv
<1>4. GetDataInv'
  BY <1>2, HttpClientsAssumption DEF GetDataInv, RunFrom
<1>5. WritemsgInv'
  BY DEF WritemsgInv
<1> QED
  BY <1>1, <1>3, <1>4, <1>5 DEF ClientsInv

(* A client goes on to send or to read, and has taken nothing yet.         *)
LEMMA GoesOnEarly ==
  ASSUME ClientsInv, cl.pc \in {"connect", "send"}, cl' \in ClientStates,
         cl'.pc \in {"send", "read"}, cl'.prog = cl.prog, cl'.i = cl.i,
         cl'.pc = "send" /\ cl.prog # "download" => cl'.sent = 0,
         cl'.got = cl.got, net' \in Connections,
         net'.taken <= net'.arrived, net'.arrived <= Len(net'.answer),
         net'.answer = net.answer, net'.taken = net.taken
  PROVE  ClientsInv'
<1>1. cl.got = <<>> /\ net.taken = 0 /\ cl.i = 0
  BY DEF ClientsInv, EarlyInv
<1>2. ClientsTypeInv' /\ EarlyInv'
  BY <1>1 DEF ClientsTypeInv, EarlyInv
<1>3. DownloadInv'
  BY DEF ClientsInv, DownloadInv
<1>4. GetDataInv'
  BY <1>1 DEF GetDataInv
<1>5. 0 % Chunk = 0 /\ RunFrom(0, <<>>)
  BY HttpClientsAssumption DEF RunFrom
<1>6. WritemsgInv'
  BY <1>1, <1>5 DEF WritemsgInv
<1> QED
  BY <1>2, <1>3, <1>4, <1>6 DEF ClientsInv

(* socket and connect.                                                     *)
LEMMA ConnectsStep ==
  ASSUME ClientsInv, NEW prog, NEW failed \in {0, 1}, Connects(prog, failed)
  PROVE  ClientsInv'
<1>1. cl.pc = "connect" /\ UNCHANGED net /\ cl.sent = 0
  BY DEF Connects, ClientAt, ClientsInv, EarlyInv
<1>2. /\ net \in Connections /\ net.taken <= net.arrived /\ net.arrived <= Len(net.answer)
      /\ cl \in ClientStates
  BY DEF ClientsInv, ClientsTypeInv
<1>3. CASE cl' = [cl EXCEPT !.pc = "send"]
  <2>1. cl' \in ClientStates /\ cl'.pc = "send" /\ cl'.prog = cl.prog /\ cl'.i = cl.i
        /\ cl'.got = cl.got /\ cl'.sent = cl.sent
    BY <1>2, <1>3 DEF ClientStates
  <2> QED
    BY <1>1, <1>2, <2>1, GoesOnEarly
<1>4. CASE Done(cl, failed)
  <2>1. /\ cl' \in ClientStates /\ cl'.pc = "done" /\ cl'.ret = failed /\ cl'.prog = cl.prog
        /\ cl'.sent = cl.sent /\ cl'.i = cl.i /\ cl'.got = cl.got
    BY <1>2, <1>4, DoneFacts
  <2> QED
    BY <1>1, <1>2, <2>1, EndsEarly
<1> QED
  BY <1>3, <1>4 DEF Connects

(* The download sends the request, perhaps in pieces.                      *)
LEMMA DownloadSendsStep == ClientsInv /\ DownloadSends => ClientsInv'
<1> SUFFICES ASSUME ClientsInv, DownloadSends PROVE ClientsInv'
  OBVIOUS
<1>1. cl.pc = "send" /\ cl.prog = "download" /\ UNCHANGED net
  BY DEF DownloadSends, ClientAt
<1>2. /\ net \in Connections /\ net.taken <= net.arrived /\ net.arrived <= Len(net.answer)
      /\ cl \in ClientStates /\ cl.sent \in Nat
  BY DEF ClientsInv, ClientsTypeInv, ClientStates
<1> DEFINE c(k) == [cl EXCEPT !.sent = @ + k]
<1>3. PICK k \in 1 .. RequestLen - cl.sent :
        IF c(k).sent < RequestLen THEN cl' = c(k)
        ELSE cl' = [c(k) EXCEPT !.pc = "read"] \/ Done(c(k), 0)
  BY DEF DownloadSends
<1>4. cl.sent + k \in Nat
  BY <1>2, HttpClientsAssumption
<1>5. /\ c(k) \in ClientStates /\ c(k).pc = "send" /\ c(k).prog = cl.prog /\ c(k).i = cl.i
      /\ c(k).got = cl.got
  BY <1>1, <1>2, <1>4 DEF ClientStates
<1>6. cl' = c(k) \/ cl' = [c(k) EXCEPT !.pc = "read"] \/ Done(c(k), 0)
  BY <1>3
<1> HIDE DEF c
<1>7. CASE cl' = c(k) \/ cl' = [c(k) EXCEPT !.pc = "read"]
  <2>1. cl' \in ClientStates /\ cl'.pc \in {"send", "read"} /\ cl'.prog = cl.prog
        /\ cl'.i = cl.i /\ cl'.got = cl.got
    BY <1>5, <1>7 DEF ClientStates
  <2> QED
    BY <1>1, <1>2, <2>1, GoesOnEarly
<1>8. CASE Done(c(k), 0)
  <2>1. /\ cl' \in ClientStates /\ cl'.pc = "done" /\ cl'.ret = 0 /\ cl'.prog = cl.prog
        /\ cl'.i = cl.i /\ cl'.got = cl.got
    BY <1>5, <1>8, DoneFacts
  <2> QED
    BY <1>1, <1>2, <2>1, EndsEarly
<1> QED
  BY <1>6, <1>7, <1>8

(* The other clients write once; for all of them the write may fail.       *)
LEMMA WriteStep == ClientsInv /\ (WriteOnce \/ SendFails) => ClientsInv'
<1> SUFFICES ASSUME ClientsInv, WriteOnce \/ SendFails PROVE ClientsInv'
  OBVIOUS
<1>1. cl.pc = "send"
  BY DEF WriteOnce, SendFails
<1>2. /\ net \in Connections /\ net.taken <= net.arrived /\ net.arrived <= Len(net.answer)
      /\ cl \in ClientStates
  BY DEF ClientsInv, ClientsTypeInv
<1>3. CASE WriteOnce
  <2>1. cl' \in ClientStates /\ cl'.pc = "read" /\ cl'.prog = cl.prog /\ cl'.i = cl.i
        /\ cl'.got = cl.got /\ UNCHANGED net
    BY <1>2, <1>3, HttpClientsAssumption DEF WriteOnce, ClientStates
  <2> QED
    BY <1>1, <1>2, <2>1, GoesOnEarly
<1>4. CASE SendFails
  <2>1. ErrorReported
    BY <1>4 DEF SendFails
  <2>2. /\ net' \in Connections /\ net'.taken <= net'.arrived /\ net'.arrived <= Len(net'.answer)
        /\ net'.answer = net.answer /\ net'.taken = net.taken
    BY <2>1, ErrorReportedFacts DEF ClientsInv
  <2>3. CASE cl.prog = "writemsg"
    <3>1. cl' \in ClientStates /\ cl'.pc = "read" /\ cl'.prog = cl.prog /\ cl'.i = cl.i
          /\ cl'.got = cl.got
      BY <1>2, <1>4, <2>3 DEF SendFails, ClientStates
    <3> QED
      BY <1>1, <2>2, <3>1, GoesOnEarly
  <2>4. CASE cl.prog # "writemsg"
    <3>1. Done(cl, 0)
      BY <1>4, <2>4 DEF SendFails
    <3>2. /\ cl' \in ClientStates /\ cl'.pc = "done" /\ cl'.ret = 0 /\ cl'.prog = cl.prog
          /\ cl'.sent = cl.sent /\ cl'.i = cl.i /\ cl'.got = cl.got
      BY <1>2, <3>1, DoneFacts
    <3>3. cl.prog # "download" => cl.sent = 0
      BY <1>1 DEF ClientsInv, EarlyInv
    <3> QED
      BY <1>1, <2>2, <3>2, <3>3, EndsEarly
  <2> QED
    BY <2>3, <2>4
<1> QED
  BY <1>3, <1>4
-----------------------------------------------------------------------------
(* The download goes on or ends.                                           *)
LEMMA DownloadFrame ==
  ASSUME ClientsTypeInv', cl'.pc \in {"read", "done"}, cl'.prog = "download",
         \/ cl'.got = <<>> /\ InHead(net'.answer, net'.taken, cl'.i)
         \/ cl'.i = 4 /\ InBody(net'.answer, net'.taken, cl'.got)
  PROVE  ClientsInv'
BY DEF ClientsInv, EarlyInv, DownloadInv, GetDataInv, WritemsgInv

(* One byte, of the head or of the body.                                   *)
LEMMA DownloadByteStep == ClientsInv /\ DownloadByte => ClientsInv'
<1> SUFFICES ASSUME ClientsInv, DownloadByte PROVE ClientsInv'
  OBVIOUS
<1>1. /\ cl.prog = "download" /\ cl.pc = "read" /\ Available(1) # {} /\ TakeUp(1)
  BY DEF DownloadByte, ClientAt
<1>2. ClientsTypeInv /\ cl \in ClientStates /\ cl.got \in Seq(Nat) /\ net.taken \in Nat
      /\ cl.i \in Nat
  BY DEF ClientsInv, ClientsTypeInv, ClientStates, Connections
<1>3. net.taken + 1 <= net.arrived
  <2>1. PICK k \in Available(1) : TRUE
    BY <1>1
  <2>2. k \in Nat \ {0} /\ k <= 1 /\ net.taken + k <= net.arrived
    BY <1>2, AvailableRange
  <2> QED
    BY <2>2
<1>4. /\ net' \in Connections /\ net'.taken <= net'.arrived
      /\ net'.arrived <= Len(net'.answer) /\ net'.answer = net.answer
      /\ net'.taken = net.taken + 1
  BY <1>1, <1>2, <1>3, TakeUpFacts
<1>5. \/ cl.got = <<>> /\ InHead(net.answer, net.taken, cl.i)
      \/ cl.i = 4 /\ InBody(net.answer, net.taken, cl.got)
  BY <1>1 DEF ClientsInv, DownloadInv
<1>6. CASE cl.i = 4 /\ InBody(net.answer, net.taken, cl.got)
  <2>1. /\ Taken(1) \in Seq(Nat) /\ Len(Taken(1)) = 1 /\ RunFrom(net.taken, Taken(1))
    BY <1>2, TakenFacts DEF RunFrom
  <2>2. InBody(net.answer, net.taken + 1, cl.got \o Taken(1))
    BY <1>2, <1>6, <2>1, BodyGoesOn
  <2>3. cl.got \o Taken(1) \in Seq(Nat)
    BY <1>2, <2>1
  <2>4. cl' = [cl EXCEPT !.got = cl.got \o Taken(1)]
    BY <1>6 DEF DownloadByte
  <2>5. /\ cl' \in ClientStates /\ cl'.got = cl.got \o Taken(1) /\ cl'.i = 4
        /\ cl'.prog = "download" /\ cl'.pc = "read"
    BY <1>1, <1>2, <1>6, <2>3, <2>4 DEF ClientStates
  <2>6. ClientsTypeInv'
    BY <1>4, <2>5 DEF ClientsTypeInv
  <2> QED
    BY <1>4, <2>2, <2>5, <2>6, DownloadFrame
<1>7. CASE cl.got = <<>> /\ InHead(net.answer, net.taken, cl.i)
  <2>1. cl.i \in 0 .. 3
    BY <1>7 DEF InHead
  <2>2. CASE IsLineEnd(net.answer, net.taken + 1)
    <3>1. cl' = [cl EXCEPT !.i = cl.i + 1]
      BY <2>1, <2>2 DEF DownloadByte, IsLineEnd
    <3>2. /\ cl' \in ClientStates /\ cl'.got = <<>> /\ cl'.i = cl.i + 1
          /\ cl'.prog = "download" /\ cl'.pc = "read"
      BY <1>1, <1>2, <1>7, <3>1 DEF ClientStates
    <3>3. ClientsTypeInv'
      BY <1>4, <3>2 DEF ClientsTypeInv
    <3>4. CASE cl.i = 3
      <4>1. InBody(net.answer, net.taken + 1, <<>>) /\ cl.i + 1 = 4
        BY <1>2, <1>7, <2>2, <3>4, BodyBegins
      <4> QED
        BY <1>4, <3>2, <3>3, <4>1, DownloadFrame
    <3>5. CASE cl.i \in 0 .. 2
      <4>1. InHead(net.answer, net.taken + 1, cl.i + 1)
        BY <1>2, <1>7, <2>2, <3>5, HeadGoesOn
      <4> QED
        BY <1>4, <3>2, <3>3, <4>1, DownloadFrame
    <3> QED
      BY <2>1, <3>4, <3>5
  <2>3. CASE ~IsLineEnd(net.answer, net.taken + 1)
    <3>1. cl' = [cl EXCEPT !.i = 0]
      BY <2>1, <2>3 DEF DownloadByte, IsLineEnd
    <3>2. /\ cl' \in ClientStates /\ cl'.got = <<>> /\ cl'.i = 0
          /\ cl'.prog = "download" /\ cl'.pc = "read"
      BY <1>1, <1>2, <1>7, <3>1 DEF ClientStates
    <3>3. ClientsTypeInv'
      BY <1>4, <3>2 DEF ClientsTypeInv
    <3>4. InHead(net.answer, net.taken + 1, 0)
      BY <1>2, <1>7, <2>1, <2>3, HeadBegins
    <3> QED
      BY <1>4, <3>2, <3>3, <3>4, DownloadFrame
  <2> QED
    BY <2>2, <2>3
<1> QED
  BY <1>5, <1>6, <1>7

(* The download ends with the connection.                                  *)
LEMMA DownloadEndsStep == ClientsInv /\ DownloadEnds => ClientsInv'
<1> SUFFICES ASSUME ClientsInv, DownloadEnds PROVE ClientsInv'
  OBVIOUS
<1>1. cl.prog = "download" /\ Done(cl, 0) /\ (UNCHANGED net \/ ErrorReported)
  BY DEF DownloadEnds, ClientAt
<1>2. ClientsTypeInv /\ cl \in ClientStates
  BY DEF ClientsInv, ClientsTypeInv
<1>3. /\ net' \in Connections /\ net'.taken <= net'.arrived
      /\ net'.arrived <= Len(net'.answer) /\ net'.answer = net.answer
      /\ net'.taken = net.taken
  <2>1. CASE UNCHANGED net
    BY <1>2, <2>1 DEF ClientsTypeInv
  <2>2. CASE ErrorReported
    BY <1>2, <2>2, ErrorReportedFacts
  <2> QED
    BY <1>1, <2>1, <2>2
<1>4. /\ cl' \in ClientStates /\ cl'.pc = "done" /\ cl'.prog = cl.prog
      /\ cl'.i = cl.i /\ cl'.got = cl.got
  BY <1>1, <1>2, DoneFacts
<1>5. ClientsTypeInv'
  BY <1>3, <1>4 DEF ClientsTypeInv
<1>6. \/ cl.got = <<>> /\ InHead(net.answer, net.taken, cl.i)
      \/ cl.i = 4 /\ InBody(net.answer, net.taken, cl.got)
  BY <1>1 DEF ClientsInv, DownloadInv
<1> QED
  BY <1>1, <1>3, <1>4, <1>5, <1>6, DownloadFrame

-----------------------------------------------------------------------------
(* get_data goes on or ends.                                               *)
LEMMA GetDataFrame ==
  ASSUME ClientsTypeInv', cl'.pc \in {"read", "done"}, cl'.prog = "get_data",
         cl'.pc = "read" => net'.taken = 0 /\ cl'.got = <<>>,
         cl'.pc = "done" =>
           /\ RunFrom(0, cl'.got) /\ Len(cl'.got) <= PollSize
           /\ cl'.ret = -1 => cl'.got = <<>>
           /\ cl'.got = <<>> /\ cl'.ret = 0 => net'.state = "gone"
  PROVE  ClientsInv'
BY DEF ClientsInv, EarlyInv, DownloadInv, GetDataInv, WritemsgInv

(* A round of get_data.                                                    *)
LEMMA PollStep ==
  ClientsInv /\ (PollFindsNothing \/ PollReads \/ PollFails) => ClientsInv'
<1> SUFFICES ASSUME ClientsInv, PollFindsNothing \/ PollReads \/ PollFails
             PROVE  ClientsInv'
  OBVIOUS
<1> USE HttpClientsAssumption
<1>1. cl.prog = "get_data" /\ cl.pc = "read"
  BY DEF PollFindsNothing, PollReads, PollFails, ClientAt
<1>2. ClientsTypeInv /\ cl \in ClientStates /\ net.taken = 0 /\ cl.got = <<>>
  BY <1>1 DEF ClientsInv, ClientsTypeInv, GetDataInv
<1>3. RunFrom(0, <<>>) /\ Len(<<>>) <= PollSize
  BY DEF RunFrom
<1>4. CASE PollFindsNothing
  <2>1. /\ cl' \in ClientStates /\ cl'.pc = "read" /\ cl'.prog = "get_data" /\ cl'.got = <<>>
        /\ UNCHANGED net
    BY <1>1, <1>2, <1>4 DEF PollFindsNothing, ClientStates
  <2>2. ClientsTypeInv'
    BY <1>2, <2>1 DEF ClientsTypeInv
  <2> QED
    BY <1>2, <2>1, <2>2, GetDataFrame
<1>5. CASE (PollFails \/ (Ended /\ PollReads)) /\ Done(cl, -1) /\ UNCHANGED net
  <2>1. -1 \in Int /\ Done(cl, -1)
    BY <1>5
  <2>2. /\ cl' \in ClientStates /\ cl'.pc = "done" /\ cl'.prog = "get_data" /\ cl'.got = <<>>
        /\ cl'.ret = -1
    BY <1>1, <1>2, <2>1, DoneFacts
  <2>3. ClientsTypeInv'
    BY <1>2, <1>5, <2>2 DEF ClientsTypeInv
  <2> QED
    BY <1>3, <2>2, <2>3, GetDataFrame
<1>6. CASE ErrorReported /\ Done(cl, 0)
  <2>1. /\ cl' \in ClientStates /\ cl'.pc = "done" /\ cl'.prog = "get_data" /\ cl'.got = <<>>
        /\ cl'.ret = 0
    BY <1>1, <1>2, <1>6, DoneFacts
  <2>2. ClientsTypeInv' /\ net'.state = "gone"
    BY <1>2, <1>6, <2>1, ErrorReportedFacts DEF ClientsTypeInv
  <2> QED
    BY <1>3, <2>1, <2>2, GetDataFrame
<1>7. CASE \E k \in Available(PollSize) : TakeUp(k) /\ Done([cl EXCEPT !.got = Taken(k)], 0)
  <2>1. PICK k \in Available(PollSize) : TakeUp(k) /\ Done([cl EXCEPT !.got = Taken(k)], 0)
    BY <1>7
  <2>2. k \in Nat \ {0} /\ k <= PollSize /\ net.taken + k <= net.arrived
    BY <1>2, AvailableRange
  <2>3. /\ net' \in Connections /\ net'.taken <= net'.arrived
        /\ net'.arrived <= Len(net'.answer)
    BY <1>2, <2>1, <2>2, TakeUpFacts
  <2>4. /\ Taken(k) \in Seq(Nat) /\ Len(Taken(k)) = k
        /\ \A j \in 1 .. k : Taken(k)[j] = net.taken + j
    BY <1>2, <2>2, TakenFacts
  <2>5. RunFrom(0, Taken(k)) /\ Taken(k) # <<>>
    BY <1>2, <2>2, <2>4 DEF RunFrom
  <2> DEFINE c == [cl EXCEPT !.got = Taken(k)]
  <2>6. c \in ClientStates /\ c.prog = "get_data" /\ c.got = Taken(k) /\ Done(c, 0)
    BY <1>1, <1>2, <2>1, <2>4 DEF ClientStates
  <2> HIDE DEF c
  <2>7. /\ cl' \in ClientStates /\ cl'.pc = "done" /\ cl'.prog = "get_data"
        /\ cl'.got = Taken(k) /\ cl'.ret = 0
    BY <2>6, DoneFacts
  <2>8. ClientsTypeInv'
    BY <2>3, <2>7 DEF ClientsTypeInv
  <2> QED
    BY <2>2, <2>4, <2>5, <2>7, <2>8, GetDataFrame
<1> QED
  BY <1>4, <1>5, <1>6, <1>7 DEF PollReads, PollFails
-----------------------------------------------------------------------------
(* writemsg goes on or ends.                                               *)
LEMMA WritemsgFrame ==
  ASSUME ClientsTypeInv', cl'.pc \in {"read", "done"}, cl'.prog = "writemsg",
         RunFrom(0, cl'.got),
         cl'.pc = "read" => Len(cl'.got) = net'.taken /\ net'.taken % Chunk = 0,
         cl'.pc = "done" =>
           \/ cl'.ret = Len(cl'.got) /\ cl'.ret = net'.taken
              /\ (cl'.ret % Chunk = 0 => net'.state # "open")
           \/ cl'.ret = net'.taken - 1 /\ net'.taken % Chunk = 0 /\ net'.state = "gone"
  PROVE  ClientsInv'
BY DEF ClientsInv, EarlyInv, DownloadInv, GetDataInv, WritemsgInv

(* One more piece, which is full or the last.                              *)
LEMMA RecvSomeStep == ClientsInv /\ RecvSome => ClientsInv'
<1> SUFFICES ASSUME ClientsInv, RecvSome PROVE ClientsInv'
  OBVIOUS
<1> USE HttpClientsAssumption
<1>1. cl.prog = "writemsg" /\ cl.pc = "read"
  BY DEF RecvSome, ClientAt
<1>2. /\ ClientsTypeInv /\ cl \in ClientStates /\ cl.got \in Seq(Nat) /\ net.taken \in Nat
  BY DEF ClientsInv, ClientsTypeInv, ClientStates, Connections
<1>3. RunFrom(0, cl.got) /\ Len(cl.got) = net.taken /\ net.taken % Chunk = 0
  BY <1>1 DEF ClientsInv, WritemsgInv
<1> DEFINE c(k) == [cl EXCEPT !.got = @ \o Taken(k)]
<1>4. PICK k \in Available(Chunk) :
        TakeUp(k) /\ IF k = Chunk THEN cl' = c(k) ELSE Done(c(k), Len(c(k).got))
  BY DEF RecvSome
<1>5. k \in Nat \ {0} /\ k <= Chunk /\ net.taken + k <= net.arrived
  BY <1>2, AvailableRange
<1>6. /\ net' \in Connections /\ net'.taken <= net'.arrived
      /\ net'.arrived <= Len(net'.answer) /\ net'.taken = net.taken + k
  BY <1>2, <1>4, <1>5, TakeUpFacts
<1>7. /\ Taken(k) \in Seq(Nat) /\ Len(Taken(k)) = k
      /\ \A j \in 1 .. k : Taken(k)[j] = net.taken + j
  BY <1>2, <1>5, TakenFacts
<1> DEFINE g == cl.got \o Taken(k)
<1>8. g \in Seq(Nat) /\ Len(g) = net.taken + k /\ RunFrom(0, g)
  <2>1. RunFrom(net.taken, Taken(k)) /\ net.taken = 0 + Len(cl.got) /\ 0 \in Nat
    BY <1>2, <1>3, <1>7 DEF RunFrom
  <2> DEFINE s == Taken(k)
             h == cl.got
             t == net.taken
  <2>2. /\ s \in Seq(Nat) /\ RunFrom(t, s)
        /\ h \in Seq(Nat) /\ RunFrom(0, h) /\ t = 0 + Len(h) /\ 0 \in Nat
    BY <1>2, <1>3, <1>7, <2>1
  <2>3. h \o s \in Seq(Nat) /\ Len(h \o s) = Len(h) + Len(s) /\ RunFrom(0, h \o s)
    <3> HIDE DEF s, h, t
    <3> QED
      BY <2>2, RunContinued
  <2> QED
    BY <1>3, <1>7, <2>3
<1> HIDE DEF g
<1>9. c(k) \in ClientStates /\ c(k).prog = "writemsg" /\ c(k).pc = "read" /\ c(k).got = g
  BY <1>1, <1>2, <1>8 DEF ClientStates, g
<1> HIDE DEF c
<1>10. (k = Chunk => net'.taken % Chunk = 0) /\ (k # Chunk => net'.taken % Chunk = k)
  <2> DEFINE t == net.taken
  <2>1. Chunk \in Nat \ {0} /\ t \in Nat /\ t % Chunk = 0
    BY <1>2, <1>3
  <2> HIDE DEF t
  <2>2. (t + Chunk) % Chunk = 0 /\ \A l \in 1 .. Chunk - 1 : (t + l) % Chunk = l
    BY ONLY <2>1, PiecesRemainder, Zenon
  <2>3. k # Chunk => k \in 1 .. Chunk - 1
    BY <1>5
  <2>4. k # Chunk => (t + k) % Chunk = k
    BY <2>2, <2>3, Zenon
  <2> QED
    BY <1>6, <2>2, <2>4 DEF t
<1>11. CASE k = Chunk
  <2>1. cl' = c(k)
    BY <1>4, <1>11
  <2>2. ClientsTypeInv'
    BY <1>6, <1>9, <2>1 DEF ClientsTypeInv
  <2> QED
    BY <1>6, <1>8, <1>9, <1>10, <1>11, <2>1, <2>2, WritemsgFrame
<1>12. CASE k # Chunk
  <2>1. Done(c(k), Len(g)) /\ Len(g) \in Int
    BY <1>4, <1>8, <1>9, <1>12
  <2>2. /\ cl' \in ClientStates /\ cl'.pc = "done" /\ cl'.prog = "writemsg"
        /\ cl'.got = g /\ cl'.ret = Len(g)
    BY <1>9, <2>1, DoneFacts
  <2>3. ClientsTypeInv'
    BY <1>6, <2>2 DEF ClientsTypeInv
  <2>4. cl'.ret % Chunk # 0
    <3>1. cl'.ret = net'.taken
      BY <1>6, <1>8, <2>2
    <3> QED
      BY <1>5, <1>10, <1>12, <3>1
  <2> QED
    BY <1>6, <1>8, <2>2, <2>3, <2>4, WritemsgFrame
<1> QED
  BY <1>11, <1>12

(* The connection ends or fails under writemsg.                            *)
LEMMA RecvOtherStep == ClientsInv /\ (RecvEnd \/ RecvFails) => ClientsInv'
<1> SUFFICES ASSUME ClientsInv, RecvEnd \/ RecvFails PROVE ClientsInv'
  OBVIOUS
<1>1. cl.prog = "writemsg" /\ cl.pc = "read"
  BY DEF RecvEnd, RecvFails, ClientAt
<1>2. /\ ClientsTypeInv /\ cl \in ClientStates /\ cl.got \in Seq(Nat) /\ net.taken \in Nat
      /\ Len(cl.got) \in Nat
  BY DEF ClientsInv, ClientsTypeInv, ClientStates, Connections
<1>3. RunFrom(0, cl.got) /\ Len(cl.got) = net.taken /\ net.taken % Chunk = 0
  BY <1>1 DEF ClientsInv, WritemsgInv
<1>4. CASE RecvEnd
  <2>1. Done(cl, Len(cl.got)) /\ UNCHANGED net /\ net.state # "open"
    BY <1>4 DEF RecvEnd, Ended
  <2>2. /\ cl' \in ClientStates /\ cl'.pc = "done" /\ cl'.prog = "writemsg"
        /\ cl'.got = cl.got /\ cl'.ret = Len(cl.got)
    BY <1>1, <1>2, <2>1, DoneFacts
  <2>3. ClientsTypeInv'
    BY <1>2, <2>1, <2>2 DEF ClientsTypeInv
  <2> QED
    BY <1>3, <2>1, <2>2, <2>3, WritemsgFrame
<1>5. CASE RecvFails
  <2> DEFINE g == IF cl.got = <<>> THEN cl.got ELSE SubSeq(cl.got, 1, Len(cl.got) - 1)
             c == [cl EXCEPT !.got = g]
  <2>1. ErrorReported /\ Done(c, Len(cl.got) - 1) /\ Len(cl.got) - 1 \in Int
    BY <1>2, <1>5 DEF RecvFails
  <2>2. g \in Seq(Nat) /\ RunFrom(0, g)
    <3>1. CASE cl.got = <<>>
      BY <1>3, <3>1 DEF RunFrom
    <3>2. CASE cl.got # <<>>
      <4>1. /\ SubSeq(cl.got, 1, Len(cl.got) - 1) \in Seq(Nat) /\ Len(SubSeq(cl.got, 1, Len(cl.got) - 1)) = Len(cl.got) - 1
            /\ \A j \in 1 .. Len(cl.got) - 1 : SubSeq(cl.got, 1, Len(cl.got) - 1)[j] = cl.got[j]
        BY <1>2, <3>2
      <4>2. RunFrom(0, SubSeq(cl.got, 1, Len(cl.got) - 1))
        <5>1. \A j \in 1 .. Len(cl.got) : cl.got[j] = 0 + j
          BY <1>3 DEF RunFrom
        <5>2. Len(cl.got) \in Nat
          BY <1>2
        <5>3. ASSUME NEW j \in 1 .. Len(cl.got) - 1 PROVE SubSeq(cl.got, 1, Len(cl.got) - 1)[j] = 0 + j
          <6>1. j \in 1 .. Len(cl.got)
            BY <5>2
          <6> QED
            BY <4>1, <5>1, <6>1
        <5> QED
          BY <4>1, <5>3 DEF RunFrom
      <4> QED
        BY <3>2, <4>1, <4>2
    <3> QED
      BY <3>1, <3>2
  <2> HIDE DEF g
  <2>3. c \in ClientStates /\ c.prog = "writemsg" /\ c.got = g
    BY <1>1, <1>2, <2>2 DEF ClientStates
  <2> HIDE DEF c
  <2>4. /\ cl' \in ClientStates /\ cl'.pc = "done" /\ cl'.prog = "writemsg"
        /\ cl'.got = g /\ cl'.ret = net.taken - 1
    BY <1>3, <2>1, <2>3, DoneFacts
  <2>5. ClientsTypeInv' /\ net'.state = "gone" /\ net'.taken = net.taken
    BY <1>2, <2>1, <2>4, ErrorReportedFacts DEF ClientsTypeInv
  <2> QED
    BY <1>3, <2>2, <2>4, <2>5, WritemsgFrame
<1> QED
  BY <1>4, <1>5

-----------------------------------------------------------------------------
(* Every step keeps the invariant.                                         *)
LEMMA ClientsStep == ClientsInv /\ [HttpClientsNext]_clientVars => ClientsInv'
<1> SUFFICES ASSUME ClientsInv, [HttpClientsNext]_clientVars PROVE ClientsInv'
  OBVIOUS
<1>1. CASE ServerSends \/ ServerCloses \/ ServerResets
  BY <1>1, RemoteStep
<1>2. CASE DownloadConnects \/ GetDataConnects \/ WritemsgConnects
  BY <1>2, ConnectsStep DEF DownloadConnects, GetDataConnects, WritemsgConnects
<1>3. CASE DownloadSends \/ WriteOnce \/ SendFails
  BY <1>3, DownloadSendsStep, WriteStep
<1>4. CASE DownloadByte \/ DownloadEnds
  BY <1>4, DownloadByteStep, DownloadEndsStep
<1>5. CASE PollFindsNothing \/ PollReads \/ PollFails
  BY <1>5, PollStep
<1>6. CASE RecvSome \/ RecvEnd \/ RecvFails
  BY <1>6, RecvSomeStep, RecvOtherStep
<1>7. CASE UNCHANGED clientVars
  BY <1>7 DEF clientVars, ClientsInv, ClientsTypeInv, EarlyInv, DownloadInv, GetDataInv,
              WritemsgInv
<1> QED
  BY <1>1, <1>2, <1>3, <1>4, <1>5, <1>6, <1>7 DEF HttpClientsNext, ClientStep

(* The first of several ends of a head is the smallest of them.            *)
LEMMA FirstIsMin ==
  ASSUME NEW S \in SUBSET Int, NEW h \in S, \A j \in S : h <= j
  PROVE  Min(S) = h
<1>1. \A x \in S : (\A y \in S : x <= y) => x = h
  OBVIOUS
<1> QED
  BY <1>1 DEF Min

(* What the invariant says of a download.                                  *)
LEMMA DownloadsBodyHolds == ClientsInv => DownloadsBody
<1> SUFFICES ASSUME ClientsInv, cl.prog = "download" PROVE DownloadsBody
  BY DEF DownloadsBody
<1> DEFINE t == net.taken
           ends == {j \in 4 .. t : \A k \in j - 3 .. j : net.answer[k] \in {"\r", "\n"}}
<1> SUFFICES cl.got = IF ends = {} THEN <<>> ELSE [j \in 1 .. t - Min(ends) |-> Min(ends) + j]
  BY DEF DownloadsBody
<1>1. t \in Nat /\ cl.got \in Seq(Nat)
  BY DEF ClientsInv, ClientsTypeInv, Connections, ClientStates
<1>2. ends = {j \in 4 .. t : HeadEnd(net.answer, j)}
  BY DEF HeadEnd, IsLineEnd
<1>3. \/ cl.got = <<>> /\ InHead(net.answer, t, cl.i)
      \/ cl.i = 4 /\ InBody(net.answer, t, cl.got)
  BY DEF ClientsInv, DownloadInv
<1> HIDE DEF ends, t
<1>4. CASE cl.got = <<>> /\ InHead(net.answer, t, cl.i)
  <2>1. ends = {}
    BY <1>2, <1>4 DEF InHead
  <2> QED
    BY <1>4, <2>1
<1>5. CASE InBody(net.answer, t, cl.got)
  <2>1. PICK h \in 4 .. t : /\ HeadEnd(net.answer, h)
                            /\ \A j \in 4 .. h - 1 : ~HeadEnd(net.answer, j)
                            /\ Len(cl.got) = t - h /\ RunFrom(h, cl.got)
    BY <1>5 DEF InBody
  <2>2. h \in ends /\ ends \in SUBSET Int /\ \A j \in ends : h <= j
    BY <1>1, <1>2, <2>1
  <2>3. Min(ends) = h
    BY <2>2, FirstIsMin
  <2>4. DOMAIN cl.got = 1 .. t - h /\ cl.got = [j \in DOMAIN cl.got |-> cl.got[j]]
    BY <1>1, <2>1
  <2>5. \A j \in 1 .. t - h : cl.got[j] = h + j
    BY <2>1 DEF RunFrom
  <2>6. cl.got = [j \in 1 .. t - h |-> h + j]
    BY <2>4, <2>5, Zenon
  <2> QED
    BY <2>2, <2>3, <2>6
<1> QED
  BY <1>3, <1>4, <1>5

(* For any answers and any sizes, the download writes what follows the     *)
(* head to the file, and get_data and writemsg keep the beginning of the   *)
(* answer that PartOfAnswer describes.                                     *)
THEOREM ClientsKeepAnswers == HttpClientsSpec => []AnswersKept
<1>1. ClientsInv => PartOfAnswer
  <2> SUFFICES ASSUME ClientsInv, cl.pc = "done", cl.sent > 0, cl.prog # "download"
               PROVE  PartOfAnswer
    BY DEF PartOfAnswer
  <2>1. cl.prog \in {"get_data", "writemsg"} /\ cl.got \in Seq(Nat)
    BY DEF ClientsInv, ClientsTypeInv, ClientStates
  <2>2. RunFrom(0, cl.got)
    BY <2>1 DEF ClientsInv, GetDataInv, WritemsgInv
  <2>3. cl.got = [j \in 1 .. Len(cl.got) |-> j]
    <3>1. DOMAIN cl.got = 1 .. Len(cl.got) /\ cl.got = [j \in DOMAIN cl.got |-> cl.got[j]]
      BY <2>1
    <3>2. \A j \in 1 .. Len(cl.got) : cl.got[j] = j
      BY <2>1, <2>2 DEF RunFrom
    <3> QED
      BY <3>1, <3>2, Zenon
  <2> QED
    BY <2>1, <2>3 DEF PartOfAnswer, ClientsInv, GetDataInv, WritemsgInv
<1>2. ClientsInv => AnswersKept
  BY <1>1, DownloadsBodyHolds DEF AnswersKept
<1> QED
  BY <1>2, ClientsInvInit, ClientsStep, PTL DEF HttpClientsSpec
=============================================================================
