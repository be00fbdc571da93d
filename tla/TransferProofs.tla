---------------------------- MODULE TransferProofs ----------------------------
(***************************************************************************)
(* Proofs about the programs that pass data on: the servers of             *)
(* cpp/tcp_concurrent.cc, uni_sock_srv.c and tcp_server.c, the wrappers    *)
(* around read and write, and the Kafka producer.                          *)
(***************************************************************************)
EXTENDS EchoServers, Streams, KafkaProducer, TLAPS

(* The echo servers.                                                       *)
Queued(c) == \E i \in 1 .. Len(queue) : queue[i] = c
Held(c) == \E p \in Processes : c \in fds[p]

(* The client closed in order, and every message was answered.             *)
Served(c) ==
  conn[c].state = "closed" /\ conn[c].read = conn[c].sent

Records ==
  [state : {"none", "open", "closed", "reset", "gone"},
   sent : Nat, read : Nat, answered : Nat, got : Nat]

EchoTypeOK ==
  /\ prog \in {"fork", "uni", "chat"}
  /\ queue \in Seq(EchoClients)
  /\ srv \in [pc : {"accept", "fork", "parent", "serve", "over"}, c : Processes]
  /\ fds \in [Processes -> SUBSET EchoClients]
  /\ conn \in [EchoClients -> Records]

(* The server has at most the descriptor of the connection it is about,    *)
(* and a child at most its own.                                            *)
DescriptorInv ==
  /\ fds["server"] \subseteq {srv.c}
  /\ srv.pc \in {"accept", "over"} => fds["server"] = {}
  /\ srv.pc = "fork" => srv.c \in fds["server"]
  /\ srv.pc \in {"fork", "parent"} => prog = "fork"
  /\ srv.pc = "serve" => prog # "fork"
  /\ \A c \in EchoClients : fds[c] \subseteq {c}

(* A connection that is neither queued nor held has been served, unless    *)
(* its client or the server was lost; so has one that only the parent      *)
(* still holds after fork.                                                 *)
ClientOK(c) ==
  /\ conn[c].answered = conn[c].read
  /\ prog # "fork" /\ conn[c].state \in {"none", "open"} =>
       conn[c].sent <= conn[c].got + 1
  /\ conn[c].state \in {"open", "closed"} /\ srv.pc # "over" =>
       \/ Queued(c) \/ Served(c)
       \/ Held(c) /\ (srv.pc = "parent" => c \in fds[c])

ServedInv == \A c \in EchoClients : ClientOK(c)

EchoInv == EchoTypeOK /\ DescriptorInv /\ ServedInv

-----------------------------------------------------------------------------
(* Before the first client.                                                *)
LEMMA EchoInvInit == EchoServersInit => EchoInv
<1> SUFFICES ASSUME EchoServersInit PROVE EchoInv
  OBVIOUS
<1> USE EchoServersAssumption
<1>1. EchoTypeOK
  BY DEF EchoServersInit, EchoTypeOK, Processes, Records
<1>2. DescriptorInv
  BY DEF EchoServersInit, DescriptorInv, Processes
<1>3. ServedInv
  BY DEF EchoServersInit, ServedInv, ClientOK
<1> QED
  BY <1>1, <1>2, <1>3 DEF EchoInv

(* Setting one connection to a record keeps the types.                     *)
LEMMA ConnUpdate ==
  ASSUME EchoTypeOK, NEW c \in EchoClients, NEW r \in Records,
         conn' = [conn EXCEPT ![c] = r]
  PROVE  /\ conn' \in [EchoClients -> Records] /\ conn'[c] = r
         /\ \A d \in EchoClients : d # c => conn'[d] = conn[d]
  BY DEF EchoTypeOK

(* The clients, and what the servers read and answer, keep the types and   *)
(* change one connection.                                                  *)
LEMMA ConnTypes ==
  ASSUME EchoTypeOK, NEW c \in EchoClients,
         \/ ConnectTo(c) \/ Send(c) \/ GetAnswer(c) \/ CloseClient(c)
         \/ ResetClient(c) \/ EchoFails(c) \/ ChatAnswer(c) \/ ChatGoesOn(c)
         \/ \E p \in Processes : Echo(p, c)
  PROVE  /\ conn' \in [EchoClients -> Records]
         /\ \A d \in EchoClients : d # c => conn'[d] = conn[d]
<1>0. conn[c] \in Records
  BY DEF EchoTypeOK
<1>1. ASSUME NEW x \in {"open", "closed", "gone"}
      PROVE  [conn[c] EXCEPT !.state = x] \in Records
  BY <1>0 DEF Records
<1>2. CASE ConnectTo(c) \/ EchoFails(c) \/ ChatGoesOn(c)
  <2>1. PICK x \in {"open", "gone"} : conn' = [conn EXCEPT ![c].state = x]
    BY <1>2 DEF ConnectTo, EchoFails, ChatGoesOn
  <2> DEFINE r == [conn[c] EXCEPT !.state = x]
  <2>2. conn' = [conn EXCEPT ![c] = r] /\ r \in Records
    BY <1>1, <2>1
  <2> QED
    BY <2>2, ConnUpdate
<1>3. CASE Send(c)
  <2> DEFINE r == [conn[c] EXCEPT !.sent = @ + 1]
  <2>1. conn' = [conn EXCEPT ![c] = r] /\ r \in Records
    BY <1>0, <1>3 DEF Send, Records
  <2> QED
    BY <2>1, ConnUpdate
<1>4. CASE GetAnswer(c)
  <2> DEFINE r == [conn[c] EXCEPT !.got = conn[c].answered]
  <2>1. conn' = [conn EXCEPT ![c] = r] /\ r \in Records
    BY <1>0, <1>4 DEF GetAnswer, Records
  <2> QED
    BY <2>1, ConnUpdate
<1>5. CASE CloseClient(c)
  <2>1. PICK n \in Nat : conn' = [conn EXCEPT ![c].state = "closed", ![c].sent = n]
    <3>1. conn[c].sent \in Nat /\ conn[c].sent + 1 \in Nat
      BY <1>0 DEF Records
    <3> QED
      BY <1>5, <3>1 DEF CloseClient, EchoTypeOK
  <2> DEFINE r == [conn[c] EXCEPT !.state = "closed", !.sent = n]
  <2>2. conn' = [conn EXCEPT ![c] = r] /\ r \in Records
    BY <1>0, <2>1 DEF Records, EchoTypeOK
  <2> QED
    BY <2>2, ConnUpdate
<1>6. CASE ResetClient(c)
  <2>1. PICK n \in {conn[c].read, conn[c].sent} :
          conn' = [conn EXCEPT ![c].state = "reset", ![c].sent = n]
    BY <1>6 DEF ResetClient
  <2> DEFINE r == [conn[c] EXCEPT !.state = "reset", !.sent = n]
  <2>2. conn' = [conn EXCEPT ![c] = r] /\ r \in Records
    BY <1>0, <2>1 DEF Records, EchoTypeOK
  <2> QED
    BY <2>2, ConnUpdate
<1>7. CASE ChatAnswer(c)
  <2> DEFINE m == conn[c].read + 1
             n == conn[c].answered + 1
             r == [conn[c] EXCEPT !.read = m, !.answered = n]
  <2>1. conn' = [conn EXCEPT ![c] = r]
    BY <1>7 DEF ChatAnswer, EchoTypeOK
  <2>2. m \in Nat /\ n \in Nat
    BY <1>0 DEF Records
  <2>3. r \in Records
    <3> HIDE DEF m, n
    <3> QED
      BY <1>0, <2>2 DEF Records
  <2> QED
    BY <2>1, <2>3, ConnUpdate
<1>8. ASSUME NEW p \in Processes, Echo(p, c)
      PROVE  /\ conn' \in [EchoClients -> Records]
             /\ \A d \in EchoClients : d # c => conn'[d] = conn[d]
  <2>1. PICK n \in conn[c].read + 1 .. conn[c].sent :
          conn' = [conn EXCEPT ![c].read = n, ![c].answered = n]
    BY <1>8 DEF Echo
  <2> DEFINE r == [conn[c] EXCEPT !.read = n, !.answered = n]
  <2>2. n \in Nat
    BY <1>0 DEF Records
  <2>3. conn' = [conn EXCEPT ![c] = r] /\ r \in Records
    BY <1>0, <2>1, <2>2 DEF Records, EchoTypeOK
  <2> QED
    BY <2>3, ConnUpdate
<1> QED
  BY <1>2, <1>3, <1>4, <1>5, <1>6, <1>7, <1>8

(* All steps keep the types.                                               *)
LEMMA TypeStep ==
  ASSUME EchoTypeOK, EchoServersNext
  PROVE  EchoTypeOK'
<1> USE EchoServersAssumption
<1>0. /\ srv \in [pc : {"accept", "fork", "parent", "serve", "over"}, c : Processes]
      /\ queue # <<>> => /\ Head(queue) \in EchoClients
                         /\ Tail(queue) \in Seq(EchoClients)
      /\ "server" \in Processes /\ EchoClients \subseteq Processes
  BY DEF EchoTypeOK, Processes
<1>1. CASE Accept
  BY <1>0, <1>1 DEF EchoTypeOK, Accept
<1>2. CASE Fork
  BY <1>0, <1>2 DEF EchoTypeOK, Fork
<1>3. CASE ParentGoesOn
  BY <1>0, <1>3 DEF EchoTypeOK, ParentGoesOn
<1>4. CASE ServerExits
  BY <1>0, <1>4 DEF EchoTypeOK, ServerExits
<1>5. CASE AcceptAborted
  BY <1>0, <1>5 DEF EchoTypeOK, AcceptAborted
<1>6. ASSUME NEW c \in EchoClients,
             \/ ConnectTo(c) \/ Send(c) \/ GetAnswer(c) \/ CloseClient(c)
             \/ ResetClient(c) \/ EchoFails(c) \/ ChatAnswer(c) \/ ChatGoesOn(c)
             \/ \E p \in Processes : Echo(p, c)
      PROVE  EchoTypeOK'
  <2>1. conn' \in [EchoClients -> Records]
    BY <1>6, ConnTypes
  <2>2. Append(queue, c) \in Seq(EchoClients)
    BY DEF EchoTypeOK
  <2>3. CASE ConnectTo(c)
    BY <2>1, <2>2, <2>3 DEF EchoTypeOK, ConnectTo
  <2>4. CASE ChatGoesOn(c)
    BY <1>0, <2>1, <2>4 DEF EchoTypeOK, ChatGoesOn
  <2>5. CASE UNCHANGED <<prog, queue, srv, fds>>
    BY <2>1, <2>5 DEF EchoTypeOK
  <2> QED
    BY <1>6, <2>3, <2>4, <2>5
    DEF Send, GetAnswer, CloseClient, ResetClient, EchoFails, ChatAnswer, Echo
<1>7. ASSUME NEW c \in EchoClients, NEW p \in Processes, EchoBrokenPipe(p, c)
      PROVE  EchoTypeOK'
  BY <1>0, <1>7 DEF EchoTypeOK, EchoBrokenPipe
<1>8. ASSUME NEW c \in EchoClients, NEW p \in Processes, StopServing(p, c)
      PROVE  EchoTypeOK'
  BY <1>0, <1>8 DEF EchoTypeOK, StopServing
<1> QED
  BY <1>1, <1>2, <1>3, <1>4, <1>5, <1>6, <1>7, <1>8
  DEF EchoServersNext, ServerStep, ServeStep

-----------------------------------------------------------------------------
(* Who holds which descriptor, through accept, fork, close and exit.       *)
LEMMA DescriptorStep ==
  ASSUME EchoTypeOK, DescriptorInv, EchoServersNext
  PROVE  DescriptorInv'
<1> USE EchoServersAssumption
<1>0. /\ "server" \in Processes /\ "server" \notin EchoClients
      /\ EchoClients \subseteq Processes
      /\ srv \in [pc : {"accept", "fork", "parent", "serve", "over"}, c : Processes]
      /\ prog \in {"fork", "uni", "chat"}
  BY DEF Processes, EchoTypeOK
<1>1. CASE Accept
  <2>1. /\ srv.pc = "accept" /\ fds["server"] = {}
        /\ fds' = [fds EXCEPT !["server"] = {Head(queue)}]
        /\ srv'.c = Head(queue) /\ prog' = prog
        /\ srv'.pc = IF prog = "fork" THEN "fork" ELSE "serve"
    BY <1>1 DEF Accept, DescriptorInv
  <2> QED
    BY <1>0, <2>1 DEF DescriptorInv, EchoTypeOK
<1>2. CASE Fork
  <2>1. /\ srv.pc = "fork" /\ srv'.pc = "parent" /\ srv'.c = srv.c
        /\ fds' = [fds EXCEPT ![srv.c] = fds["server"]] /\ prog' = prog
    BY <1>0, <1>2 DEF Fork
  <2> QED
    BY <1>0, <2>1 DEF DescriptorInv, EchoTypeOK
<1>3. CASE ParentGoesOn
  <2>1. /\ srv.pc = "parent" /\ srv'.pc = "accept" /\ srv'.c = srv.c
        /\ fds' = [fds EXCEPT !["server"] = @ \ {srv.c}] /\ prog' = prog
    BY <1>0, <1>3 DEF ParentGoesOn
  <2> QED
    BY <1>0, <2>1 DEF DescriptorInv, EchoTypeOK
<1>4. CASE ServerExits
  <2>1. /\ srv'.pc = "over" /\ srv'.c = srv.c /\ prog' = prog
        /\ fds' = [fds EXCEPT !["server"] = {}]
    BY <1>0, <1>4 DEF ServerExits
  <2> QED
    BY <1>0, <2>1 DEF DescriptorInv, EchoTypeOK
<1>5. CASE AcceptAborted
  BY <1>5 DEF AcceptAborted, DescriptorInv
<1>6. ASSUME NEW c \in EchoClients,
             \/ ConnectTo(c) \/ Send(c) \/ GetAnswer(c) \/ CloseClient(c)
             \/ ResetClient(c) \/ EchoFails(c) \/ ChatAnswer(c)
             \/ \E p \in Processes : Echo(p, c)
      PROVE  DescriptorInv'
  <2>1. UNCHANGED <<prog, srv, fds>>
    BY <1>6 DEF ConnectTo, Send, GetAnswer, CloseClient, ResetClient, EchoFails,
                ChatAnswer, Echo
  <2> QED
    BY <2>1 DEF DescriptorInv
<1>7. ASSUME NEW c \in EchoClients, ChatGoesOn(c)
      PROVE  DescriptorInv'
  <2>1. CASE UNCHANGED <<prog, srv, fds>>
    BY <2>1 DEF DescriptorInv
  <2>2. CASE /\ srv'.pc = "over" /\ srv'.c = srv.c /\ prog' = prog
             /\ fds' = [fds EXCEPT !["server"] = {}]
    BY <1>0, <2>2 DEF DescriptorInv, EchoTypeOK
  <2> QED
    BY <1>0, <1>7, <2>1, <2>2 DEF ChatGoesOn
<1>8. ASSUME NEW c \in EchoClients, NEW p \in Processes,
             EchoBrokenPipe(p, c) \/ StopServing(p, c)
      PROVE  DescriptorInv'
  <2>1. CASE prog = "fork"
    <3>1. p = c /\ fds' = [fds EXCEPT ![c] = {}] /\ UNCHANGED <<prog, srv>>
      BY <1>8, <2>1 DEF EchoBrokenPipe, StopServing, Serves
    <3> QED
      BY <1>0, <3>1 DEF DescriptorInv, EchoTypeOK
  <2>2. CASE prog # "fork"
    <3>1. /\ p = "server" /\ srv.c = c /\ c \in fds["server"]
          /\ srv'.pc \in {"accept", "over"} /\ srv'.c = srv.c /\ prog' = prog
          /\ \/ fds' = [fds EXCEPT !["server"] = {}]
             \/ fds' = [fds EXCEPT !["server"] = @ \ {c}]
      BY <1>0, <1>8, <2>2 DEF EchoBrokenPipe, StopServing, Serves
    <3>2. fds'["server"] = {} /\ \A d \in EchoClients : fds'[d] = fds[d]
      BY <1>0, <3>1 DEF DescriptorInv, EchoTypeOK
    <3> QED
      BY <2>2, <3>1, <3>2 DEF DescriptorInv
  <2> QED
    BY <2>1, <2>2
<1> QED
  BY <1>1, <1>2, <1>3, <1>4, <1>5, <1>6, <1>7, <1>8
  DEF EchoServersNext, ServerStep, ServeStep

-----------------------------------------------------------------------------
(* A step of a client that only concerns its messages leaves it queued or  *)
(* held.                                                                   *)
LEMMA ClientStep ==
  ASSUME EchoTypeOK, DescriptorInv, NEW c \in EchoClients, ClientOK(c),
         \/ Send(c) \/ GetAnswer(c) \/ CloseClient(c) \/ ResetClient(c)
         \/ EchoFails(c) \/ ChatAnswer(c)
         \/ \E p \in Processes : Echo(p, c)
  PROVE  ClientOK(c)'
<1>0. conn[c] \in Records /\ UNCHANGED <<prog, queue, srv, fds>>
  BY DEF EchoTypeOK, Send, GetAnswer, CloseClient, ResetClient, EchoFails,
         ChatAnswer, Echo
<1>1. (Queued(c)' <=> Queued(c)) /\ (Held(c)' <=> Held(c))
  BY <1>0 DEF Queued, Held
<1>2. CASE Send(c)
  <2>1. /\ conn[c].state = "open" /\ conn'[c].state = "open"
        /\ conn'[c].sent = conn[c].sent + 1 /\ conn'[c].got = conn[c].got
        /\ conn'[c].read = conn[c].read /\ conn'[c].answered = conn[c].answered
        /\ prog # "fork" => conn[c].got = conn[c].sent
    BY <1>2 DEF Send, InTurn, EchoTypeOK, Records
  <2> QED
    BY <1>0, <1>1, <2>1 DEF ClientOK, Served, Records
<1>3. CASE GetAnswer(c)
  <2>1. /\ conn[c].state = "open" /\ conn'[c].state = "open"
        /\ conn'[c].sent = conn[c].sent /\ conn'[c].got > conn[c].got
        /\ conn'[c].got \in Nat
        /\ conn'[c].read = conn[c].read /\ conn'[c].answered = conn[c].answered
    BY <1>3 DEF GetAnswer, EchoTypeOK, Records
  <2> QED
    BY <1>0, <1>1, <2>1 DEF ClientOK, Served, Records
<1>4. CASE CloseClient(c)
  <2>1. /\ conn[c].state = "open" /\ conn'[c].state = "closed"
        /\ conn'[c].read = conn[c].read /\ conn'[c].answered = conn[c].answered
    BY <1>4 DEF CloseClient, EchoTypeOK, Records
  <2> QED
    BY <1>0, <1>1, <2>1 DEF ClientOK, Served
<1>5. CASE ResetClient(c) \/ EchoFails(c)
  <2>1. /\ conn'[c].state \in {"reset", "gone"}
        /\ conn'[c].read = conn[c].read /\ conn'[c].answered = conn[c].answered
    BY <1>5 DEF ResetClient, EchoFails, EchoTypeOK, Records
  <2> QED
    BY <1>0, <2>1 DEF ClientOK
<1>6. CASE ChatAnswer(c)
  <2>1. /\ conn'[c].state = conn[c].state /\ conn'[c].sent = conn[c].sent
        /\ conn'[c].got = conn[c].got /\ conn[c].read < conn[c].sent
        /\ conn'[c].read = conn[c].read + 1
        /\ conn'[c].answered = conn[c].answered + 1
    BY <1>6 DEF ChatAnswer, EchoTypeOK, Records
  <2> QED
    BY <1>0, <1>1, <2>1 DEF ClientOK, Served, Records
<1>7. ASSUME NEW p \in Processes, Echo(p, c)
      PROVE  ClientOK(c)'
  <2>1. /\ conn'[c].state = conn[c].state /\ conn'[c].sent = conn[c].sent
        /\ conn'[c].got = conn[c].got /\ conn[c].read < conn[c].sent
        /\ conn'[c].answered = conn'[c].read
    <3>1. PICK n \in conn[c].read + 1 .. conn[c].sent :
                 conn' = [conn EXCEPT ![c].read = n, ![c].answered = n]
      BY <1>7 DEF Echo
    <3> DEFINE r == [[conn[c] EXCEPT !.read = n] EXCEPT !.answered = n]
    <3>2. conn'[c] = r
      BY <3>1 DEF EchoTypeOK
    <3>3. /\ r.state = conn[c].state /\ r.sent = conn[c].sent
          /\ r.got = conn[c].got /\ r.answered = n /\ r.read = n
      BY <1>0 DEF Records
    <3>4. conn[c].read < conn[c].sent
      BY <1>0, <3>1 DEF Records
    <3> HIDE DEF r
    <3> QED
      BY <3>2, <3>3, <3>4
  <2> QED
    BY <1>0, <1>1, <2>1 DEF ClientOK, Served, Records
<1> QED
  BY <1>2, <1>3, <1>4, <1>5, <1>6, <1>7

(* A step about another connection leaves d as it was.                     *)
LEMMA OtherClient ==
  ASSUME NEW d \in EchoClients, ClientOK(d), conn'[d] = conn[d], prog' = prog,
         \/ srv'.pc = "over"
         \/ /\ srv.pc # "over"
            /\ Queued(d) => Queued(d)' \/ (Held(d)' /\ srv'.pc # "parent")
            /\ Held(d) /\ (srv.pc = "parent" => d \in fds[d]) =>
                 Held(d)' /\ (srv'.pc = "parent" => d \in fds'[d])
  PROVE  ClientOK(d)'
  BY DEF ClientOK, Served

(* Each client is queued, held or served through all steps.                *)
LEMMA ServedStep ==
  ASSUME EchoTypeOK, DescriptorInv, ServedInv, EchoServersNext,
         NEW d \in EchoClients
  PROVE  ClientOK(d)'
<1> USE EchoServersAssumption
<1>0. /\ "server" \in Processes /\ EchoClients \subseteq Processes
      /\ "server" \notin EchoClients /\ ClientOK(d)
      /\ srv \in [pc : {"accept", "fork", "parent", "serve", "over"}, c : Processes]
      /\ prog \in {"fork", "uni", "chat"}
  BY DEF Processes, EchoTypeOK, ServedInv
<1>1. ASSUME NEW c \in EchoClients, d # c,
             \/ ConnectTo(c) \/ Send(c) \/ GetAnswer(c) \/ CloseClient(c)
             \/ ResetClient(c) \/ EchoFails(c) \/ ChatAnswer(c)
             \/ \E p \in Processes : Echo(p, c)
      PROVE  ClientOK(d)'
  <2>1. conn'[d] = conn[d]
    BY <1>1, ConnTypes
  <2>2. UNCHANGED <<prog, srv, fds>> /\ (Queued(d) => Queued(d)')
    <3>1. queue' = queue \/ queue' = Append(queue, c)
      BY <1>1 DEF ConnectTo, Send, GetAnswer, CloseClient, ResetClient,
                  EchoFails, ChatAnswer, Echo
    <3>2. Queued(d) => Queued(d)'
      BY <3>1 DEF Queued, EchoTypeOK
    <3> QED
      BY <1>1, <3>2 DEF ConnectTo, Send, GetAnswer, CloseClient, ResetClient,
                        EchoFails, ChatAnswer, Echo
  <2> QED
    BY <1>0, <2>1, <2>2, OtherClient DEF Held
<1>2. CASE ConnectTo(d)
  <2>1. /\ conn[d].state = "none" /\ conn'[d].state = "open"
        /\ conn'[d].sent = conn[d].sent /\ conn'[d].got = conn[d].got
        /\ conn'[d].read = conn[d].read /\ conn'[d].answered = conn[d].answered
    BY <1>2 DEF ConnectTo, EchoTypeOK, Records
  <2>2. Queued(d)'
    BY <1>2 DEF ConnectTo, Queued, EchoTypeOK
  <2>3. prog' = prog
    BY <1>2 DEF ConnectTo
  <2> QED
    BY <1>0, <2>1, <2>2, <2>3 DEF ClientOK
<1>3. CASE \/ Send(d) \/ GetAnswer(d) \/ CloseClient(d) \/ ResetClient(d)
           \/ EchoFails(d) \/ ChatAnswer(d)
           \/ \E p \in Processes : Echo(p, d)
  BY <1>0, <1>3, ClientStep
<1>4. ASSUME queue # <<>>, queue' = Tail(queue), d # Head(queue)
      PROVE  Queued(d) => Queued(d)'
  <2> SUFFICES ASSUME NEW i \in 1 .. Len(queue), queue[i] = d
               PROVE  \E j \in 1 .. Len(queue') : queue'[j] = d
    BY DEF Queued
  <2>1. i # 1 /\ Len(queue) \in Nat
    BY <1>4 DEF EchoTypeOK
  <2>2. i - 1 \in 1 .. Len(queue') /\ queue'[i - 1] = queue[i]
    BY <1>4, <2>1 DEF EchoTypeOK
  <2> QED
    BY <2>2
<1>5. CASE Accept
  <2>1. /\ srv.pc = "accept" /\ srv'.pc # "parent" /\ queue # <<>>
        /\ queue' = Tail(queue) /\ UNCHANGED <<prog, conn>>
        /\ fds' = [fds EXCEPT !["server"] = @ \cup {Head(queue)}]
    BY <1>5 DEF Accept
  <2>2. Held(d) => Held(d)'
    BY <1>0, <2>1 DEF Held, EchoTypeOK
  <2>3. d = Head(queue) => Held(d)'
    BY <1>0, <2>1 DEF Held, EchoTypeOK
  <2> QED
    BY <1>0, <1>4, <2>1, <2>2, <2>3, OtherClient
<1>6. CASE AcceptAborted
  <2>1. /\ UNCHANGED <<prog, srv, fds, conn>> /\ queue # <<>>
        /\ queue' = Tail(queue) /\ conn[Head(queue)].state = "reset"
    BY <1>6 DEF AcceptAborted
  <2>2. CASE d = Head(queue)
    BY <1>0, <2>1, <2>2 DEF ClientOK
  <2>3. CASE d # Head(queue)
    BY <1>0, <1>4, <2>1, <2>3, OtherClient DEF Held
  <2> QED
    BY <2>2, <2>3
<1>7. CASE ServerExits
  BY <1>0, <1>7, OtherClient DEF ServerExits
<1>8. ASSUME NEW p \in Processes, d \in fds[p]
      PROVE  p = d \/ (p = "server" /\ srv.c = d)
  BY <1>0, <1>8 DEF DescriptorInv, Processes
<1>9. CASE Fork
  <2>1. /\ srv.pc = "fork" /\ srv.c \in Processes
        /\ fds' = [fds EXCEPT ![srv.c] = fds["server"]]
        /\ UNCHANGED <<prog, queue, conn>>
    BY <1>0, <1>9 DEF Fork
  <2>2. Held(d) => d \in fds'[d]
    BY <1>0, <1>8, <2>1 DEF Held, DescriptorInv, EchoTypeOK
  <2> QED
    BY <1>0, <2>1, <2>2, OtherClient DEF Held, Queued
<1>10. CASE ParentGoesOn
  <2>1. /\ srv.pc = "parent" /\ srv'.pc = "accept"
        /\ fds' = [fds EXCEPT !["server"] = @ \ {srv.c}]
        /\ UNCHANGED <<prog, queue, conn>>
    BY <1>0, <1>10 DEF ParentGoesOn
  <2>2. d \in fds[d] => Held(d)'
    BY <1>0, <2>1 DEF Held, EchoTypeOK
  <2> QED
    BY <1>0, <2>1, <2>2, OtherClient DEF Queued
<1>11. ASSUME NEW c \in EchoClients, ChatGoesOn(c)
       PROVE  ClientOK(d)'
  <2>1. d # c => conn'[d] = conn[d]
    BY <1>11, ConnTypes
  <2>2. CASE d = c
    <3>1. /\ conn'[d].state = "gone" /\ conn'[d].read = conn[d].read
          /\ conn'[d].answered = conn[d].answered
      BY <1>11, <2>2 DEF ChatGoesOn, EchoTypeOK, Records
    <3> QED
      BY <1>0, <3>1 DEF ClientOK
  <2>3. CASE d # c /\ srv'.pc = "over"
    BY <1>0, <1>11, <2>1, <2>3, OtherClient DEF ChatGoesOn
  <2>4. CASE d # c /\ UNCHANGED <<srv, fds>>
    BY <1>0, <1>11, <2>1, <2>4, OtherClient DEF ChatGoesOn, Held, Queued
  <2>5. UNCHANGED <<srv, fds>> \/ srv'.pc = "over"
    BY <1>0, <1>11 DEF ChatGoesOn
  <2> QED
    BY <2>2, <2>3, <2>4, <2>5
<1>12. ASSUME NEW c \in EchoClients, NEW p \in Processes,
              EchoBrokenPipe(p, c) \/ StopServing(p, c)
       PROVE  ClientOK(d)'
  <2>1. UNCHANGED <<prog, queue, conn>> /\ Serves(p, c)
    BY <1>12 DEF EchoBrokenPipe, StopServing
  <2>2. CASE d = c
    <3>1. Served(c) \/ conn[c].state \in {"gone", "reset"}
      BY <1>12 DEF EchoBrokenPipe, StopServing, EndOfClient, Served
    <3> QED
      BY <1>0, <2>1, <2>2, <3>1 DEF ClientOK, Served
  <2>3. CASE d # c /\ prog = "fork"
    <3>1. p = c /\ srv' = srv /\ fds' = [fds EXCEPT ![c] = {}]
      BY <1>12, <2>3 DEF EchoBrokenPipe, StopServing, Serves
    <3>2. (Held(d) => Held(d)') /\ (d \in fds[d] => d \in fds'[d])
      BY <1>0, <1>8, <2>3, <3>1 DEF Held, EchoTypeOK
    <3> QED
      BY <1>0, <2>1, <2>3, <3>1, <3>2, OtherClient DEF Queued
  <2>4. CASE d # c /\ prog # "fork"
    <3>1. /\ p = "server" /\ srv.c = c /\ srv'.pc \in {"accept", "over"}
          /\ \/ fds' = [fds EXCEPT !["server"] = {}]
             \/ fds' = [fds EXCEPT !["server"] = @ \ {c}]
          /\ c \in fds["server"]
      BY <1>0, <1>12, <2>4 DEF EchoBrokenPipe, StopServing, Serves
    <3>2. Held(d) => Held(d)'
      BY <1>0, <1>8, <2>4, <3>1 DEF Held, EchoTypeOK
    <3>3. srv.pc # "over"
      BY <3>1 DEF DescriptorInv
    <3> QED
      BY <1>0, <2>1, <3>1, <3>2, <3>3, OtherClient DEF Queued
  <2> QED
    BY <2>2, <2>3, <2>4
<1> QED
  BY <1>1, <1>2, <1>3, <1>5, <1>6, <1>7, <1>9, <1>10, <1>11, <1>12
  DEF EchoServersNext, ServerStep, ServeStep

-----------------------------------------------------------------------------
(* Every step keeps the invariant.                                         *)
LEMMA EchoStep == EchoInv /\ [EchoServersNext]_echoVars => EchoInv'
<1> SUFFICES ASSUME EchoInv, [EchoServersNext]_echoVars PROVE EchoInv'
  OBVIOUS
<1>1. CASE EchoServersNext
  <2>1. EchoTypeOK' /\ DescriptorInv'
    BY <1>1, TypeStep, DescriptorStep DEF EchoInv
  <2>2. ServedInv'
    BY <1>1, ServedStep DEF EchoInv, ServedInv
  <2> QED
    BY <2>1, <2>2 DEF EchoInv
<1>2. CASE UNCHANGED echoVars
  BY <1>2 DEF echoVars, EchoInv, EchoTypeOK, DescriptorInv, ServedInv, ClientOK,
              Queued, Held, Served
<1> QED
  BY <1>1, <1>2

(* For any number of clients: no process but the one that serves a client  *)
(* keeps its descriptor, the parent of tcp_concurrent.cc only until it     *)
(* goes on.                                                                *)
THEOREM RightHolder == EchoServersSpec => []HeldByItsServer
<1>1. EchoInv => HeldByItsServer
  BY EchoServersAssumption
  DEF EchoInv, EchoTypeOK, DescriptorInv, HeldByItsServer, Processes
<1> QED
  BY <1>1, EchoInvInit, EchoStep, PTL DEF EchoServersSpec

(* For any number of clients and messages: a client that closes in order   *)
(* has all its answers when the server has let go of it.                   *)
THEOREM ServedInFull == EchoServersSpec => []AnsweredBeforeEnd
<1>1. EchoInv => AnsweredBeforeEnd
  <2> SUFFICES ASSUME EchoInv, NEW c \in EchoClients
               PROVE  /\ prog # "fork" /\ conn[c].state = "open" =>
                           conn[c].sent <= conn[c].got + 1
                      /\ conn[c].state = "closed" /\ c \notin Range(queue)
                         /\ srv.pc # "over"
                         /\ (\A p \in Processes : c \notin fds[p])
                         => conn[c].answered = conn[c].sent
    BY DEF AnsweredBeforeEnd
  <2>1. ClientOK(c)
    BY DEF EchoInv, ServedInv
  <2>2. Queued(c) => c \in Range(queue)
    BY DEF Queued, Range, EchoInv, EchoTypeOK
  <2> QED
    BY <2>1, <2>2 DEF ClientOK, Held, Served
<1> QED
  BY <1>1, EchoInvInit, EchoStep, PTL DEF EchoServersSpec

-----------------------------------------------------------------------------
(* The wrappers around read and write.                                     *)
Bytes == Fds \X Nat

StreamRecords == [arrived : Nat, taken : Nat, state : States]

Calls ==
  [busy : BOOLEAN, fn : Wrappers \cup {"killed"}, fd : Fds, n : Sizes,
   ret : Int, got : Seq(Bytes), put : Nat, from : Nat, rest : Seq(Bytes)]

StreamsTypeInv ==
  /\ st \in [Fds -> StreamRecords]
  /\ \A fd \in Fds : st[fd].taken <= st[fd].arrived
  /\ buf \in Seq(Bytes)
  /\ op = [busy |-> FALSE, fn |-> "none"] \/ op \in Calls

(* Read and Readn have the bytes that were taken since the call.           *)
ReadInv ==
  op.fn \in {"Read", "Readn"} =>
    /\ \A i \in 1 .. Len(op.got) : op.got[i] = <<op.fd, op.from + i>>
    /\ st[op.fd].taken = op.from + Len(op.got)
    /\ op.busy => Len(op.got) < op.n /\ (op.fn = "Read" => op.got = <<>>)
    /\ ~op.busy =>
         /\ \/ op.ret = Len(op.got)
            \/ op.ret = -1 /\ op.fn = "Read" /\ op.got = <<>>
         /\ op.ret < op.n => op.fn = "Read" \/ st[op.fd].state # "open"

WriteInv ==
  op.fn \in {"Write", "Writen"} =>
    /\ op.put <= op.n
    /\ op.busy => op.put < op.n
    /\ ~op.busy /\ op.fn = "Writen" =>
         op.ret = IF op.put = op.n THEN op.n ELSE -1

(* The byte at position i of the rest of my_read followed by what came on  *)
(* the descriptor since the call.                                          *)
LineByte(i) ==
  IF i <= Len(op.rest) THEN op.rest[i] ELSE <<op.fd, op.from + i - Len(op.rest)>>

(* Readline has a beginning of that, and the buffer of my_read what        *)
(* follows, up to the last byte taken.                                     *)
LineInv ==
  op.fn = "Readline" =>
    /\ \A i \in 1 .. Len(op.got) : op.got[i] = LineByte(i)
    /\ op.busy =>
         /\ op.from <= st[op.fd].taken
         /\ Len(op.got) + Len(buf) = Len(op.rest) + st[op.fd].taken - op.from
         /\ \A j \in 1 .. Len(buf) : buf[j] = LineByte(Len(op.got) + j)
         /\ op.n = 1 => op.got = <<>>
         /\ op.n > 1 => Len(op.got) < op.n - 1
    /\ ~op.busy =>
         IF op.ret = op.n THEN Len(op.got) = op.n - 1
         ELSE /\ op.ret \in {Len(op.got), -1} /\ Len(op.got) < op.n - 1
              /\ st[op.fd].state # "open"

StreamsInv == StreamsTypeInv /\ ReadInv /\ WriteInv /\ LineInv

-----------------------------------------------------------------------------
(* The smaller of two numbers.                                             *)
LEMMA MinOfTwo ==
  ASSUME NEW a \in Int, NEW b \in Int
  PROVE  Min({a, b}) \in {a, b} /\ Min({a, b}) <= a /\ Min({a, b}) <= b
<1>1. \E x \in {a, b} : \A y \in {a, b} : x <= y
  OBVIOUS
<1> QED
  BY <1>1 DEF Min

(* read returns at least one byte, at most as many as were asked for, and  *)
(* no more than have arrived.                                              *)
LEMMA CountsRange ==
  ASSUME StreamsTypeInv, NEW fd \in Fds, NEW n \in Int, NEW k \in Counts(fd, n)
  PROVE  /\ k \in Nat \ {0} /\ k <= n
         /\ st[fd].taken + k <= st[fd].arrived
<1>1. st[fd].arrived \in Nat /\ st[fd].taken \in Nat
  BY DEF StreamsTypeInv, StreamRecords
<1> DEFINE m == st[fd].arrived - st[fd].taken
<1>2. m \in Int
  BY <1>1
<1>3. k \in 1 .. Min({n, m})
  BY DEF Counts
<1> HIDE DEF m
<1>4. Min({n, m}) \in Int /\ Min({n, m}) <= n /\ Min({n, m}) <= m
  BY <1>2, MinOfTwo
<1>5. k \in Nat \ {0} /\ k <= n /\ k <= m
  BY <1>2, <1>3, <1>4
<1> QED
  BY <1>1, <1>5 DEF m

(* Taking bytes from a descriptor.                                         *)
LEMMA TakeFacts ==
  ASSUME StreamsTypeInv, NEW fd \in Fds, NEW n \in Int, NEW k \in Counts(fd, n),
         Take(fd, k)
  PROVE  /\ st' \in [Fds -> StreamRecords]
         /\ \A f \in Fds : st'[f].taken <= st'[f].arrived /\ st'[f].state = st[f].state
         /\ st'[fd].taken = st[fd].taken + k
<1>1. k \in Nat \ {0} /\ st[fd].taken + k <= st[fd].arrived
  BY CountsRange
<1> QED
  BY <1>1 DEF Take, StreamsTypeInv, StreamRecords

(* The next k bytes of a descriptor.                                       *)
LEMMA NextBytesFacts ==
  ASSUME StreamsTypeInv, NEW fd \in Fds, NEW k \in Nat
  PROVE  /\ NextBytes(fd, k) \in Seq(Bytes) /\ Len(NextBytes(fd, k)) = k
         /\ \A i \in 1 .. k : NextBytes(fd, k)[i] = <<fd, st[fd].taken + i>>
<1>1. st[fd].taken \in Nat
  BY DEF StreamsTypeInv, StreamRecords
<1> QED
  BY <1>1 DEF NextBytes, Bytes

(* Reporting an error takes no bytes and does not reopen the connection.   *)
LEMMA ReportedFacts ==
  ASSUME StreamsTypeInv, NEW fd \in Fds, Reported(fd), Fails(fd)
  PROVE  /\ st' \in [Fds -> StreamRecords]
         /\ \A f \in Fds : /\ st'[f].taken = st[f].taken /\ st'[f].arrived = st[f].arrived
                           /\ st'[f].state = "open" => st[f].state = "open"
         /\ st'[fd].state # "open"
BY DEF StreamsTypeInv, StreamRecords, Reported, Fails, States

-----------------------------------------------------------------------------
(* No call is being made at the start.                                     *)
LEMMA StreamsInvInit == StreamsInit => StreamsInv
<1> SUFFICES ASSUME StreamsInit PROVE StreamsInv
  OBVIOUS
<1>1. StreamsTypeInv
  BY DEF StreamsInit, StreamsTypeInv, StreamRecords, States
<1>2. op.fn = "none"
  BY DEF StreamsInit
<1> QED
  BY <1>1, <1>2 DEF StreamsInv, ReadInv, WriteInv, LineInv

(* A step that neither takes bytes nor opens a connection again, and       *)
(* changes neither the call nor the buffer.                                *)
LEMMA StreamsFrame ==
  ASSUME StreamsInv, st' \in [Fds -> StreamRecords], UNCHANGED <<buf, op>>,
         \A f \in Fds : /\ st'[f].taken = st[f].taken /\ st'[f].taken <= st'[f].arrived
                        /\ st'[f].state = "open" => st[f].state = "open"
  PROVE  StreamsInv'
<1>1. StreamsTypeInv'
  BY DEF StreamsInv, StreamsTypeInv
<1>2. op.fn \in Wrappers => op.fd \in Fds
  BY DEF StreamsInv, StreamsTypeInv, Calls, Wrappers
<1>3. ReadInv'
  BY <1>2 DEF StreamsInv, ReadInv, Wrappers
<1>4. WriteInv'
  BY DEF StreamsInv, WriteInv
<1>5. LineInv'
  BY <1>2 DEF StreamsInv, LineInv, LineByte, Wrappers
<1> QED
  BY <1>1, <1>3, <1>4, <1>5 DEF StreamsInv

(* The peer and the network.                                               *)
LEMMA PeerStep ==
  ASSUME StreamsInv, NEW fd \in Fds,
         Arrive(fd) \/ PeerCloses(fd) \/ Reset(fd) \/ GoBad(fd)
  PROVE  StreamsInv'
<1>1. /\ st \in [Fds -> StreamRecords]
      /\ \A f \in Fds : st[f].arrived \in Nat /\ st[f].taken \in Nat /\ st[f].taken <= st[f].arrived
  BY DEF StreamsInv, StreamsTypeInv, StreamRecords
<1>2. /\ st' \in [Fds -> StreamRecords] /\ UNCHANGED <<buf, op>>
      /\ \A f \in Fds : /\ st'[f].taken = st[f].taken /\ st'[f].taken <= st'[f].arrived
                        /\ st'[f].state = "open" => st[f].state = "open"
  <2>1. CASE Arrive(fd)
    BY <1>1, <2>1 DEF StreamRecords, Arrive
  <2>2. CASE PeerCloses(fd)
    BY <1>1, <2>2 DEF StreamRecords, States, PeerCloses
  <2>3. CASE Reset(fd)
    BY <1>1, <2>3 DEF StreamRecords, States, Reset
  <2>4. CASE GoBad(fd)
    BY <1>1, <2>4 DEF StreamRecords, States, GoBad
  <2> QED
    BY <2>1, <2>2, <2>3, <2>4
<1> QED
  BY <1>2, StreamsFrame

(* A call begins.                                                          *)
LEMMA CallStep ==
  ASSUME StreamsInv, NEW fn \in Wrappers, NEW fd \in Fds, NEW n \in Sizes,
         Call(fn, fd, n)
  PROVE  StreamsInv'
<1> USE StreamsAssumption
<1>1. /\ op' = [busy |-> TRUE, fn |-> fn, fd |-> fd, n |-> n, ret |-> 0,
                got |-> <<>>, put |-> 0, from |-> st[fd].taken, rest |-> buf]
      /\ UNCHANGED <<st, buf>> /\ st[fd].taken \in Nat /\ buf \in Seq(Bytes)
  BY DEF Call, StreamsInv, StreamsTypeInv, StreamRecords
<1>2. StreamsTypeInv'
  BY <1>1 DEF StreamsInv, StreamsTypeInv, Calls
<1>3. ReadInv'
  BY <1>1 DEF ReadInv
<1>4. WriteInv'
  BY <1>1 DEF WriteInv
<1>5. LineInv'
  BY <1>1 DEF LineInv, LineByte
<1> QED
  BY <1>2, <1>3, <1>4, <1>5 DEF StreamsInv

(* A wrapper returns r.                                                    *)
LEMMA ReturnsFacts ==
  ASSUME NEW o \in Calls, NEW r \in Int, Returns(o, r)
  PROVE  /\ op' \in Calls /\ op'.busy = FALSE /\ op'.ret = r
         /\ op'.fn = o.fn /\ op'.fd = o.fd /\ op'.n = o.n /\ op'.got = o.got
         /\ op'.put = o.put /\ op'.from = o.from /\ op'.rest = o.rest
BY DEF Returns, Calls

(* One run of bytes after another.                                         *)
LEMMA Concatenated ==
  ASSUME NEW S, NEW s \in Seq(S), NEW t \in Seq(S)
  PROVE  /\ s \o t \in Seq(S) /\ Len(s \o t) = Len(s) + Len(t)
         /\ \A i \in 1 .. Len(s) : (s \o t)[i] = s[i]
         /\ \A i \in 1 .. Len(t) : (s \o t)[Len(s) + i] = t[i]
OBVIOUS

(* What is known of the call inside a wrapper.                             *)
LEMMA InCall ==
  ASSUME StreamsInv, op.fn \in Wrappers
  PROVE  /\ op \in Calls /\ op.fd \in Fds
         /\ op.n \in Nat \ {0} /\ op.put \in Nat /\ op.from \in Nat
         /\ op.got \in Seq(Bytes) /\ op.rest \in Seq(Bytes) /\ buf \in Seq(Bytes)
         /\ st[op.fd].taken \in Nat
<1>1. op \in Calls
  BY DEF StreamsInv, StreamsTypeInv, Wrappers
<1> QED
  BY <1>1, StreamsAssumption
     DEF StreamsInv, StreamsTypeInv, Calls, StreamRecords

(* Read and Readn add the next bytes of the descriptor to those they have. *)
LEMMA ReadSomeStep == StreamsInv /\ ReadSome => StreamsInv'
<1> SUFFICES ASSUME StreamsInv, ReadSome PROVE StreamsInv'
  OBVIOUS
<1>1. In({"Read", "Readn"}) /\ UNCHANGED buf
  BY DEF ReadSome
<1>2. /\ op \in Calls /\ op.busy = TRUE /\ op.fn \in {"Read", "Readn"} /\ op.fd \in Fds
      /\ op.n \in Nat \ {0} /\ op.from \in Nat /\ op.got \in Seq(Bytes)
      /\ st[op.fd].taken \in Nat
  BY <1>1, InCall DEF In, Wrappers, Calls
<1>3. StreamsTypeInv
  BY DEF StreamsInv
<1> DEFINE o(k) == [op EXCEPT !.got = @ \o NextBytes(op.fd, k)]
<1>4. PICK k \in Counts(op.fd, op.n - Len(op.got)) :
        /\ Take(op.fd, k)
        /\ IF op.fn = "Read" \/ Len(o(k).got) = op.n THEN Returns(o(k), Len(o(k).got))
           ELSE op' = o(k)
  BY DEF ReadSome
<1>5. Len(op.got) \in Nat /\ op.n - Len(op.got) \in Int
  BY <1>2
<1>6. k \in Nat \ {0} /\ k <= op.n - Len(op.got)
  BY <1>2, <1>3, <1>5, CountsRange
<1>7. /\ st' \in [Fds -> StreamRecords]
      /\ \A f \in Fds : st'[f].taken <= st'[f].arrived
      /\ st'[op.fd].taken = st[op.fd].taken + k
  BY <1>2, <1>3, <1>4, <1>5, TakeFacts
<1> DEFINE b == NextBytes(op.fd, k)
<1>8. /\ b \in Seq(Bytes) /\ Len(b) = k
      /\ \A i \in 1 .. k : b[i] = <<op.fd, st[op.fd].taken + i>>
  BY <1>2, <1>3, <1>6, NextBytesFacts
<1> HIDE DEF b
<1> DEFINE g == op.got \o b
<1>9. /\ \A i \in 1 .. Len(op.got) : op.got[i] = <<op.fd, op.from + i>>
      /\ st[op.fd].taken = op.from + Len(op.got)
  BY <1>2 DEF StreamsInv, ReadInv
<1>10. /\ g \in Seq(Bytes) /\ Len(g) = Len(op.got) + k
       /\ \A i \in 1 .. Len(op.got) : g[i] = op.got[i]
       /\ \A i \in 1 .. k : g[Len(op.got) + i] = b[i]
  <2>1. op.got \in Seq(Bytes)
    BY <1>2
  <2> QED
    BY <1>8, <2>1, Concatenated
<1> HIDE DEF g
<1>11. \A i \in 1 .. Len(g) : g[i] = <<op.fd, op.from + i>>
  <2> SUFFICES ASSUME NEW i \in 1 .. Len(g) PROVE g[i] = <<op.fd, op.from + i>>
    OBVIOUS
  <2>1. CASE i <= Len(op.got)
    BY <1>5, <1>9, <1>10, <2>1
  <2>2. CASE i > Len(op.got)
    <3>1. i - Len(op.got) \in 1 .. k /\ i = Len(op.got) + (i - Len(op.got))
      BY <1>5, <1>6, <1>10, <2>2
    <3>2. st[op.fd].taken + (i - Len(op.got)) = op.from + i
      BY <1>2, <1>5, <1>9
    <3> QED
      BY <1>8, <1>10, <3>1, <3>2
  <2> QED
    BY <1>5, <1>6, <1>10, <2>1, <2>2
<1>12. /\ o(k) \in Calls /\ o(k).got = g /\ o(k).fn = op.fn /\ o(k).fd = op.fd /\ o(k).n = op.n
       /\ o(k).busy = TRUE /\ o(k).from = op.from
  BY <1>2, <1>10 DEF Calls, b, g
<1> HIDE DEF o
<1>13. /\ op' \in Calls /\ op'.got = g /\ op'.fn = op.fn /\ op'.fd = op.fd /\ op'.n = op.n
       /\ op'.from = op.from
       /\ IF op.fn = "Read" \/ Len(g) = op.n THEN op'.busy = FALSE /\ op'.ret = Len(g)
          ELSE op'.busy = TRUE
  <2>1. CASE op.fn = "Read" \/ Len(g) = op.n
    <3>1. Len(g) \in Int /\ Returns(o(k), Len(g))
      BY <1>4, <1>10, <1>12, <2>1
    <3> QED
      BY <1>12, <2>1, <3>1, ReturnsFacts
  <2>2. CASE ~(op.fn = "Read" \/ Len(g) = op.n)
    BY <1>4, <1>12, <2>2
  <2> QED
    BY <2>1, <2>2
<1>14. StreamsTypeInv'
  BY <1>1, <1>3, <1>7, <1>13 DEF StreamsTypeInv
<1>15. ReadInv'
  <2>1. st'[op'.fd].taken = op'.from + Len(op'.got)
    <3>1. st'[op.fd].taken = op.from + Len(g)
      BY <1>2, <1>5, <1>6, <1>7, <1>9, <1>10
    <3> QED
      BY <1>13, <3>1
  <2>2. op'.busy => Len(g) < op.n /\ op.fn # "Read"
    BY <1>2, <1>5, <1>6, <1>10, <1>13
  <2>3. ~op'.busy => op'.ret = Len(g) /\ (op.fn = "Read" \/ Len(g) = op.n)
    BY <1>13
  <2> QED
    BY <1>2, <1>10, <1>11, <1>13, <2>1, <2>2, <2>3 DEF ReadInv
<1>16. WriteInv' /\ LineInv'
  BY <1>2, <1>13 DEF WriteInv, LineInv
<1> QED
  BY <1>14, <1>15, <1>16 DEF StreamsInv

(* Read and Readn at the end of the stream.                                *)
LEMMA ReadEndStep == StreamsInv /\ ReadEnd => StreamsInv'
<1> SUFFICES ASSUME StreamsInv, ReadEnd PROVE StreamsInv'
  OBVIOUS
<1>1. In({"Read", "Readn"}) /\ UNCHANGED <<st, buf>> /\ Returns(op, Len(op.got))
      /\ st[op.fd].state # "open"
  BY DEF ReadEnd, AtEnd
<1>2. /\ op \in Calls /\ op.fn \in {"Read", "Readn"} /\ op.got \in Seq(Bytes)
  BY <1>1, InCall DEF In, Wrappers, Calls
<1>3. /\ op' \in Calls
      /\ op'.fn = op.fn /\ op'.busy = FALSE /\ op'.ret = Len(op.got) /\ op'.got = op.got
      /\ op'.fd = op.fd /\ op'.from = op.from
  <2>1. Len(op.got) \in Int
    BY <1>2
  <2> QED
    BY <1>1, <1>2, <2>1, ReturnsFacts
<1>4. StreamsTypeInv'
  BY <1>1, <1>3 DEF StreamsInv, StreamsTypeInv
<1>5. ReadInv'
  BY <1>1, <1>2, <1>3 DEF StreamsInv, ReadInv
<1>6. WriteInv' /\ LineInv'
  BY <1>2, <1>3 DEF WriteInv, LineInv
<1> QED
  BY <1>4, <1>5, <1>6 DEF StreamsInv

(* Read and Readn when the call fails.                                     *)
LEMMA ReadFailsStep == StreamsInv /\ ReadFails => StreamsInv'
<1> SUFFICES ASSUME StreamsInv, ReadFails PROVE StreamsInv'
  OBVIOUS
<1>1. /\ In({"Read", "Readn"}) /\ UNCHANGED buf /\ Reported(op.fd) /\ Fails(op.fd)
      /\ IF op.fn = "Read" THEN Returns(op, -1) ELSE UNCHANGED op
  BY DEF ReadFails
<1>2. /\ op \in Calls /\ op.fn \in {"Read", "Readn"} /\ op.got \in Seq(Bytes) /\ op.fd \in Fds
      /\ op.busy = TRUE
  BY <1>1, InCall DEF In, Wrappers, Calls
<1>3. /\ st' \in [Fds -> StreamRecords] /\ st'[op.fd].state # "open"
      /\ \A f \in Fds : /\ st'[f].taken = st[f].taken /\ st'[f].arrived = st[f].arrived
                        /\ st'[f].state = "open" => st[f].state = "open"
  BY <1>1, <1>2, ReportedFacts DEF StreamsInv
<1>4. \A f \in Fds : st'[f].taken <= st'[f].arrived
  BY <1>3 DEF StreamsInv, StreamsTypeInv
<1>5. CASE op.fn = "Readn"
  BY <1>1, <1>3, <1>4, <1>5, StreamsFrame
<1>6. CASE op.fn = "Read"
  <2>1. /\ op' \in Calls
        /\ op'.fn = "Read" /\ op'.busy = FALSE /\ op'.ret = -1 /\ op'.got = op.got
        /\ op'.fd = op.fd /\ op'.from = op.from
    <3>1. Returns(op, -1) /\ -1 \in Int
      BY <1>1, <1>6
    <3> QED
      BY <1>2, <1>6, <3>1, ReturnsFacts
  <2>2. StreamsTypeInv'
    BY <1>1, <1>3, <1>4, <2>1 DEF StreamsInv, StreamsTypeInv
  <2>3. ReadInv'
    BY <1>2, <1>3, <1>6, <2>1 DEF StreamsInv, ReadInv
  <2>4. WriteInv' /\ LineInv'
    BY <2>1 DEF WriteInv, LineInv
  <2> QED
    BY <2>2, <2>3, <2>4 DEF StreamsInv
<1> QED
  BY <1>2, <1>5, <1>6

(* Sums that occur below.                                                  *)
LEMMA Sums ==
  /\ \A a, j \in Int : a + (j + 1) = a + 1 + j
  /\ \A g, r, t, f, k \in Int :
       g = r + t - f => /\ f + (g + k) - r = t + k
                        /\ g + 1 + (k - 1) = r + (t + k) - f
OBVIOUS

(* One more byte for Readline, which is the next of the line.              *)
LEMMA DeliverStep ==
  ASSUME StreamsInv, In({"Readline"}), op.n > 1, NEW byte \in Bytes, Deliver(byte),
         byte = LineByte(Len(op.got) + 1),
         st' \in [Fds -> StreamRecords], \A f \in Fds : st'[f].taken <= st'[f].arrived,
         buf' \in Seq(Bytes), op.from <= st'[op.fd].taken,
         Len(op.got) + 1 + Len(buf') = Len(op.rest) + st'[op.fd].taken - op.from,
         \A j \in 1 .. Len(buf') : buf'[j] = LineByte(Len(op.got) + 1 + j)
  PROVE  StreamsInv'
<1>1. /\ op \in Calls /\ op.busy = TRUE /\ op.fn = "Readline" /\ op.fd \in Fds
      /\ op.n \in Nat \ {0} /\ op.from \in Nat /\ op.got \in Seq(Bytes)
  BY InCall DEF In, Wrappers, Calls
<1> DEFINE g == Append(op.got, byte)
<1> DEFINE o == [op EXCEPT !.got = g]
<1>2. /\ g \in Seq(Bytes) /\ Len(g) = Len(op.got) + 1 /\ Len(op.got) \in Nat
      /\ \A i \in 1 .. Len(op.got) : g[i] = op.got[i]
      /\ g[Len(op.got) + 1] = byte
  BY <1>1
<1>3. /\ \A i \in 1 .. Len(op.got) : op.got[i] = LineByte(i)
      /\ Len(op.got) < op.n - 1
  BY <1>1 DEF StreamsInv, LineInv
<1>4. \A i \in 1 .. Len(g) : g[i] = LineByte(i)
  <2> SUFFICES ASSUME NEW i \in 1 .. Len(g) PROVE g[i] = LineByte(i)
    OBVIOUS
  <2>1. CASE i \in 1 .. Len(op.got)
    BY <1>2, <1>3, <2>1
  <2>2. CASE i = Len(op.got) + 1
    BY <1>2, <2>2
  <2>3. i \in 1 .. Len(op.got) \/ i = Len(op.got) + 1
    <3> HIDE DEF g
    <3> QED
      BY <1>2
  <2> QED
    BY <2>1, <2>2, <2>3
<1> HIDE DEF g
<1>5. /\ o \in Calls /\ o.got = g /\ o.busy = TRUE /\ o.fn = op.fn /\ o.fd = op.fd
      /\ o.n = op.n /\ o.from = op.from /\ o.rest = op.rest
  BY <1>1, <1>2 DEF Calls
<1>6. IF Len(o.got) = op.n - 1 THEN Returns(o, op.n) ELSE op' = o
  BY DEF Deliver, g
<1> HIDE DEF o
<1>7. /\ op' \in Calls /\ op'.got = g /\ op'.fn = op.fn /\ op'.fd = op.fd /\ op'.n = op.n
      /\ op'.from = op.from /\ op'.rest = op.rest
      /\ IF Len(g) = op.n - 1 THEN op'.busy = FALSE /\ op'.ret = op.n
         ELSE op'.busy = TRUE
  <2>1. CASE Len(g) = op.n - 1
    <3>1. Returns(o, op.n) /\ op.n \in Int
      BY <1>1, <1>5, <1>6, <2>1
    <3> QED
      BY <1>5, <2>1, <3>1, ReturnsFacts
  <2>2. CASE Len(g) # op.n - 1
    BY <1>5, <1>6, <2>2
  <2> QED
    BY <2>1, <2>2
<1>8. StreamsTypeInv'
  BY <1>7 DEF StreamsTypeInv
<1>9. ReadInv' /\ WriteInv'
  BY <1>1, <1>7 DEF ReadInv, WriteInv
<1>10. LineInv'
  <2>2. \A i \in 1 .. Len(op'.got) : op'.got[i] = LineByte(i)
    BY <1>4, <1>7
  <2>3. ASSUME op'.busy
        PROVE  /\ op'.from <= st'[op'.fd].taken
               /\ Len(op'.got) + Len(buf') = Len(op'.rest) + st'[op'.fd].taken - op'.from
               /\ \A j \in 1 .. Len(buf') : buf'[j] = LineByte(Len(op'.got) + j)
               /\ op'.n # 1
               /\ Len(op'.got) < op'.n - 1
    <3>1. op'.got = g /\ op'.n = op.n /\ op'.rest = op.rest /\ op'.fd = op.fd /\ op'.from = op.from
      BY <1>7
    <3>2. Len(g) # op.n - 1
      BY <1>7, <2>3
    <3>3. Len(g) < op.n - 1
      <4>1. Len(g) = Len(op.got) + 1 /\ Len(op.got) \in Nat /\ op.n \in Nat
        BY <1>1, <1>2
      <4> QED
        BY <1>3, <3>2, <4>1
    <3>4. op'.n # 1 /\ Len(op'.got) < op'.n - 1
      BY <3>1, <3>3
    <3>5. Len(op'.got) = Len(op.got) + 1
      BY <1>2, <3>1
    <3> QED
      BY <3>1, <3>4, <3>5
  <2>4. ASSUME ~op'.busy
        PROVE  op'.ret = op'.n /\ Len(op'.got) = op'.n - 1
    BY <1>7, <2>4
  <2> QED
    <3>1. \A i : LineByte(i) = IF i <= Len(op'.rest) THEN op'.rest[i]
                              ELSE <<op'.fd, op'.from + i - Len(op'.rest)>>
      BY <1>7 DEF LineByte
    <3>2. CASE op'.busy
      BY <2>2, <2>3, <3>1, <3>2 DEF LineInv, LineByte
    <3>3. CASE ~op'.busy
      BY <2>2, <2>4, <3>1, <3>3 DEF LineInv, LineByte
    <3> QED
      BY <3>2, <3>3
<1> QED
  BY <1>8, <1>9, <1>10 DEF StreamsInv

(* The next byte of the line is the first of the buffer.                   *)
LEMMA LineFromBufferStep == StreamsInv /\ LineFromBuffer => StreamsInv'
<1> SUFFICES ASSUME StreamsInv, LineFromBuffer PROVE StreamsInv'
  OBVIOUS
<1>1. /\ In({"Readline"}) /\ op.n > 1 /\ buf # <<>> /\ Deliver(Head(buf))
      /\ buf' = Tail(buf) /\ UNCHANGED st
  BY DEF LineFromBuffer
<1>2. /\ op.busy = TRUE /\ op.fn = "Readline" /\ op.got \in Seq(Bytes) /\ buf \in Seq(Bytes)
  BY <1>1, InCall DEF In, Wrappers, Calls
<1>3. /\ Head(buf) \in Bytes /\ Head(buf) = buf[1] /\ Len(buf) \in Nat \ {0}
      /\ Tail(buf) \in Seq(Bytes) /\ Len(Tail(buf)) = Len(buf) - 1
      /\ \A j \in 1 .. Len(buf) - 1 : Tail(buf)[j] = buf[j + 1]
      /\ Len(op.got) \in Nat
  BY <1>1, <1>2
<1>4. /\ op.from <= st[op.fd].taken
      /\ Len(op.got) + Len(buf) = Len(op.rest) + st[op.fd].taken - op.from
      /\ \A j \in 1 .. Len(buf) : buf[j] = LineByte(Len(op.got) + j)
  BY <1>2 DEF StreamsInv, LineInv
<1>5. Head(buf) = LineByte(Len(op.got) + 1)
  BY <1>3, <1>4
<1>6. Len(op.got) + 1 + Len(Tail(buf)) = Len(op.rest) + st[op.fd].taken - op.from
  <2>1. Len(op.got) + 1 + Len(Tail(buf)) = Len(op.got) + Len(buf)
    BY <1>3
  <2> QED
    BY <1>4, <2>1
<1>7. ASSUME NEW j \in 1 .. Len(Tail(buf))
      PROVE  Tail(buf)[j] = LineByte(Len(op.got) + 1 + j)
  <2>1. Tail(buf)[j] = buf[j + 1] /\ j + 1 \in 1 .. Len(buf)
    BY <1>3
  <2>2. j \in Int /\ Len(op.got) \in Int
    BY <1>3
  <2>3. Len(op.got) + (j + 1) = Len(op.got) + 1 + j
    BY <2>2, Sums
  <2> QED
    BY <1>4, <2>1, <2>3
<1>8. st \in [Fds -> StreamRecords] /\ \A f \in Fds : st[f].taken <= st[f].arrived
  BY DEF StreamsInv, StreamsTypeInv
<1> QED
  BY <1>1, <1>3, <1>4, <1>5, <1>6, <1>7, <1>8, DeliverStep

(* The next byte of the line is the first of those that fill the buffer.   *)
LEMMA LineFillsWith ==
  ASSUME StreamsInv, In({"Readline"}), op.n > 1, buf = <<>>,
         NEW k \in Nat \ {0}, k \in Counts(op.fd, BufSize),
         Take(op.fd, k), Deliver(Head(NextBytes(op.fd, k))),
         buf' = Tail(NextBytes(op.fd, k))
  PROVE  StreamsInv'
<1>1. In({"Readline"}) /\ op.n > 1 /\ buf = <<>>
  OBVIOUS
<1>2. /\ op.busy = TRUE /\ op.fn = "Readline" /\ op.fd \in Fds /\ op.from \in Nat
      /\ op.got \in Seq(Bytes) /\ op.rest \in Seq(Bytes) /\ st[op.fd].taken \in Nat
  BY <1>1, InCall DEF In, Wrappers, Calls
<1>3. StreamsTypeInv
  BY DEF StreamsInv
<1>5. k \in Nat \ {0} /\ BufSize \in Int
  BY StreamsAssumption
<1>6. /\ st' \in [Fds -> StreamRecords] /\ \A f \in Fds : st'[f].taken <= st'[f].arrived
      /\ st'[op.fd].taken = st[op.fd].taken + k
  BY <1>2, <1>3, <1>5, TakeFacts
<1> DEFINE b == NextBytes(op.fd, k)
<1>7. /\ b \in Seq(Bytes) /\ Len(b) = k
      /\ \A i \in 1 .. k : b[i] = <<op.fd, st[op.fd].taken + i>>
  BY <1>2, <1>3, <1>5, NextBytesFacts
<1>8. Deliver(Head(b)) /\ buf' = Tail(b)
  OBVIOUS
<1> HIDE DEF b
<1>9. /\ Head(b) \in Bytes /\ Head(b) = b[1]
      /\ Tail(b) \in Seq(Bytes) /\ Len(Tail(b)) = k - 1
      /\ \A j \in 1 .. k - 1 : Tail(b)[j] = b[j + 1]
  <2>1. b # <<>>
    BY <1>5, <1>7
  <2> QED
    BY <1>7, <2>1
<1>10. Len(op.got) \in Nat /\ Len(op.rest) \in Nat
  BY <1>2
<1>11. Len(op.got) = Len(op.rest) + st[op.fd].taken - op.from
  <2>1. Len(op.got) + Len(buf) = Len(op.rest) + st[op.fd].taken - op.from
    BY <1>2 DEF StreamsInv, LineInv
  <2>2. Len(buf) = 0
    BY <1>1
  <2> QED
    BY <1>10, <2>1, <2>2
<1>12. ASSUME NEW i \in 1 .. k
       PROVE  b[i] = LineByte(Len(op.got) + i)
  <2>0. i \in Nat \ {0}
    BY <1>5
  <2>1. op.from + (Len(op.got) + i) - Len(op.rest) = st[op.fd].taken + i
    <3> DEFINE g == Len(op.got)  r == Len(op.rest)  t == st[op.fd].taken  f == op.from
    <3>1. f \in Int /\ t \in Int /\ g \in Int /\ r \in Int /\ i \in Int /\ g = r + t - f
      BY <1>2, <1>10, <1>11, <2>0
    <3> HIDE DEF g, r, t, f
    <3>2. f + (g + i) - r = t + i
      BY <3>1, Sums
    <3> QED
      BY <3>2 DEF g, r, t, f
  <2>2. op.from <= st[op.fd].taken
    BY <1>2 DEF StreamsInv, LineInv
  <2>3. ~(Len(op.got) + i <= Len(op.rest))
    BY <1>2, <1>10, <1>11, <2>0, <2>2
  <2> QED
    BY <1>7, <2>1, <2>3 DEF LineByte
<1>13. Head(b) = LineByte(Len(op.got) + 1)
  BY <1>5, <1>9, <1>12
<1>14. ASSUME NEW j \in 1 .. k - 1
       PROVE  Tail(b)[j] = LineByte(Len(op.got) + 1 + j)
  <2>1. j \in Int /\ j + 1 \in 1 .. k /\ Tail(b)[j] = b[j + 1]
    BY <1>5, <1>9
  <2>2. b[j + 1] = LineByte(Len(op.got) + (j + 1))
    BY <1>12, <2>1
  <2>3. Len(op.got) + (j + 1) = Len(op.got) + 1 + j
    <3>1. j \in Int
      BY <2>1
    <3> DEFINE g == Len(op.got)
    <3>2. g \in Int
      BY <1>10
    <3> HIDE DEF g
    <3>3. g + (j + 1) = g + 1 + j
      BY <3>1, <3>2, Sums
    <3> QED
      BY <3>3 DEF g
  <2> QED
    BY <2>1, <2>2, <2>3
<1>15. op.from <= st'[op.fd].taken
  <2>1. op.from <= st[op.fd].taken
    BY <1>2 DEF StreamsInv, LineInv
  <2> QED
    BY <1>2, <1>5, <1>6, <2>1
<1>16. Len(op.got) + 1 + Len(Tail(b)) = Len(op.rest) + st'[op.fd].taken - op.from
  <2> DEFINE g == Len(op.got)  r == Len(op.rest)  t == st[op.fd].taken  f == op.from
  <2>1. f \in Int /\ t \in Int /\ g \in Int /\ r \in Int /\ k \in Int /\ g = r + t - f
    BY <1>2, <1>5, <1>10, <1>11
  <2> HIDE DEF g, r, t, f
  <2>2. g + 1 + (k - 1) = r + (t + k) - f
    BY <2>1, Sums
  <2>3. Len(op.got) + 1 + (k - 1) = Len(op.rest) + (st[op.fd].taken + k) - op.from
    BY <2>2 DEF g, r, t, f
  <2> QED
    BY <1>6, <1>9, <2>3
<1>17. \A j \in 1 .. Len(Tail(b)) : Tail(b)[j] = LineByte(Len(op.got) + 1 + j)
  BY <1>9, <1>14
<1>18. buf' \in Seq(Bytes) /\ Head(b) \in Bytes
  BY <1>8, <1>9
<1> QED
  BY <1>1, <1>6, <1>8, <1>13, <1>15, <1>16, <1>17, <1>18, DeliverStep
(* As many bytes as read returns fill the buffer.                          *)
LEMMA LineFillsStep == StreamsInv /\ LineFills => StreamsInv'
<1> SUFFICES ASSUME StreamsInv, LineFills PROVE StreamsInv'
  OBVIOUS
<1>1. In({"Readline"}) /\ op.n > 1 /\ buf = <<>>
  BY DEF LineFills
<1>2. op.fd \in Fds /\ StreamsTypeInv /\ BufSize \in Int
  BY <1>1, InCall, StreamsAssumption DEF In, Wrappers, StreamsInv
<1>3. PICK k \in Counts(op.fd, BufSize) :
        /\ Take(op.fd, k) /\ Deliver(Head(NextBytes(op.fd, k)))
        /\ buf' = Tail(NextBytes(op.fd, k))
  BY DEF LineFills
<1>4. k \in Nat \ {0}
  BY <1>2, CountsRange
<1> QED
  BY <1>1, <1>3, <1>4, LineFillsWith

(* A call of Readline that only returns: at the end, after an error, or at *)
(* once when there is no room.                                             *)
LEMMA LineReturnStep ==
  ASSUME StreamsInv, In({"Readline"}), NEW r \in Int, Returns(op, r), UNCHANGED buf,
         st' \in [Fds -> StreamRecords], \A f \in Fds : st'[f].taken <= st'[f].arrived,
         IF op.n = 1 THEN r = 1
         ELSE st'[op.fd].state # "open" /\ (r = Len(op.got) \/ r = -1)
  PROVE  StreamsInv'
<1>1. /\ op \in Calls /\ op.busy = TRUE /\ op.fn = "Readline" /\ op.fd \in Fds
      /\ op.n \in Nat \ {0} /\ op.got \in Seq(Bytes)
  BY InCall DEF In, Wrappers, Calls
<1>2. /\ op' \in Calls /\ op'.fn = "Readline" /\ op'.busy = FALSE /\ op'.ret = r
      /\ op'.got = op.got /\ op'.fd = op.fd /\ op'.from = op.from /\ op'.rest = op.rest
      /\ op'.n = op.n
  BY <1>1, ReturnsFacts
<1>3. StreamsTypeInv'
  BY <1>2 DEF StreamsInv, StreamsTypeInv
<1>4. ReadInv' /\ WriteInv'
  BY <1>2 DEF ReadInv, WriteInv
<1>5. /\ \A i \in 1 .. Len(op.got) : op.got[i] = LineByte(i)
      /\ op.n = 1 => op.got = <<>>
      /\ op.n > 1 => Len(op.got) < op.n - 1
  BY <1>1 DEF StreamsInv, LineInv
<1>6. \A i \in 1 .. Len(op'.got) :
        op'.got[i] = IF i <= Len(op'.rest) THEN op'.rest[i]
                     ELSE <<op'.fd, op'.from + i - Len(op'.rest)>>
  BY <1>2, <1>5 DEF LineByte
<1>7. IF op'.ret = op'.n THEN Len(op'.got) = op'.n - 1
      ELSE /\ op'.ret \in {Len(op'.got), -1} /\ Len(op'.got) < op'.n - 1
           /\ st'[op'.fd].state # "open"
  <2>1. CASE op.n = 1
    BY <1>2, <1>5, <2>1
  <2>2. CASE op.n > 1
    <3>1. Len(op.got) \in Nat /\ Len(op.got) < op.n - 1
      BY <1>1, <1>5, <2>2
    <3>2. r # op.n /\ r \in {Len(op.got), -1} /\ st'[op.fd].state # "open"
      BY <1>1, <2>2, <3>1
    <3> QED
      BY <1>2, <3>1, <3>2
  <2> QED
    BY <1>1, <2>1, <2>2
<1>8. LineInv'
  BY <1>2, <1>6, <1>7 DEF LineInv, LineByte
<1> QED
  BY <1>3, <1>4, <1>8 DEF StreamsInv

(* Readline returns without another byte.                                  *)
LEMMA LineOtherStep ==
  StreamsInv /\ (LineWithoutRoom \/ LineEnd \/ LineFails) => StreamsInv'
<1> SUFFICES ASSUME StreamsInv, LineWithoutRoom \/ LineEnd \/ LineFails PROVE StreamsInv'
  OBVIOUS
<1>1. In({"Readline"})
  BY DEF LineWithoutRoom, LineEnd, LineFails
<1>2. op.got \in Seq(Bytes) /\ op.fd \in Fds /\ op.n \in Nat
  BY <1>1, InCall DEF In, Wrappers
<1>3. st \in [Fds -> StreamRecords] /\ \A f \in Fds : st[f].taken <= st[f].arrived
  BY DEF StreamsInv, StreamsTypeInv
<1>4. CASE LineWithoutRoom
  <2>1. op.n = 1 /\ Returns(op, 1) /\ UNCHANGED <<st, buf>> /\ 1 \in Int
    BY <1>4 DEF LineWithoutRoom
  <2> QED
    BY <1>1, <1>3, <2>1, LineReturnStep
<1>5. CASE LineEnd
  <2>1. /\ op.n # 1 /\ Returns(op, Len(op.got)) /\ UNCHANGED <<st, buf>>
        /\ st[op.fd].state # "open" /\ Len(op.got) \in Int
    BY <1>2, <1>5 DEF LineEnd, AtEnd
  <2> QED
    BY <1>1, <1>3, <2>1, LineReturnStep
<1>6. CASE LineFails
  <2>1. /\ op.n # 1 /\ Returns(op, -1) /\ UNCHANGED buf /\ Reported(op.fd) /\ Fails(op.fd)
        /\ -1 \in Int
    BY <1>2, <1>6 DEF LineFails
  <2>2. /\ st' \in [Fds -> StreamRecords] /\ st'[op.fd].state # "open"
        /\ \A f \in Fds : st'[f].taken = st[f].taken /\ st'[f].arrived = st[f].arrived
    BY <1>2, <2>1, ReportedFacts DEF StreamsInv
  <2>3. \A f \in Fds : st'[f].taken <= st'[f].arrived
    BY <1>3, <2>2
  <2> QED
    BY <1>1, <2>1, <2>2, <2>3, LineReturnStep
<1> QED
  BY <1>4, <1>5, <1>6

(* Write and Writen.                                                       *)
LEMMA WriteSomeStep == StreamsInv /\ WriteSome => StreamsInv'
<1> SUFFICES ASSUME StreamsInv, WriteSome PROVE StreamsInv'
  OBVIOUS
<1>1. In({"Write", "Writen"}) /\ UNCHANGED <<st, buf>>
  BY DEF WriteSome
<1>2. /\ op \in Calls /\ op.busy = TRUE /\ op.fn \in {"Write", "Writen"}
      /\ op.n \in Nat \ {0} /\ op.put \in Nat
  BY <1>1, InCall DEF In, Wrappers, Calls
<1> DEFINE o(k) == [op EXCEPT !.put = @ + k]
<1>3. PICK k \in 1 .. op.n - op.put :
        IF op.fn = "Write" \/ o(k).put = op.n THEN Returns(o(k), o(k).put) ELSE op' = o(k)
  BY DEF WriteSome
<1>4. k \in Nat \ {0} /\ op.put + k <= op.n /\ op.put + k \in Nat
  BY <1>2
<1>5. /\ o(k) \in Calls /\ o(k).put = op.put + k /\ o(k).fn = op.fn /\ o(k).n = op.n
      /\ o(k).busy = TRUE
  BY <1>2, <1>4 DEF Calls
<1> HIDE DEF o
<1>6. /\ op' \in Calls /\ op'.put = op.put + k /\ op'.fn = op.fn /\ op'.n = op.n
      /\ IF op.fn = "Write" \/ op.put + k = op.n
         THEN op'.busy = FALSE /\ op'.ret = op.put + k
         ELSE op'.busy = TRUE
  <2>1. CASE op.fn = "Write" \/ op.put + k = op.n
    <3>1. Returns(o(k), op.put + k) /\ op.put + k \in Int
      BY <1>3, <1>4, <1>5, <2>1
    <3> QED
      BY <1>5, <2>1, <3>1, ReturnsFacts
  <2>2. CASE ~(op.fn = "Write" \/ op.put + k = op.n)
    BY <1>3, <1>5, <2>2
  <2> QED
    BY <2>1, <2>2
<1>7. StreamsTypeInv'
  BY <1>1, <1>6 DEF StreamsInv, StreamsTypeInv
<1>8. ReadInv' /\ LineInv'
  BY <1>2, <1>6 DEF ReadInv, LineInv
<1>9. WriteInv'
  <2>1. op'.put <= op'.n /\ (op'.busy => op'.put < op'.n)
    BY <1>2, <1>4, <1>6
  <2>2. ~op'.busy /\ op'.fn = "Writen" => op'.put = op'.n /\ op'.ret = op'.n
    BY <1>6
  <2> QED
    BY <2>1, <2>2 DEF WriteInv
<1> QED
  BY <1>7, <1>8, <1>9 DEF StreamsInv

(* A write fails before everything is written.                             *)
LEMMA WriteFailsStep == StreamsInv /\ WriteFails => StreamsInv'
<1> SUFFICES ASSUME StreamsInv, WriteFails PROVE StreamsInv'
  OBVIOUS
<1>1. /\ In({"Write", "Writen"}) /\ UNCHANGED buf /\ Reported(op.fd) /\ Fails(op.fd)
      /\ Returns(op, -1) /\ -1 \in Int
  BY DEF WriteFails
<1>2. /\ op \in Calls /\ op.busy = TRUE /\ op.fn \in {"Write", "Writen"} /\ op.fd \in Fds
      /\ op.n \in Nat \ {0} /\ op.put \in Nat
  BY <1>1, InCall DEF In, Wrappers, Calls
<1>3. /\ st' \in [Fds -> StreamRecords]
      /\ \A f \in Fds : st'[f].taken = st[f].taken /\ st'[f].arrived = st[f].arrived
  BY <1>1, <1>2, ReportedFacts DEF StreamsInv
<1>4. \A f \in Fds : st'[f].taken <= st'[f].arrived
  BY <1>3 DEF StreamsInv, StreamsTypeInv
<1>5. /\ op' \in Calls /\ op'.fn = op.fn /\ op'.busy = FALSE /\ op'.ret = -1
      /\ op'.put = op.put /\ op'.n = op.n
  BY <1>1, <1>2, ReturnsFacts
<1>6. StreamsTypeInv'
  BY <1>1, <1>3, <1>4, <1>5 DEF StreamsInv, StreamsTypeInv
<1>7. ReadInv' /\ LineInv'
  BY <1>2, <1>5 DEF ReadInv, LineInv
<1>8. op.put < op.n
  BY <1>2 DEF StreamsInv, WriteInv
<1>9. WriteInv'
  BY <1>2, <1>5, <1>8 DEF WriteInv
<1> QED
  BY <1>6, <1>7, <1>9 DEF StreamsInv

(* The process is killed by SIGPIPE.                                       *)
LEMMA BrokenPipeStep == StreamsInv /\ BrokenPipe => StreamsInv'
<1> SUFFICES ASSUME StreamsInv, BrokenPipe PROVE StreamsInv'
  OBVIOUS
<1>1. /\ In({"Write", "Writen"}) /\ UNCHANGED <<st, buf>>
      /\ op' = [op EXCEPT !.busy = FALSE, !.fn = "killed"]
  BY DEF BrokenPipe
<1>2. op \in Calls
  BY <1>1, InCall DEF In, Wrappers
<1>3. op' \in Calls /\ op'.fn = "killed"
  BY <1>1, <1>2 DEF Calls
<1>4. StreamsTypeInv'
  BY <1>1, <1>3 DEF StreamsInv, StreamsTypeInv
<1> QED
  BY <1>3, <1>4 DEF StreamsInv, ReadInv, WriteInv, LineInv

-----------------------------------------------------------------------------
(* Every step keeps the invariant.                                         *)
LEMMA StreamsStep == StreamsInv /\ [StreamsNext]_streamsVars => StreamsInv'
<1> SUFFICES ASSUME StreamsInv, [StreamsNext]_streamsVars PROVE StreamsInv'
  OBVIOUS
<1>1. CASE \E fd \in Fds : Arrive(fd) \/ PeerCloses(fd) \/ Reset(fd) \/ GoBad(fd)
  BY <1>1, PeerStep
<1>2. CASE \E fn \in Wrappers, fd \in Fds, n \in Sizes : Call(fn, fd, n)
  BY <1>2, CallStep
<1>3. CASE Wrapper
  BY <1>3, ReadSomeStep, ReadEndStep, ReadFailsStep, LineFromBufferStep,
     LineFillsStep, LineOtherStep, WriteSomeStep, WriteFailsStep, BrokenPipeStep
     DEF Wrapper
<1>4. CASE UNCHANGED streamsVars
  BY <1>4 DEF streamsVars, StreamsInv, StreamsTypeInv, ReadInv, WriteInv, LineInv, LineByte
<1> QED
  BY <1>1, <1>2, <1>3, <1>4 DEF StreamsNext

(* For any number of descriptors and any sizes, Read and Readn return the  *)
(* next bytes of their descriptor, in order and counted, Readn fewer than  *)
(* asked for only if the connection has ended, and Writen says n exactly   *)
(* when it has written n bytes.                                            *)
THEOREM StreamsTransfersExact == StreamsSpec => []TransfersExact
<1>1. StreamsInv => TransfersExact
  <2> SUFFICES ASSUME StreamsInv PROVE TransfersExact
    OBVIOUS
  <2>1. ASSUME Returned({"Read", "Readn"})
        PROVE  /\ op.got = [i \in 1 .. Len(op.got) |-> <<op.fd, op.from + i>>]
               /\ \/ op.ret = Len(op.got)
                  \/ op.ret = -1 /\ op.fn = "Read" /\ op.got = <<>>
               /\ op.ret < op.n => op.fn = "Read" \/ st[op.fd].state # "open"
    <3>1. op.fn \in {"Read", "Readn"} /\ ~op.busy
      BY <2>1 DEF Returned
    <3>2. op.got \in Seq(Bytes)
      BY <3>1, InCall DEF Wrappers
    <3>3. \A i \in 1 .. Len(op.got) : op.got[i] = <<op.fd, op.from + i>>
      BY <3>1 DEF StreamsInv, ReadInv
    <3>4. op.got = [i \in 1 .. Len(op.got) |-> <<op.fd, op.from + i>>]
      <4>1. DOMAIN op.got = 1 .. Len(op.got) /\ op.got = [i \in DOMAIN op.got |-> op.got[i]]
        BY <3>2
      <4> QED
        BY <3>3, <4>1, Zenon
    <3>5. /\ \/ op.ret = Len(op.got)
             \/ op.ret = -1 /\ op.fn = "Read" /\ op.got = <<>>
          /\ op.ret < op.n => op.fn = "Read" \/ st[op.fd].state # "open"
      BY <3>1 DEF StreamsInv, ReadInv
    <3> QED
      BY <3>4, <3>5
  <2>2. Returned({"Writen"}) => op.ret = IF op.put = op.n THEN op.n ELSE -1
    BY DEF StreamsInv, WriteInv, Returned
  <2> QED
    BY <2>1, <2>2 DEF TransfersExact
<1> QED
  BY <1>1, StreamsInvInit, StreamsStep, PTL DEF StreamsSpec

(* For any number of descriptors, any buffer and any lengths, Readline     *)
(* returns what my_read had left over from whichever descriptor, and then  *)
(* the next bytes of its own.                                              *)
THEOREM StreamsLineIsRestThenStream == StreamsSpec => []LineIsRestThenStream
<1>1. StreamsInv => LineIsRestThenStream
  <2> SUFFICES ASSUME StreamsInv, Returned({"Readline"})
               PROVE  /\ \A i \in DOMAIN op.got :
                           op.got[i] = IF i <= Len(op.rest) THEN op.rest[i]
                                       ELSE <<op.fd, op.from + i - Len(op.rest)>>
                      /\ IF op.ret = op.n THEN Len(op.got) = op.n - 1
                         ELSE /\ op.ret \in {Len(op.got), -1} /\ Len(op.got) < op.n - 1
                              /\ st[op.fd].state # "open"
    BY DEF LineIsRestThenStream
  <2>1. op.fn = "Readline" /\ ~op.busy
    BY DEF Returned
  <2>2. DOMAIN op.got = 1 .. Len(op.got)
    BY <2>1, InCall DEF Wrappers
  <2>3. \A i \in 1 .. Len(op.got) : op.got[i] = LineByte(i)
    BY <2>1 DEF StreamsInv, LineInv
  <2>4. IF op.ret = op.n THEN Len(op.got) = op.n - 1
        ELSE /\ op.ret \in {Len(op.got), -1} /\ Len(op.got) < op.n - 1
             /\ st[op.fd].state # "open"
    BY <2>1 DEF StreamsInv, LineInv
  <2> QED
    BY <2>2, <2>3, <2>4 DEF LineByte
<1> QED
  BY <1>1, StreamsInvInit, StreamsStep, PTL DEF StreamsSpec

-----------------------------------------------------------------------------
(* The Kafka producer.                                                     *)

(* What the library accepted so far are lines already read, and the line   *)
(* in hand is not among them while rd_kafka_produce has still to take it.  *)
ProducerLineInv ==
  /\ \A i \in 1 .. Len(enqueued) : enqueued[i] <= line
  /\ pc \in {"produce", "retry"} => line \in Msgs /\ ~Enqueued(line)

(* A message whose report waits has left the queue, which is destroyed     *)
(* last.                                                                   *)
SettledInv == inflight \cap settled = {} /\ (pc # "ended" => dropped = {})

IInv ==
  /\ TypeOK /\ ProducerLineInv /\ SettledInv
  /\ ProducedInOrder /\ ReportedOnce

-----------------------------------------------------------------------------
(* Nothing was read, accepted or reported before the first line.           *)
LEMMA InitInv == Init => IInv
<1> SUFFICES ASSUME Init PROVE IInv
  OBVIOUS
<1>1. Len(enqueued) = 0
  BY DEF Init
<1>2. TypeOK
  BY KafkaProducerAssumption DEF Init, TypeOK
<1>3. ProducerLineInv /\ SettledInv /\ ProducedInOrder
  BY <1>1 DEF Init, ProducerLineInv, SettledInv, ProducedInOrder, Enqueued
<1>4. ReportedOnce
  BY <1>1 DEF Init, ReportedOnce, Enqueued
<1> QED
  BY <1>2, <1>3, <1>4 DEF IInv

(* fgets: the next line is larger than all lines before it.                *)
LEMMA ReadLineInv ==
  ASSUME IInv, ReadLine
  PROVE  IInv'
<1> USE KafkaProducerAssumption
<1>1. TypeOK'
  BY DEF IInv, TypeOK, ReadLine
<1>2. ProducerLineInv'
  <2>1. \A i \in 1 .. Len(enqueued) : enqueued[i] \in Int /\ enqueued[i] <= line
    BY DEF IInv, TypeOK, ProducerLineInv, Msgs
  <2>2. line \in Int /\ enqueued' = enqueued
    BY DEF IInv, TypeOK, ReadLine
  <2>3. CASE line' = line + 1 /\ pc' = "produce" /\ line < Lines
    <3>1. line' \in Msgs
      BY <2>3 DEF IInv, TypeOK, Msgs
    <3> QED
      BY <2>1, <2>2, <2>3, <3>1 DEF ProducerLineInv, Enqueued
  <2>4. CASE line' = line /\ pc' \notin {"produce", "retry"}
    BY <2>1, <2>2, <2>4 DEF ProducerLineInv
  <2> QED
    BY <2>3, <2>4 DEF ReadLine
<1>3. SettledInv' /\ ReportedOnce'
  BY DEF IInv, SettledInv, ReportedOnce, Enqueued, ReadLine
<1>4. ProducedInOrder'
  <2>1. /\ enqueued' = enqueued /\ refused' = refused /\ line \in Nat /\ pc = "read"
        /\ \A m \in 1 .. line : Enqueued(m) \/ m \in refused
    BY DEF IInv, TypeOK, ProducedInOrder, ReadLine
  <2>2. line' = line \/ (line' = line + 1 /\ pc' = "produce")
    BY DEF ReadLine
  <2> QED
    BY <2>1, <2>2 DEF IInv, ProducedInOrder, Enqueued
<1> QED
  BY <1>1, <1>2, <1>3, <1>4 DEF IInv

(* rd_kafka_produce: an accepted line is the largest so far and was        *)
(* neither in the queue nor reported.                                      *)
LEMMA ProduceInv ==
  ASSUME IInv, Produce
  PROVE  IInv'
<1> USE KafkaProducerAssumption
<1>0. line \in Msgs /\ ~Enqueued(line) /\ enqueued \in Seq(Msgs)
  BY DEF IInv, TypeOK, ProducerLineInv, Produce
<1>1. CASE inflight' = inflight \cup {line}
           /\ enqueued' = Append(enqueued, line) /\ pc' = "poll"
           /\ refused' = refused
  <2>1. /\ Len(enqueued') = Len(enqueued) + 1
        /\ \A i \in 1 .. Len(enqueued) : enqueued'[i] = enqueued[i]
        /\ enqueued'[Len(enqueued) + 1] = line
        /\ Len(enqueued) \in Nat
        /\ \A i \in 1 .. Len(enqueued) : enqueued[i] \in Msgs
    BY <1>0, <1>1
  <2>2. \A i \in 1 .. Len(enqueued) : enqueued[i] < line
    BY <1>0, <2>1 DEF IInv, ProducerLineInv, Enqueued, Msgs
  <2>3. TypeOK'
    BY <1>0, <1>1 DEF IInv, TypeOK, Produce
  <2>4. ProducerLineInv' /\ ProducedInOrder'
    <3>1. \A i \in 1 .. Len(enqueued') : enqueued'[i] <= line'
      BY <1>0, <2>1, <2>2 DEF Produce, Msgs
    <3>2. \A i, j \in 1 .. Len(enqueued') : i < j => enqueued'[i] < enqueued'[j]
      <4> SUFFICES ASSUME NEW i \in 1 .. Len(enqueued'),
                          NEW j \in 1 .. Len(enqueued'), i < j
                   PROVE  enqueued'[i] < enqueued'[j]
        OBVIOUS
      <4>1. i \in 1 .. Len(enqueued) /\ enqueued'[i] = enqueued[i]
        BY <2>1
      <4>2. CASE j = Len(enqueued) + 1
        BY <2>1, <2>2, <4>1, <4>2
      <4>3. CASE j # Len(enqueued) + 1
        <5>1. j \in 1 .. Len(enqueued) /\ enqueued'[j] = enqueued[j]
          BY <2>1, <4>3
        <5> QED
          BY <4>1, <5>1 DEF IInv, ProducedInOrder
      <4> QED
        BY <4>2, <4>3
    <3>3. \A m \in 1 .. line' : Enqueued(m)' \/ m \in refused'
      <4> SUFFICES ASSUME NEW m \in 1 .. line', m \notin refused'
                   PROVE  Enqueued(m)'
        OBVIOUS
      <4>1. line' = line /\ line \in Nat
        BY <1>0 DEF Produce, Msgs
      <4>2. CASE m = line
        BY <2>1, <4>2 DEF Enqueued
      <4>3. CASE m # line
        <5>1. PICK i \in 1 .. Len(enqueued) : enqueued[i] = m
          BY <1>1, <4>1, <4>3 DEF IInv, ProducedInOrder, Enqueued
        <5>2. i \in 1 .. Len(enqueued')
          BY <2>1
        <5> QED
          BY <2>1, <5>1, <5>2 DEF Enqueued
      <4> QED
        BY <4>2, <4>3
    <3> QED
      BY <1>1, <3>1, <3>2, <3>3 DEF ProducerLineInv, ProducedInOrder
  <2>5. line \notin inflight \cup settled \cup dropped /\ reported[line] = 0
    BY <1>0 DEF IInv, TypeOK, ReportedOnce
  <2>6. SettledInv'
    BY <1>1, <2>5 DEF IInv, SettledInv, Produce
  <2>7. ReportedOnce'
    <3>1. ASSUME NEW m \in Msgs
          PROVE  Enqueued(m)' <=> m = line \/ Enqueued(m)
      BY <2>1 DEF Enqueued
    <3>2. ASSUME NEW m \in Msgs
          PROVE  (IF Enqueued(m)' THEN 1 ELSE 0)
                   = reported'[m]
                       + (IF m \in inflight' \cup settled' \cup dropped' THEN 1 ELSE 0)
      <4>1. CASE m = line
        BY <1>1, <2>5, <3>1, <4>1 DEF Produce
      <4>2. CASE m # line
        BY <1>1, <3>1, <4>2 DEF Produce, IInv, ReportedOnce
      <4> QED
        BY <4>1, <4>2
    <3>3. dropped' = {} /\ pc' # "ended"
      BY <1>1 DEF Produce, IInv, SettledInv
    <3> QED
      BY <3>2, <3>3 DEF ReportedOnce
  <2> QED
    BY <2>3, <2>4, <2>6, <2>7 DEF IInv
<1>2. CASE /\ pc' \in {"retry", "poll"} /\ UNCHANGED <<inflight, enqueued>>
           /\ \/ pc' = "retry" /\ refused' = refused
              \/ pc' = "poll" /\ refused' = refused \cup {line}
  <2>1. TypeOK'
    BY <1>0, <1>2 DEF IInv, TypeOK, Produce
  <2>2. ProducerLineInv'
    BY <1>0, <1>2 DEF IInv, ProducerLineInv, Enqueued, Produce
  <2>3. SettledInv' /\ ReportedOnce'
    BY <1>2 DEF IInv, SettledInv, ReportedOnce, Enqueued, Produce
  <2>4. ProducedInOrder'
    BY <1>0, <1>2 DEF IInv, ProducedInOrder, Enqueued, Produce
  <2> QED
    BY <2>1, <2>2, <2>3, <2>4 DEF IInv
<1> QED
  BY <1>1, <1>2 DEF Produce

(* A poll moves every waiting report into the count of its message; the    *)
(* last one, of rd_kafka_flush, is followed by the end of the queue.       *)
LEMMA ServeInv ==
  ASSUME IInv, Serve(settled), UNCHANGED <<run, line, enqueued, refused>>,
         \/ UNCHANGED <<inflight, dropped>> /\ pc' \in {"produce", "read", "flush"}
         \/ pc' = "ended" /\ inflight' = {} /\ dropped' = inflight,
         pc \in {"retry", "poll", "flush"},
         pc' = "produce" <=> pc = "retry"
  PROVE  IInv'
<1> USE KafkaProducerAssumption
<1>0. dropped = {} /\ settled' = {} /\ inflight' \cup dropped' = inflight
  BY DEF IInv, SettledInv, Serve
<1>1. TypeOK'
  BY DEF IInv, TypeOK, Serve
<1>2. ProducerLineInv' /\ SettledInv'
  BY <1>0 DEF IInv, ProducerLineInv, Enqueued, SettledInv
<1>3. ProducedInOrder'
  <2>1. pc = "retry" \/ \A m \in 1 .. line : Enqueued(m) \/ m \in refused
    BY DEF IInv, ProducedInOrder
  <2> QED
    BY <2>1 DEF IInv, ProducedInOrder, Enqueued
<1>4. ASSUME NEW m \in Msgs
      PROVE  (IF Enqueued(m)' THEN 1 ELSE 0)
               = reported'[m]
                   + (IF m \in inflight' \cup settled' \cup dropped' THEN 1 ELSE 0)
  <2>1. Enqueued(m)' <=> Enqueued(m)
    BY DEF Enqueued
  <2>2. (IF Enqueued(m) THEN 1 ELSE 0)
          = reported[m] + (IF m \in inflight \cup settled THEN 1 ELSE 0)
        /\ reported[m] \in Nat
    BY <1>0 DEF IInv, TypeOK, ReportedOnce
  <2>3. m \in inflight' \cup settled' \cup dropped' <=> m \in inflight
    BY <1>0
  <2>4. CASE m \in settled
    <3>1. m \notin inflight /\ reported'[m] = reported[m] + 1
      BY <2>4 DEF IInv, SettledInv, Serve
    <3> QED
      BY <2>1, <2>2, <2>3, <2>4, <3>1
  <2>5. CASE m \notin settled
    <3>1. reported'[m] = reported[m]
      BY <2>5 DEF Serve
    <3> QED
      BY <2>1, <2>2, <2>3, <2>5, <3>1
  <2> QED
    BY <2>4, <2>5
<1>5. (dropped' # {} => pc' = "ended") /\ (pc' = "ended" => inflight' \cup settled' = {})
  BY <1>0
<1>6. ReportedOnce'
  BY <1>4, <1>5 DEF ReportedOnce
<1> QED
  BY <1>1, <1>2, <1>3, <1>6 DEF IInv

(* Every step of the program, the signal handler and the library keeps     *)
(* the invariant.                                                          *)
LEMMA StepInv == IInv /\ [Next]_vars => IInv'
<1> SUFFICES ASSUME IInv, [Next]_vars PROVE IInv'
  OBVIOUS
<1>1. CASE ReadLine
  BY <1>1, ReadLineInv
<1>2. CASE Produce
  BY <1>2, ProduceInv
<1>3. CASE PollAndRetry \/ Poll \/ Flush
  BY <1>3, ServeInv DEF PollAndRetry, Poll, Flush
<1>4. CASE Stop
  <2>1. TypeOK'
    BY <1>4 DEF Stop, IInv, TypeOK
  <2>2. ProducerLineInv' /\ SettledInv' /\ ReportedOnce'
    BY <1>4 DEF Stop, Alive, IInv, ProducerLineInv, Enqueued, SettledInv, ReportedOnce
  <2>3. ProducedInOrder'
    <3>1. /\ UNCHANGED <<line, enqueued, refused>>
          /\ pc' = pc \/ pc' = "crashed"
      BY <1>4 DEF Stop
    <3> QED
      BY <3>1 DEF IInv, ProducedInOrder, Enqueued
  <2> QED
    BY <2>1, <2>2, <2>3 DEF IInv
<1>5. ASSUME NEW m \in Msgs, Settle(m)
      PROVE  IInv'
  <2>1. TypeOK' /\ SettledInv'
    BY <1>5 DEF Settle, IInv, TypeOK, SettledInv
  <2>2. inflight' \cup settled' = inflight \cup settled
    BY <1>5 DEF Settle
  <2>3. ProducerLineInv' /\ ProducedInOrder' /\ ReportedOnce'
    BY <1>5, <2>2 DEF Settle, IInv, ProducerLineInv, Enqueued, ProducedInOrder,
                      ReportedOnce
  <2> QED
    BY <2>1, <2>3 DEF IInv
<1>6. CASE UNCHANGED vars
  BY <1>6 DEF vars, IInv, TypeOK, ProducerLineInv, Enqueued, SettledInv,
              ProducedInOrder, ReportedOnce
<1> QED
  BY <1>1, <1>2, <1>3, <1>4, <1>5, <1>6 DEF Next, Main

(* For any number of lines and any size of the queue, rd_kafka_produce     *)
(* accepts no line twice and none out of order, and the retry after a full *)
(* queue skips none: what is not accepted was refused for another reason.  *)
THEOREM InOrder == Spec => []ProducedInOrder
<1>1. IInv => ProducedInOrder
  BY DEF IInv
<1> QED
  BY <1>1, InitInv, StepInv, PTL DEF Spec

(* dr_msg_cb is called at most once for a message, only for an accepted    *)
(* one, and an accepted message stays in the queue until then or until the *)
(* producer is destroyed.                                                  *)
THEOREM OneReportEach == Spec => []ReportedOnce
<1>1. IInv => ReportedOnce
  BY DEF IInv
<1> QED
  BY <1>1, InitInv, StepInv, PTL DEF Spec
=============================================================================
