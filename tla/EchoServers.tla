----------------------------- MODULE EchoServers -----------------------------
(***************************************************************************)
(* Three servers with their clients:                                       *)
(*   "fork"  main of cpp/tcp_concurrent.cc, which forks for each client    *)
(*           and sends back what it reads in upper case; any clients;      *)
(*   "uni"   cpp/uni_sock_srv.c, which does so for one client after the    *)
(*           other, with clients cpp/uni_sock_cli.c;                       *)
(*   "chat"  cpp/tcp_server.c, whose user answers the first client, with   *)
(*           clients cpp/tcp_client.c.                                     *)
(*                                                                         *)
(* A message is a line, or what the server turns into upper case with one  *)
(* read; messages and answers are counted.  A process is "server" or, for  *)
(* the child that serves client c, c itself.  An accept that a signal      *)
(* interrupts is made again: a stuttering step.                            *)
(***************************************************************************)
EXTENDS Integers, Sequences, Functions

CONSTANTS
  EchoClients,   \* clients
  MaxMessages    \* bound on the messages of a client

ASSUME EchoServersAssumption ==
  "server" \notin EchoClients /\ MaxMessages \in Nat

VARIABLES
  prog,    \* which server
  queue,   \* connections to be accepted
  srv,     \* the server: where it is, and the client it is about
  fds,     \* each process: the connections it has a descriptor of
  conn     \* each connection: state, messages sent, read, answered and got

echoVars == <<prog, queue, srv, fds, conn>>

Processes == {"server"} \cup EchoClients

EchoServersInit ==
  /\ prog \in {"fork", "uni", "chat"}
  /\ queue = <<>>
  /\ srv = [pc |-> "accept", c |-> "server"]
  /\ fds = [p \in Processes |-> {}]
  /\ conn = [c \in EchoClients |->
               [state |-> "none", sent |-> 0, read |-> 0, answered |-> 0, got |-> 0]]

-----------------------------------------------------------------------------
(* Clients.                                                                *)
ConnectTo(c) ==
  /\ conn[c].state = "none" /\ srv.pc # "over"
  /\ queue' = Append(queue, c)
  /\ conn' = [conn EXCEPT ![c].state = "open"]
  /\ UNCHANGED <<prog, srv, fds>>

(* uni_sock_cli and tcp_client read the answer before they go on.          *)
InTurn(c) == prog # "fork" => conn[c].got = conn[c].sent

Send(c) ==
  /\ conn[c].state = "open" /\ InTurn(c) /\ conn[c].sent < MaxMessages
  /\ conn' = [conn EXCEPT ![c].sent = @ + 1]
  /\ UNCHANGED <<prog, queue, srv, fds>>

GetAnswer(c) ==
  /\ conn[c].state = "open" /\ conn[c].got < conn[c].answered
  /\ conn' = [conn EXCEPT ![c].got = conn[c].answered]
  /\ UNCHANGED <<prog, queue, srv, fds>>

(* The input of the client ends, and it sends no more, but still takes     *)
(* answers; tcp_client sends the word quit first.                          *)
CloseClient(c) ==
  /\ conn[c].state = "open" /\ InTurn(c)
  /\ conn' = [conn EXCEPT ![c].state = "closed",
                          ![c].sent = IF prog = "chat" THEN @ + 1 ELSE @]
  /\ UNCHANGED <<prog, queue, srv, fds>>

(* The client is lost, and what the server has not read with it, or not.   *)
ResetClient(c) ==
  /\ conn[c].state \in {"open", "closed"} /\ prog # "chat"
  /\ \E n \in {conn[c].read, conn[c].sent} :
       conn' = [conn EXCEPT ![c].state = "reset", ![c].sent = n]
  /\ UNCHANGED <<prog, queue, srv, fds>>

-----------------------------------------------------------------------------
(* The servers.                                                            *)
Accept ==
  /\ srv.pc = "accept" /\ queue # <<>>
  /\ queue' = Tail(queue)
  /\ srv' = [pc |-> IF prog = "fork" THEN "fork" ELSE "serve", c |-> Head(queue)]
  /\ fds' = [fds EXCEPT !["server"] = @ \cup {Head(queue)}]
  /\ UNCHANGED <<prog, conn>>

(* accept finds that the connection has been aborted, and is called again. *)
AcceptAborted ==
  /\ srv.pc = "accept" /\ queue # <<>> /\ conn[Head(queue)].state = "reset"
  /\ queue' = Tail(queue)
  /\ UNCHANGED <<prog, srv, fds, conn>>

(* The server ends: another error of accept, one of fork or of sigaction.  *)
(* uni_sock_srv goes on after every error of accept.                       *)
ServerExits ==
  /\ prog # "uni" /\ srv.pc \in {"accept", "fork", "parent"}
  /\ srv' = [srv EXCEPT !.pc = "over"]
  /\ fds' = [fds EXCEPT !["server"] = {}]
  /\ UNCHANGED <<prog, queue, conn>>

(* The child has the descriptors of its parent.                            *)
Fork ==
  /\ srv.pc = "fork"
  /\ srv' = [srv EXCEPT !.pc = "parent"]
  /\ fds' = [fds EXCEPT ![srv.c] = fds["server"]]
  /\ UNCHANGED <<prog, queue, conn>>

(* Mutant: the parent does not close cfd.                                  *)
ParentKeeps ==
  /\ srv.pc = "parent"
  /\ srv' = [srv EXCEPT !.pc = "accept"]
  /\ UNCHANGED <<prog, queue, conn, fds>>

ParentGoesOn ==
  /\ srv.pc = "parent"
  /\ srv' = [srv EXCEPT !.pc = "accept"]
  /\ fds' = [fds EXCEPT !["server"] = @ \ {srv.c}]
  /\ UNCHANGED <<prog, queue, conn>>

(* The process that serves c, if any.                                      *)
Serves(p, c) ==
  /\ c \in fds[p]
  /\ IF prog = "fork" THEN p = c ELSE p = "server" /\ srv.c = c

(* A read of some messages, and the answer in upper case.                  *)
Echo(p, c) ==
  /\ prog # "chat" /\ Serves(p, c) /\ conn[c].state \in {"open", "closed"}
  /\ \E n \in conn[c].read + 1 .. conn[c].sent :
       conn' = [conn EXCEPT ![c].read = n, ![c].answered = n]
  /\ UNCHANGED <<prog, queue, srv, fds>>

(* tcp_concurrent writes with the length -1, which fails, and reads again; *)
(* after the error is reported it sees the end.                            *)
EchoFails(c) ==
  /\ prog = "fork" /\ Serves(c, c) /\ conn[c].state = "reset"
  /\ conn' = [conn EXCEPT ![c].state = "gone"]
  /\ UNCHANGED <<prog, queue, srv, fds>>

(* An answer to a client that is lost raises SIGPIPE.                      *)
EchoBrokenPipe(p, c) ==
  /\ prog # "chat" /\ Serves(p, c)
  /\ conn[c].state = "reset" /\ conn[c].read < conn[c].sent
  /\ fds' = [fds EXCEPT ![p] = {}]
  /\ srv' = IF prog = "fork" THEN srv ELSE [srv EXCEPT !.pc = "over"]
  /\ UNCHANGED <<prog, queue, conn>>

(* Mutant: the end is seen before what was sent is read.                   *)
EndOfClientEarly(c) ==
  \/ conn[c].state \in {"closed", "gone"}
  \/ conn[c].state = "reset" /\ prog = "uni"

(* read gives zero, or for uni_sock_srv an error.                          *)
EndOfClient(c) ==
  \/ conn[c].state = "closed" /\ conn[c].read = conn[c].sent
  \/ conn[c].state = "gone"
  \/ conn[c].state = "reset" /\ prog = "uni"

(* Mutant: uni_sock_srv looks for errors only.                             *)
StopServingLate(p, c) ==
  /\ prog # "chat" /\ Serves(p, c) /\ EndOfClient(c)
  /\ prog = "uni" => conn[c].state = "reset"
  /\ fds' = [fds EXCEPT ![p] = IF prog = "fork" THEN {} ELSE @ \ {c}]
  /\ srv' = IF prog = "fork" THEN srv ELSE [srv EXCEPT !.pc = "accept"]
  /\ UNCHANGED <<prog, queue, conn>>

(* The child exits, uni_sock_srv accepts the next client.                  *)
StopServing(p, c) ==
  /\ prog # "chat" /\ Serves(p, c) /\ EndOfClient(c)
  /\ fds' = [fds EXCEPT ![p] = IF prog = "fork" THEN {} ELSE @ \ {c}]
  /\ srv' = IF prog = "fork" THEN srv ELSE [srv EXCEPT !.pc = "accept"]
  /\ UNCHANGED <<prog, queue, conn>>

(* tcp_server reads, and its user answers.                                 *)
ChatAnswer(c) ==
  /\ prog = "chat" /\ Serves("server", c) /\ conn[c].read < conn[c].sent
  /\ conn' = [conn EXCEPT ![c].read = @ + 1, ![c].answered = @ + 1]
  /\ UNCHANGED <<prog, queue, srv, fds>>

(* It does not notice the end of the client, but goes on in the same loop. *)
(* The second answer to nobody raises SIGPIPE, or one after it.            *)
ChatGoesOn(c) ==
  /\ prog = "chat" /\ Serves("server", c) /\ conn[c].read = conn[c].sent
  /\ conn[c].state \in {"closed", "gone"}
  /\ conn' = [conn EXCEPT ![c].state = "gone"]
  /\ \/ conn[c].state = "closed" /\ UNCHANGED <<srv, fds>>
     \/ /\ srv' = [srv EXCEPT !.pc = "over"]
        /\ fds' = [fds EXCEPT !["server"] = {}]
  /\ UNCHANGED <<prog, queue>>

-----------------------------------------------------------------------------
ServerStep ==
  \/ Accept \/ Fork \/ ParentGoesOn

ServeStep(c) ==
  \/ \E p \in Processes : Echo(p, c) \/ EchoBrokenPipe(p, c) \/ StopServing(p, c)
  \/ EchoFails(c) \/ ChatAnswer(c)

EchoServersNext ==
  \/ ServerStep \/ ServerExits \/ AcceptAborted
  \/ \E c \in EchoClients :
       \/ ConnectTo(c) \/ Send(c) \/ GetAnswer(c) \/ CloseClient(c) \/ ResetClient(c)
       \/ ServeStep(c) \/ ChatGoesOn(c)

(* Processes that can run are run.  The user of a uni_sock_cli comes to an *)
(* end of the input; this is not assumed of the clients of the others.     *)
EchoFairness ==
  /\ WF_echoVars(ServerStep)
  /\ \A c \in EchoClients :
       /\ WF_echoVars(ServeStep(c)) /\ WF_echoVars(GetAnswer(c))
       /\ WF_echoVars(prog = "uni" /\ conn[c].sent = MaxMessages /\ CloseClient(c))
       /\ WF_echoVars(prog = "uni" /\ Send(c))

EchoServersSpec == EchoServersInit /\ [][EchoServersNext]_echoVars /\ EchoFairness

-----------------------------------------------------------------------------
(* No process but the one that serves it keeps a connection, and the       *)
(* parent only until it goes on: otherwise the end of a child would not    *)
(* close the connection.                                                   *)
HeldByItsServer ==
  \A p \in Processes, c \in EchoClients :
    c \in fds[p] => \/ p = c
                    \/ p = "server" /\ srv.c = c /\ srv.pc # "accept"

(* A client that closes in order has been answered, message by message,    *)
(* when the server has let go of it, and one that waits for its answers is *)
(* never more than one message ahead.                                      *)
AnsweredBeforeEnd ==
  \A c \in EchoClients :
    /\ prog # "fork" /\ conn[c].state = "open" => conn[c].sent <= conn[c].got + 1
    /\ conn[c].state = "closed" /\ c \notin Range(queue) /\ srv.pc # "over"
       /\ (\A p \in Processes : c \notin fds[p])
       => conn[c].answered = conn[c].sent

(* A connection that its client ends is accepted, if it was not, and let   *)
(* go of, unless the server exits: by the child of the forking server      *)
(* whatever the other clients do, and by uni_sock_srv after the clients    *)
(* before it.  tcp_server never comes back from its first client.          *)
Released ==
  \A c \in EchoClients :
    (prog # "chat" /\ conn[c].state \in {"closed", "reset", "gone"}) ~>
      \/ srv.pc = "over"
      \/ c \notin Range(queue) /\ \A p \in Processes : c \notin fds[p]
=============================================================================
