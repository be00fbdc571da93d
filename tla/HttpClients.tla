----------------------------- MODULE HttpClients -----------------------------
(***************************************************************************)
(* The HTTP clients: main of cpp/httpClient.c ("download"), get_data of    *)
(* cpp/http.c ("get_data") and writemsg of cpp/http/peer.c ("writemsg"),   *)
(* each on one connection to a server that answers, closes or resets it.   *)
(***************************************************************************)
EXTENDS Integers, Sequences, FiniteSetsExt

CONSTANTS
  ServerAnswers,  \* what servers may answer, sequences of characters
  RequestLen,     \* length of a request
  Chunk,          \* what writemsg receives at once, 256 in the code
  PollSize        \* what get_data reads, 4095 in the code

ASSUME HttpClientsAssumption ==
  /\ \A a \in ServerAnswers : a \in Seq({"x", "\r", "\n"})
  /\ RequestLen \in Nat \ {0} /\ Chunk \in Nat \ {0} /\ PollSize \in Nat \ {0}

VARIABLES
  net,   \* the connection, seen from the client
  cl     \* the client: got is what it kept, as positions in the answer

clientVars == <<net, cl>>

Client(prog, pc) ==
  [prog |-> prog, pc |-> pc, sent |-> 0, i |-> 0, got |-> <<>>, armed |-> TRUE, ret |-> 0]

HttpClientsInit ==
  /\ \E a \in ServerAnswers : net = [answer |-> a, arrived |-> 0, taken |-> 0, state |-> "open"]
  /\ \E prog \in {"download", "get_data", "writemsg"} : cl = Client(prog, "connect")

-----------------------------------------------------------------------------
(* The server.  It answers once it has something of the request.           *)
ServerSends ==
  /\ net.state = "open" /\ cl.sent > 0 /\ net.arrived < Len(net.answer)
  /\ net' = [net EXCEPT !.arrived = @ + 1]
  /\ UNCHANGED cl

ServerCloses ==
  /\ net.state = "open" /\ cl.pc # "connect"
  /\ net' = [net EXCEPT !.state = "closed"]
  /\ UNCHANGED cl

ServerResets ==
  /\ net.state \in {"open", "closed"} /\ cl.pc # "connect"
  /\ net' = [net EXCEPT !.arrived = net.taken, !.state = "reset"]
  /\ UNCHANGED cl

Available(n) == 1 .. Min({n, net.arrived - net.taken})
Ended == net.state \in {"closed", "gone"} /\ net.arrived = net.taken
TakeUp(k) == net' = [net EXCEPT !.taken = @ + k]
Taken(k) == [j \in 1 .. k |-> net.taken + j]
ErrorReported == net' = [net EXCEPT !.state = "gone"]

ClientAt(prog, pc) == cl.prog = prog /\ cl.pc = pc
Done(c, r) == cl' = [c EXCEPT !.pc = "done", !.ret = r]

-----------------------------------------------------------------------------
(* socket and connect, either of which may fail.                           *)
Connects(prog, failed) ==
  /\ ClientAt(prog, "connect")
  /\ cl' = [cl EXCEPT !.pc = "send"] \/ Done(cl, failed)
  /\ UNCHANGED net

DownloadConnects == Connects("download", 0)
GetDataConnects == Connects("get_data", 0)
WritemsgConnects == Connects("writemsg", 1)

(* The download goes on until the request is sent; then the file to append *)
(* to is opened, which may fail.                                           *)
DownloadSends ==
  /\ ClientAt("download", "send") /\ net.state # "reset"
  /\ \E k \in 1 .. RequestLen - cl.sent :
       LET c == [cl EXCEPT !.sent = @ + k]
       IN IF c.sent < RequestLen THEN cl' = c
          ELSE cl' = [c EXCEPT !.pc = "read"] \/ Done(c, 0)
  /\ UNCHANGED net

(* The others write once.  get_data gives up on an error, writemsg does    *)
(* not look.                                                               *)
WriteOnce ==
  /\ cl.prog # "download" /\ cl.pc = "send" /\ net.state # "reset"
  /\ cl' = [cl EXCEPT !.sent = RequestLen, !.pc = "read"]
  /\ UNCHANGED net

SendFails ==
  /\ cl.pc = "send" /\ net.state = "reset"
  /\ ErrorReported
  /\ IF cl.prog = "writemsg" THEN cl' = [cl EXCEPT !.pc = "read"] ELSE Done(cl, 0)

-----------------------------------------------------------------------------
(* Mutant: one line end too few.                                           *)
DownloadByteEarly ==
  /\ ClientAt("download", "read") /\ Available(1) # {}
  /\ TakeUp(1)
  /\ cl' = IF cl.i >= 3 THEN [cl EXCEPT !.got = @ \o Taken(1)]
           ELSE IF net.answer[net.taken + 1] \in {"\r", "\n"} THEN [cl EXCEPT !.i = @ + 1]
           ELSE [cl EXCEPT !.i = 0]

(* A byte of the head, which ends with four characters CR or LF in a row,  *)
(* or of the body, which goes to the file.                                 *)
DownloadByte ==
  /\ ClientAt("download", "read") /\ Available(1) # {}
  /\ TakeUp(1)
  /\ cl' = IF cl.i >= 4 THEN [cl EXCEPT !.got = @ \o Taken(1)]
           ELSE IF net.answer[net.taken + 1] \in {"\r", "\n"} THEN [cl EXCEPT !.i = @ + 1]
           ELSE [cl EXCEPT !.i = 0]

DownloadEnds ==
  /\ ClientAt("download", "read")
  /\ \/ Ended /\ UNCHANGED net
     \/ net.state = "reset" /\ ErrorReported
  /\ Done(cl, 0)

-----------------------------------------------------------------------------
(* One round of get_data: select without waiting.  When it finds nothing   *)
(* it clears the set of descriptors, and nobody sets it again: from then   *)
(* on every round finds nothing.                                           *)
PollFindsNothing ==
  /\ ClientAt("get_data", "read") /\ cl.armed
  /\ Available(PollSize) = {} /\ ~Ended /\ net.state # "reset"
  /\ cl' = [cl EXCEPT !.armed = FALSE]
  /\ UNCHANGED net

PollReads ==
  /\ ClientAt("get_data", "read") /\ cl.armed
  /\ \/ \E k \in Available(PollSize) :
          TakeUp(k) /\ Done([cl EXCEPT !.got = Taken(k)], 0)
     \/ Ended /\ Done(cl, -1) /\ UNCHANGED net
     \/ net.state = "reset" /\ ErrorReported /\ Done(cl, 0)

(* select itself fails.                                                    *)
PollFails ==
  /\ ClientAt("get_data", "read")
  /\ Done(cl, -1)
  /\ UNCHANGED net

-----------------------------------------------------------------------------
(* Mutant: only the last piece is counted.                                 *)
RecvSomeLast ==
  /\ ClientAt("writemsg", "read")
  /\ \E k \in Available(Chunk) :
       LET c == [cl EXCEPT !.got = @ \o Taken(k)]
       IN TakeUp(k) /\ IF k = Chunk THEN cl' = c ELSE Done(c, k)

(* A piece of full length is followed by another, any other ends it.       *)
RecvSome ==
  /\ ClientAt("writemsg", "read")
  /\ \E k \in Available(Chunk) :
       LET c == [cl EXCEPT !.got = @ \o Taken(k)]
       IN TakeUp(k) /\ IF k = Chunk THEN cl' = c ELSE Done(c, Len(c.got))

(* Mutant: the loop ends only with a short piece.                          *)
RecvEndIgnored == FALSE /\ UNCHANGED clientVars

RecvEnd ==
  /\ ClientAt("writemsg", "read") /\ Ended
  /\ Done(cl, Len(cl.got))
  /\ UNCHANGED net

(* n counts the error as -1, and the answer is cut there.                  *)
RecvFails ==
  /\ ClientAt("writemsg", "read") /\ net.state = "reset"
  /\ ErrorReported
  /\ Done([cl EXCEPT !.got = IF @ = <<>> THEN @ ELSE SubSeq(@, 1, Len(@) - 1)],
          Len(cl.got) - 1)

-----------------------------------------------------------------------------
ClientStep ==
  \/ DownloadConnects \/ GetDataConnects \/ WritemsgConnects
  \/ DownloadSends \/ WriteOnce \/ SendFails
  \/ DownloadByte \/ DownloadEnds \/ PollFindsNothing \/ PollReads
  \/ RecvSome \/ RecvEnd \/ RecvFails

HttpClientsNext ==
  \/ ServerSends \/ ServerCloses \/ ServerResets
  \/ ClientStep \/ PollFails

HttpClientsSpec == HttpClientsInit /\ [][HttpClientsNext]_clientVars

-----------------------------------------------------------------------------
(* The file gets what follows the first four line-end characters in a row, *)
(* and nothing if there are none: an answer whose lines end with LF only   *)
(* is all head.                                                            *)
DownloadsBody ==
  cl.prog = "download" =>
    LET ends == {j \in 4 .. net.taken :
                   \A k \in j - 3 .. j : net.answer[k] \in {"\r", "\n"}}
    IN cl.got = IF ends = {} THEN <<>>
                ELSE [j \in 1 .. net.taken - Min(ends) |-> Min(ends) + j]

(* get_data and writemsg keep a beginning of the answer.  That of get_data *)
(* is what was there at its only reading.  That of writemsg ends with the  *)
(* first piece that is not full, whether or not more was to come; with     *)
(* full pieces only, it is all that came before the end.  An error takes   *)
(* away a byte, or is told as a length of -1.                              *)
PartOfAnswer ==
  cl.pc = "done" /\ cl.sent > 0 /\ cl.prog # "download" =>
    /\ cl.got = [j \in 1 .. Len(cl.got) |-> j]
    /\ cl.prog = "get_data" =>
         /\ Len(cl.got) <= PollSize
         /\ cl.ret = -1 => cl.got = <<>>
         /\ cl.got = <<>> /\ cl.ret = 0 => net.state = "gone"
    /\ cl.prog = "writemsg" =>
         \/ cl.ret = Len(cl.got) /\ cl.ret = net.taken
            /\ (cl.ret % Chunk = 0 => net.state # "open")
         \/ cl.ret = net.taken - 1 /\ net.taken % Chunk = 0 /\ net.state = "gone"

(* get_data after a poll that found nothing: the set it waits on is empty. *)
PollsForEver == cl.pc # "done" /\ ~cl.armed

(* When the server ends the connection, the client ends, except a get_data *)
(* that has polled too early: that one ends only if select itself fails,   *)
(* and never with an answer.                                               *)
ClientsEnd ==
  /\ (cl.pc # "done" /\ net.state # "open") ~> (cl.pc = "done" \/ PollsForEver)
  /\ [](PollsForEver => [](PollsForEver \/ (cl.ret = -1 /\ cl.got = <<>>)))

(* The part of the answer each of the three clients keeps.                 *)
AnswersKept == DownloadsBody /\ PartOfAnswer
=============================================================================
