------------------------------ MODULE MCStreams ------------------------------
(***************************************************************************)
(* The stream wrappers and the HTTP clients.  A behaviour is one of the    *)
(* two, as demo says; the variables of the other keep their values.        *)
(*                                                                         *)
(* Answers have a head that ends with CR LF CR LF, with LF LF or not at    *)
(* all, and lengths that are multiples of the piece of writemsg or not.    *)
(***************************************************************************)
EXTENDS Streams, HttpClients

VARIABLE demo

vars == <<streamsVars, clientVars, demo>>

MCAnswers ==
  LET xs(n) == [i \in 1 .. n |-> "x"]
  IN {<<>>, xs(3), xs(4), xs(6), <<"x", "\r", "\n", "\r", "\n", "x", "\r", "x">>,
      <<"x", "\n", "\n", "x", "\n">>, <<"\r", "\n", "\r", "\n", "\r", "\n">>}

NoClient ==
  /\ net = [answer |-> <<>>, arrived |-> 0, taken |-> 0, state |-> "open"]
  /\ cl = Client("none", "done")

Init ==
  \/ demo = "streams" /\ StreamsInit /\ NoClient
  \/ demo = "clients" /\ StreamsInit /\ HttpClientsInit

Next ==
  \/ demo = "streams" /\ StreamsNext /\ UNCHANGED <<clientVars, demo>>
  \/ demo = "clients" /\ HttpClientsNext /\ UNCHANGED <<streamsVars, demo>>

(* The process that was called or started is run.                          *)
Spec ==
  /\ Init /\ [][Next]_vars
  /\ WF_streamsVars(Wrapper) /\ WF_clientVars(ClientStep)

-----------------------------------------------------------------------------
(* No call of a wrapper and no client outlives its connection, except the  *)
(* two that CallsReturn and ClientsEnd name, and these do not end.         *)
SocketCallsEnd == CallsReturn /\ ClientsEnd
=============================================================================
