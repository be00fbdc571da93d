------------------------------ MODULE HttpServer ------------------------------
(***************************************************************************)
(* cpp/http: server.c accepts connections and starts a detached thread per *)
(* connection, which reads once, lets dispatcher.c build the response,     *)
(* writes it and closes.  Two pieces of memory are shared by the threads:  *)
(* the variable cfd of the accept loop, whose address is the argument of   *)
(* every thread, and the static buffers of dtparser.c.                     *)
(*                                                                         *)
(* A thread is named after the connection whose accept created it.         *)
(***************************************************************************)
EXTENDS Integers, Sequences, FiniteSets

CONSTANTS
  Conns,      \* connections clients make
  Mixes,      \* what the connections may ask for
  Fds,        \* descriptors the process may use for connections
  None,       \* no connection
  MaxOpen,    \* bound: clients waiting at the same time
  MaxFaulty   \* bound: connections that are reset, cut or get no thread

Kinds == {"get", "ext", "obj", "up", "dn", "other"}

ASSUME HttpServerAssumption ==
  /\ Mixes \subseteq [Conns -> Kinds]
  /\ Fds \subseteq Nat /\ IsFiniteSet(Fds)
  /\ None \notin Conns
  /\ MaxOpen \in Nat /\ MaxFaulty \in Nat

VARIABLES
  server,   \* "up", "exited" (startsrv returned), "killed" (by a signal)
  client,   \* what each client sees
  queue,    \* connections waiting to be accepted
  fd,       \* the descriptor table
  accepted, \* the connection accepted but without a thread yet, or None
  cfd,      \* the variable cfd of startsrv
  pc,       \* where each thread is
  my,       \* local copy cfd of each thread
  on,       \* the connection its read was on
  readErr,  \* its read found the connection reset
  ans,      \* its local buffer resp
  hdr,      \* static buffers ctrl, seq and id: whose data they hold
  res,      \* static result buffers, one per shape of message
  out,      \* the response each client got
  late,     \* history: some thread read cfd after it was overwritten
  overlap,  \* history: two threads were inside the parser
  unserved, \* history: connections no thread could be created for
  cut,      \* history: what the first read of each request missed
  kind      \* what each connection asks for

listener == <<queue, accepted, cfd>>
locals == <<my, on, readErr>>
statics == <<hdr, res>>
history == <<late, overlap, unserved, cut, kind>>
vars == <<server, client, fd, listener, pc, locals, ans, statics, out, history>>

Shapes == {"ext", "obj"}
Parsing == {"header", "fill", "branch", "result", "copy"}
NoFd == -1

(* What the only read of a request may miss: nothing; the end of what      *)
(* comes after the uri, the report in the body from behind its header on   *)
(* included; all of the report; or part of the request line.               *)
Cuts == {"none", "tail", "body", "line"}
CutsOf(k) == IF k \in Shapes THEN Cuts ELSE Cuts \ {"body"}

Answer(k, data) == [kind |-> k, data |-> data]
NoAnswer == Answer("none", {})
Answers == [kind : Kinds \cup {"none", "garbage"}, data : SUBSET Conns]

TypeOK ==
  /\ server \in {"up", "exited", "killed"}
  /\ client \in [Conns -> {"new", "waiting", "answered", "reset", "eof"}]
  /\ queue \in Seq(Conns)
  /\ fd \in [Fds -> Conns \cup {None}]
  /\ accepted \in Conns \cup {None}
  /\ cfd \in Fds \cup {NoFd}
  /\ pc \in [Conns -> {"none", "start", "read", "write", "close", "done"}
                        \cup Parsing]
  /\ my \in [Conns -> Fds \cup {NoFd}]
  /\ on \in [Conns -> Conns \cup {None}]
  /\ readErr \in [Conns -> BOOLEAN]
  /\ ans \in [Conns -> Answers]
  /\ hdr \subseteq Conns
  /\ res \in [Shapes -> SUBSET Conns]
  /\ out \in [Conns -> Answers]
  /\ late \in BOOLEAN /\ overlap \in BOOLEAN /\ unserved \subseteq Conns
  /\ cut \in [Conns -> Cuts]
  /\ kind \in [Conns -> Kinds]

Init ==
  /\ server = "up"
  /\ client = [c \in Conns |-> "new"]
  /\ queue = <<>>
  /\ fd = [f \in Fds |-> None]
  /\ accepted = None /\ cfd = NoFd
  /\ pc = [c \in Conns |-> "none"]
  /\ my = [c \in Conns |-> NoFd]
  /\ on = [c \in Conns |-> None]
  /\ readErr = [c \in Conns |-> FALSE]
  /\ ans = [c \in Conns |-> NoAnswer]
  /\ hdr = {} /\ res = [s \in Shapes |-> {}]
  /\ out = [c \in Conns |-> NoAnswer]
  /\ late = FALSE /\ overlap = FALSE /\ unserved = {}
  /\ cut = [c \in Conns |-> "none"]
  /\ kind \in Mixes

-----------------------------------------------------------------------------
At(t, p) == server = "up" /\ pc[t] = p
Goto(t, p) == pc' = [pc EXCEPT ![t] = p]

(* External: clients and the kernel.                                       *)
Waiting == {c \in Conns : client[c] = "waiting"}

(* The bound on what goes wrong: connection c may be one more fault.       *)
MayFail(c) ==
  LET faulty == {d \in Conns : \/ client[d] = "reset" \/ d \in unserved
                               \/ cut[d] # "none"} IN
  Cardinality(faulty \cup {c}) <= MaxFaulty

Connect(c) ==
  /\ client[c] = "new" /\ server = "up"
  /\ Cardinality(Waiting) < MaxOpen
  /\ client' = [client EXCEPT ![c] = "waiting"]
  /\ queue' = Append(queue, c)
  /\ UNCHANGED <<server, fd, accepted, cfd, pc, locals, ans, statics, out,
                 history>>

Abort(c) ==
  /\ client[c] = "waiting" /\ server = "up"
  /\ MayFail(c)
  /\ client' = [client EXCEPT ![c] = "reset"]
  /\ UNCHANGED <<server, listener, fd, pc, locals, ans, statics, out, history>>

(* accept and read resolve descriptors here.                               *)
Lookup(f) == IF f = NoFd THEN None ELSE fd[f]

LowestFree(f) == fd[f] = None /\ \A g \in Fds : g < f => fd[g] # None

-----------------------------------------------------------------------------
(* The accept loop of startsrv.                                            *)
Accept ==
  /\ server = "up" /\ accepted = None /\ queue # <<>>
  /\ \E f \in Fds :
       /\ LowestFree(f)
       /\ fd' = [fd EXCEPT ![f] = Head(queue)]
       /\ cfd' = f
  /\ accepted' = Head(queue)
  /\ queue' = Tail(queue)
  /\ UNCHANGED <<server, client, pc, locals, ans, statics, out, history>>

(* ECONNABORTED: the error value overwrites cfd and accept is called again.*)
AcceptAborted ==
  /\ server = "up" /\ accepted = None /\ queue # <<>>
  /\ client[Head(queue)] = "reset"
  /\ cfd' = NoFd
  /\ queue' = Tail(queue)
  /\ UNCHANGED <<server, client, fd, accepted, pc, locals, ans, statics, out,
                 history>>

(* Any other error, here EMFILE: startsrv returns and main ends the        *)
(* process, with whatever its threads were doing.                          *)
AcceptFails ==
  /\ server = "up" /\ accepted = None /\ queue # <<>>
  /\ \A f \in Fds : fd[f] # None
  /\ cfd' = NoFd
  /\ server' = "exited"
  /\ UNCHANGED <<client, queue, fd, accepted, pc, locals, ans, statics, out,
                 history>>

(* pthread_create and pthread_detach.                                      *)
CreateThread ==
  /\ server = "up" /\ accepted # None
  /\ pc' = [pc EXCEPT ![accepted] = "start"]
  /\ accepted' = None
  /\ UNCHANGED <<server, client, queue, fd, cfd, locals, ans, statics, out,
                 history>>

(* pthread_create fails and nobody looks at its result: the descriptor     *)
(* stays open without a thread, and the t that is detached is              *)
(* uninitialised, which does nothing or kills the process.                 *)
CreateThreadFails ==
  /\ server = "up" /\ accepted # None
  /\ MayFail(accepted)
  /\ unserved' = unserved \cup {accepted}
  /\ accepted' = None
  /\ server' \in {"up", "killed"}
  /\ UNCHANGED <<client, queue, fd, cfd, pc, locals, ans, statics, out, late,
                 overlap, cut, kind>>

-----------------------------------------------------------------------------
(* Thread t copies the descriptor from the stack of startsrv, whatever it  *)
(* is by now, and calls read on it.                                        *)
ReadArg(t) ==
  /\ At(t, "start")
  /\ my' = [my EXCEPT ![t] = cfd]
  /\ on' = [on EXCEPT ![t] = Lookup(cfd)]
  /\ Goto(t, "read")
  /\ late' = (late \/ Lookup(cfd) # t)
  /\ UNCHANGED <<server, client, listener, fd, readErr, ans, statics, out,
                 overlap, unserved, cut, kind>>

(* Somebody already read from connection c.                                *)
Consumed(c, t) ==
  \E u \in Conns \ {t} :
    on[u] = c /\ pc[u] \in Parsing \cup {"write", "close", "done"}

(* The text dispatch may copy into resp when the parser is not called for  *)
(* request c, of which the read missed m.  A line cut short matches no uri *)
(* but is still a GET when its method is whole.  The texts of GET and      *)
(* /up/dt are in a block that has ended when sprintf copies them, and      *)
(* /dn/dt leaves respbd uninitialised: what is copied may be anything.     *)
DirectAnswers(c, m) ==
  LET text(k) == Answer(k, IF k = "get" /\ m # "line" THEN {c} ELSE {})
      k == kind[c]
      garbage == Answer("garbage", {}) IN
  IF m = "line" THEN {text("other")} \cup IF k = "get" THEN {text(k), garbage}
                                         ELSE {}
  ELSE IF k = "dn" THEN {garbage}
  ELSE {text(k)} \cup IF k \in {"get", "up"} THEN {garbage} ELSE {}

(* dispatch routes the text of request c by method and uri, and hands the  *)
(* body to the parser.  Copying from an arbitrary place may also kill the  *)
(* process.                                                                *)
Dispatch(t, c, m) ==
  LET parsed == kind[c] \in Shapes /\ m # "line" IN
  \/ /\ parsed
     /\ overlap' = (overlap \/ \E u \in Conns : pc[u] \in Parsing)
     /\ Goto(t, "header")
     /\ UNCHANGED <<server, ans>>
  \/ /\ ~parsed
     /\ \E a \in DirectAnswers(c, m) : ans' = [ans EXCEPT ![t] = a]
     /\ Goto(t, "write")
     /\ UNCHANGED <<server, overlap>>
  \/ /\ ~parsed /\ Answer("garbage", {}) \in DirectAnswers(c, m)
     /\ server' = "killed"
     /\ UNCHANGED <<pc, ans, overlap>>

(* A buffer without a request line falls through every comparison.         *)
DispatchOther(t) ==
  /\ ans' = [ans EXCEPT ![t] = Answer("other", {})]
  /\ Goto(t, "write")
  /\ UNCHANGED <<server, overlap>>

(* read fails, or reports the end of the stream: the buffer stays empty.   *)
ReadNothing(t) ==
  /\ \/ on[t] = None
     \/ on[t] # None /\ client[on[t]] = "reset"
     \/ on[t] # None /\ Consumed(on[t], t) /\ client[on[t]] # "waiting"
  /\ readErr' = [readErr EXCEPT
                   ![t] = on[t] # None /\ client[on[t]] = "reset"]
  /\ DispatchOther(t)
  /\ UNCHANGED cut

(* read returns the request or the part of it that has come.               *)
ReadRequest(t) ==
  LET c == on[t] IN
  /\ c # None
  /\ client[c] # "reset" /\ ~Consumed(c, t)
  /\ \E m \in CutsOf(kind[c]) :
       /\ m = "none" \/ MayFail(c)
       /\ cut' = [cut EXCEPT ![c] = m]
       /\ Dispatch(t, c, m)
  /\ UNCHANGED readErr

(* A second thread on the connection gets what an earlier read left.  The  *)
(* rest of a request line may still be routed by its uri, but its method   *)
(* is no longer GET.                                                       *)
ReadRest(t) ==
  LET c == on[t] IN
  /\ c # None
  /\ client[c] # "reset" /\ Consumed(c, t) /\ cut[c] # "none"
  /\ \/ DispatchOther(t)
     \/ cut[c] = "line" /\ kind[c] # "get" /\ Dispatch(t, c, "none")
  /\ UNCHANGED <<readErr, cut>>

(* read, then the part of dispatch up to the call of parsedt.  Requests    *)
(* are shorter than buf.                                                   *)
Read(t) ==
  /\ At(t, "read")
  /\ ReadNothing(t) \/ ReadRequest(t) \/ ReadRest(t)
  /\ UNCHANGED <<client, listener, fd, my, on, statics, out, late, unserved,
                 kind>>

-----------------------------------------------------------------------------
(* dtparser.c.  A static buffer is cleared (memset) in one step and filled *)
(* (strcat) in the next; what it holds is abstracted to the set of         *)
(* requests whose bytes are in it, for a result buffer the requests whose  *)
(* data are in it in full.                                                 *)
HeaderData(t) == IF cut[on[t]] = "body" THEN {} ELSE {on[t]}
ResultData(t) == IF cut[on[t]] \in {"tail", "body"} THEN {} ELSE {on[t]}

ClearHeader(t) ==
  /\ At(t, "header")
  /\ hdr' = {}
  /\ Goto(t, "fill")
  /\ UNCHANGED <<server, client, listener, fd, locals, ans, res, out, history>>

FillHeader(t) ==
  /\ At(t, "fill")
  /\ hdr' = hdr \cup HeaderData(t)
  /\ Goto(t, "branch")
  /\ UNCHANGED <<server, client, listener, fd, locals, ans, res, out, history>>

(* The shapes the test of ctrl, seq and id may select: that of the only    *)
(* request in the buffers, "obj" when they hold no text, any when mixed.   *)
ShapesOf(h) ==
  IF h = {} THEN {"obj"} ELSE {kind[c] : c \in h}

(* The header is tested and the chosen result buffer cleared.  For "ext"   *)
(* memset takes the size of a larger buffer and clears as much again       *)
(* behind it, where the linker may have put the other static buffers.      *)
Branch(t) ==
  /\ At(t, "branch")
  /\ \E s \in ShapesOf(hdr) :
       /\ ans' = [ans EXCEPT ![t] = Answer(s, {})]
       /\ \/ res' = [res EXCEPT ![s] = {}] /\ hdr' = hdr
          \/ s = "ext" /\ res' = [res EXCEPT ![s] = {}] /\ hdr' = {}
          \/ s = "ext" /\ res' = [x \in Shapes |-> {}] /\ hdr' \in {hdr, {}}
  /\ Goto(t, "result")
  /\ UNCHANGED <<server, client, listener, fd, locals, out, history>>

FillResult(t) ==
  /\ At(t, "result")
  /\ res' = [res EXCEPT ![ans[t].kind] = @ \cup ResultData(t)]
  /\ Goto(t, "copy")
  /\ UNCHANGED <<server, client, listener, fd, locals, ans, hdr, out, history>>

(* The sprintf at the end of dispatch copies the static buffer.            *)
CopyResult(t) ==
  /\ At(t, "copy")
  /\ ans' = [ans EXCEPT ![t].data = res[ans[t].kind]]
  /\ Goto(t, "write")
  /\ UNCHANGED <<server, client, listener, fd, locals, statics, out, history>>

-----------------------------------------------------------------------------
(* Mutant: the response goes to the shared cfd, not to the local copy.     *)
WriteRespShared(t) ==
  LET c == Lookup(cfd) IN
  /\ At(t, "write")
  /\ IF c # None /\ client[c] = "waiting"
     THEN /\ out' = [out EXCEPT ![c] = ans[t]]
          /\ client' = [client EXCEPT ![c] = "answered"]
     ELSE UNCHANGED <<out, client>>
  /\ Goto(t, "close")
  /\ UNCHANGED <<server, listener, fd, locals, ans, statics, history>>

(* Mutant: a response without a body is not written.                       *)
WriteRespBodyOnly(t) ==
  LET c == Lookup(my[t]) IN
  /\ At(t, "write")
  /\ IF c # None /\ client[c] = "waiting" /\ ans[t].data # {}
     THEN /\ out' = [out EXCEPT ![c] = ans[t]]
          /\ client' = [client EXCEPT ![c] = "answered"]
     ELSE UNCHANGED <<out, client>>
  /\ Goto(t, "close")
  /\ UNCHANGED <<server, listener, fd, locals, ans, statics, history>>

(* write: an error is ignored, but a write on a connection whose read      *)
(* reported the reset raises SIGPIPE.  A client that has its response      *)
(* closes; one whose request was not read in full may find the connection  *)
(* reset instead.                                                          *)
WriteResp(t) ==
  LET c == Lookup(my[t]) IN
  /\ At(t, "write")
  /\ IF c # None /\ client[c] = "waiting"
     THEN \/ /\ out' = [out EXCEPT ![c] = ans[t]]
             /\ client' = [client EXCEPT ![c] = "answered"]
          \/ /\ cut[c] # "none"
             /\ client' = [client EXCEPT ![c] = "reset"]
             /\ UNCHANGED out
     ELSE UNCHANGED <<out, client>>
  /\ server' = IF c # None /\ c = on[t] /\ readErr[t] THEN "killed"
               ELSE server
  /\ Goto(t, "close")
  /\ UNCHANGED <<listener, fd, locals, ans, statics, history>>

(* Mutant: the thread returns without close when the write failed.         *)
CloseUnlessError(t) ==
  LET c == Lookup(my[t]) IN
  /\ At(t, "close")
  /\ fd' = IF c = None THEN fd
           ELSE IF client[c] = "reset" THEN fd ELSE [fd EXCEPT ![my[t]] = None]
  /\ Goto(t, "done")
  /\ UNCHANGED <<server, client, listener, locals, ans, statics, out, history>>

(* close: a client still waiting sees the end of the stream.               *)
Close(t) ==
  LET c == Lookup(my[t]) IN
  /\ At(t, "close")
  /\ fd' = IF c = None THEN fd ELSE [fd EXCEPT ![my[t]] = None]
  /\ client' = IF c # None /\ client[c] = "waiting"
               THEN [client EXCEPT ![c] = "eof"] ELSE client
  /\ Goto(t, "done")
  /\ UNCHANGED <<server, listener, locals, ans, statics, out, history>>

Rcvdata(t) ==
  \/ ReadArg(t) \/ Read(t)
  \/ ClearHeader(t) \/ FillHeader(t) \/ Branch(t)
  \/ FillResult(t) \/ CopyResult(t)
  \/ WriteResp(t) \/ Close(t)

Startsrv ==
  Accept \/ AcceptAborted \/ AcceptFails \/ CreateThread \/ CreateThreadFails

Next ==
  \/ \E c \in Conns : Connect(c) \/ Abort(c)
  \/ Startsrv
  \/ \E t \in Conns : Rcvdata(t)

Spec == Init /\ [][Next]_vars

(* The accept loop and the threads keep running.                           *)
FairSpec ==
  Spec /\ WF_vars(Startsrv) /\ \A t \in Conns : WF_vars(Rcvdata(t))

-----------------------------------------------------------------------------
(* What the client of connection c may get: its own data in the shape its  *)
(* header selects, as far as the only read has seen them, or what dispatch *)
(* answers to a request that is not parsed.                                *)
Expected(c) ==
  IF kind[c] \notin Shapes \/ cut[c] = "line" THEN DirectAnswers(c, cut[c])
  ELSE {Answer(IF cut[c] = "body" THEN "obj" ELSE kind[c],
               IF cut[c] = "none" THEN {c} ELSE {})}

(* A client that gets a response gets one to its own request, unless a     *)
(* thread read cfd after the accept loop had overwritten it or two threads *)
(* were inside the parser: the two races are the only ways to mix clients. *)
(* Neither the memset that clears too much nor a request cut anywhere by   *)
(* the only read brings in the data of another client.                     *)
OwnAnswer ==
  late \/ overlap \/
    \A c \in Conns : client[c] = "answered" => out[c] \in Expected(c)

(* Unless a thread read cfd late, an open descriptor is that of the        *)
(* connection just accepted, of one whose thread will still close it, or   *)
(* of one that no thread could be created for; and no client is            *)
(* disconnected without a response.  Nothing else leaks and nothing is     *)
(* closed twice.                                                           *)
DescriptorsOwned ==
  late \/
    /\ \A f \in Fds : fd[f] # None =>
         \/ fd[f] \in unserved \cup {accepted}
         \/ pc[fd[f]] \notin {"none", "done"}
    /\ \A c \in Conns : client[c] # "eof"

(* A client does not wait for ever: unless the connection is reset, a      *)
(* thread has read cfd late or its own could not be created, it is         *)
(* answered, or the process is gone (descriptors used up, SIGPIPE after a  *)
(* reset, an answer copied from an arbitrary place, the detach of an       *)
(* uninitialised thread).                                                  *)
Answered ==
  \A c \in Conns :
    client[c] = "waiting" ~>
      client[c] \in {"answered", "reset"} \/ c \in unserved \/ late
        \/ server # "up"

(* server.c on rcvdata: "rcv data sent from peer", the peer whose          *)
(* connection the thread was created for.                                  *)
ReadsItsPeer ==
  \A t \in Conns : pc[t] \notin {"none", "start"} => on[t] = t
=============================================================================
