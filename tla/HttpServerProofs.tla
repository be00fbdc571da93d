-------------------------- MODULE HttpServerProofs --------------------------
(* Proofs about the threads of cpp/http/server.c and dispatcher.c.         *)
EXTENDS HttpServer, TLAPS

(* Positions of a thread between its copy of cfd and its close.            *)
Serving == {"read", "write", "close"} \cup Parsing

(* What is in the parser is a report, and its shape is chosen before the   *)
(* result buffer is used.                                                  *)
TypeInv ==
  /\ TypeOK
  /\ \A t \in Conns : pc[t] \in Parsing => on[t] \in Conns /\ kind[on[t]] \in Shapes
  /\ \A t \in Conns : pc[t] \in {"result", "copy"} => ans[t].kind \in Shapes
  /\ \A c \in hdr : kind[c] \in Shapes

(* The connections that accept has not returned.                           *)
Unaccepted ==
  {c \in Conns : pc[c] = "none" /\ c # accepted /\ \A f \in Fds : fd[f] # c}

(* The accept loop: a connection is queued once, then gets one descriptor  *)
(* and one thread.                                                         *)
ListenerInv ==
  /\ \A i \in 1 .. Len(queue) : queue[i] \in Unaccepted /\ client[queue[i]] # "new"
  /\ \A i, j \in 1 .. Len(queue) : i # j => queue[i] # queue[j]
  /\ \A c \in Conns : client[c] = "new" => c \in Unaccepted
  /\ accepted # None => pc[accepted] = "none"
  /\ \A f, g \in Fds : fd[f] # None /\ fd[f] = fd[g] => f = g

(* As long as no thread read cfd late, a thread works on the descriptor of *)
(* the connection it was created for, and that one stays open until the    *)
(* thread closes it.                                                       *)
OwnerInv ==
  ~late =>
    /\ \A f \in Fds : fd[f] # None =>
         \/ fd[f] \in unserved \cup {accepted}
         \/ pc[fd[f]] \notin {"none", "done"}
    /\ \A t \in Conns : pc[t] \in Serving \cup {"done"} => on[t] = t
    /\ \A t \in Conns : pc[t] \in Serving => my[t] \in Fds /\ fd[my[t]] = t
    /\ \A t \in Conns : pc[t] = "close" => client[t] \in {"answered", "reset"}
    /\ \A t \in Conns :
         client[t] = "answered" => pc[t] \in {"close", "done"}
    /\ \A c \in Conns : client[c] # "eof"

(* As long as no two threads were inside the parser, at most one is.       *)
ParserInv ==
  ~overlap =>
    \A t, u \in Conns : pc[t] \in Parsing /\ pc[u] \in Parsing => t = u

(* What the read of t has seen of its header and its data, and the shape   *)
(* the header selects.                                                     *)
OwnHeader(t) == IF cut[t] = "body" THEN {} ELSE {t}
OwnData(t) == IF cut[t] \in {"tail", "body"} THEN {} ELSE {t}
OwnShape(t) == IF cut[t] = "body" THEN "obj" ELSE kind[t]

(* Without either race the static buffers hold, at each point of the       *)
(* parser, what thread t inside has put there, and what it is about to     *)
(* write, or its client has got, is the response expected.                 *)
AnswerOK(t) ==
  /\ pc[t] \in Parsing => kind[t] \in Shapes /\ cut[t] # "line"
  /\ pc[t] = "fill" => hdr = {}
  /\ pc[t] = "branch" => hdr = OwnHeader(t)
  /\ pc[t] = "result" =>
       ans[t] = Answer(OwnShape(t), {}) /\ res[OwnShape(t)] = {}
  /\ pc[t] = "copy" =>
       ans[t] = Answer(OwnShape(t), {}) /\ res[OwnShape(t)] = OwnData(t)
  /\ pc[t] = "write" => ans[t] \in Expected(t) \/ client[t] = "reset"
  /\ client[t] = "answered" => out[t] \in Expected(t)

AnswerInv == ~late /\ ~overlap => \A t \in Conns : AnswerOK(t)

IInv == TypeInv /\ ListenerInv /\ OwnerInv /\ ParserInv /\ AnswerInv

-----------------------------------------------------------------------------
(* Responses are built from a kind and a set of connections.               *)
LEMMA AnswerType ==
  ASSUME NEW k \in Kinds \cup {"none", "garbage"}, NEW D \in SUBSET Conns
  PROVE  /\ Answer(k, D) \in Answers
         /\ Answer(k, D).kind = k /\ Answer(k, D).data = D
  BY DEF Answer, Answers

(* A descriptor stands for a connection or for none.                       *)
LEMMA LookupType ==
  ASSUME TypeOK, NEW f \in Fds \cup {NoFd}
  PROVE  /\ Lookup(f) \in Conns \cup {None}
         /\ Lookup(f) # None => f \in Fds /\ Lookup(f) = fd[f]
  BY DEF TypeOK, Lookup

(* The server before the first connection.                                 *)
LEMMA InitInv == Init => IInv
<1> SUFFICES ASSUME Init PROVE IInv
  OBVIOUS
<1> USE HttpServerAssumption
<1>1. TypeInv
  <2>1. NoAnswer \in Answers
    BY AnswerType DEF NoAnswer
  <2>2. /\ ans \in [Conns -> Answers] /\ out \in [Conns -> Answers]
        /\ res \in [Shapes -> SUBSET Conns]
    BY <2>1 DEF Init
  <2>3. /\ readErr \in [Conns -> BOOLEAN]
        /\ late \in BOOLEAN /\ overlap \in BOOLEAN
    BY DEF Init
  <2>4. cut \in [Conns -> Cuts] /\ unserved \subseteq Conns
    BY DEF Init, Cuts
  <2> QED
    BY <2>2, <2>3, <2>4 DEF Init, TypeInv, TypeOK, Parsing
<1>2. ListenerInv
  BY DEF Init, ListenerInv, Unaccepted
<1>3. OwnerInv /\ ParserInv
  BY DEF Init, OwnerInv, ParserInv, Serving, Parsing
<1>4. AnswerInv
  BY DEF Init, AnswerInv, AnswerOK, Parsing
<1> QED
  BY <1>1, <1>2, <1>3, <1>4 DEF IInv

-----------------------------------------------------------------------------
(* The clients and the accept loop keep the types.                         *)
LEMMA ListenerTypes ==
  ASSUME TypeInv, Startsrv \/ \E c \in Conns : Connect(c) \/ Abort(c)
  PROVE  TypeInv'
<1> USE HttpServerAssumption DEF listener, locals, statics, history
<1>1. ASSUME NEW c \in Conns, Connect(c) \/ Abort(c)
      PROVE  TypeInv'
  <2>1. Append(queue, c) \in Seq(Conns)
    BY DEF TypeInv, TypeOK
  <2>2. CASE Connect(c)
    BY <2>1, <2>2 DEF TypeInv, TypeOK, Connect
  <2>3. CASE Abort(c)
    BY <2>3 DEF TypeInv, TypeOK, Abort
  <2> QED
    BY <1>1, <2>2, <2>3
<1>2. CASE Accept
  <2>1. Head(queue) \in Conns /\ Tail(queue) \in Seq(Conns)
    BY <1>2 DEF TypeInv, TypeOK, Accept
  <2> QED
    BY <1>2, <2>1 DEF TypeInv, TypeOK, Accept
<1>3. CASE AcceptAborted
  <2>1. Tail(queue) \in Seq(Conns)
    BY <1>3 DEF TypeInv, TypeOK, AcceptAborted
  <2> QED
    BY <1>3, <2>1 DEF TypeInv, TypeOK, AcceptAborted
<1>4. CASE AcceptFails
  BY <1>4 DEF TypeInv, TypeOK, AcceptFails
<1>5. CASE CreateThread
  BY <1>5 DEF TypeInv, TypeOK, CreateThread, Parsing
<1>6. CASE CreateThreadFails
  BY <1>6 DEF TypeInv, TypeOK, CreateThreadFails
<1> QED
  BY <1>1, <1>2, <1>3, <1>4, <1>5, <1>6 DEF Startsrv

(* What dispatch answers without the parser is a response.                 *)
LEMMA DirectType ==
  ASSUME TypeOK, NEW c \in Conns, NEW m \in Cuts,
         NEW a \in DirectAnswers(c, m)
  PROVE  a \in Answers
<1>1. \A k \in Kinds \cup {"garbage"} :
        Answer(k, {c}) \in Answers /\ Answer(k, {}) \in Answers
  BY AnswerType
<1>2. kind[c] \in Kinds /\ {"other", "get"} \subseteq Kinds
  BY DEF TypeOK, Kinds
<1>3. \/ a = Answer("other", {}) \/ a = Answer("garbage", {})
      \/ a = Answer(kind[c], {}) \/ a = Answer(kind[c], {c})
  BY DEF DirectAnswers
<1> QED
  BY <1>1, <1>2, <1>3

(* What dispatch does before the parser is called, seen from the types.    *)
LEMMA DispatchTypes ==
  ASSUME TypeOK, NEW t \in Conns, NEW c \in Conns, NEW m \in Cuts,
         pc[t] = "read", Dispatch(t, c, m) \/ DispatchOther(t)
  PROVE  /\ ans' \in [Conns -> Answers]
         /\ \A u \in Conns : u # t => ans'[u] = ans[u]
         /\ \/ pc' = pc /\ ans' = ans
            \/ pc' = [pc EXCEPT ![t] = "write"]
            \/ pc' = [pc EXCEPT ![t] = "header"] /\ kind[c] \in Shapes
         /\ overlap' \in BOOLEAN /\ server' \in {"up", "exited", "killed"}
<1> USE DEF Goto
<1>1. ASSUME NEW a \in Answers, ans' = [ans EXCEPT ![t] = a]
      PROVE  /\ ans' \in [Conns -> Answers]
             /\ \A u \in Conns : u # t => ans'[u] = ans[u]
  BY <1>1 DEF TypeOK
<1>2. CASE Dispatch(t, c, m)
  <2>1. \/ ans' = ans
        \/ \E a \in DirectAnswers(c, m) : ans' = [ans EXCEPT ![t] = a]
    BY <1>2 DEF Dispatch
  <2>2. /\ ans' \in [Conns -> Answers]
        /\ \A u \in Conns : u # t => ans'[u] = ans[u]
    BY <1>1, <2>1, DirectType DEF TypeOK
  <2>3. overlap' \in BOOLEAN
    BY <1>2 DEF Dispatch, TypeOK
  <2>4. /\ \/ pc' = pc /\ ans' = ans
           \/ pc' = [pc EXCEPT ![t] = "write"]
           \/ pc' = [pc EXCEPT ![t] = "header"] /\ kind[c] \in Shapes
        /\ server' \in {"up", "exited", "killed"}
    BY <1>2 DEF Dispatch, TypeOK
  <2> QED
    BY <2>2, <2>3, <2>4
<1>3. CASE DispatchOther(t)
  <2>1. Answer("other", {}) \in Answers
    BY AnswerType DEF Kinds
  <2>2. ans' = [ans EXCEPT ![t] = Answer("other", {})]
        /\ pc' = [pc EXCEPT ![t] = "write"] /\ UNCHANGED <<server, overlap>>
    BY <1>3 DEF DispatchOther
  <2> QED
    BY <1>1, <2>1, <2>2 DEF TypeOK
<1> QED
  BY <1>2, <1>3

(* read and the branches of dispatch keep the types.                       *)
LEMMA ReadTypes ==
  ASSUME TypeInv, NEW t \in Conns, Read(t)
  PROVE  TypeInv'
<1> USE HttpServerAssumption DEF listener, statics, Goto
<1>1. /\ UNCHANGED <<client, listener, fd, my, on, statics, out, late, unserved,
                     kind>>
      /\ pc[t] = "read" /\ TypeOK
  BY DEF Read, At, TypeInv
<1>2. CASE ReadNothing(t)
  <2> DEFINE err == (on[t] # None /\ client[on[t]] = "reset")
  <2>1. err \in BOOLEAN
    OBVIOUS
  <2>2. readErr' = [readErr EXCEPT ![t] = err] /\ cut' = cut
        /\ DispatchOther(t)
    BY <1>2 DEF ReadNothing
  <2>3. readErr' \in [Conns -> BOOLEAN]
    <3> HIDE DEF err
    <3> QED
      BY <2>1, <2>2 DEF TypeInv, TypeOK
  <2>4. Answer("other", {}) \in Answers
    BY AnswerType DEF Kinds
  <2>5. ans' \in [Conns -> Answers] /\ pc' = [pc EXCEPT ![t] = "write"]
        /\ \A u \in Conns : u # t => ans'[u] = ans[u]
    BY <2>2, <2>4 DEF DispatchOther, TypeInv, TypeOK
  <2>6. UNCHANGED <<server, overlap>>
    BY <2>2 DEF DispatchOther
  <2> QED
    BY <1>1, <2>2, <2>3, <2>5, <2>6 DEF TypeInv, TypeOK, Parsing
<1>3. CASE ReadRequest(t) \/ ReadRest(t)
  <2>1. on[t] \in Conns /\ readErr' = readErr
    BY <1>3 DEF ReadRequest, ReadRest, TypeInv, TypeOK
  <2>2. /\ cut' \in [Conns -> Cuts]
        /\ \E m \in Cuts : Dispatch(t, on[t], m) \/ DispatchOther(t)
    <3>1. CASE ReadRequest(t)
      <4>1. PICK m \in CutsOf(kind[on[t]]) :
              cut' = [cut EXCEPT ![on[t]] = m] /\ Dispatch(t, on[t], m)
        BY <3>1 DEF ReadRequest
      <4>2. m \in Cuts
        BY DEF CutsOf
      <4> QED
        BY <2>1, <4>1, <4>2 DEF TypeInv, TypeOK
    <3>2. CASE ReadRest(t)
      BY <3>2 DEF ReadRest, TypeInv, TypeOK, Cuts
    <3> QED
      BY <1>3, <3>1, <3>2
  <2>3. /\ ans' \in [Conns -> Answers]
        /\ \A u \in Conns : u # t => ans'[u] = ans[u]
        /\ \/ pc' = pc /\ ans' = ans
           \/ pc' = [pc EXCEPT ![t] = "write"]
           \/ pc' = [pc EXCEPT ![t] = "header"] /\ kind[on[t]] \in Shapes
        /\ overlap' \in BOOLEAN /\ server' \in {"up", "exited", "killed"}
    BY <1>1, <2>1, <2>2, DispatchTypes
  <2>4. pc' \in [Conns -> {"none", "start", "read", "write", "close", "done"}
                             \cup Parsing]
        /\ \A u \in Conns :
             /\ pc'[u] \in Parsing => \/ pc[u] \in Parsing
                                      \/ u = t /\ kind[on[t]] \in Shapes
             /\ pc'[u] \in {"result", "copy"} => pc'[u] = pc[u] /\ u # t
    <3>1. pc \in [Conns -> {"none", "start", "read", "write", "close", "done"}
                             \cup Parsing] /\ pc[t] = "read"
      BY <1>1 DEF TypeOK
    <3> QED
      BY <2>3, <3>1 DEF Parsing
  <2>5. TypeOK'
    BY <1>1, <2>1, <2>2, <2>3, <2>4 DEF TypeOK
  <2> QED
    BY <1>1, <2>1, <2>3, <2>4, <2>5 DEF TypeInv
<1> QED
  BY <1>2, <1>3 DEF Read

(* read moves only its thread, to the parser or to its write.              *)
LEMMA ReadFrame ==
  ASSUME TypeInv, NEW t \in Conns, Read(t)
  PROVE  /\ pc[t] = "read" /\ pc'[t] \in {"read", "header", "write"}
         /\ \A u \in Conns : u # t => pc'[u] = pc[u] /\ ans'[u] = ans[u]
<1> USE DEF Goto
<1>1. TypeOK /\ pc[t] = "read" /\ pc \in [Conns -> {"none", "start", "read",
                         "write", "close", "done"} \cup Parsing]
  BY DEF TypeInv, TypeOK, Read, At
<1>2. /\ \A u \in Conns : u # t => ans'[u] = ans[u]
      /\ \/ pc' = pc \/ pc' = [pc EXCEPT ![t] = "write"]
         \/ pc' = [pc EXCEPT ![t] = "header"]
  <2>1. CASE ReadNothing(t)
    BY <2>1 DEF ReadNothing, DispatchOther, TypeInv, TypeOK
  <2>2. CASE ReadRequest(t) \/ ReadRest(t)
    <3>1. on[t] \in Conns
      BY <2>2 DEF ReadRequest, ReadRest, TypeInv, TypeOK
    <3>2. \E m \in Cuts : Dispatch(t, on[t], m) \/ DispatchOther(t)
      BY <2>2 DEF ReadRequest, ReadRest, CutsOf, Cuts
    <3> QED
      BY <1>1, <3>1, <3>2, DispatchTypes
  <2> QED
    BY <2>1, <2>2 DEF Read
<1> QED
  BY <1>1, <1>2

(* The other steps of a thread keep the types.                             *)
LEMMA ThreadTypes ==
  ASSUME TypeInv, NEW t \in Conns, Rcvdata(t)
  PROVE  TypeInv'
<1> USE HttpServerAssumption DEF listener, locals, statics, history, Goto
<1>1. CASE ReadArg(t)
  <2>1. Lookup(cfd) \in Conns \cup {None}
    BY LookupType DEF TypeInv, TypeOK
  <2>2. late' \in BOOLEAN
    BY <1>1 DEF ReadArg
  <2> QED
    <3>1. /\ pc' = [pc EXCEPT ![t] = "read"] /\ my' = [my EXCEPT ![t] = cfd]
          /\ pc[t] = "start" /\ on' = [on EXCEPT ![t] = Lookup(cfd)]
          /\ UNCHANGED <<server, client, listener, fd, readErr, ans, statics, out,
                         overlap, unserved, cut, kind>>
      BY <1>1 DEF ReadArg, At
    <3>2. TypeOK'
      BY <2>1, <2>2, <3>1 DEF TypeInv, TypeOK
    <3>3. \A u \in Conns : /\ pc'[u] \in Parsing => pc'[u] = pc[u] /\ on'[u] = on[u]
                           /\ pc'[u] \in {"result", "copy"} => pc'[u] = pc[u]
      BY <3>1 DEF TypeInv, TypeOK, Parsing
    <3> QED
      BY <3>1, <3>2, <3>3 DEF TypeInv
<1>2. CASE Read(t)
  BY <1>2, ReadTypes
<1>3. CASE ClearHeader(t) \/ FillHeader(t)
  <2>1. /\ pc[t] \in {"header", "fill"}
        /\ \/ pc' = [pc EXCEPT ![t] = "fill"]
           \/ pc' = [pc EXCEPT ![t] = "branch"]
        /\ UNCHANGED <<server, client, listener, fd, locals, ans, res, out, history>>
    BY <1>3 DEF ClearHeader, FillHeader, At
  <2>2. hdr' \subseteq Conns /\ \A c \in hdr' : kind[c] \in Shapes
    <3>1. on[t] \in Conns /\ kind[on[t]] \in Shapes
      BY <2>1 DEF TypeInv, Parsing
    <3>2. HeaderData(t) \subseteq {on[t]}
      BY DEF HeaderData
    <3>3. hdr \subseteq Conns /\ \A c \in hdr : kind[c] \in Shapes
      BY DEF TypeInv, TypeOK
    <3>4. hdr' = {} \/ hdr' = hdr \cup HeaderData(t)
      BY <1>3 DEF ClearHeader, FillHeader
    <3> QED
      BY <3>1, <3>2, <3>3, <3>4
  <2>3. TypeOK'
    BY <2>1, <2>2 DEF TypeInv, TypeOK, Parsing
  <2>4. \A u \in Conns : /\ pc'[u] \in Parsing => pc[u] \in Parsing
                         /\ pc'[u] \in {"result", "copy"} => pc'[u] = pc[u]
    BY <2>1 DEF TypeInv, TypeOK, Parsing
  <2> QED
    BY <2>1, <2>2, <2>3, <2>4 DEF TypeInv
<1>4. CASE Branch(t)
  <2>1. PICK s \in ShapesOf(hdr) :
          /\ ans' = [ans EXCEPT ![t] = Answer(s, {})]
          /\ \/ res' = [res EXCEPT ![s] = {}] \/ res' = [x \in Shapes |-> {}]
          /\ hdr' \in {hdr, {}}
    BY <1>4 DEF Branch
  <2>2. s \in Shapes
    BY DEF ShapesOf, TypeInv, Shapes
  <2>3. Answer(s, {}) \in Answers /\ Answer(s, {}).kind = s
    BY <2>2, AnswerType DEF Shapes, Kinds
  <2> QED
    <3>1. /\ pc[t] = "branch" /\ pc' = [pc EXCEPT ![t] = "result"]
          /\ UNCHANGED <<server, client, listener, fd, locals, out, history>>
      BY <1>4 DEF Branch, At
    <3>4. res' \in [Shapes -> SUBSET Conns] /\ hdr' \subseteq Conns
          /\ \A c \in hdr' : kind[c] \in Shapes
      BY <2>1, <2>2 DEF TypeInv, TypeOK
    <3>5. ans' \in [Conns -> Answers]
      BY <2>1, <2>3 DEF TypeInv, TypeOK
    <3>2. TypeOK'
      BY <3>1, <3>4, <3>5 DEF TypeInv, TypeOK, Parsing
    <3>3. \A u \in Conns :
            /\ pc'[u] \in Parsing => pc[u] \in Parsing
            /\ pc'[u] \in {"result", "copy"} => ans'[u].kind \in Shapes
      BY <2>1, <2>2, <2>3, <3>1 DEF TypeInv, TypeOK, Parsing
    <3> QED
      BY <3>1, <3>2, <3>3, <3>4 DEF TypeInv
<1>5. CASE FillResult(t)
  BY <1>5 DEF TypeInv, TypeOK, FillResult, ResultData, Parsing, At
<1>6. CASE CopyResult(t)
  <2>1. ans[t].kind \in Shapes /\ res[ans[t].kind] \in SUBSET Conns
    BY <1>6 DEF TypeInv, TypeOK, CopyResult, At
  <2>2. ans' \in [Conns -> Answers] /\ \A u \in Conns : ans'[u].kind = ans[u].kind
    <3> DEFINE a == [ans[t] EXCEPT !.data = res[ans[t].kind]]
    <3>1. a \in Answers /\ a.kind = ans[t].kind
      BY <2>1 DEF TypeInv, TypeOK, Answers
    <3>2. ans' = [ans EXCEPT ![t] = a]
      BY <1>6 DEF CopyResult
    <3> HIDE DEF a
    <3> QED
      BY <3>1, <3>2 DEF TypeInv, TypeOK
  <2> QED
    BY <1>6, <2>2 DEF TypeInv, TypeOK, CopyResult, Parsing, At
<1>7. CASE WriteResp(t)
  <2>1. my[t] \in Fds \cup {NoFd}
    BY DEF TypeInv, TypeOK
  <2>2. Lookup(my[t]) \in Conns \cup {None}
    BY <2>1, LookupType DEF TypeInv
  <2> QED
    BY <1>7, <2>2 DEF TypeInv, TypeOK, WriteResp, Parsing, At
<1>8. CASE Close(t)
  <2>1. my[t] \in Fds \cup {NoFd}
    BY DEF TypeInv, TypeOK
  <2>2. Lookup(my[t]) \in Conns \cup {None}
    BY <2>1, LookupType DEF TypeInv
  <2> QED
    BY <1>8, <2>2 DEF TypeInv, TypeOK, Close, Parsing, At
<1> QED
  BY <1>1, <1>2, <1>3, <1>4, <1>5, <1>6, <1>7, <1>8 DEF Rcvdata

-----------------------------------------------------------------------------
(* A step of thread t moves t only and opens no descriptor; t was created  *)
(* before.                                                                 *)
LEMMA ThreadFrame ==
  ASSUME TypeInv, NEW t \in Conns, Rcvdata(t)
  PROVE  /\ pc[t] # "none" /\ pc'[t] # "none"
         /\ \A u \in Conns : u # t => pc'[u] = pc[u]
         /\ queue' = queue /\ accepted' = accepted
         /\ \A f \in Fds : fd'[f] \in {fd[f], None}
         /\ \A c \in Conns : client'[c] = "new" <=> client[c] = "new"
<1> USE DEF listener, locals, statics, history, Goto, At
<1>1. CASE ReadArg(t)
  BY <1>1 DEF TypeInv, TypeOK, ReadArg
<1>2. CASE Read(t)
  BY <1>2, ReadFrame DEF TypeInv, TypeOK, Read
<1>3. CASE ClearHeader(t) \/ FillHeader(t) \/ Branch(t)
  BY <1>3 DEF TypeInv, TypeOK, ClearHeader, FillHeader, Branch
<1>4. CASE FillResult(t) \/ CopyResult(t)
  BY <1>4 DEF TypeInv, TypeOK, FillResult, CopyResult
<1>5. CASE WriteResp(t)
  BY <1>5 DEF TypeInv, TypeOK, WriteResp
<1>6. CASE Close(t)
  BY <1>6 DEF TypeInv, TypeOK, Close
<1> QED
  BY <1>1, <1>2, <1>3, <1>4, <1>5, <1>6 DEF Rcvdata

(* accept takes the head of the queue, or drops it.                        *)
LEMMA QueueTail ==
  ASSUME TypeInv, ListenerInv, queue # <<>>, queue' = Tail(queue)
  PROVE  /\ Head(queue) \in Conns /\ Head(queue) \in Unaccepted
         /\ client[Head(queue)] # "new"
         /\ \A i \in 1 .. Len(queue') : queue'[i] = queue[i + 1]
                                        /\ i + 1 \in 2 .. Len(queue)
         /\ \A i \in 1 .. Len(queue') : queue'[i] # Head(queue)
                                        /\ queue'[i] \in Conns
<1>1. /\ Len(queue) \in Nat /\ Len(queue) > 0 /\ Head(queue) = queue[1]
      /\ Len(queue') = Len(queue) - 1
      /\ \A i \in 1 .. Len(queue') : queue'[i] = queue[i + 1]
      /\ \A i \in 1 .. Len(queue) : queue[i] \in Conns
  BY DEF TypeInv, TypeOK
<1> QED
  BY <1>1 DEF ListenerInv

(* The queue, the descriptor table and the threads stay in step.           *)
LEMMA ListenerStep ==
  ASSUME TypeInv, ListenerInv, Next
  PROVE  ListenerInv'
<1> USE HttpServerAssumption DEF listener, locals, statics, history
<1>0. \A i \in 1 .. Len(queue) : queue[i] \in Conns
  BY DEF TypeInv, TypeOK
<1>1. ASSUME NEW c \in Conns, Connect(c)
      PROVE  ListenerInv'
  <2>1. /\ Len(queue) \in Nat /\ Len(queue') = Len(queue) + 1
        /\ \A i \in 1 .. Len(queue) : queue'[i] = queue[i]
        /\ queue'[Len(queue) + 1] = c
    BY <1>1 DEF TypeInv, TypeOK, Connect
  <2>2. client[c] = "new" /\ client' = [client EXCEPT ![c] = "waiting"]
        /\ UNCHANGED <<fd, accepted, pc>>
    BY <1>1 DEF Connect
  <2>3. Unaccepted' = Unaccepted
    BY <2>2 DEF Unaccepted
  <2>4. c \in Unaccepted /\ \A i \in 1 .. Len(queue) : queue[i] # c
    BY <2>2 DEF ListenerInv
  <2>5. \A i \in 1 .. Len(queue') :
          queue'[i] \in Conns /\ queue'[i] \in Unaccepted
          /\ client'[queue'[i]] # "new"
    <3>1. ASSUME NEW i \in 1 .. Len(queue)
          PROVE  queue'[i] \in Unaccepted /\ client'[queue'[i]] # "new"
      BY <1>0, <2>1, <2>2 DEF ListenerInv, TypeInv, TypeOK
    <3>2. c \in Unaccepted /\ client'[c] # "new"
      BY <2>2, <2>4 DEF TypeInv, TypeOK
    <3> QED
      BY <1>0, <2>1, <3>1, <3>2
  <2>6. \A i, j \in 1 .. Len(queue') : i # j => queue'[i] # queue'[j]
    BY <2>1, <2>4 DEF ListenerInv
  <2>7. \A d \in Conns : client'[d] = "new" => d \in Unaccepted
    BY <2>2 DEF ListenerInv, TypeInv, TypeOK
  <2>8. /\ accepted' # None => pc'[accepted'] = "none"
        /\ \A f, g \in Fds : fd'[f] # None /\ fd'[f] = fd'[g] => f = g
    BY <2>2 DEF ListenerInv
  <2>9. \A i \in 1 .. Len(queue') : queue'[i] \in Unaccepted'
    BY <2>2, <2>5 DEF Unaccepted
  <2> QED
    BY <2>3, <2>5, <2>6, <2>7, <2>8, <2>9 DEF ListenerInv
<1>2. ASSUME NEW c \in Conns, Abort(c)
      PROVE  ListenerInv'
  BY <1>0, <1>2 DEF ListenerInv, Unaccepted, Abort, TypeInv, TypeOK
<1>3. CASE Accept
  <2>1. PICK f \in Fds : /\ fd[f] = None /\ fd' = [fd EXCEPT ![f] = Head(queue)]
    BY <1>3 DEF Accept, LowestFree
  <2>2. /\ queue # <<>> /\ queue' = Tail(queue) /\ accepted' = Head(queue)
        /\ accepted = None /\ UNCHANGED <<pc, client>>
    BY <1>3 DEF Accept
  <2>3. \A c \in Conns : c \in Unaccepted /\ c # Head(queue) => c \in Unaccepted'
    BY <2>1, <2>2 DEF Unaccepted, TypeInv, TypeOK
  <2>4. /\ Head(queue) \in Conns /\ Head(queue) \in Unaccepted
        /\ client[Head(queue)] # "new"
        /\ \A i \in 1 .. Len(queue') : queue'[i] = queue[i + 1]
                                       /\ i + 1 \in 2 .. Len(queue)
        /\ \A i \in 1 .. Len(queue') : queue'[i] # Head(queue)
                                       /\ queue'[i] \in Conns
    BY <2>2, QueueTail
  <2>5. \A i \in 1 .. Len(queue') :
          queue'[i] \in Unaccepted' /\ client'[queue'[i]] # "new"
    <3> SUFFICES ASSUME NEW i \in 1 .. Len(queue')
                 PROVE  queue'[i] \in Unaccepted' /\ client'[queue'[i]] # "new"
      OBVIOUS
    <3>1. queue[i + 1] \in Unaccepted /\ client[queue[i + 1]] # "new"
      BY <2>4 DEF ListenerInv
    <3> QED
      BY <2>1, <2>2, <2>4, <3>1 DEF Unaccepted, TypeInv, TypeOK
  <2>6. \A i, j \in 1 .. Len(queue') : i # j => queue'[i] # queue'[j]
    BY <2>4 DEF ListenerInv
  <2>7. \A c \in Conns : client'[c] = "new" => c \in Unaccepted'
    BY <2>2, <2>3, <2>4 DEF ListenerInv
  <2>8. \A g, h \in Fds : fd'[g] # None /\ fd'[g] = fd'[h] => g = h
    BY <2>1, <2>4 DEF ListenerInv, Unaccepted, TypeInv, TypeOK
  <2>9. accepted' # None => pc'[accepted'] = "none"
    BY <2>2, <2>4 DEF Unaccepted
  <2> QED
    BY <2>5, <2>6, <2>7, <2>8, <2>9 DEF ListenerInv
<1>4. CASE AcceptAborted
  <2>1. /\ queue # <<>> /\ queue' = Tail(queue)
        /\ UNCHANGED <<pc, client, fd, accepted>>
    BY <1>4 DEF AcceptAborted
  <2>2. /\ \A i \in 1 .. Len(queue') : queue'[i] = queue[i + 1]
                                       /\ i + 1 \in 2 .. Len(queue)
    BY <2>1, QueueTail
  <2> QED
    BY <2>1, <2>2 DEF ListenerInv, Unaccepted
<1>5. CASE AcceptFails
  BY <1>5 DEF AcceptFails, ListenerInv, Unaccepted
<1>6. CASE CreateThread
  <2>1. \A c \in Conns : c \in Unaccepted => c \in Unaccepted'
    BY <1>6 DEF CreateThread, Unaccepted, TypeInv, TypeOK
  <2>2. queue' = queue /\ client' = client /\ fd' = fd /\ accepted' = None
    BY <1>6 DEF CreateThread
  <2>3. \A i \in 1 .. Len(queue) : queue'[i] \in Unaccepted'
    BY <1>0, <1>6, <2>2 DEF ListenerInv, CreateThread, Unaccepted, TypeInv, TypeOK
  <2> QED
    BY <2>1, <2>2, <2>3 DEF ListenerInv
<1>8. CASE CreateThreadFails
  <2>1. /\ accepted \in Conns /\ accepted' = None
        /\ UNCHANGED <<queue, client, fd, pc>>
    BY <1>8 DEF CreateThreadFails, TypeInv, TypeOK
  <2>2. \A c \in Conns : c \in Unaccepted => c \in Unaccepted'
    BY <2>1 DEF Unaccepted
  <2> QED
    BY <1>0, <2>1, <2>2 DEF ListenerInv
<1>7. ASSUME NEW t \in Conns, Rcvdata(t)
      PROVE  ListenerInv'
  <2>1. /\ pc[t] # "none" /\ pc'[t] # "none"
        /\ \A u \in Conns : u # t => pc'[u] = pc[u]
        /\ queue' = queue /\ accepted' = accepted
        /\ \A f \in Fds : fd'[f] \in {fd[f], None}
        /\ \A c \in Conns : client'[c] = "new" <=> client[c] = "new"
    BY <1>7, ThreadFrame
  <2>2. \A c \in Conns : c \in Unaccepted => c \in Unaccepted'
    BY <2>1 DEF Unaccepted
  <2>3. \A i \in 1 .. Len(queue') : queue'[i] \in Unaccepted' /\ client'[queue'[i]] # "new"
    BY <1>0, <2>1 DEF ListenerInv, Unaccepted
  <2>4. accepted' # None => pc'[accepted'] = "none"
    BY <2>1 DEF ListenerInv, TypeInv, TypeOK
  <2>5. \A g, h \in Fds : fd'[g] # None /\ fd'[g] = fd'[h] => g = h
    BY <2>1 DEF ListenerInv
  <2> QED
    BY <2>1, <2>2, <2>3, <2>4, <2>5 DEF ListenerInv
<1> QED
  BY <1>1, <1>2, <1>3, <1>4, <1>5, <1>6, <1>7, <1>8 DEF Next, Startsrv

-----------------------------------------------------------------------------
(* Without a late reader a thread serves the connection it was created     *)
(* for.                                                                    *)
LEMMA OwnerStep ==
  ASSUME TypeInv, ListenerInv, OwnerInv, Next
  PROVE  OwnerInv'
<1> USE HttpServerAssumption DEF listener, locals, statics, history, Goto, At
<1>1. ASSUME NEW c \in Conns, Connect(c) \/ Abort(c)
      PROVE  OwnerInv'
  <2>1. /\ UNCHANGED <<fd, accepted, pc, on, my, late, unserved>>
        /\ \/ client[c] = "new" /\ client' = [client EXCEPT ![c] = "waiting"]
           \/ client[c] = "waiting" /\ client' = [client EXCEPT ![c] = "reset"]
    BY <1>1 DEF Connect, Abort
  <2>2. client[c] = "new" => pc[c] = "none"
    BY DEF ListenerInv, Unaccepted
  <2>3. \A d \in Conns :
          /\ client'[d] \in {"answered", "eof"} => client'[d] = client[d]
          /\ pc[d] = "close" /\ client[d] \in {"answered", "reset"} =>
               client'[d] \in {"answered", "reset"}
    BY <2>1, <2>2 DEF TypeInv, TypeOK
  <2> QED
    BY <2>1, <2>3 DEF OwnerInv
<1>2. CASE Accept
  <2>1. PICK f \in Fds : /\ fd[f] = None /\ fd' = [fd EXCEPT ![f] = Head(queue)]
    BY <1>2 DEF Accept, LowestFree
  <2>2. /\ accepted' = Head(queue) /\ accepted = None
        /\ UNCHANGED <<client, pc, on, my, late, unserved>>
    BY <1>2 DEF Accept
  <2>3. \A t \in Conns : ~late /\ pc[t] \in Serving => my[t] # f
    BY <2>1 DEF OwnerInv
  <2>4. \A g \in Fds : g # f => fd'[g] = fd[g]
    BY <2>1 DEF TypeInv, TypeOK
  <2>5. fd'[f] = accepted'
    BY <2>1, <2>2 DEF TypeInv, TypeOK
  <2> QED
    BY <2>2, <2>3, <2>4, <2>5 DEF OwnerInv
<1>3. CASE AcceptAborted \/ AcceptFails
  BY <1>3 DEF AcceptAborted, AcceptFails, OwnerInv
<1>4. CASE CreateThread
  <2>1. /\ accepted \in Conns /\ pc[accepted] = "none" /\ accepted' = None
        /\ pc' = [pc EXCEPT ![accepted] = "start"]
        /\ UNCHANGED <<fd, client, on, my, late, unserved>>
    BY <1>4 DEF CreateThread, ListenerInv, TypeInv, TypeOK
  <2>2. \A t \in Conns : pc'[t] = IF t = accepted THEN "start" ELSE pc[t]
    BY <2>1 DEF TypeInv, TypeOK
  <2>3. \A f \in Fds : fd[f] \in Conns \cup {None}
    BY DEF TypeInv, TypeOK
  <2>4. ~late => \A f \in Fds : fd[f] # None =>
          \/ fd[f] \in unserved
          \/ pc'[fd[f]] \notin {"none", "done"}
    BY <2>2, <2>3 DEF OwnerInv
  <2>5. \A t \in Conns :
          /\ pc'[t] \in Serving \cup {"done"} => pc'[t] = pc[t]
          /\ pc[t] \in {"close", "done"} => pc'[t] = pc[t]
          /\ pc'[t] = "close" => pc[t] = "close"
    BY <2>1, <2>2 DEF Serving, Parsing
  <2> QED
    BY <2>1, <2>4, <2>5 DEF OwnerInv, Serving
<1>12. CASE CreateThreadFails
  <2>1. /\ unserved' = unserved \cup {accepted}
        /\ UNCHANGED <<fd, client, pc, on, my, late>>
    BY <1>12 DEF CreateThreadFails
  <2> QED
    BY <2>1 DEF OwnerInv
<1>5. ASSUME NEW t \in Conns, ReadArg(t)
      PROVE  OwnerInv'
  <2>1. /\ pc[t] = "start" /\ pc' = [pc EXCEPT ![t] = "read"]
        /\ my' = [my EXCEPT ![t] = cfd] /\ on' = [on EXCEPT ![t] = Lookup(cfd)]
        /\ late' = (late \/ Lookup(cfd) # t)
        /\ UNCHANGED <<fd, client, accepted, unserved>>
    BY <1>5 DEF ReadArg
  <2>2. SUFFICES ASSUME ~late'
                 PROVE  OwnerInv'
    BY DEF OwnerInv
  <2>3. ~late /\ Lookup(cfd) = t /\ cfd \in Fds /\ fd[cfd] = t
    BY <2>1, <2>2, LookupType DEF TypeInv, TypeOK
  <2> QED
    BY <2>1, <2>3 DEF OwnerInv, TypeInv, TypeOK, Serving, Parsing
<1>6. ASSUME NEW t \in Conns, pc[t] \in Serving \ {"write", "close"},
             pc'[t] \in Serving \ {"close"},
             \A u \in Conns : u # t => pc'[u] = pc[u],
             UNCHANGED <<fd, client, accepted, my, on, late, unserved>>
      PROVE  OwnerInv'
  BY <1>6 DEF OwnerInv, TypeInv, TypeOK, Serving, Parsing
<1>7. ASSUME NEW t \in Conns, Read(t)
      PROVE  OwnerInv'
  <2>1. /\ pc[t] = "read" /\ pc'[t] \in {"read", "header", "write"}
        /\ \A u \in Conns : u # t => pc'[u] = pc[u]
    BY <1>7, ReadFrame
  <2> QED
    BY <1>6, <1>7, <2>1 DEF Read, Serving, Parsing
<1>8. ASSUME NEW t \in Conns,
             ClearHeader(t) \/ FillHeader(t) \/ Branch(t) \/ FillResult(t)
               \/ CopyResult(t)
      PROVE  OwnerInv'
  <2>1. /\ pc[t] \in Parsing /\ pc'[t] \in Parsing \cup {"write"}
        /\ \A u \in Conns : u # t => pc'[u] = pc[u]
        /\ UNCHANGED <<fd, client, accepted, my, on, late, unserved>>
    BY <1>8 DEF ClearHeader, FillHeader, Branch, FillResult, CopyResult,
                TypeInv, TypeOK, Parsing
  <2> QED
    BY <1>6, <2>1 DEF Serving, Parsing
<1>9. ASSUME NEW t \in Conns, WriteResp(t), ~late'
      PROVE  OwnerInv'
  <2>1. ~late /\ pc[t] = "write" /\ pc' = [pc EXCEPT ![t] = "close"]
        /\ UNCHANGED <<fd, accepted, my, on, unserved>>
    BY <1>9 DEF WriteResp
  <2>2. Lookup(my[t]) = t
    BY <2>1 DEF OwnerInv, Lookup, Serving, NoFd
  <2>3. IF client[t] = "waiting"
        THEN \/ client' = [client EXCEPT ![t] = "answered"]
             \/ client' = [client EXCEPT ![t] = "reset"]
        ELSE client' = client
    BY <1>9, <2>2 DEF WriteResp
  <2>4. client[t] \in {"waiting", "answered", "reset"}
    BY <2>1 DEF OwnerInv, ListenerInv, Unaccepted, TypeInv, TypeOK
  <2> QED
    BY <2>1, <2>3, <2>4 DEF OwnerInv, TypeInv, TypeOK, Serving, Parsing
<1>10. ASSUME NEW t \in Conns, Close(t), ~late'
       PROVE  OwnerInv'
  <2>1. ~late /\ pc[t] = "close" /\ pc' = [pc EXCEPT ![t] = "done"]
        /\ UNCHANGED <<accepted, my, on, unserved>>
    BY <1>10 DEF Close
  <2>2. Lookup(my[t]) = t /\ my[t] \in Fds /\ fd[my[t]] = t
    BY <2>1 DEF OwnerInv, Lookup, Serving, NoFd
  <2>3. client' = client /\ fd' = [fd EXCEPT ![my[t]] = None]
    BY <1>10, <2>1, <2>2 DEF Close, OwnerInv
  <2>4. \A f \in Fds : fd[f] = t => f = my[t]
    BY <2>2 DEF ListenerInv
  <2> QED
    BY <2>1, <2>2, <2>3, <2>4 DEF OwnerInv, TypeInv, TypeOK, Serving, Parsing
<1>11. ASSUME NEW t \in Conns, WriteResp(t) \/ Close(t)
       PROVE  OwnerInv'
  BY <1>9, <1>10, <1>11 DEF OwnerInv
<1> QED
  BY <1>1, <1>2, <1>3, <1>4, <1>5, <1>7, <1>8, <1>11, <1>12
  DEF Next, Startsrv, Rcvdata

(* A thread that enters the parser while another is inside is recorded.    *)
LEMMA ParserStep ==
  ASSUME TypeInv, ListenerInv, ParserInv, Next
  PROVE  ParserInv'
<1> USE HttpServerAssumption DEF listener, locals, statics, history, Goto, At
<1>1. ASSUME overlap' = overlap,
             \A u \in Conns : pc'[u] \in Parsing => pc[u] \in Parsing
      PROVE  ParserInv'
  BY <1>1 DEF ParserInv
<1>2. ASSUME NEW c \in Conns, Connect(c) \/ Abort(c)
      PROVE  ParserInv'
  BY <1>1, <1>2 DEF Connect, Abort
<1>3. CASE Startsrv
  <2>1. CASE CreateThread
    BY <1>1, <2>1 DEF CreateThread, TypeInv, TypeOK, Parsing
  <2> QED
    BY <1>1, <1>3, <2>1 DEF Startsrv, Accept, AcceptAborted, AcceptFails,
                            CreateThreadFails
<1>4. ASSUME NEW t \in Conns, Read(t)
      PROVE  ParserInv'
  <2>1. CASE DispatchOther(t)
    BY <1>1, <2>1 DEF DispatchOther, TypeInv, TypeOK, Parsing
  <2>2. ASSUME NEW c, NEW m, Dispatch(t, c, m)
        PROVE  ParserInv'
    <3>1. CASE overlap' = overlap /\ (pc' = pc \/ pc' = [pc EXCEPT ![t] = "write"])
      BY <1>1, <3>1 DEF TypeInv, TypeOK, Parsing
    <3>2. CASE /\ overlap' = (overlap \/ \E u \in Conns : pc[u] \in Parsing)
               /\ pc' = [pc EXCEPT ![t] = "header"]
      BY <3>2 DEF ParserInv, TypeInv, TypeOK
    <3> QED
      BY <2>2, <3>1, <3>2 DEF Dispatch
  <2> QED
    BY <1>4, <2>1, <2>2 DEF Read, ReadNothing, ReadRequest, ReadRest
<1>5. ASSUME NEW t \in Conns, ReadArg(t) \/ WriteResp(t) \/ Close(t)
      PROVE  ParserInv'
  BY <1>1, <1>5 DEF ReadArg, WriteResp, Close, TypeInv, TypeOK, Parsing
<1>6. ASSUME NEW t \in Conns,
             ClearHeader(t) \/ FillHeader(t) \/ Branch(t) \/ FillResult(t)
               \/ CopyResult(t)
      PROVE  ParserInv'
  BY <1>1, <1>6 DEF ClearHeader, FillHeader, Branch, FillResult, CopyResult,
                    TypeInv, TypeOK, Parsing
<1> QED
  BY <1>2, <1>3, <1>4, <1>5, <1>6 DEF Next, Rcvdata

-----------------------------------------------------------------------------
(* The response a thread is to write is fixed once its request was read.   *)
LEMMA ExpectedFixed ==
  ASSUME NEW c \in Conns, cut'[c] = cut[c], kind' = kind
  PROVE  /\ Expected(c)' = Expected(c) /\ OwnHeader(c)' = OwnHeader(c)
         /\ OwnData(c)' = OwnData(c) /\ OwnShape(c)' = OwnShape(c)
  BY DEF Expected, DirectAnswers, OwnHeader, OwnData, OwnShape, Answer

(* What is right for thread d stays right in a step that leaves d, its     *)
(* client and, if it is in the parser, the buffers alone.                  *)
LEMMA AnswerFrame ==
  ASSUME NEW d \in Conns, AnswerOK(d),
         \/ pc'[d] = pc[d]
         \/ pc[d] \in {"none", "start"} /\ pc'[d] \in {"start", "read"}
         \/ pc[d] = "close" /\ pc'[d] = "done",
         pc[d] \in Parsing => hdr' = hdr /\ res' = res,
         ans'[d] = ans[d], out'[d] = out[d], kind' = kind,
         cut'[d] = cut[d],
         client'[d] = "answered" => client[d] = "answered",
         client[d] = "reset" => client'[d] = "reset"
  PROVE  AnswerOK(d)'
<1>1. Expected(d)' = Expected(d) /\ OwnData(d)' = OwnData(d)
      /\ OwnHeader(d)' = OwnHeader(d) /\ OwnShape(d)' = OwnShape(d)
  BY ExpectedFixed
<1>2. CASE pc'[d] = pc[d] /\ pc[d] \in Parsing
  BY <1>1, <1>2 DEF AnswerOK, Parsing, Answer
<1>3. CASE pc'[d] = pc[d] /\ pc[d] \notin Parsing
  BY <1>1, <1>3 DEF AnswerOK, Parsing
<1>4. CASE pc'[d] # pc[d]
  BY <1>1, <1>4 DEF AnswerOK, Parsing
<1> QED
  BY <1>2, <1>3, <1>4

(* The races, once recorded, stay recorded.                                *)
LEMMA RacesStay ==
  ASSUME Next
  PROVE  (late => late') /\ (overlap => overlap')
<1> USE DEF listener, locals, statics, history
<1>1. late => late'
  BY DEF Next, Startsrv, Rcvdata, Connect, Abort, Accept, AcceptAborted,
         AcceptFails, CreateThread, CreateThreadFails, ReadArg, Read,
         ClearHeader, FillHeader, Branch, FillResult, CopyResult, WriteResp,
         Close
<1>2. overlap => overlap'
  BY DEF Next, Startsrv, Rcvdata, Connect, Abort, Accept, AcceptAborted,
         AcceptFails, CreateThread, CreateThreadFails, ReadArg, Read,
         ReadNothing, ReadRequest, ReadRest, Dispatch, DispatchOther,
         ClearHeader, FillHeader, Branch, FillResult, CopyResult, WriteResp,
         Close
<1> QED
  BY <1>1, <1>2

(* Without a race the buffers and responses are those of the one request.  *)
LEMMA AnswerStep ==
  ASSUME TypeInv, ListenerInv, OwnerInv, ParserInv, AnswerInv, Next
  PROVE  AnswerInv'
<1> USE HttpServerAssumption DEF listener, locals, statics, history, Goto, At
<1>0. SUFFICES ASSUME ~late', ~overlap', NEW d \in Conns
               PROVE  AnswerOK(d)'
  BY DEF AnswerInv
<1>1. ~late /\ ~overlap /\ AnswerOK(d)
  BY <1>0, RacesStay DEF AnswerInv
<1>a. ASSUME NEW t \in Conns, pc[t] \in Serving
      PROVE  on[t] = t /\ my[t] \in Fds /\ fd[my[t]] = t
  BY <1>1, <1>a DEF OwnerInv
<1>b. ASSUME NEW t \in Conns, pc[t] \notin {"close", "done"}
      PROVE  client[t] # "answered"
  BY <1>1, <1>b DEF OwnerInv
<1>2. ASSUME NEW c \in Conns, Connect(c) \/ Abort(c)
      PROVE  AnswerOK(d)'
  <2>1. UNCHANGED <<pc, ans, hdr, res, out, cut, kind>>
    BY <1>2 DEF Connect, Abort
  <2>2. /\ client'[d] = "answered" => client[d] = "answered"
        /\ client[d] = "reset" => client'[d] = "reset"
    BY <1>2 DEF Connect, Abort, TypeInv, TypeOK
  <2> QED
    BY <1>1, <2>1, <2>2, AnswerFrame
<1>3. CASE Startsrv
  <2>1. UNCHANGED <<client, ans, hdr, res, out, cut, kind>>
    BY <1>3 DEF Startsrv, Accept, AcceptAborted, AcceptFails, CreateThread,
                CreateThreadFails
  <2>2. pc'[d] = pc[d] \/ (pc'[d] = "start" /\ pc[d] = "none")
    BY <1>3 DEF Startsrv, Accept, AcceptAborted, AcceptFails, CreateThread,
                CreateThreadFails, ListenerInv, TypeInv, TypeOK
  <2> QED
    BY <1>1, <2>1, <2>2, AnswerFrame
<1>4. ASSUME NEW t \in Conns, ReadArg(t)
      PROVE  AnswerOK(d)'
  <2>1. UNCHANGED <<client, ans, hdr, res, out, cut, kind>>
    BY <1>4 DEF ReadArg
  <2>2. pc'[d] = pc[d] \/ (pc'[d] = "read" /\ pc[d] = "start")
    BY <1>4 DEF ReadArg, TypeInv, TypeOK
  <2> QED
    BY <1>1, <2>1, <2>2, AnswerFrame
<1>5. ASSUME NEW t \in Conns, Read(t)
      PROVE  AnswerOK(d)'
  <2>1. /\ pc[t] = "read"
        /\ UNCHANGED <<client, on, hdr, res, out, late, kind>>
    BY <1>5 DEF Read
  <2>2. on[t] = t /\ on[t] # None /\ client[t] # "answered"
    BY <1>a, <1>b, <2>1 DEF Serving
  <2>3. ~Consumed(t, t)
    BY <1>1, <2>1, <2>2 DEF Consumed, OwnerInv, Serving
  <2>4. \/ ReadNothing(t) /\ client[t] = "reset" /\ cut' = cut
        \/ \E m \in Cuts : cut' = [cut EXCEPT ![t] = m] /\ Dispatch(t, t, m)
    BY <1>5, <2>2, <2>3
    DEF Read, ReadNothing, ReadRequest, ReadRest, CutsOf
  <2>5. CASE d # t
    <3>1. pc'[d] = pc[d] /\ ans'[d] = ans[d]
      BY <1>5, <2>5, ReadFrame
    <3>2. cut'[d] = cut[d]
      BY <2>4, <2>5 DEF TypeInv, TypeOK
    <3> QED
      BY <1>1, <2>1, <3>1, <3>2, AnswerFrame
  <2>6. CASE d = t /\ ReadNothing(t) /\ client[t] = "reset"
    <3>1. pc'[t] = "write"
      BY <2>6 DEF ReadNothing, DispatchOther, TypeInv, TypeOK
    <3> QED
      BY <2>1, <2>6, <3>1 DEF AnswerOK, Parsing
  <2>7. ASSUME d = t, NEW m \in Cuts, cut' = [cut EXCEPT ![t] = m],
               Dispatch(t, t, m)
        PROVE  AnswerOK(d)'
    <3>1. cut'[t] = m
      BY <2>7 DEF TypeInv, TypeOK
    <3>2. CASE pc'[t] = "header" /\ kind[t] \in Shapes /\ m # "line"
      BY <2>1, <2>2, <2>7, <3>1, <3>2 DEF AnswerOK, Parsing
    <3>3. CASE pc' = pc
      BY <2>1, <2>2, <2>7, <3>3 DEF AnswerOK, Parsing
    <3>4. CASE /\ pc'[t] = "write" /\ ans'[t] \in DirectAnswers(t, m)
               /\ ~(kind[t] \in Shapes /\ m # "line")
      <4>1. Expected(t)' = DirectAnswers(t, m)'
        BY <2>1, <3>1, <3>4 DEF Expected
      <4>2. DirectAnswers(t, m)' = DirectAnswers(t, m)
        BY <2>1 DEF DirectAnswers, Answer
      <4>3. ans'[t] \in Expected(t)'
        BY <3>4, <4>1, <4>2
      <4> QED
        BY <2>1, <2>2, <2>7, <3>4, <4>3 DEF AnswerOK, Parsing
    <3> QED
      BY <2>7, <3>2, <3>3, <3>4 DEF Dispatch, TypeInv, TypeOK
  <2> QED
    BY <2>4, <2>5, <2>6, <2>7
<1>6. ASSUME NEW t \in Conns, pc[t] \in Parsing,
             \A u \in Conns : u # t => pc'[u] = pc[u] /\ ans'[u] = ans[u],
             UNCHANGED <<client, on, out, cut, kind>>, d # t
      PROVE  AnswerOK(d)'
  <2>1. pc[d] \notin Parsing
    BY <1>1, <1>6 DEF ParserInv
  <2> QED
    BY <1>1, <1>6, <2>1, AnswerFrame
<1>7. ASSUME NEW t \in Conns, t = d,
             UNCHANGED <<client, on, out, cut, kind>>, pc[t] \in Parsing
      PROVE  /\ Expected(d)' = Expected(d)
             /\ OwnData(d)' = OwnData(d) /\ OwnShape(d)' = OwnShape(d)
             /\ OwnHeader(d)' = OwnHeader(d) /\ HeaderData(t) = OwnHeader(t)
             /\ ResultData(t) = OwnData(t) /\ client'[d] # "answered"
             /\ OwnShape(d) \in Shapes /\ kind[d] \in Shapes
             /\ cut[d] # "line" /\ cut'[d] # "line"
  <2>1. on[t] = t /\ client[t] # "answered"
    BY <1>a, <1>b, <1>7 DEF Serving, Parsing
  <2>2. kind[d] \in Shapes /\ cut[d] # "line"
    BY <1>1, <1>7 DEF AnswerOK
  <2>3. HeaderData(t) = OwnHeader(t) /\ ResultData(t) = OwnData(t)
    BY <2>1 DEF HeaderData, ResultData, OwnHeader, OwnData
  <2>4. OwnShape(d) \in Shapes
    BY <2>2 DEF OwnShape, Shapes
  <2> QED
    BY <1>7, <2>1, <2>2, <2>3, <2>4, ExpectedFixed
<1>8. ASSUME NEW t \in Conns, ClearHeader(t) \/ FillHeader(t)
      PROVE  AnswerOK(d)'
  <2>1. /\ pc[t] \in Parsing
        /\ \A u \in Conns : u # t => pc'[u] = pc[u] /\ ans'[u] = ans[u]
        /\ UNCHANGED <<client, on, out, cut, kind>>
    BY <1>8 DEF ClearHeader, FillHeader, TypeInv, TypeOK, Parsing
  <2>2. CASE d # t
    BY <1>6, <2>1, <2>2
  <2>3. CASE d = t /\ ClearHeader(t)
    <3>1. pc'[t] = "fill" /\ hdr' = {}
      BY <2>3 DEF ClearHeader, TypeInv, TypeOK
    <3> QED
      <4>1. pc'[d] = "fill" /\ kind'[d] \in Shapes /\ client'[d] # "answered"
            /\ cut'[d] # "line"
        BY <1>7, <2>1, <2>3, <3>1
      <4> QED
        BY <3>1, <4>1 DEF AnswerOK, Parsing
  <2>4. CASE d = t /\ FillHeader(t)
    <3>1. pc'[t] = "branch" /\ hdr' = OwnHeader(t)
      <4>1. /\ pc[t] = "fill" /\ pc' = [pc EXCEPT ![t] = "branch"]
            /\ hdr' = hdr \cup HeaderData(t)
        BY <2>4 DEF FillHeader
      <4>2. hdr = {}
        BY <1>1, <2>4, <4>1 DEF AnswerOK
      <4>3. HeaderData(t) = OwnHeader(t)
        BY <1>7, <2>1, <2>4
      <4>4. pc'[t] = "branch"
        BY <4>1 DEF TypeInv, TypeOK
      <4> QED
        BY <4>1, <4>2, <4>3, <4>4
    <3> QED
      <4>1. /\ pc'[d] = "branch" /\ kind'[d] \in Shapes /\ client'[d] # "answered"
            /\ hdr' = OwnHeader(d)' /\ cut'[d] # "line"
        BY <1>7, <2>1, <2>4, <3>1
      <4> QED
        BY <4>1 DEF AnswerOK, Parsing
  <2> QED
    BY <1>8, <2>2, <2>3, <2>4
<1>9. ASSUME NEW t \in Conns, Branch(t)
      PROVE  AnswerOK(d)'
  <2>1. /\ pc[t] = "branch" /\ pc'[t] = "result"
        /\ \A u \in Conns : u # t => pc'[u] = pc[u] /\ ans'[u] = ans[u]
        /\ UNCHANGED <<client, on, out, cut, kind>>
    BY <1>9 DEF Branch, TypeInv, TypeOK
  <2>2. CASE d # t
    BY <1>6, <2>1, <2>2 DEF Parsing
  <2>3. CASE d = t
    <3>1. PICK s \in ShapesOf(hdr) :
            /\ ans' = [ans EXCEPT ![t] = Answer(s, {})]
            /\ res' = [res EXCEPT ![s] = {}] \/ res' = [x \in Shapes |-> {}]
      BY <1>9 DEF Branch
    <3>2. s = OwnShape(t)
      <4>1. hdr = OwnHeader(t)
        BY <1>1, <2>1, <2>3 DEF AnswerOK
      <4>2. CASE cut[t] = "body"
        BY <3>1, <4>1, <4>2 DEF ShapesOf, OwnShape, OwnHeader
      <4>3. CASE cut[t] # "body"
        BY <3>1, <4>1, <4>3 DEF ShapesOf, OwnShape, OwnHeader
      <4> QED
        BY <4>2, <4>3
    <3>3. /\ Expected(d)' = Expected(d)
          /\ OwnData(d)' = OwnData(d) /\ OwnShape(d)' = OwnShape(d)
          /\ client'[d] # "answered" /\ OwnShape(d) \in Shapes /\ kind[d] \in Shapes
          /\ cut'[d] # "line"
      BY <1>7, <2>1, <2>3 DEF Parsing
    <3>4. ans'[t] = Answer(OwnShape(t), {}) /\ res'[OwnShape(t)] = {}
      BY <2>3, <3>1, <3>2, <3>3 DEF TypeInv, TypeOK
    <3>5. ans'[d] = Answer(OwnShape(d)', {}) /\ res'[OwnShape(d)'] = {}
      BY <2>3, <3>3, <3>4
    <3> QED
      BY <2>1, <2>3, <3>3, <3>5 DEF AnswerOK, Answer
  <2> QED
    BY <2>2, <2>3
<1>10. ASSUME NEW t \in Conns, FillResult(t)
       PROVE  AnswerOK(d)'
  <2>1. /\ pc[t] = "result" /\ pc'[t] = "copy" /\ ans' = ans
        /\ \A u \in Conns : u # t => pc'[u] = pc[u]
        /\ UNCHANGED <<client, on, out, cut, kind>>
    BY <1>10 DEF FillResult, TypeInv, TypeOK
  <2>2. CASE d # t
    BY <1>6, <2>1, <2>2 DEF Parsing
  <2>3. CASE d = t
    <3>1. ans[t] = Answer(OwnShape(t), {}) /\ ans[t].kind = OwnShape(t)
          /\ res[OwnShape(t)] = {}
      <4>1. ans[t] = Answer(OwnShape(t), {}) /\ res[OwnShape(t)] = {}
        BY <1>1, <2>1, <2>3 DEF AnswerOK
      <4> QED
        BY <4>1 DEF Answer
    <3>2. /\ Expected(d)' = Expected(d) /\ ResultData(t) = OwnData(t)
          /\ OwnData(d)' = OwnData(d) /\ OwnShape(d)' = OwnShape(d)
          /\ client'[d] # "answered" /\ OwnShape(d) \in Shapes /\ kind[d] \in Shapes
          /\ cut'[d] # "line"
      BY <1>7, <2>1, <2>3 DEF Parsing
    <3>3. res'[OwnShape(t)] = OwnData(t)
      BY <1>10, <2>3, <3>1, <3>2 DEF FillResult, TypeInv, TypeOK
    <3>4. ans'[d] = Answer(OwnShape(d)', {}) /\ res'[OwnShape(d)'] = OwnData(d)'
      BY <2>1, <2>3, <3>1, <3>2, <3>3
    <3> QED
      BY <2>1, <2>3, <3>2, <3>4 DEF AnswerOK, Answer
  <2> QED
    BY <2>2, <2>3
<1>11. ASSUME NEW t \in Conns, CopyResult(t)
       PROVE  AnswerOK(d)'
  <2>1. /\ pc[t] = "copy" /\ pc'[t] = "write"
        /\ \A u \in Conns : u # t => pc'[u] = pc[u] /\ ans'[u] = ans[u]
        /\ UNCHANGED <<client, on, out, cut, kind>>
    BY <1>11 DEF CopyResult, TypeInv, TypeOK
  <2>2. CASE d # t
    BY <1>6, <2>1, <2>2 DEF Parsing
  <2>3. CASE d = t
    <3>1. ans[t] = Answer(OwnShape(t), {}) /\ res[OwnShape(t)] = OwnData(t)
      BY <1>1, <2>1, <2>3 DEF AnswerOK
    <3>2. ans'[t] = [ans[t] EXCEPT !.data = res[ans[t].kind]]
      BY <1>11 DEF CopyResult, TypeInv, TypeOK
    <3>3. ans'[t] = Answer(OwnShape(t), OwnData(t))
      BY <3>1, <3>2 DEF Answer
    <3>4. ans'[t] \in Expected(t)
      <4>1. kind[t] \in Shapes /\ cut[t] # "line" /\ cut[t] \in Cuts
        BY <1>7, <2>1, <2>3 DEF Parsing, TypeInv, TypeOK
      <4>2. Expected(t) = {Answer(OwnShape(t), IF cut[t] = "none" THEN {t} ELSE {})}
        BY <4>1 DEF Expected, OwnShape
      <4>3. OwnData(t) = IF cut[t] = "none" THEN {t} ELSE {}
        BY <4>1 DEF OwnData, Cuts
      <4>4. ans'[t] = Answer(OwnShape(t), IF cut[t] = "none" THEN {t} ELSE {})
        BY <3>3, <4>3
      <4> QED
        BY <4>2, <4>4
    <3> QED
      BY <1>7, <2>1, <2>3, <3>4 DEF AnswerOK, Parsing
  <2> QED
    BY <2>2, <2>3
<1>12. ASSUME NEW t \in Conns, WriteResp(t)
       PROVE  AnswerOK(d)'
  <2>1. /\ pc[t] = "write" /\ pc'[t] = "close"
        /\ \A u \in Conns : u # t => pc'[u] = pc[u]
        /\ UNCHANGED <<ans, hdr, res, cut, kind>>
    BY <1>12 DEF WriteResp, TypeInv, TypeOK
  <2>2. Lookup(my[t]) = t
    <3>1. my[t] \in Fds /\ fd[my[t]] = t
      BY <1>a, <2>1 DEF Serving
    <3>2. NoFd \notin Fds
      BY HttpServerAssumption DEF NoFd
    <3> QED
      BY <3>1, <3>2 DEF Lookup
  <2>3. \/ /\ client[t] = "waiting" /\ out' = [out EXCEPT ![t] = ans[t]]
           /\ client' = [client EXCEPT ![t] = "answered"]
        \/ client' = [client EXCEPT ![t] = "reset"] /\ out' = out
        \/ client[t] # "waiting" /\ UNCHANGED <<out, client>>
    BY <1>12, <2>2 DEF WriteResp
  <2>4. CASE d # t
    <3>1. out'[d] = out[d] /\ client'[d] = client[d]
      BY <2>3, <2>4 DEF TypeInv, TypeOK
    <3> QED
      BY <1>1, <2>1, <2>4, <3>1, AnswerFrame
  <2>5. CASE d = t
    <3>1. Expected(d)' = Expected(d) /\ client[t] # "answered"
      BY <1>b, <2>1, <2>5, ExpectedFixed
    <3>2. client'[t] = "answered" => out'[t] \in Expected(t)
      <4>1. ans[t] \in Expected(t) \/ client[t] = "reset"
        BY <1>1, <2>1, <2>5 DEF AnswerOK
      <4>2. client'[t] = "answered" => out'[t] = ans[t] /\ client[t] # "reset"
        BY <2>3, <3>1 DEF TypeInv, TypeOK
      <4> QED
        BY <4>1, <4>2
    <3> QED
      BY <2>1, <2>5, <3>1, <3>2 DEF AnswerOK, Parsing
  <2> QED
    BY <2>4, <2>5
<1>13. ASSUME NEW t \in Conns, Close(t)
       PROVE  AnswerOK(d)'
  <2>1. /\ pc[t] = "close" /\ pc' = [pc EXCEPT ![t] = "done"]
        /\ UNCHANGED <<ans, out, hdr, res, cut, kind>>
    BY <1>13 DEF Close
  <2>2. /\ pc'[d] = pc[d] \/ (pc[d] = "close" /\ pc'[d] = "done")
        /\ client'[d] = "answered" => client[d] = "answered"
        /\ client[d] = "reset" => client'[d] = "reset"
    BY <1>13, <2>1 DEF Close, TypeInv, TypeOK
  <2> QED
    BY <1>1, <2>1, <2>2, AnswerFrame
<1> QED
  BY <1>2, <1>3, <1>4, <1>5, <1>8, <1>9, <1>10, <1>11, <1>12, <1>13
  DEF Next, Rcvdata

-----------------------------------------------------------------------------
(* Every step of clients, accept loop and threads keeps the invariant.     *)
LEMMA StepInv == IInv /\ [Next]_vars => IInv'
<1> SUFFICES ASSUME IInv, [Next]_vars PROVE IInv'
  OBVIOUS
<1>1. CASE Next
  <2>1. TypeInv'
    BY <1>1, ListenerTypes, ThreadTypes DEF Next, IInv
  <2>2. ListenerInv'
    BY <1>1, <2>1, ListenerStep DEF IInv
  <2>3. OwnerInv'
    BY <1>1, <2>1, <2>2, OwnerStep DEF IInv
  <2>4. ParserInv'
    BY <1>1, <2>1, <2>2, <2>3, ParserStep DEF IInv
  <2>5. AnswerInv'
    BY <1>1, <2>1, <2>2, <2>3, <2>4, AnswerStep DEF IInv
  <2> QED
    BY <2>1, <2>2, <2>3, <2>4, <2>5 DEF IInv
<1>2. CASE UNCHANGED vars
  <2> USE <1>2 DEF vars, listener, locals, statics, history
  <2>1. TypeInv' /\ ListenerInv'
    <3>1. TypeInv'
      BY DEF IInv, TypeInv, TypeOK
    <3>2. Unaccepted' = Unaccepted
      BY DEF Unaccepted
    <3> QED
      BY <3>1, <3>2 DEF IInv, ListenerInv
  <2>2. OwnerInv' /\ ParserInv'
    BY DEF IInv, OwnerInv, ParserInv
  <2>3. AnswerInv'
    BY AnswerFrame DEF IInv, AnswerInv
  <2> QED
    BY <2>1, <2>2, <2>3 DEF IInv
<1> QED
  BY <1>1, <1>2

(* The invariant holds in every reachable state.                           *)
THEOREM Invariance == Spec => []IInv
BY InitInv, StepInv, PTL DEF Spec

(* For any number of clients and descriptors: as long as no thread read    *)
(* cfd late, every open descriptor will be closed by the thread of its     *)
(* connection, unless pthread_create failed for that connection, and no    *)
(* client is cut off without a response.                                   *)
THEOREM NoLeak == Spec => []DescriptorsOwned
<1>1. IInv => DescriptorsOwned
  BY DEF IInv, OwnerInv, DescriptorsOwned
<1> QED BY <1>1, Invariance, PTL

(* For any number of clients: the two races, on cfd and on the static      *)
(* buffers of dtparser.c, are the only ways to give a client a response    *)
(* made from the request of another, wherever the only read cut the        *)
(* requests and whatever the overlong memset clears.                       *)
THEOREM RightAnswer == Spec => []OwnAnswer
<1>1. IInv => OwnAnswer
  BY DEF IInv, AnswerInv, AnswerOK, OwnAnswer
<1> QED BY <1>1, Invariance, PTL
=============================================================================
