------------------------------- MODULE Streams -------------------------------
(***************************************************************************)
(* The wrappers of cpp/tcp_concurrent.cc around read and write: Read,      *)
(* Readn, Readline with my_read, Write and Writen, called one after the    *)
(* other by one process on several descriptors.                            *)
(*                                                                         *)
(* A byte is identified by the descriptor it arrives on and its position   *)
(* there.  A call that a signal interrupts is made again by every wrapper: *)
(* a stuttering step.                                                      *)
(***************************************************************************)
EXTENDS Integers, Sequences, FiniteSetsExt

CONSTANTS
  Fds,       \* descriptors
  Sizes,     \* values of n and maxlen
  BufSize,   \* of my_read, 100 in the code
  MaxBytes   \* bound on the bytes that arrive on a descriptor

ASSUME StreamsAssumption ==
  /\ Sizes \subseteq Nat \ {0} /\ BufSize \in Nat \ {0} /\ MaxBytes \in Nat

VARIABLES
  st,    \* each descriptor: bytes that arrived, that were read, and its state
  buf,   \* the read_cnt bytes at read_ptr of my_read
  op     \* the call that is being made, or the last one

streamsVars == <<st, buf, op>>

(* "closed": the peer will send no more; "reset": the next call fails;     *)
(* "gone": reset, and a call has failed; "bad": all calls fail.            *)
States == {"open", "closed", "reset", "gone", "bad"}

Wrappers == {"Read", "Readn", "Readline", "Write", "Writen"}

StreamsInit ==
  /\ st = [fd \in Fds |-> [arrived |-> 0, taken |-> 0, state |-> "open"]]
  /\ buf = <<>>
  /\ op = [busy |-> FALSE, fn |-> "none"]

-----------------------------------------------------------------------------
(* The peer and the network.                                               *)
Arrive(fd) ==
  /\ st[fd].state = "open" /\ st[fd].arrived < MaxBytes
  /\ st' = [st EXCEPT ![fd].arrived = @ + 1]
  /\ UNCHANGED <<buf, op>>

PeerCloses(fd) ==
  /\ st[fd].state = "open"
  /\ st' = [st EXCEPT ![fd].state = "closed"]
  /\ UNCHANGED <<buf, op>>

(* A reset drops the bytes that were not read.                             *)
Reset(fd) ==
  /\ st[fd].state \in {"open", "closed"}
  /\ st' = [st EXCEPT ![fd].arrived = st[fd].taken, ![fd].state = "reset"]
  /\ UNCHANGED <<buf, op>>

(* From now on the descriptor is not one that can be read or written.      *)
GoBad(fd) ==
  /\ st[fd].state = "open"
  /\ st' = [st EXCEPT ![fd].arrived = st[fd].taken, ![fd].state = "bad"]
  /\ UNCHANGED <<buf, op>>

(* The results of read(fd, _, n): a number of bytes, their end, an error.  *)
Counts(fd, n) == 1 .. Min({n, st[fd].arrived - st[fd].taken})
AtEnd(fd) == st[fd].state \in {"closed", "gone"} /\ st[fd].arrived = st[fd].taken
Fails(fd) == st[fd].state \in {"reset", "bad"}

Take(fd, k) == st' = [st EXCEPT ![fd].taken = @ + k]
NextBytes(fd, k) == [i \in 1 .. k |-> <<fd, st[fd].taken + i>>]

(* A reset is reported once.                                               *)
Reported(fd) == st' = [st EXCEPT ![fd].state = IF @ = "reset" THEN "gone" ELSE @]

-----------------------------------------------------------------------------
Call(fn, fd, n) ==
  /\ ~op.busy /\ op.fn # "killed"
  /\ op' = [busy |-> TRUE, fn |-> fn, fd |-> fd, n |-> n, ret |-> 0,
            got |-> <<>>, put |-> 0, from |-> st[fd].taken, rest |-> buf]
  /\ UNCHANGED <<st, buf>>

In(fns) == op.busy /\ op.fn \in fns
Returns(o, r) == op' = [o EXCEPT !.busy = FALSE, !.ret = r]

(* Mutant: ptr is not moved on, and what follows is read over what came.   *)
ReadSomeOver ==
  /\ In({"Read", "Readn"})
  /\ \E k \in Counts(op.fd, op.n - Len(op.got)) :
       LET o == [op EXCEPT !.got = NextBytes(op.fd, k)]
       IN /\ Take(op.fd, k)
          /\ IF op.fn = "Read" \/ Len(o.got) = op.n THEN Returns(o, Len(o.got))
             ELSE op' = o
  /\ UNCHANGED buf

(* Readn goes on until nleft is zero, Read returns.                        *)
ReadSome ==
  /\ In({"Read", "Readn"})
  /\ \E k \in Counts(op.fd, op.n - Len(op.got)) :
       LET o == [op EXCEPT !.got = @ \o NextBytes(op.fd, k)]
       IN /\ Take(op.fd, k)
          /\ IF op.fn = "Read" \/ Len(o.got) = op.n THEN Returns(o, Len(o.got))
             ELSE op' = o
  /\ UNCHANGED buf

ReadEnd ==
  /\ In({"Read", "Readn"}) /\ AtEnd(op.fd)
  /\ Returns(op, Len(op.got))
  /\ UNCHANGED <<st, buf>>

(* Read returns -1.  Readn assigns EINTR to errno where it should compare, *)
(* takes every error for an interrupt, and reads again.                    *)
ReadFails ==
  /\ In({"Read", "Readn"}) /\ Fails(op.fd)
  /\ Reported(op.fd)
  /\ IF op.fn = "Read" THEN Returns(op, -1) ELSE UNCHANGED op
  /\ UNCHANGED buf

-----------------------------------------------------------------------------
(* A byte from my_read.  The comparison of c with the string "\n" is one   *)
(* with an address and never true: only the length ends the line.          *)
Deliver(byte) ==
  LET o == [op EXCEPT !.got = Append(@, byte)]
  IN IF Len(o.got) = op.n - 1 THEN Returns(o, op.n) ELSE op' = o

LineWithoutRoom ==
  /\ In({"Readline"}) /\ op.n = 1
  /\ Returns(op, 1)
  /\ UNCHANGED <<st, buf>>

LineFromBuffer ==
  /\ In({"Readline"}) /\ op.n > 1 /\ buf # <<>>
  /\ Deliver(Head(buf))
  /\ buf' = Tail(buf)
  /\ UNCHANGED st

(* Mutant: read_ptr is moved on before the first byte is taken.            *)
LineFillsSkipping ==
  /\ In({"Readline"}) /\ op.n > 1 /\ buf = <<>>
  /\ \E k \in Counts(op.fd, BufSize) :
       LET b == NextBytes(op.fd, k)
       IN Take(op.fd, k) /\ Deliver(b[Len(b)]) /\ buf' = Tail(b)

LineFills ==
  /\ In({"Readline"}) /\ op.n > 1 /\ buf = <<>>
  /\ \E k \in Counts(op.fd, BufSize) :
       LET b == NextBytes(op.fd, k)
       IN Take(op.fd, k) /\ Deliver(Head(b)) /\ buf' = Tail(b)

(* Mutant: the end of the stream is not looked for.                        *)
LineEndIgnored == FALSE /\ UNCHANGED streamsVars

LineEnd ==
  /\ In({"Readline"}) /\ op.n > 1 /\ buf = <<>> /\ AtEnd(op.fd)
  /\ Returns(op, Len(op.got))
  /\ UNCHANGED <<st, buf>>

LineFails ==
  /\ In({"Readline"}) /\ op.n > 1 /\ buf = <<>> /\ Fails(op.fd)
  /\ Reported(op.fd)
  /\ Returns(op, -1)
  /\ UNCHANGED buf

-----------------------------------------------------------------------------
(* Writen goes on until nleft is zero, Write returns what was written.     *)
WriteSome ==
  /\ In({"Write", "Writen"}) /\ st[op.fd].state \in {"open", "closed"}
  /\ \E k \in 1 .. op.n - op.put :
       LET o == [op EXCEPT !.put = @ + k]
       IN IF op.fn = "Write" \/ o.put = op.n THEN Returns(o, o.put) ELSE op' = o
  /\ UNCHANGED <<st, buf>>

WriteFails ==
  /\ In({"Write", "Writen"}) /\ Fails(op.fd)
  /\ Reported(op.fd)
  /\ Returns(op, -1)
  /\ UNCHANGED buf

(* Nobody handles SIGPIPE.                                                 *)
BrokenPipe ==
  /\ In({"Write", "Writen"}) /\ st[op.fd].state = "gone"
  /\ op' = [op EXCEPT !.busy = FALSE, !.fn = "killed"]
  /\ UNCHANGED <<st, buf>>

-----------------------------------------------------------------------------
Wrapper ==
  \/ ReadSome \/ ReadEnd \/ ReadFails
  \/ LineWithoutRoom \/ LineFromBuffer \/ LineFills \/ LineEnd \/ LineFails
  \/ WriteSome \/ WriteFails \/ BrokenPipe

StreamsNext ==
  \/ \E fd \in Fds : Arrive(fd) \/ PeerCloses(fd) \/ Reset(fd) \/ GoBad(fd)
  \/ \E fn \in Wrappers, fd \in Fds, n \in Sizes : Call(fn, fd, n)
  \/ Wrapper

StreamsSpec == StreamsInit /\ [][StreamsNext]_streamsVars

-----------------------------------------------------------------------------
Returned(fns) == ~op.busy /\ op.fn \in fns

(* Read and Readn return the next bytes of their descriptor in order, and  *)
(* say how many; Readn less than it was asked for only after the end, or   *)
(* an error that it does not tell from the end.  Writen returns n exactly  *)
(* if all n bytes were written, and -1 otherwise.                          *)
TransfersExact ==
  /\ Returned({"Read", "Readn"}) =>
       /\ op.got = [i \in 1 .. Len(op.got) |-> <<op.fd, op.from + i>>]
       /\ \/ op.ret = Len(op.got)
          \/ op.ret = -1 /\ op.fn = "Read" /\ op.got = <<>>
       /\ op.ret < op.n => op.fn = "Read" \/ st[op.fd].state # "open"
  /\ Returned({"Writen"}) =>
       op.ret = IF op.put = op.n THEN op.n ELSE -1

(* What Readline returns begins with what my_read had left over when it    *)
(* was called, whichever descriptor that came from; the next bytes of its  *)
(* own descriptor follow.  It is maxlen - 1 bytes long, and then maxlen is *)
(* returned, unless the descriptor ended or failed.                        *)
LineIsRestThenStream ==
  Returned({"Readline"}) =>
    /\ \A i \in DOMAIN op.got :
         op.got[i] = IF i <= Len(op.rest) THEN op.rest[i]
                     ELSE <<op.fd, op.from + i - Len(op.rest)>>
    /\ IF op.ret = op.n THEN Len(op.got) = op.n - 1
       ELSE /\ op.ret \in {Len(op.got), -1} /\ Len(op.got) < op.n - 1
            /\ st[op.fd].state # "open"

(* Readn, which takes every error of read for an interrupt, on a bad       *)
(* descriptor.                                                             *)
ReadsForEver == op.busy /\ op.fn = "Readn" /\ st[op.fd].state = "bad"

(* A call on a connection that has ended or failed returns, except Readn   *)
(* on a bad descriptor, which never does.                                  *)
CallsReturn ==
  /\ (op.busy /\ st[op.fd].state # "open" /\ ~ReadsForEver) ~> ~op.busy
  /\ [](ReadsForEver => []ReadsForEver)
=============================================================================
