------------------------------ MODULE Discoverer ------------------------------
(***************************************************************************)
(* richard.test.zk.pubsub.ServiceDiscoverer: getInstanceByName keeps one   *)
(* provider per service, with a check before and a check under lock;       *)
(* close() closes all of them, but is synchronized on the object instead.  *)
(*                                                                         *)
(* Neither the look before the lock nor close() happens after the changes  *)
(* other threads make under the lock.  What such a step reads of the map   *)
(* or the list may therefore be any state since the last one its thread is *)
(* synchronized with.                                                      *)
(***************************************************************************)
EXTENDS Integers, Sequences, Functions

CONSTANTS
  Callers,      \* threads that call getInstanceByName and close
  Services,     \* names of services
  ArrayLength   \* how many elements an ArrayList takes before it moves: 10

ASSUME DiscovererAssumption == "nobody" \notin Callers /\ ArrayLength \in Nat

VARIABLES
  providers,   \* the services in the map
  closeables,  \* closeableList: the service of each provider, in order
  locked,      \* the owner of lock, or "nobody"
  caller,      \* each caller: where it is, and the service it asks for
  seen,        \* how many additions to the list each caller is bound to see
  closer,      \* the call of close(): its thread, what that is bound to see
               \* of the list, and the cursor of its iterator
  closed       \* the providers that were closed, as positions in closeables

discovererVars ==
  <<providers, closeables, locked, caller, seen, closer, closed>>

DiscovererInit ==
  /\ providers = {} /\ closeables = <<>> /\ locked = "nobody" /\ closed = {}
  /\ caller \in [Callers -> [pc : {"get"}, name : Services]]
  /\ seen = [t \in Callers |-> 0]
  /\ closer = [pc |-> "idle", by |-> "nobody", bound |-> 0, cursor |-> 0]

At(t, pc) == caller[t].pc = pc
Goto(t, pc) == caller' = [caller EXCEPT ![t].pc = pc]

(* The first look at the map, without a lock: an entry that another thread *)
(* has just put may be seen or not.                                        *)
Get(t) ==
  /\ At(t, "get")
  /\ \/ caller[t].name \in providers /\ Goto(t, "found")
     \/ Goto(t, "lock")
  /\ UNCHANGED <<providers, closeables, locked, seen, closer, closed>>

(* Mutant: no second look.                                                 *)
EnterBlindly(t) ==
  /\ At(t, "lock") /\ locked = "nobody"
  /\ locked' = t /\ Goto(t, "start")
  /\ seen' = [seen EXCEPT ![t] = Len(closeables)]
  /\ UNCHANGED <<providers, closeables, closer, closed>>

(* The second look, under the lock: the thread now sees what was done      *)
(* under it before.                                                        *)
EnterLock(t) ==
  /\ At(t, "lock") /\ locked = "nobody"
  /\ IF caller[t].name \in providers THEN Goto(t, "found") /\ UNCHANGED locked
     ELSE locked' = t /\ Goto(t, "start")
  /\ seen' = [seen EXCEPT ![t] = Len(closeables)]
  /\ UNCHANGED <<providers, closeables, closer, closed>>

(* provider.start() throws; or the provider is added to the list.          *)
StartProvider(t) ==
  /\ At(t, "start")
  /\ \/ /\ Goto(t, "thrown") /\ locked' = "nobody"
        /\ UNCHANGED <<closeables, seen>>
     \/ /\ Goto(t, "put") /\ UNCHANGED locked
        /\ closeables' = Append(closeables, caller[t].name)
        /\ seen' = [seen EXCEPT ![t] = Len(closeables')]
  /\ UNCHANGED <<providers, closer, closed>>

PutProvider(t) ==
  /\ At(t, "put")
  /\ providers' = providers \cup {caller[t].name}
  /\ locked' = "nobody" /\ Goto(t, "found")
  /\ UNCHANGED <<closeables, seen, closer, closed>>

(* The thread has its instance, or an exception, and may call again.       *)
CallAgain(t) ==
  /\ caller[t].pc \in {"found", "thrown"}
  /\ \E name \in Services : caller' = [caller EXCEPT ![t] = [pc |-> "get", name |-> name]]
  /\ UNCHANGED <<providers, closeables, locked, seen, closer, closed>>

(* One of the threads calls close() between two other calls.               *)
CloseStarts(t) ==
  /\ closer.pc = "idle" /\ caller[t].pc \in {"found", "thrown"}
  /\ closer' = [pc |-> "closing", by |-> t, bound |-> seen[t], cursor |-> 0]
  /\ Goto(t, "close")
  /\ UNCHANGED <<providers, closeables, locked, seen, closed>>

(* The sizes that a read of the list may find.                             *)
SizesSeen == closer.bound .. Len(closeables)

(* The closing thread is bound to see the provider at position p: neither  *)
(* one added since, nor one in an array to which the list was moved since. *)
SurelySeen(p) ==
  /\ p <= closer.bound
  /\ Len(closeables) = closer.bound \/ Len(closeables) <= ArrayLength

CloseReturns(how) ==
  /\ closer' = [closer EXCEPT !.pc = how]
  /\ Goto(closer.by, "found")
  /\ UNCHANGED closed

(* Mutant: the loop stops before the last element.                         *)
CloseNextShort ==
  /\ closer.pc = "closing"
  /\ \/ closer.cursor + 1 \in SizesSeen /\ CloseReturns("closed")
     \/ /\ closer.cursor < Len(closeables)
        /\ closer' = [closer EXCEPT !.cursor = @ + 1]
        /\ closed' = closed \cup {closer.cursor + 1}
        /\ UNCHANGED caller
  /\ UNCHANGED <<providers, closeables, locked, seen>>

(* A turn of the loop over the list: its end, where the cursor meets the   *)
(* size read; the exception, where size, modCount or array do not fit      *)
(* together, each being read by itself; or the next provider, which may be *)
(* seen as null and then is left as it is.                                 *)
CloseNext ==
  /\ closer.pc = "closing"
  /\ \/ closer.cursor \in SizesSeen /\ CloseReturns("closed")
     \/ Len(closeables) > closer.bound /\ CloseReturns("thrown")
     \/ /\ closer.cursor < Len(closeables)
        /\ closer' = [closer EXCEPT !.cursor = @ + 1]
        /\ \/ closed' = closed \cup {closer.cursor + 1}
           \/ ~SurelySeen(closer.cursor + 1) /\ UNCHANGED closed
        /\ UNCHANGED caller
  /\ UNCHANGED <<providers, closeables, locked, seen>>

DiscovererNext ==
  \/ \E t \in Callers :
       \/ Get(t) \/ EnterLock(t) \/ StartProvider(t) \/ PutProvider(t)
       \/ CallAgain(t) \/ CloseStarts(t)
  \/ CloseNext

DiscovererSpec == DiscovererInit /\ [][DiscovererNext]_discovererVars

-----------------------------------------------------------------------------
(* However the two looks interleave, no service gets a second provider,    *)
(* and what the map holds can be closed.                                   *)
OneProviderPerService ==
  /\ IsInjective(closeables)
  /\ providers \subseteq Range(closeables)

(* close() closes every provider that its thread is synchronized with,     *)
(* those it added itself and those added before it last had the lock; but  *)
(* not if others have since moved the list to a larger array.  It fails    *)
(* only if others have added a provider since.                             *)
ClosedUnlessRaced ==
  /\ closer.pc = "closed" =>
       \/ 1 .. closer.bound \subseteq closed
       \/ Len(closeables) > closer.bound /\ Len(closeables) > ArrayLength
  /\ closer.pc = "thrown" => Len(closeables) > closer.bound
=============================================================================
