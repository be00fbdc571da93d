------------------------------- MODULE ConPool -------------------------------
(***************************************************************************)
(* cpp/mysql/dbpool.c: a fixed array of MySQL connections with a busy flag *)
(* per slot and a counter of busy connections.  The pool is used by the    *)
(* parts (Borrowers) of one single-threaded program: each borrower gives   *)
(* back only connections it holds, as main does, or the NULL that get_con  *)
(* returned when the pool was exhausted.                                   *)
(***************************************************************************)
EXTENDS Integers, FiniteSets

CONSTANTS
  MaxConnections,  \* MAX_CONNECTIONS
  Handles,         \* addresses mysql_init may return
  Borrowers,       \* parts of the program that use the pool
  NoCon            \* NULL

ASSUME ConPoolAssumption ==
  /\ MaxConnections \in Nat \ {0}
  /\ NoCon \notin Handles

VARIABLES
  phase,   \* "none", "filling" (inside init_pool), "ready", "exited"
  flag,    \* ppool->flag
  busy,    \* ppool->busy
  cons,    \* ppool->cons
  filled,  \* loop variable i of init_pool
  open,    \* connections the server has open
  held     \* pointers each borrower got and has not released

poolVars == <<phase, flag, busy, cons, filled, open, held>>

Slots == 0 .. (MaxConnections - 1)

BusySlots == {i \in Slots : flag[i] = 1}

PoolTypeOK ==
  /\ phase \in {"none", "filling", "ready", "exited"}
  /\ flag \in [Slots -> {0, 1}]
  /\ busy \in Int
  /\ cons \in [Slots -> Handles \cup {NoCon}]
  /\ filled \in 0 .. MaxConnections
  /\ open \subseteq Handles
  /\ held \in [Borrowers -> SUBSET Handles]

PoolInit ==
  /\ phase = "none"
  /\ flag = [i \in Slots |-> 0] /\ busy = 0
  /\ cons = [i \in Slots |-> NoCon]
  /\ filled = 0
  /\ open = {}
  /\ held = [b \in Borrowers |-> {}]

-----------------------------------------------------------------------------
(* createConPool, the first call of init_pool.  A new pool knows nothing   *)
(* of pointers got from an earlier one; callers that still kept some could *)
(* pass them to release_con, so they are taken to have dropped them first. *)
CreateConPool ==
  /\ phase = "none"
  /\ \A b \in Borrowers : held[b] = {}
  /\ phase' = "filling"
  /\ flag' = [i \in Slots |-> 0]
  /\ busy' = 0
  /\ cons' = [i \in Slots |-> NoCon]
  /\ filled' = 0
  /\ UNCHANGED <<open, held>>

(* One turn of the loop of init_pool: mysql_init returns the address of no *)
(* connection in use, and init_con exits the process when the server       *)
(* cannot be reached.                                                      *)
InitCon ==
  /\ phase = "filling" /\ filled < MaxConnections
  /\ \/ \E h \in Handles \ open :
          /\ open' = open \cup {h}
          /\ cons' = [cons EXCEPT ![filled] = h]
          /\ filled' = filled + 1
          /\ phase' = IF filled' = MaxConnections THEN "ready" ELSE "filling"
     \/ /\ phase' = "exited"
        /\ open' = {}
        /\ UNCHANGED <<cons, filled>>
  /\ UNCHANGED <<flag, busy, held>>

(* Mutant: the scan ends one slot early.                                   *)
FirstIdleShort(i) ==
  /\ i < MaxConnections - 1
  /\ flag[i] = 0 /\ \A j \in Slots : j < i => flag[j] = 1

(* The scan of get_con stops at the first idle slot.                       *)
FirstIdle(i) == flag[i] = 0 /\ \A j \in Slots : j < i => flag[j] = 1

(* Mutant: a slot is handed out without being marked.                      *)
GetConUnmarked(b) ==
  /\ phase = "ready"
  /\ \E i \in Slots :
       /\ FirstIdle(i)
       /\ held' = [held EXCEPT ![b] = @ \cup {cons[i]}]
       /\ busy' = busy + 1
  /\ UNCHANGED <<phase, flag, cons, filled, open>>

GetCon(b) ==
  /\ phase = "ready"
  /\ \/ \E i \in Slots :
          /\ FirstIdle(i)
          /\ flag' = [flag EXCEPT ![i] = 1]
          /\ busy' = busy + 1
          /\ held' = [held EXCEPT ![b] = @ \cup {cons[i]}]
     \/ /\ \A i \in Slots : flag[i] = 1
        /\ UNCHANGED <<flag, busy, held>>
  /\ UNCHANGED <<phase, cons, filled, open>>

(* The scan of release_con stops at the first slot that holds pcon.        *)
FirstSlotOf(i, pcon) ==
  cons[i] = pcon /\ \A j \in Slots : j < i => cons[j] # pcon

(* Mutant: the counter is decremented whether or not pcon is found.        *)
ReleaseConMiscounted(b, pcon) ==
  /\ phase = "ready"
  /\ \/ \E i \in Slots :
          /\ FirstSlotOf(i, pcon)
          /\ flag' = [flag EXCEPT ![i] = 0]
     \/ /\ \A i \in Slots : cons[i] # pcon
        /\ UNCHANGED flag
  /\ busy' = busy - 1
  /\ held' = [held EXCEPT ![b] = @ \ {pcon}]
  /\ UNCHANGED <<phase, cons, filled, open>>

ReleaseCon(b, pcon) ==
  /\ phase = "ready"
  /\ \/ \E i \in Slots :
          /\ FirstSlotOf(i, pcon)
          /\ flag' = [flag EXCEPT ![i] = 0]
          /\ busy' = busy - 1
     \/ /\ \A i \in Slots : cons[i] # pcon
        /\ UNCHANGED <<flag, busy>>
  /\ held' = [held EXCEPT ![b] = @ \ {pcon}]
  /\ UNCHANGED <<phase, cons, filled, open>>

(* Mutant: destroy_pool closes idle connections only.                      *)
DestroyPoolIdle ==
  /\ phase = "ready"
  /\ phase' = "none"
  /\ open' = open \ {cons[i] : i \in Slots \ BusySlots}
  /\ UNCHANGED <<flag, busy, cons, filled, held>>

(* Every connection is closed, lent or not, and the pool freed.  Borrowers *)
(* keep the pointers they have not released, as main keeps con1 and con2.  *)
DestroyPool ==
  /\ phase = "ready"
  /\ phase' = "none"
  /\ open' = open \ {cons[i] : i \in Slots}
  /\ UNCHANGED <<flag, busy, cons, filled, held>>

(* The variables of a borrower of a destroyed pool go out of scope.        *)
Forget(b) ==
  /\ phase = "none" /\ held[b] # {}
  /\ held' = [held EXCEPT ![b] = {}]
  /\ UNCHANGED <<phase, flag, busy, cons, filled, open>>

PoolNext ==
  \/ CreateConPool
  \/ InitCon
  \/ DestroyPool
  \/ \E b \in Borrowers :
       \/ GetCon(b)
       \/ \E pcon \in held[b] \cup {NoCon} : ReleaseCon(b, pcon)
       \/ Forget(b)

PoolSpec == PoolInit /\ [][PoolNext]_poolVars

-----------------------------------------------------------------------------
Lent == UNION {held[b] : b \in Borrowers}

(* The counter busy is the number of slots marked busy, through any        *)
(* sequence of get_con, release_con, destruction and re-creation.          *)
BusyCounts == phase \in {"filling", "ready"} => busy = Cardinality(BusySlots)

(* A connection is lent exactly when its slot is marked busy: get_con      *)
(* neither lends one twice nor loses one that was given back.              *)
LentIsBusy == phase = "ready" => Lent = {cons[i] : i \in BusySlots}

(* No connection is held by two borrowers at once.                         *)
NoSharing ==
  \A b, c \in Borrowers : b # c => held[b] \cap held[c] = {}

(* While there is a pool the server has open exactly its connections, and  *)
(* whatever a borrower holds is one of them; destroy_pool leaves none open *)
(* at the server, so that a pointer held beyond it is always a closed one. *)
PoolOwnsConnections ==
  /\ phase = "ready" => open = {cons[i] : i \in Slots} /\ Lent \subseteq open
  /\ phase = "none" => open = {}

(* get_con refuses only when MAX_CONNECTIONS connections are lent: as long *)
(* as fewer are, its scan finds a slot, however calls were ordered.        *)
RefusedOnlyWhenExhausted ==
  phase = "ready" /\ Cardinality(Lent) < MaxConnections =>
    \E i \in Slots : FirstIdle(i)
=============================================================================
