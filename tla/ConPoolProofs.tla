---------------------------- MODULE ConPoolProofs ----------------------------
(* Proofs about the connection pool of cpp/mysql/dbpool.c.                 *)
EXTENDS ConPool, FiniteSetTheorems, FunctionTheorems, WellFoundedInduction, TLAPS

(* What each phase means for the slots: while init_pool fills them nothing *)
(* is lent, and the server has open exactly the connections stored so far. *)
PhaseInv ==
  /\ phase = "filling" => filled < MaxConnections /\ BusySlots = {}
  /\ phase = "ready" => filled = MaxConnections
  /\ phase \in {"filling", "exited"} => \A b \in Borrowers : held[b] = {}
  /\ phase \in {"none", "exited"} => open = {}

(* The slots filled so far hold different open connections.                *)
SlotsInv ==
  phase \in {"filling", "ready"} =>
    /\ \A i \in Slots : i < filled => cons[i] \in open
    /\ \A i, j \in Slots :
         i < filled /\ j < filled /\ i # j => cons[i] # cons[j]
    /\ \A h \in open : \E i \in Slots : i < filled /\ cons[i] = h

(* LentIsBusy, one connection at a time.                                   *)
HeldInv ==
  phase = "ready" =>
    /\ \A i \in Slots : flag[i] = 1 => \E b \in Borrowers : cons[i] \in held[b]
    /\ \A b \in Borrowers : \A h \in held[b] :
         \E i \in Slots : flag[i] = 1 /\ cons[i] = h

IInv ==
  /\ PoolTypeOK
  /\ PhaseInv
  /\ SlotsInv
  /\ HeldInv
  /\ BusyCounts
  /\ NoSharing

-----------------------------------------------------------------------------
(* The slots form a finite set, and so does every subset of them.          *)
LEMMA BusyFinite == IsFiniteSet(BusySlots)
<1>1. IsFiniteSet(Slots)
  BY FS_Interval, ConPoolAssumption DEF Slots
<1> QED
  BY <1>1, FS_Subset DEF BusySlots

(* Marking an idle slot adds one to the number of busy slots.              *)
LEMMA MarkSlot ==
  ASSUME PoolTypeOK, NEW i \in Slots, flag[i] = 0,
         flag' = [flag EXCEPT ![i] = 1]
  PROVE  Cardinality(BusySlots') = Cardinality(BusySlots) + 1
<1>1. BusySlots' = BusySlots \cup {i} /\ i \notin BusySlots
  BY DEF BusySlots, PoolTypeOK
<1> QED
  BY <1>1, BusyFinite, FS_AddElement

(* Clearing a busy slot takes one from the number of busy slots.           *)
LEMMA ClearSlot ==
  ASSUME PoolTypeOK, NEW i \in Slots, flag[i] = 1,
         flag' = [flag EXCEPT ![i] = 0]
  PROVE  Cardinality(BusySlots') = Cardinality(BusySlots) - 1
<1>1. BusySlots' = BusySlots \ {i} /\ i \in BusySlots
  BY DEF BusySlots, PoolTypeOK
<1> QED
  BY <1>1, BusyFinite, FS_RemoveElement

(* A pool that does not exist yet satisfies the invariant.                 *)
LEMMA InitInv == PoolInit => IInv
<1> SUFFICES ASSUME PoolInit PROVE IInv
  OBVIOUS
<1> USE ConPoolAssumption
<1>1. PoolTypeOK
  BY DEF PoolInit, PoolTypeOK, Slots
<1> QED
  BY <1>1 DEF PoolInit, IInv, PhaseInv, SlotsInv, HeldInv, BusyCounts, NoSharing

(* init_pool: the flags are cleared, then each slot gets a fresh           *)
(* connection.                                                             *)
LEMMA FillInv ==
  ASSUME IInv, CreateConPool \/ InitCon
  PROVE  IInv'
<1> USE ConPoolAssumption
<1>1. CASE CreateConPool
  <2>1. PoolTypeOK'
    BY <1>1 DEF CreateConPool, IInv, PoolTypeOK
  <2>2. BusySlots' = {}
    BY <1>1 DEF CreateConPool, BusySlots
  <2>3. PhaseInv' /\ SlotsInv' /\ HeldInv' /\ NoSharing'
    BY <1>1, <2>2
    DEF CreateConPool, IInv, PhaseInv, SlotsInv, HeldInv, NoSharing, Slots
  <2>4. BusyCounts'
    BY <1>1, <2>2, FS_EmptySet DEF CreateConPool, BusyCounts
  <2> QED
    BY <2>1, <2>3, <2>4 DEF IInv
<1>2. CASE InitCon
  <2>1. BusySlots' = BusySlots
    BY <1>2 DEF InitCon, BusySlots
  <2>2. CASE phase' = "exited" /\ open' = {} /\ UNCHANGED <<cons, filled>>
    BY <1>2, <2>1, <2>2
    DEF InitCon, IInv, PoolTypeOK, PhaseInv, SlotsInv, HeldInv, BusyCounts,
        NoSharing
  <2>3. ASSUME NEW h \in Handles \ open, open' = open \cup {h},
               cons' = [cons EXCEPT ![filled] = h], filled' = filled + 1,
               phase' = IF filled' = MaxConnections THEN "ready"
                        ELSE "filling"
        PROVE  IInv'
    <3>0. filled \in Slots /\ phase = "filling" /\ BusySlots = {}
      BY <1>2 DEF InitCon, IInv, PoolTypeOK, PhaseInv, Slots
    <3>1. PoolTypeOK'
      BY <1>2, <2>3, <3>0 DEF InitCon, IInv, PoolTypeOK, Slots
    <3>2. PhaseInv'
      BY <1>2, <2>1, <2>3, <3>0 DEF InitCon, IInv, PoolTypeOK, PhaseInv, Slots
    <3>3. SlotsInv'
      <4>1. \A i \in Slots : i < filled' => cons'[i] \in open'
        BY <2>3, <3>0 DEF IInv, PoolTypeOK, SlotsInv, Slots
      <4>2. \A i, j \in Slots :
              i < filled' /\ j < filled' /\ i # j => cons'[i] # cons'[j]
        BY <2>3, <3>0 DEF IInv, PoolTypeOK, SlotsInv, Slots
      <4>3. \A g \in open' : \E i \in Slots : i < filled' /\ cons'[i] = g
        BY <2>3, <3>0 DEF IInv, PoolTypeOK, SlotsInv, Slots
      <4> QED
        BY <4>1, <4>2, <4>3 DEF SlotsInv
    <3>4. HeldInv' /\ NoSharing'
      BY <1>2, <2>3, <3>0
      DEF InitCon, IInv, PhaseInv, HeldInv, NoSharing, BusySlots
    <3>5. BusyCounts'
      BY <1>2, <2>1, <3>0 DEF InitCon, IInv, BusyCounts
    <3> QED
      BY <3>1, <3>2, <3>3, <3>4, <3>5 DEF IInv
  <2> QED
    BY <1>2, <2>2, <2>3 DEF InitCon
<1> QED
  BY <1>1, <1>2

(* get_con: the slot it marks held a connection nobody had.                *)
LEMMA GetInv ==
  ASSUME IInv, NEW b \in Borrowers, GetCon(b)
  PROVE  IInv'
<1> USE ConPoolAssumption
<1>1. phase = "ready" /\ UNCHANGED <<phase, cons, filled, open>>
  BY DEF GetCon
<1>2. CASE UNCHANGED <<flag, busy, held>>
  BY <1>1, <1>2 DEF IInv, PoolTypeOK, PhaseInv, SlotsInv, HeldInv, BusyCounts,
                    NoSharing, BusySlots
<1>3. ASSUME NEW i \in Slots, FirstIdle(i), flag' = [flag EXCEPT ![i] = 1],
             busy' = busy + 1, held' = [held EXCEPT ![b] = @ \cup {cons[i]}]
      PROVE  IInv'
  <2>0. flag[i] = 0
    BY <1>3 DEF FirstIdle
  <2>1. cons[i] \in open /\ filled = MaxConnections
    BY <1>1 DEF IInv, PhaseInv, SlotsInv, Slots
  <2>2. \A c \in Borrowers : cons[i] \notin held[c]
    <3> SUFFICES ASSUME NEW c \in Borrowers, cons[i] \in held[c]
                 PROVE  FALSE
      OBVIOUS
    <3>1. PICK j \in Slots : flag[j] = 1 /\ cons[j] = cons[i]
      BY <1>1 DEF IInv, HeldInv
    <3> QED
      BY <1>1, <2>0, <2>1, <3>1 DEF IInv, SlotsInv, Slots
  <2>3. PoolTypeOK'
    BY <1>1, <1>3, <2>1 DEF IInv, PoolTypeOK
  <2>4. PhaseInv' /\ SlotsInv'
    BY <1>1, <1>3, <2>1 DEF IInv, PhaseInv, SlotsInv
  <2>5. HeldInv'
    <3>1. ASSUME NEW j \in Slots, flag'[j] = 1
          PROVE  \E c \in Borrowers : cons'[j] \in held'[c]
      BY <1>1, <1>3, <3>1 DEF IInv, PoolTypeOK, HeldInv
    <3>2. ASSUME NEW c \in Borrowers, NEW h \in held'[c]
          PROVE  \E j \in Slots : flag'[j] = 1 /\ cons'[j] = h
      BY <1>1, <1>3, <3>2 DEF IInv, PoolTypeOK, HeldInv
    <3> QED
      BY <3>1, <3>2 DEF HeldInv
  <2>6. BusyCounts'
    BY <1>1, <1>3, <2>0, MarkSlot DEF IInv, BusyCounts
  <2>7. NoSharing'
    BY <1>3, <2>2 DEF IInv, PoolTypeOK, NoSharing
  <2> QED
    BY <2>3, <2>4, <2>5, <2>6, <2>7 DEF IInv
<1> QED
  BY <1>2, <1>3 DEF GetCon

(* release_con: the slot found is the one marked when pcon was lent.       *)
LEMMA ReleaseInv ==
  ASSUME IInv, NEW b \in Borrowers, NEW pcon \in held[b] \cup {NoCon},
         ReleaseCon(b, pcon)
  PROVE  IInv'
<1> USE ConPoolAssumption
<1>1. /\ phase = "ready" /\ UNCHANGED <<phase, cons, filled, open>>
      /\ held' = [held EXCEPT ![b] = @ \ {pcon}]
  BY DEF ReleaseCon
<1>2. PoolTypeOK'
  BY <1>1 DEF ReleaseCon, IInv, PoolTypeOK
<1>3. PhaseInv' /\ SlotsInv'
  BY <1>1 DEF IInv, PhaseInv, SlotsInv
<1>4. NoSharing'
  BY <1>1 DEF IInv, PoolTypeOK, NoSharing
<1>5. CASE UNCHANGED <<flag, busy>> /\ \A i \in Slots : cons[i] # pcon
  <2>1. pcon \notin held[b]
    BY <1>1, <1>5 DEF IInv, HeldInv
  <2>2. held' = held
    BY <1>1, <2>1 DEF IInv, PoolTypeOK
  <2>3. HeldInv' /\ BusyCounts'
    BY <1>1, <1>5, <2>2 DEF IInv, HeldInv, BusyCounts, BusySlots
  <2> QED
    BY <1>2, <1>3, <1>4, <2>3 DEF IInv
<1>6. ASSUME NEW i \in Slots, FirstSlotOf(i, pcon),
             flag' = [flag EXCEPT ![i] = 0], busy' = busy - 1
      PROVE  IInv'
  <2>1. cons[i] = pcon /\ filled = MaxConnections
    BY <1>1, <1>6 DEF FirstSlotOf, IInv, PhaseInv
  <2>2. pcon \in held[b]
    <3>1. cons[i] \in Handles
      BY <1>1, <2>1 DEF IInv, PoolTypeOK, SlotsInv, Slots
    <3> QED
      BY <2>1, <3>1
  <2>3. \A j \in Slots : cons[j] = pcon => j = i
    BY <1>1, <2>1 DEF IInv, SlotsInv, Slots
  <2>4. flag[i] = 1
    BY <1>1, <2>2, <2>3 DEF IInv, HeldInv
  <2>5. HeldInv'
    <3>1. ASSUME NEW j \in Slots, flag'[j] = 1
          PROVE  \E c \in Borrowers : cons'[j] \in held'[c]
      <4>1. j # i /\ flag[j] = 1
        BY <1>6, <3>1 DEF IInv, PoolTypeOK
      <4>2. PICK c \in Borrowers : cons[j] \in held[c]
        BY <1>1, <4>1 DEF IInv, HeldInv
      <4> QED
        BY <1>1, <2>3, <4>1, <4>2 DEF IInv, PoolTypeOK
    <3>2. ASSUME NEW c \in Borrowers, NEW h \in held'[c]
          PROVE  \E j \in Slots : flag'[j] = 1 /\ cons'[j] = h
      <4>1. h \in held[c] /\ h # pcon
        BY <1>1, <2>2, <3>2 DEF IInv, PoolTypeOK, NoSharing
      <4>2. PICK j \in Slots : flag[j] = 1 /\ cons[j] = h
        BY <1>1, <4>1 DEF IInv, HeldInv
      <4> QED
        BY <1>1, <1>6, <2>1, <4>1, <4>2 DEF IInv, PoolTypeOK
    <3> QED
      BY <3>1, <3>2 DEF HeldInv
  <2>6. BusyCounts'
    <3>1. Cardinality(BusySlots') = Cardinality(BusySlots) - 1
      BY <1>6, <2>4, ClearSlot DEF IInv
    <3> QED
      BY <1>1, <1>6, <3>1 DEF IInv, BusyCounts
  <2> QED
    BY <1>2, <1>3, <1>4, <2>5, <2>6 DEF IInv
<1> QED
  BY <1>5, <1>6 DEF ReleaseCon

(* Every step of the program preserves the invariant.                      *)
LEMMA StepInv == IInv /\ [PoolNext]_poolVars => IInv'
<1> SUFFICES ASSUME IInv, [PoolNext]_poolVars PROVE IInv'
  OBVIOUS
<1>1. CASE CreateConPool \/ InitCon
  BY <1>1, FillInv
<1>2. CASE DestroyPool
  <2>1. open' = {}
    BY <1>2 DEF DestroyPool, IInv, PhaseInv, SlotsInv, Slots
  <2> QED
    BY <1>2, <2>1 DEF DestroyPool, IInv, PoolTypeOK, PhaseInv, SlotsInv, HeldInv,
                      BusyCounts, NoSharing
<1>3. ASSUME NEW b \in Borrowers, GetCon(b)
      PROVE  IInv'
  BY <1>3, GetInv
<1>4. ASSUME NEW b \in Borrowers, NEW pcon \in held[b] \cup {NoCon},
             ReleaseCon(b, pcon)
      PROVE  IInv'
  BY <1>4, ReleaseInv
<1>5. ASSUME NEW b \in Borrowers, Forget(b)
      PROVE  IInv'
  BY <1>5 DEF Forget, IInv, PoolTypeOK, PhaseInv, SlotsInv, HeldInv, BusyCounts,
              NoSharing, BusySlots
<1>6. CASE UNCHANGED poolVars
  BY <1>6 DEF poolVars, IInv, PoolTypeOK, PhaseInv, SlotsInv, HeldInv, BusyCounts,
              NoSharing, BusySlots
<1> QED
  BY <1>1, <1>2, <1>3, <1>4, <1>5, <1>6 DEF PoolNext

(* The invariant holds in every reachable state.                           *)
THEOREM Invariance == PoolSpec => []IInv
BY InitInv, StepInv, PTL DEF PoolSpec

(* Type correctness of the pool and its borrowers.                         *)
THEOREM TypeCorrect == PoolSpec => []PoolTypeOK
<1>1. IInv => PoolTypeOK
  BY DEF IInv
<1> QED BY <1>1, Invariance, PTL

(* busy always counts the busy flags, for every size of the pool.          *)
THEOREM CounterIsRight == PoolSpec => []BusyCounts
<1>1. IInv => BusyCounts
  BY DEF IInv
<1> QED BY <1>1, Invariance, PTL

(* The lent connections are exactly the ones marked busy.                  *)
THEOREM LentMarked == PoolSpec => []LentIsBusy
<1>1. IInv => LentIsBusy
  <2> SUFFICES ASSUME IInv, phase = "ready"
               PROVE  Lent = {cons[i] : i \in BusySlots}
    BY DEF LentIsBusy
  <2>1. \A h \in Lent : \E i \in BusySlots : cons[i] = h
    BY DEF IInv, HeldInv, Lent, BusySlots
  <2>2. \A i \in BusySlots : cons[i] \in Lent
    BY DEF IInv, HeldInv, Lent, BusySlots
  <2> QED
    BY <2>1, <2>2
<1> QED BY <1>1, Invariance, PTL

(* No connection is held by two borrowers.                                 *)
THEOREM Exclusive == PoolSpec => []NoSharing
<1>1. IInv => NoSharing
  BY DEF IInv
<1> QED BY <1>1, Invariance, PTL

(* The open connections are those of the pool, what is lent is among them, *)
(* and no connection, lent or not, outlives destroy_pool.                  *)
THEOREM OwnsConnections == PoolSpec => []PoolOwnsConnections
<1>1. IInv => PoolOwnsConnections
  <2> SUFFICES ASSUME IInv PROVE PoolOwnsConnections
    OBVIOUS
  <2>1. ASSUME phase = "ready", NEW b \in Borrowers, NEW h \in held[b]
        PROVE  h \in open
    <3>1. phase = "ready" /\ filled = MaxConnections
      BY <2>1 DEF IInv, PhaseInv
    <3>2. PICK i \in Slots : cons[i] = h
      BY <2>1, <3>1 DEF IInv, HeldInv
    <3> QED
      BY <3>1, <3>2, ConPoolAssumption DEF IInv, SlotsInv, Slots
  <2>2. phase = "none" => open = {}
    BY DEF IInv, PhaseInv
  <2>3. ASSUME phase = "ready"
        PROVE  open = {cons[i] : i \in Slots}
    <3>1. \A i \in Slots : i < filled
      BY <2>3, ConPoolAssumption DEF IInv, PhaseInv, Slots
    <3> QED
      BY <2>3, <3>1 DEF IInv, SlotsInv
  <2> QED
    BY <2>1, <2>2, <2>3 DEF PoolOwnsConnections, Lent
<1> QED BY <1>1, Invariance, PTL

(* A pool with an idle slot has a first one.                               *)
LEMMA FirstIdleExists ==
  ASSUME PoolTypeOK, NEW k \in Slots, flag[k] = 0
  PROVE  \E i \in Slots : FirstIdle(i)
<1> DEFINE Idle == {i \in Slots : flag[i] = 0}
<1>1. Slots \subseteq Nat
  BY ConPoolAssumption DEF Slots
<1>2. PICK i \in Idle : \A j \in Idle : <<j, i>> \notin OpToRel(<, Nat)
  <2>1. Idle \subseteq Nat /\ Idle # {}
    BY <1>1
  <2> QED
    BY <2>1, WFMin, NatLessThanWellFounded
<1>3. \A j \in Idle : ~(j < i)
  BY <1>1, <1>2 DEF OpToRel
<1> QED
  BY <1>3 DEF FirstIdle, PoolTypeOK

(* get_con refuses a connection only when all MAX_CONNECTIONS are lent,    *)
(* whatever calls came before.                                             *)
THEOREM RefusesRightly == PoolSpec => []RefusedOnlyWhenExhausted
<1>1. IInv => RefusedOnlyWhenExhausted
  <2> SUFFICES ASSUME IInv, phase = "ready", \A i \in Slots : ~FirstIdle(i)
               PROVE  Cardinality(Lent) = MaxConnections
    BY ConPoolAssumption DEF RefusedOnlyWhenExhausted
  <2>1. \A i \in Slots : flag[i] = 1 /\ i < filled
    BY FirstIdleExists, ConPoolAssumption DEF IInv, PoolTypeOK, PhaseInv, Slots
  <2>2. \A i \in Slots : cons[i] \in Lent
    BY <2>1 DEF IInv, HeldInv, Lent
  <2>3. \A h \in Lent : \E i \in Slots : cons[i] = h
    BY DEF IInv, HeldInv, Lent
  <2>4. \A i, j \in Slots : i # j => cons[i] # cons[j]
    BY <2>1 DEF IInv, SlotsInv
  <2>5. cons \in Bijection(Slots, Lent)
    <3>1. cons \in [Slots -> Lent]
      BY <2>2 DEF IInv, PoolTypeOK
    <3>2. \A i, j \in Slots : cons[i] = cons[j] => i = j
      BY <2>4
    <3> QED
      BY <2>3, <3>1, <3>2, Fun_IsBij
  <2>6. IsFiniteSet(Slots) /\ Cardinality(Slots) = MaxConnections
    BY FS_Interval, ConPoolAssumption DEF Slots
  <2> QED
    BY <2>5, <2>6, FS_Bijection DEF ExistsBijection
<1> QED BY <1>1, Invariance, PTL
=============================================================================
