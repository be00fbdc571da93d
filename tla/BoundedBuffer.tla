---------------------------- MODULE BoundedBuffer ----------------------------
(***************************************************************************)
(* What Kuang.java promises of the fruit basket: it holds at most Capacity *)
(* pieces of fruit ("at most 10 pieces"), a piece is put in while there is *)
(* room and taken out while there is one.                                  *)
(***************************************************************************)
EXTENDS Naturals

CONSTANT Capacity

VARIABLE count

BInit == count = 0

BPut == count < Capacity /\ count' = count + 1

BTake == count > 0 /\ count' = count - 1

BNext == BPut \/ BTake

BSpec == BInit /\ [][BNext]_count
=============================================================================
