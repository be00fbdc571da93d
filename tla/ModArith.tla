------------------------------- MODULE ModArith -------------------------------
(***************************************************************************)
(* Arithmetic that the models of BigNum.cpp and of the RSA programs share, *)
(* and the notions their properties are stated with.                       *)
(***************************************************************************)
EXTENDS Integers, SequencesExt

(* (a * b) % n.  b is taken in pieces, so that the products stay within    *)
(* the integers of TLC for every n below 2^24.                             *)
Piece == 64
RECURSIVE MulMod(_, _, _)
MulMod(a, b, n) ==
  IF b = 0 THEN 0 ELSE (MulMod(a, b \div Piece, n) * Piece + a * (b % Piece)) % n

Divides(d, n) == n % d = 0

Prime(n) == n > 1 /\ \A d \in 2 .. n - 1 : ~Divides(d, n)

Coprime(a, b) == \A d \in 2 .. b : ~(Divides(d, a) /\ Divides(d, b))

Power(x, a, b) == FoldLeft(LAMBDA v, i : MulMod(v, x, b), 1, [i \in 1 .. a |-> i])
=============================================================================
