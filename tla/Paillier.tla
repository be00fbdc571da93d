------------------------------- MODULE Paillier -------------------------------
(***************************************************************************)
(* The number theory of cpp/BigNum.cpp and the Paillier encryption of its  *)
(* main, on integers: module BigNumCpp says when the arithmetic is exact.  *)
(* isprime.c printed the table of primes that the primality test starts    *)
(* with.                                                                   *)
(***************************************************************************)
EXTENDS Call, ModArith, FiniteSetsExt, SequencesExt

CONSTANTS
  Digit,       \* values of one limb; generated primes have two limbs
  TableSize,   \* length of the table of small primes, 2800 in the code
  Messages,    \* messages to encrypt
  Nonces       \* values of r, the randomness of an encryption

ASSUME PaillierAssumption ==
  /\ Digit \in Nat /\ Digit % 2 = 0 /\ Digit > 2
  /\ TableSize \in Nat /\ Messages \cup Nonces \subseteq Nat

(* Mutant: the square is taken before the product.                         *)
PowerModSquareFirst(x, a, b) ==
  LET RECURSIVE loop(_, _, _)
      loop(X, N, e) ==
        IF e = 0 THEN X
        ELSE LET S == MulMod(N, N, b)
             IN loop(IF e % 2 = 1 THEN MulMod(X, S, b) ELSE X, S, e \div 2)
  IN loop(1, x % b, a)

(* x^a mod b over the bits of a, the lowest first.                         *)
PowerMod(x, a, b) ==
  LET RECURSIVE loop(_, _, _)
      loop(X, N, e) ==
        IF e = 0 THEN X
        ELSE loop(IF e % 2 = 1 THEN MulMod(X, N, b) ELSE X, MulMod(N, N, b), e \div 2)
  IN loop(1, x % b, a)

(* The inverse of a modulo b, if there is one.                             *)
ExEuclid(a, b) ==
  LET RECURSIVE loop(_, _, _, _)
      loop(X, U, A, B) ==
        IF B = 0 THEN X ELSE loop(U, X - (A \div B) * U, B, A % B)
      x == loop(1, 0, a, b)
  IN IF x < 0 THEN x + b ELSE x

RECURSIVE Gcd(_, _)
Gcd(a, b) == LET i == a % b IN IF i = 0 THEN b ELSE Gcd(b, i)

Lcm(a, b) == (a * b) \div Gcd(a, b)

Lfunction(a, n) == (a - 1) \div n

-----------------------------------------------------------------------------
(* isprime of isprime.c: the first divisor from 2 on is the number itself. *)
IsPrime(num) == Min({i \in 2 .. num : num % i = 0}) = num

(* The first k primes from 3 on, as its main prints them.                  *)
FirstPrimes(k) ==
  LET RECURSIVE loop(_, _)
      loop(found, N) ==
        IF Len(found) = k THEN found
        ELSE loop(IF IsPrime(N) THEN Append(found, N) ELSE found, N + 1)
  IN loop(<<>>, 3)

(* The table at the head of BigNum.cpp, as far as the test reads it.       *)
Primes == FirstPrimes(TableSize)

(* n - 1 = 2^r * m with m odd.                                             *)
OddPart(n) ==
  LET r == CHOOSE r \in 0 .. n : (n - 1) % 2 ^ r = 0 /\ ((n - 1) \div 2 ^ r) % 2 = 1
  IN [r |-> r, m |-> (n - 1) \div 2 ^ r]

(* Mutant: no squaring.                                                    *)
PassesAtOnce(x, a) == PowerMod(a, OddPart(x).m, x) \in {1, x - 1}

(* One round of Rabin_Miller: a^m is 1 or -1, or one of the r squarings    *)
(* that follow gives -1.                                                   *)
Passes(x, a) ==
  LET p == OddPart(x)
  IN \/ PowerMod(a, p.m, x) \in {1, x - 1}
     \/ \E j \in 1 .. p.r : PowerMod(a, p.m * 2 ^ j, x) = x - 1

Rounds == 5

(* The numbers below x that Random draws: one limb less, or one limb.      *)
Random(x) == IF x >= Digit THEN 0 .. Digit - 1 ELSE 0 .. x

(* The table, then a round for each base.                                  *)
RabinMiller(x, bases) ==
  LET hits == {i \in 1 .. Len(Primes) : x % Primes[i] = 0}
  IN IF hits # {} THEN x = Primes[Min(hits)]
     ELSE \A i \in 1 .. Rounds : Passes(x, bases[i])

(* Two limbs, the highest bit set, odd.                                    *)
Candidates == {x \in Digit * (Digit \div 2) .. Digit ^ 2 - 1 : x % 2 = 1}

(* Bases of a test.  A base differs from the one before it, the first from *)
(* zero.  Two that take turns reach both results wherever some sequence    *)
(* does, since the rounds do not depend on one another.                    *)
Alternating(x) ==
  {[i \in 1 .. Rounds |-> IF i % 2 = 1 THEN a ELSE b] :
     <<a, b>> \in {<<a, b>> \in Random(x) \X Random(x) : a # 0 /\ a # b}}

(* What GeneratePrime may end with.                                        *)
GeneratePrime == {x \in Candidates : \E s \in Alternating(x) : RabinMiller(x, s)}

-----------------------------------------------------------------------------
(* Mutant: the randomness is raised to the message.                        *)
EncryptSwapped(msg, g, r, n) ==
  MulMod(PowerMod(g, n, n * n), PowerMod(r, msg, n * n), n * n)

EncryptMessage(msg, g, r, n) ==
  MulMod(PowerMod(g, msg, n * n), PowerMod(r, n, n * n), n * n)

PrivateKey(p, q) == Lcm(p - 1, q - 1)

(* What u is the inverse of.                                               *)
KeyFactor(p, q, g) == Lfunction(PowerMod(g, PrivateKey(p, q), (p * q) * (p * q)), p * q)

DecryptMessage(b, p, q, g) ==
  LET n == p * q
      u == ExEuclid(KeyFactor(p, q, g), n)
  IN MulMod(Lfunction(PowerMod(b, PrivateKey(p, q), n * n), n), u, n)

(* main: p and q differ; g is drawn like them.                             *)
Main(p, q, g, r, msg) == DecryptMessage(EncryptMessage(msg, g, r, p * q), p, q, g)

-----------------------------------------------------------------------------
(* Bound on the arguments of the functions that are called on their own.   *)
MaxArg == 12

PaillierInit ==
  /\ \/ \E x, a \in 0 .. MaxArg, b \in 2 .. MaxArg :
          call = [fn |-> "power_mod", x |-> x, a |-> a, b |-> b]
     \/ \E a, b \in 1 .. 3 * MaxArg, fn \in {"ex_euclid", "gcd", "lcm"} :
          call = [fn |-> fn, a |-> a, b |-> b]
     \/ \E k \in 0 .. MaxArg : call = [fn |-> "first_primes", k |-> k]
     \/ \E x \in {x \in Digit .. Digit ^ 2 - 1 : x % 2 = 1} : \E s \in Alternating(x) :
          call = [fn |-> "rabin_miller", x |-> x, s |-> s]
     \/ \E p, q, g \in GeneratePrime, r \in Nonces, m \in Messages :
          p # q /\ call = [fn |-> "paillier", p |-> p, q |-> q, g |-> g, r |-> r, m |-> m]
  /\ result = <<>>

PaillierNext ==
  \/ Asked("power_mod") /\ Return(PowerMod(call.x, call.a, call.b))
  \/ Asked("ex_euclid") /\ Return(ExEuclid(call.a, call.b))
  \/ Asked("gcd") /\ Return(Gcd(call.a, call.b))
  \/ Asked("lcm") /\ Return(Lcm(call.a, call.b))
  \/ Asked("first_primes") /\ Return(FirstPrimes(call.k))
  \/ Asked("rabin_miller") /\ Return(RabinMiller(call.x, call.s))
  \/ Asked("paillier") /\ Return(Main(call.p, call.q, call.g, call.r, call.m))

-----------------------------------------------------------------------------
(* power_mod is the power, Gcd and Lcm are what they are called, and       *)
(* ex_euclid gives the inverse, in range, whenever there is one.           *)
ModularLaws ==
  /\ Returned("power_mod") => result[1] = Power(call.x, call.a, call.b)
  /\ Returned("gcd") =>
       result[1] = Max({d \in 1 .. call.a : Divides(d, call.a) /\ Divides(d, call.b)})
  /\ Returned("lcm") =>
       result[1] = Min({m \in 1 .. call.a * call.b : Divides(call.a, m) /\ Divides(call.b, m)})
  /\ Returned("ex_euclid") /\ call.b > 1 /\ Coprime(call.a, call.b) =>
       result[1] \in 1 .. call.b - 1 /\ (call.a * result[1]) % call.b = 1

(* a proves nothing against x in the strong test of Miller and Rabin.      *)
StrongLiar(x, a) ==
  LET p == OddPart(x)
  IN \/ Power(a, p.m, x) = 1
     \/ \E j \in 0 .. p.r - 1 : Power(a, p.m * 2 ^ j, x) = x - 1

(* A prime is rejected exactly if a base is zero: that is excluded for the *)
(* first base only, all others are compared with the base before.  A       *)
(* composite number is accepted exactly if no prime of the table divides   *)
(* it and every base drawn is a liar of the textbook test.  The table is   *)
(* the odd primes in order.                                                *)
PrimalityTest ==
  /\ Returned("rabin_miller") =>
       LET bases == Range(call.s)
       IN result[1] <=> IF Prime(call.x) THEN 0 \notin bases
                        ELSE /\ \A i \in DOMAIN Primes : ~Divides(Primes[i], call.x)
                             /\ \A a \in bases : StrongLiar(call.x, a)
  /\ Returned("first_primes") =>
       LET s == result[1]
       IN /\ Len(s) = call.k
          /\ s # <<>> => Range(s) = {n \in 3 .. Last(s) : Prime(n)}
          /\ \A i \in 2 .. Len(s) : s[i - 1] < s[i]

(* Decryption gives the message modulo n, if p and q are prime, g and r    *)
(* are prime to n, and u has an inverse; main checks none of it.           *)
Decrypts ==
  Returned("paillier") =>
    LET n == call.p * call.q
    IN /\ Prime(call.p) /\ Prime(call.q)
       /\ Coprime(call.g, n) /\ Coprime(call.r, n)
       /\ Coprime(KeyFactor(call.p, call.q, call.g), n)
       => result[1] = call.m % n

(* What main of BigNum.cpp builds on: modular arithmetic (ModularLaws) and *)
(* the choice of primes (PrimalityTest).                                   *)
KeyArithmetic == ModularLaws /\ PrimalityTest
=============================================================================
