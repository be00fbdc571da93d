------------------------------ MODULE BigNumCpp ------------------------------
(***************************************************************************)
(* The class BigNum of cpp/BigNum.cpp: signed numbers as arrays of limbs,  *)
(* the lowest first.  A limb has Limb values, 2^32 in the code, and an     *)
(* unsigned long holds exactly one limb, as the comments of the file say   *)
(* and as on the system whose pause command main runs.  The array is zero  *)
(* above the length, so a number is its sign, the limbs up to its length,  *)
(* and a mark, lost, that a subtraction on the way to it dropped a borrow. *)
(***************************************************************************)
EXTENDS Call, FiniteSetsExt, SequencesExt

CONSTANTS
  Limb,       \* the number of values of a limb
  Operands,   \* the absolute values that are computed with
  CStrings,      \* the texts that are turned into numbers, as bytes
  Memory      \* the bytes an uninitialised array may hold

ASSUME BigNumCppAssumption ==
  /\ Limb \in Nat \ {0, 1}
  /\ Operands \subseteq Nat
  /\ \A s \in CStrings : s \in Seq(0 .. 255) /\ s # <<>>
  /\ Memory \subseteq 0 .. 255

Indices(n) == [i \in 1 .. n |-> i]
Zeros(n) == [i \in 1 .. n |-> 0]

At(x, i) == IF i <= Len(x.limb) THEN x.limb[i] ELSE 0
Top(x) == Last(x.limb)

(* Zero limbs above the highest that is not are cut off; one limb stays.   *)
Trim(s) ==
  LET used == {i \in 1 .. Len(s) : s[i] # 0}
      n == IF used = {} THEN 1 ELSE Max(used)
  IN [i \in 1 .. n |-> s[i]]

(* BigNum(uint64_t): one limb or two.                                      *)
FromInt(v) ==
  [neg |-> 0, lost |-> FALSE,
   limb |-> IF v < Limb THEN <<v>> ELSE <<v % Limb, v \div Limb>>]

Neg(x) == [x EXCEPT !.neg = 1 - x.neg]

Greater == 0
Less == 1
Same == 2

(* Mutant: from the lowest limb to the highest.                            *)
CompareUpwards(x, y) ==
  LET diff == {i \in 1 .. Len(x.limb) : At(x, i) # At(y, i)}
  IN CASE Len(x.limb) > Len(y.limb) -> Greater
       [] Len(x.limb) < Len(y.limb) -> Less
       [] diff = {} -> Same
       [] OTHER -> IF At(x, Min(diff)) > At(y, Min(diff)) THEN Greater ELSE Less

(* The absolute values: the longer is greater, then the highest limb in    *)
(* which they differ decides.                                              *)
Compare(x, y) ==
  LET diff == {i \in 1 .. Len(x.limb) : At(x, i) # At(y, i)}
  IN CASE Len(x.limb) > Len(y.limb) -> Greater
       [] Len(x.limb) < Len(y.limb) -> Less
       [] diff = {} -> Same
       [] OTHER -> IF At(x, Max(diff)) > At(y, Max(diff)) THEN Greater ELSE Less

Eq(x, y) == x.neg = y.neg /\ Compare(x, y) = Same

(* operator!= is false for numbers of different sign.                      *)
Ne(x, y) == x.neg = y.neg /\ Compare(x, y) # Same

-----------------------------------------------------------------------------
(* The sum of the absolute values, limb by limb with the carry c.          *)
AddAbs(x, y) ==
  LET step(acc, i) ==
        LET sum == At(y, i) + At(x, i) + acc.c
        IN [c |-> IF sum < Limb THEN 0 ELSE 1,
            limb |-> Append(acc.limb, sum % Limb)]
  IN FoldLeft(step, [c |-> 0, limb |-> <<>>],
              Indices(Max({Len(x.limb), Len(y.limb)}) + 1))

(* The difference of the absolute values, x being the greater, with the    *)
(* borrow f.  sub wraps when the borrow meets a zero limb; it is then not  *)
(* below the limb of y, and the borrow is dropped.                         *)
SubAbs(x, y) ==
  LET step(acc, i) ==
        LET sub == (At(x, i) - acc.f) % Limb
            f == IF sub < At(y, i) THEN 1 ELSE 0
        IN [f |-> f,
            limb |-> Append(acc.limb, ((Limb - 1) * f - At(y, i) + sub + f) % Limb),
            lost |-> acc.lost \/ (acc.f = 1 /\ At(x, i) = 0)]
  IN FoldLeft(step, [f |-> 0, limb |-> <<>>, lost |-> FALSE],
              Indices(Len(x.limb)))

(* operator- for equal signs; the sign turns if y is the greater.          *)
SubSame(x, y) ==
  LET less == Compare(x, y) = Less
      d == IF less THEN SubAbs(y, x) ELSE SubAbs(x, y)
  IN [neg |-> IF less THEN 1 - x.neg ELSE x.neg,
      limb |-> Trim(d.limb), lost |-> x.lost \/ y.lost \/ d.lost]

AddSame(x, y) ==
  [neg |-> x.neg, limb |-> Trim(AddAbs(x, y).limb), lost |-> x.lost \/ y.lost]

(* operator+ and operator-: different signs exchange the two.              *)
Plus(x, y) ==
  CASE x.neg = y.neg -> AddSame(x, y)
    [] x.neg = 0 /\ y.neg = 1 -> SubSame(x, Neg(y))
    [] OTHER -> SubSame(y, Neg(x))

Minus(x, y) == IF x.neg = y.neg THEN SubSame(x, y) ELSE Plus(x, Neg(y))

(* operator*: the k-th step of its two loops multiplies limb i of y by     *)
(* limb j of x.  j goes one beyond the length of x, for the last carry.    *)
Times(x, y) ==
  LET n == Len(x.limb) + 1
      step(acc, k) ==
        LET i == ((k - 1) \div n) + 1
            j == ((k - 1) % n) + 1
            sum == acc.limb[i + j - 1] + At(y, i) * At(x, j) + acc.c
        IN [c |-> sum \div Limb,
            limb |-> ReplaceAt(acc.limb, i + j - 1, sum % Limb)]
      pro == FoldLeft(step, [c |-> 0, limb |-> Zeros(Len(x.limb) + Len(y.limb))],
                      Indices(Len(y.limb) * n))
  IN [neg |-> IF x.neg = y.neg THEN 0 ELSE 1,
      limb |-> Trim(pro.limb), lost |-> x.lost \/ y.lost]

-----------------------------------------------------------------------------
(* z moved up by n limbs.                                                  *)
Shift(z, n) == [z EXCEPT !.limb = Zeros(n) \o @]

(* The highest two limbs of x as one number.                               *)
TopTwo(x) == Top(x) * Limb + At(x, Len(x.limb) - 1)

(* The part of the quotient that a round of the loop of operator/ tries:   *)
(* the highest limb of x, or two of them, by that of a plus one.           *)
TrialQuotient(x, a) ==
  LET len == Len(x.limb) - Len(a.limb)
  IN IF Top(x) > Top(a) THEN Shift(FromInt(Top(x) \div (Top(a) + 1)), len)
     ELSE Shift(FromInt(TopTwo(x) \div (Top(a) + 1)), len - 1)

(* The loop of operator/ for a divisor of several limbs: x is what is left *)
(* and q the quotient so far.  It is followed while no borrow is lost;     *)
(* after that x may grow, and the loop need not end.                       *)
RECURSIVE DivLoop(_, _, _)
DivLoop(x, a, q) ==
  LET z == TrialQuotient(x, a)
  IN CASE x.lost -> [q EXCEPT !.lost = TRUE]
       [] Compare(x, a) = Less -> q
       [] \/ Compare(x, a) = Same
          \/ Top(x) <= Top(a) /\ Len(x.limb) = Len(a.limb) -> Plus(q, FromInt(1))
       [] OTHER -> DivLoop(Minus(x, Times(a, z)), a, Plus(q, z))

(* Division by a single limb d, from the highest limb down: the quotients  *)
(* and the remainder f.                                                    *)
ShortDivision(x, d) ==
  LET step(i, acc) ==
        LET div == acc.f * Limb + At(x, i)
        IN [f |-> div % d, limb |-> <<div \div d>> \o acc.limb]
  IN FoldRight(step, Indices(Len(x.limb)), [f |-> 0, limb |-> <<>>])

(* Only one zero limb is cut off after a division by a single limb.        *)
Div(x, a) ==
  LET q == ShortDivision(x, a.limb[1]).limb
      y == DivLoop(x, a, FromInt(0))
  IN IF Len(a.limb) > 1 THEN [y EXCEPT !.neg = IF x.neg # a.neg THEN 1 ELSE @]
     ELSE [x EXCEPT !.limb = IF Len(q) > 1 /\ Last(q) = 0 THEN Front(q) ELSE q]

(* The multiple that a round of the loop of operator% takes away.          *)
ModTrial(y, a) ==
  LET len == Len(y.limb) - Len(a.limb)
  IN IF Top(y) > Top(a) THEN Shift(FromInt(Top(y) \div (Top(a) + 1)), len)
     ELSE Shift(FromInt(TopTwo(y) \div (Top(a) + 1)), len - 1)

RECURSIVE ModLoop(_, _)
ModLoop(y, a) ==
  CASE y.lost \/ Compare(y, a) = Less -> y
    [] Len(y.limb) = Len(a.limb) /\ Top(y) = Top(a) -> Minus(y, a)
    [] OTHER -> ModLoop(Minus(y, Times(a, ModTrial(y, a))), a)

Mod(x, a) ==
  IF Len(a.limb) > 1 THEN ModLoop(x, a)
  ELSE [FromInt(ShortDivision(x, a.limb[1]).f) EXCEPT !.lost = x.lost]

-----------------------------------------------------------------------------
BytesPerLimb == 4

(* Mutant: the bytes of a limb from the lowest up.                         *)
ShiftInBelow(old, c) == <<c>> \o Front(old)

(* array <<= 8; array |= c.  A char of 128 or more is negative, and its    *)
(* sign sets all the bytes above it.                                       *)
ShiftIn(old, c) == IF c < 128 THEN Append(Tail(old), c) ELSE <<255, 255, 255, c>>

(* BigNum(string): the array is not initialised, every byte of it is m.    *)
FromString(s, m) ==
  LET length == (Len(s) - 1) \div BytesPerLimb + 1
      part(k) == SubSeq(s, BytesPerLimb * (k - 1) + 1,
                        Min({BytesPerLimb * k, Len(s)}))
  IN [k \in 1 .. length |->
        FoldLeft(ShiftIn, [b \in 1 .. BytesPerLimb |-> m], part(k))]

(* printS: the bytes that are not zero.  The limb above the length, which  *)
(* the loop visits too, is zero in the numbers that main prints.           *)
PrintS(limbs) == SelectSeq(FlattenSeq(limbs), LAMBDA c : c # 0)

-----------------------------------------------------------------------------
(* operator/ and operator% are called with nonnegative operands only, and  *)
(* never with a zero divisor.                                              *)
BigNumCppInit ==
  /\ \/ \E a, b \in Operands, s, t \in {0, 1},
           fn \in {"cpp_plus", "cpp_minus", "cpp_times", "cpp_equal"} :
          call = [fn |-> fn, a |-> a, b |-> b, s |-> s, t |-> t]
     \/ \E a, b \in Operands, fn \in {"cpp_div", "cpp_mod"} :
          b # 0 /\ call = [fn |-> fn, a |-> a, b |-> b, s |-> 0, t |-> 0]
     \/ \E s \in CStrings, m \in Memory : call = [fn |-> "cpp_text", s |-> s, m |-> m]
  /\ result = <<>>

(* The limbs of a natural number.                                          *)
LimbsOf(v) ==
  LET n == CHOOSE n \in 1 .. 30 : v < Limb ^ n /\ (n = 1 \/ v >= Limb ^ (n - 1))
  IN [i \in 1 .. n |-> (v \div Limb ^ (i - 1)) % Limb]

BigNumCppNext ==
  LET x == [neg |-> call.s, limb |-> LimbsOf(call.a), lost |-> FALSE]
      y == [neg |-> call.t, limb |-> LimbsOf(call.b), lost |-> FALSE]
  IN \/ Asked("cpp_plus") /\ Return(Plus(x, y))
     \/ Asked("cpp_minus") /\ Return(Minus(x, y))
     \/ Asked("cpp_times") /\ Return(Times(x, y))
     \/ Asked("cpp_div") /\ Return(Div(x, y))
     \/ Asked("cpp_mod") /\ Return(Mod(x, y))
     \/ Asked("cpp_equal") /\ Return(<<Eq(x, y), Ne(x, y)>>)
     \/ Asked("cpp_text") /\ Return(PrintS(FromString(call.s, call.m)))

-----------------------------------------------------------------------------
LimbValue(x) ==
  LET abs == FoldLeftDomain(LAMBDA v, i : v + x.limb[i] * Limb ^ (i - 1), 0, x.limb)
  IN IF x.neg = 1 THEN -abs ELSE abs

Signed(v, s) == IF s = 1 THEN -v ELSE v

(* Subtracting b from a, with a >= b, a borrow arrives at a zero limb.     *)
BorrowAtZero(a, b) ==
  \E i \in 1 .. Len(LimbsOf(a)) - 1 :
     (a \div Limb ^ i) % Limb = 0 /\ a % Limb ^ i < b % Limb ^ i

(* x is v, and written without needless zero limbs.                        *)
IsNumber(x, v) == LimbValue(x) = v /\ x.limb = Trim(x.limb)
                  /\ \A i \in DOMAIN x.limb : x.limb[i] \in 0 .. Limb - 1

(* Where the operators of BigNum are exact.  A subtraction of absolute     *)
(* values is wrong exactly if a borrow arrives at a zero limb of the       *)
(* greater number.  Quotients and remainders are right unless that         *)
(* happened on the way, which it never does for a divisor of one limb or a *)
(* dividend of two.  operator== is wrong exactly for zero and minus zero,  *)
(* operator!= exactly for two different numbers of different sign.         *)
LimbsExact ==
  LET a == Signed(call.a, call.s)
      b == Signed(call.b, call.t)
      hi == Max({call.a, call.b})
      lo == Min({call.a, call.b})
      small == call.a < Limb ^ 2 \/ call.b < Limb
      right(r, v) == IF r.lost THEN ~small ELSE IsNumber(r, v)
  IN /\ Returned("cpp_plus") =>
          (IsNumber(result[1], a + b)
             <=> call.s = call.t \/ ~BorrowAtZero(hi, lo))
     /\ Returned("cpp_minus") =>
          (IsNumber(result[1], a - b)
             <=> call.s # call.t \/ ~BorrowAtZero(hi, lo))
     /\ Returned("cpp_times") => IsNumber(result[1], a * b)
     /\ Returned("cpp_div") => right(result[1], a \div b)
     /\ Returned("cpp_mod") => right(result[1], a % b)
     /\ Returned("cpp_equal") =>
          /\ (result[1][1] <=> a = b) <=> (call.s = call.t \/ a # b)
          /\ (result[1][2] <=> a # b) <=> (call.s = call.t \/ a = b)

(* A text of chars below 128 comes back from the number made of it, if it  *)
(* fills its limbs or the array happened to hold zeros.                    *)
TextKept ==
  /\ Returned("cpp_text")
  /\ \A i \in DOMAIN call.s : call.s[i] \in 1 .. 127
  => (result[1] = call.s <=> call.m = 0 \/ Len(call.s) % BytesPerLimb = 0)

(* The class BigNum: operators (LimbsExact) and conversions (TextKept).    *)
BigNumLaws == LimbsExact /\ TextKept
=============================================================================
