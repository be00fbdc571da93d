-------------------------------- MODULE BigNum --------------------------------
(***************************************************************************)
(* cpp/algorithm/big_num.c: natural numbers as arrays of digits, the       *)
(* lowest first.  A number has room for cap digits (_arrLen) and uses wei  *)
(* of them; malloc and realloc leave new digits undefined.  A result whose *)
(* computation reads an undefined digit, writes beyond the array or        *)
(* overflows an int is bad: the code promises nothing of it.               *)
(***************************************************************************)
EXTENDS Call, FiniteSetsExt, SequencesExt

CONSTANTS
  Strings,    \* the digit strings that are computed with, highest digit first
  Ints        \* the ints that are converted

ASSUME BigNumAssumption ==
  /\ \A s \in Strings : s \in Seq(0 .. 9) /\ s # <<>>
  /\ Ints \subseteq Nat

Base == 10
IntMax == 2147483647

Undef == -1     \* an undefined digit

GetZero == [arr |-> [i \in 0 .. 1 |-> IF i = 0 THEN 0 ELSE Undef],
            cap |-> 2, wei |-> 1, bad |-> FALSE]

(* realloc to n digits.                                                    *)
Grow(b, n) ==
  [b EXCEPT !.cap = n,
            !.arr = [i \in 0 .. n - 1 |-> IF i < b.cap THEN b.arr[i] ELSE Undef]]

(* extend_big_num, as often as it takes to hold n digits.                  *)
ExtendTo(b, n) ==
  LET k == CHOOSE k \in 0 .. n : /\ b.cap * 2 ^ k >= n
                                 /\ k = 0 \/ b.cap * 2 ^ (k - 1) < n
  IN Grow(b, b.cap * 2 ^ k)

Extend(b) == Grow(b, 2 * b.cap)

(* Mutant: the digit i itself is kept.                                     *)
ZeroedAbove(b, i) ==
  [b EXCEPT !.arr = [k \in DOMAIN @ |-> IF k > i THEN 0 ELSE @[k]]]

(* The digits from i on are set to zero.                                   *)
Zeroed(b, i) ==
  [b EXCEPT !.arr = [k \in DOMAIN @ |-> IF k >= i THEN 0 ELSE @[k]]]

Reads(b, S) == \A i \in S : i \in DOMAIN b.arr /\ b.arr[i] # Undef

Spoilt(b) == [b EXCEPT !.bad = TRUE]

-----------------------------------------------------------------------------
CountIntBit(m) ==
  CHOOSE n \in 1 .. 10 : m \div Base ^ (n - 1) \in 0 .. 9

(* The digits of m.  For ten of them my_pow(10, 10) overflows.             *)
IntToBigNum(m) ==
  LET n == CountIntBit(m)
      b == ExtendTo(GetZero, n)
      res == [b EXCEPT !.wei = n,
                       !.arr = [i \in DOMAIN @ |-> IF i < n THEN (m \div Base ^ i) % Base
                                                   ELSE @[i]]]
  IN IF Base ^ (n - 1) > IntMax \div Base THEN Spoilt(res) ELSE res

StrToBigNum(string) ==
  LET n == Len(string)
      b == ExtendTo(GetZero, n)
  IN [b EXCEPT !.wei = n,
               !.arr = [i \in DOMAIN @ |-> IF i < n THEN string[n - i] ELSE @[i]]]

(* b1 <=== b2                                                              *)
Cpy(b1, b2) ==
  LET b == Zeroed(IF b1.cap < b2.cap THEN Grow(b1, b2.cap) ELSE b1, 0)
  IN [b EXCEPT !.wei = b2.wei, !.bad = b2.bad,
               !.arr = [i \in DOMAIN @ |-> IF i < b2.wei THEN b2.arr[i] ELSE 0]]

(* Mutant: from the lowest digit to the highest.                           *)
CmpUpwards(b1, b2) ==
  LET diff == {i \in 0 .. b1.wei - 1 : b1.arr[i] # b2.arr[i]}
  IN IF b1.wei # b2.wei THEN IF b1.wei > b2.wei THEN 1 ELSE -1
     ELSE IF diff = {} THEN 0
     ELSE IF b1.arr[Min(diff)] > b2.arr[Min(diff)] THEN 1 ELSE -1

(* -1, 0 or 1; a number with more digits is larger, leading zeros or not.  *)
Cmp(b1, b2) ==
  LET diff == {i \in 0 .. b1.wei - 1 : b1.arr[i] # b2.arr[i]}
  IN IF b1.wei # b2.wei THEN IF b1.wei > b2.wei THEN 1 ELSE -1
     ELSE IF diff = {} THEN 0
     ELSE IF b1.arr[Max(diff)] > b2.arr[Max(diff)] THEN 1 ELSE -1

(* Mutant: the carry of a product is taken for that of a sum.              *)
CarriesOne(term, n) ==
  LET c[i \in 0 .. n] == IF i > 0 /\ term[i - 1] + c[i - 1] >= Base THEN 1 ELSE 0
  IN c

(* The carry of the loops that set digit i of b1 to the i-th value of      *)
(* term, plus carry, modulo the base: for i < n.                           *)
Carries(term, n) ==
  LET c[i \in 0 .. n] == IF i = 0 THEN 0 ELSE (term[i - 1] + c[i - 1]) \div Base
  IN c

(* The loop itself, on the lowest n digits.                                *)
SetDigits(b, term, n) ==
  LET c == Carries(term, n)
  IN [b EXCEPT !.arr = [i \in DOMAIN @ |-> IF i < n THEN (term[i] + c[i]) % Base
                                           ELSE @[i]]]

(* arr[wei] = d; wei++                                                     *)
NewTop(b, d) ==
  IF b.wei < b.cap
  THEN [b EXCEPT !.arr[b.wei] = d, !.wei = b.wei + 1]
  ELSE Spoilt([b EXCEPT !.wei = b.wei + 1])

-----------------------------------------------------------------------------
AddSelf(b0) ==
  LET b == IF b0.arr[b0.wei - 1] >= Base \div 2 /\ b0.wei = b0.cap
           THEN Extend(b0) ELSE b0
      term == [i \in 0 .. b.wei - 1 |-> 2 * b.arr[i]]
      res == SetDigits(b, term, b.wei)
  IN IF Carries(term, b.wei)[b.wei] = 1 THEN NewTop(res, 1) ELSE res

(* big_num_add: the digits of b2 above its highest one are set to zero     *)
(* only when its array is shorter than that of the sum.                    *)
Add(x1, x2) ==
  LET large == IF Cmp(x1, x2) = -1 THEN x2 ELSE x1
      small == IF Cmp(x1, x2) = -1 THEN x1 ELSE x2
      b1 == IF large.wei = large.cap THEN Extend(large) ELSE large
      res == Cpy(GetZero, b1)
      same == IF small.cap < res.cap
              THEN Zeroed(Grow(small, res.cap), small.wei) ELSE small
      b2 == ExtendTo(same, res.cap + 1)
      low == 0 .. res.wei - 1
      term == [i \in low |-> b2.arr[i] + res.arr[i]]
      sum == SetDigits(res, term, res.wei)
  IN IF ~Reads(b2, low) THEN Spoilt(res)
     ELSE IF Carries(term, res.wei)[res.wei] = 1 THEN NewTop(sum, 1) ELSE sum

(* big_num_add_0: b1 += b2.  The last carry goes to the digit above b1,    *)
(* wherever the loop over b2 ended.                                        *)
Add0(x1, b2) ==
  LET e == IF x1.wei = x1.cap THEN Extend(x1) ELSE x1
      b1 == IF Cmp(e, b2) = -1 THEN Zeroed(ExtendTo(e, b2.cap), e.wei) ELSE e
      low == 0 .. b2.wei - 1
      term == [i \in low |-> b1.arr[i] + b2.arr[i]]
      wide == [SetDigits(b1, term, b2.wei) EXCEPT !.wei = Max({b1.wei, b2.wei})]
  IN IF ~Reads(b1, low) \/ ~Reads(b2, low) THEN Spoilt(b1)
     ELSE IF Carries(term, b2.wei)[b2.wei] = 0 THEN wide
     ELSE IF ~Reads(wide, {wide.wei}) THEN Spoilt(wide)
     ELSE NewTop(wide, wide.arr[wide.wei] + 1)

MultiDig(b, a) ==
  LET g == IF b.wei = b.cap THEN Extend(b) ELSE b
      term == [i \in 0 .. g.wei - 1 |-> g.arr[i] * a]
      c == Carries(term, g.wei)[g.wei]
      res == SetDigits(g, term, g.wei)
  IN IF a = 0 THEN [b EXCEPT !.wei = 1, !.arr[0] = 0]
     ELSE IF c # 0 THEN NewTop(res, c) ELSE res

Append0(b, a) ==
  LET g == ExtendTo(b, b.wei + a)
  IN [g EXCEPT !.wei = b.wei + a,
               !.arr = [i \in DOMAIN @ |-> IF i < a THEN 0
                                           ELSE IF i < b.wei + a THEN g.arr[i - a]
                                           ELSE @[i]]]

(* big_num_multi: for each digit of the smaller number.                    *)
Multi(x1, x2) ==
  LET b1 == IF Cmp(x1, x2) = -1 THEN x2 ELSE x1
      b2 == IF Cmp(x1, x2) = -1 THEN x1 ELSE x2
      res[i \in 0 .. b2.wei] ==
        IF i = 0 THEN GetZero
        ELSE IF res[i - 1].bad THEN res[i - 1]
        ELSE Add0(res[i - 1],
                  Append0(MultiDig(Cpy(GetZero, b1), b2.arr[i - 1]), i - 1))
  IN IF b1.bad \/ b2.bad THEN Spoilt(b1) ELSE res[b2.wei]

Factorial(n) ==
  LET res[i \in 0 .. n] ==
        IF i = 0 THEN [GetZero EXCEPT !.arr[0] = 1]
        ELSE IF res[i - 1].bad THEN res[i - 1]
        ELSE Multi(res[i - 1], IntToBigNum(i))
  IN res[n]

-----------------------------------------------------------------------------
(* Bounds: the values of the results are ints of TLC.                      *)
MaxProduct == 9
MaxFactorial == 12

BigNumInit ==
  /\ \/ \E a, b \in Strings, fn \in {"cmp", "add", "add_0", "multi"} :
          /\ fn = "multi" => Len(a) + Len(b) <= MaxProduct
          /\ call = [fn |-> fn, a |-> a, b |-> b]
     \/ \E a \in Strings, n \in 0 .. 9, fn \in {"multi_dig", "append0"} :
          call = [fn |-> fn, a |-> a, n |-> n]
     \/ \E a \in Strings : call = [fn |-> "add_0_self", a |-> a]
     \/ \E n \in Ints : call = [fn |-> "int_to_big_num", n |-> n]
     \/ \E n \in 0 .. MaxFactorial : call = [fn |-> "factorial", n |-> n]
  /\ result = <<>>

BigNumNext ==
  LET a == StrToBigNum(call.a)
      b == StrToBigNum(call.b)
  IN \/ Asked("cmp") /\ Return(Cmp(a, b))
     \/ Asked("add") /\ Return(Add(a, b))
     \/ Asked("add_0") /\ Return(Add0(a, b))
     \/ Asked("multi") /\ Return(Multi(a, b))
     \/ Asked("multi_dig") /\ Return(MultiDig(a, call.n))
     \/ Asked("append0") /\ Return(Append0(a, call.n))
     \/ Asked("add_0_self") /\ Return(AddSelf(a))
     \/ Asked("int_to_big_num") /\ Return(IntToBigNum(call.n))
     \/ Asked("factorial") /\ Return(Factorial(call.n))

-----------------------------------------------------------------------------
Value(b) ==
  FoldFunctionOnSet(+, 0, [i \in 0 .. b.wei - 1 |-> b.arr[i] * Base ^ i],
                    0 .. b.wei - 1)

Num(string) == Value(StrToBigNum(string))

Length(n) == CountIntBit(n)

Digits(b) == [i \in 1 .. b.wei |-> b.arr[i - 1]]

(* b is n, in proper digits.                                               *)
Is(b, n) == ~b.bad /\ Digits(b) \in Seq(0 .. 9) /\ Value(b) = n

Room(n) == ExtendTo(GetZero, n).cap
RoomAbove(n) == Room(n + 1)

(* int_to_big_num gives the digits of every int below 10^9, and computes   *)
(* an overflowing power for every larger one.  big_num_cmp orders numbers  *)
(* written without leading zeros by their value.                           *)
NumbersCompare ==
  /\ Returned("int_to_big_num") =>
       IF call.n < 10 ^ 9 THEN Is(result[1], call.n) ELSE result[1].bad
  /\ Returned("cmp") =>
       LET a == Num(call.a)  b == Num(call.b)
           plain(s) == Len(s) = 1 \/ s[1] # 0
       IN plain(call.a) /\ plain(call.b)
          => result[1] = IF a > b THEN 1 ELSE IF a < b THEN -1 ELSE 0

(* Doubling is exact for every number.  big_num_add gives the sum, unless  *)
(* the operands differ in length and the array of the shorter is as long   *)
(* as that of the sum: its digits above the highest are then undefined,    *)
(* and are added.  big_num_add_0 gives the sum whenever nothing is carried *)
(* out of the highest digit of its second operand.                         *)
Sums ==
  /\ Returned("add_0_self") => Is(result[1], 2 * Num(call.a))
  /\ Returned("add") =>
       LET long == Max({Len(call.a), Len(call.b)})
           short == Min({Len(call.a), Len(call.b)})
       IN IF long > short /\ Room(short) = RoomAbove(long)
          THEN result[1].bad ELSE Is(result[1], Num(call.a) + Num(call.b))
  /\ Returned("add_0") =>
       LET unit == Base ^ Len(call.b)
       IN \/ Is(result[1], Num(call.a) + Num(call.b))
          \/ result[1].bad /\ (Num(call.a) % unit) + Num(call.b) >= unit

(* Row i of the product x * y fills an array, and the sum of the rows up   *)
(* to it is one digit longer.                                              *)
Outgrows(x, y, i) ==
  LET full == Length(x * ((y \div Base ^ i) % Base)) + i
  IN Length(x * (y % Base ^ (i + 1))) = full + 1 /\ Room(full) = full

(* Multiplying by a digit, appending zeros and factorial are exact and     *)
(* stay inside the arrays for every number.  big_num_multi gives the       *)
(* product, or writes beyond its array; that only if the partial sum of    *)
(* some row outgrows the array which the row had filled.                   *)
Products ==
  /\ Returned("multi_dig") => Is(result[1], call.n * Num(call.a))
  /\ Returned("append0") =>
       /\ ~result[1].bad
       /\ Reverse(Digits(result[1])) = call.a \o [i \in 1 .. call.n |-> 0]
  /\ Returned("factorial") =>
       Is(result[1], FoldSet(LAMBDA i, p : i * p, 1, 1 .. call.n))
  /\ Returned("multi") =>
       \/ Is(result[1], Num(call.a) * Num(call.b))
       \/ /\ result[1].bad
          /\ \E <<s, t>> \in {<<call.a, call.b>>, <<call.b, call.a>>} :
               /\ Len(s) >= Len(t)
               /\ \E i \in 0 .. Len(t) - 1 : Outgrows(Num(s), Num(t), i)

(* Every function of big_num.c is exact, or known to be undefined.         *)
DigitsExact == NumbersCompare /\ Sums /\ Products
=============================================================================
