----------------------------- MODULE CAlgorithms -----------------------------
(***************************************************************************)
(* Programs of cpp/algorithm: the two sorts of algorithm.c, the CRC of     *)
(* crc16_xmodem.c, and the RSA of rsa_demo.c, rsa_algorithm.c and          *)
(* rsa_deploy.c.                                                           *)
(***************************************************************************)
EXTENDS Call, ModArith, FiniteSetsExt, SequencesExt

CONSTANTS
  Arrays,        \* the arrays to sort
  CrcMessages,   \* messages, each byte the set of its ones
  Factors,       \* values of P and Q in rsa_demo.c
  Codes          \* codes of plain characters

ASSUME CAlgorithmsAssumption ==
  /\ \A a \in Arrays : a \in Seq(Int) /\ a # <<>>
  /\ \A m \in CrcMessages : m \in Seq(SUBSET (0 .. 7))
  /\ Factors \subseteq Nat \ {0, 1} /\ Codes \subseteq 0 .. 127

(* popup: every pair i <= j is compared once, and the larger goes first.   *)
Popup(a) ==
  LET n == Len(a)
      step(b, k) ==
        LET i == ((k - 1) \div n) + 1
            j == ((k - 1) % n) + 1
        IN IF i <= j /\ b[i] < b[j] THEN [b EXCEPT ![i] = b[j], ![j] = b[i]] ELSE b
  IN [a |-> FoldLeft(step, a, [k \in 1 .. n * n |-> k]),
      round |-> Cardinality({<<i, j>> \in (1 .. n) \X (1 .. n) : i <= j})]

(* Mutant: the key is not written back behind the loop.                    *)
RECURSIVE PartitionNoKey(_, _, _, _)
PartitionNoKey(a, left, right, key) ==
  LET j == Max({k \in left .. right : k = left \/ a[k] < key})
      b == [a EXCEPT ![left] = a[j]]
      i == Min({k \in left .. j : k = j \/ b[k] > key})
      c == [b EXCEPT ![j] = b[i]]
      rest == PartitionNoKey(c, i, j, key)
      moves == (right - j) + (i - left)
  IN IF i < j THEN [rest EXCEPT !.round = @ + moves]
     ELSE [a |-> c, i |-> i, round |-> moves]

(* The outer loop of q_sort.  From the right to the first element below    *)
(* the key, which is copied to the left; from there to the first element   *)
(* above the key, which is copied to the right.                            *)
RECURSIVE Partition(_, _, _, _)
Partition(a, left, right, key) ==
  LET j == Max({k \in left .. right : k = left \/ a[k] < key})
      b == [a EXCEPT ![left] = a[j]]
      i == Min({k \in left .. j : k = j \/ b[k] > key})
      c == [b EXCEPT ![j] = b[i]]
      rest == Partition(c, i, j, key)
      moves == (right - j) + (i - left)
  IN IF i < j THEN [rest EXCEPT !.round = @ + moves]
     ELSE [a |-> [c EXCEPT ![i] = key], i |-> i, round |-> moves]

RECURSIVE QSort(_, _, _)
QSort(a, left, right) ==
  LET p == Partition(a, left, right, a[left])
      l == QSort(p.a, left, p.i - 1)
      r == QSort(l.a, p.i + 1, right)
  IN IF left >= right THEN [a |-> a, round |-> 0]
     ELSE [a |-> r.a, round |-> p.round + l.round + r.round]

-----------------------------------------------------------------------------
(* A word is the set of the positions of its ones, so that ^ is the        *)
(* symmetric difference; wCPoly is 0x1021.                                 *)
Poly == {12, 5, 0}

Shifted(r) == {i + 1 : i \in r} \ {16}

(* Mutant: the bit shifted out is looked for after the shift.              *)
CrcBitLate(r) == IF 15 \in Shifted(r) THEN SymDiff(Shifted(r), Poly) ELSE Shifted(r)

(* One step of the inner loop on the 16-bit register.                      *)
CrcBit(r) == IF 15 \in r THEN SymDiff(Shifted(r), Poly) ELSE Shifted(r)

CrcByte(r, c) ==
  FoldLeft(LAMBDA s, i : CrcBit(s), SymDiff(r, {i + 8 : i \in c}), [i \in 1 .. 8 |-> i])

(* The register after each byte; binding r has TLC evaluate it only once.  *)
Crc16(msg) ==
  LET crc[i \in 0 .. Len(msg)] ==
        IF i = 0 THEN {} ELSE UNION {CrcByte(r, msg[i]) : r \in {crc[i - 1]}}
  IN crc[Len(msg)]

-----------------------------------------------------------------------------
RECURSIVE GetComDiv(_, _)
GetComDiv(p, q) ==
  LET a == Max({p, q})
      b == Min({p, q})
  IN IF b = 0 THEN a ELSE GetComDiv(b, a % b)

IsPrimeDemo(s) == \A i \in 2 .. s - 1 : s % i # 0

(* What get_random may return.                                             *)
GetRandom(p, q) ==
  LET t == (p - 1) * (q - 1) IN {e \in 0 .. t - 1 : GetComDiv(e, t) = 1}

(* Mutant: one too many.                                                   *)
GetPrivateKeyNext(e, t) == Min({d \in 0 .. t - 1 : (e * d) % t = 1}) + 1

GetPrivateKey(e, t) ==
  LET ds == {d \in 0 .. t - 1 : (e * d) % t = 1} IN IF ds = {} THEN -1 ELSE Min(ds)

(* encrypt_dt and decrypt_dt on one character: e times flag = flag * x % n *)
RECURSIVE Crypt(_, _, _)
Crypt(x, e, n) ==
  IF e = 0 THEN 1
  ELSE IF e % 2 = 1 THEN MulMod(Crypt(x, e - 1, n), x, n)
  ELSE LET h == Crypt(x, e \div 2, n) IN MulMod(h, h, n)

Refused == -1

(* main of rsa_demo.c for one character of the text.                       *)
RsaDemo(p, q, e, x) ==
  IF ~IsPrimeDemo(p) \/ ~IsPrimeDemo(q) \/ GetComDiv(p, q) # 1 THEN Refused
  ELSE LET d == GetPrivateKey(e, (p - 1) * (q - 1))
       IN Crypt(Crypt(x, e, p * q), d, p * q)

(* The keys that rsa_algorithm.c and rsa_deploy.c have built in, and the   *)
(* cypher text of the latter.                                              *)
RsaAlgorithm(x) == Crypt(Crypt(x, 480317, 968087), 537653, 968087)

(* cypher_hex, digit by digit: the letters t, e, s and t, and a figure.    *)
CypherHex ==
  LET test(figure) ==
        <<0, 0, 0, 0, 0, 14, 9, 3>> \o <<0, 0, 0, 0, 0, 2, 1, 11>>
        \o <<0, 0, 0, 0, 0, 0, 5, 9>> \o <<0, 0, 0, 0, 0, 14, 9, 3>> \o figure
  IN test(<<0, 0, 0, 0, 0, 1, 2, 6>>) \o test(<<0, 0, 0, 0, 0, 1, 5, 2>>)
     \o test(<<0, 0, 0, 0, 0, 14, 14, 3>>) \o test(<<0, 0, 0, 0, 0, 7, 5, 1>>)

(* strtol to the base 16, up to the first character that is no digit.      *)
Strtol(digits) == FoldLeft(LAMBDA v, d : 16 * v + d, 0, digits)

(* The eight digits copied fill int_str, whose terminator they take the    *)
(* place of: strtol also reads the digits that happen to lie behind it.    *)
DeployCypher(behind) ==
  [i \in 1 .. 20 |-> Strtol(SubSeq(CypherHex, 8 * i - 7, 8 * i) \o behind)]

RsaDeploy(behind) ==
  [i \in 1 .. 20 |-> Crypt(DeployCypher(behind)[i], 3989, 4171) % 256]

(* What may lie behind int_str, as far as strtol reads on.                 *)
Behind == {<<>>} \cup {<<d>> : d \in 0 .. 15}

-----------------------------------------------------------------------------
CAlgorithmsInit ==
  /\ \/ \E a \in Arrays, fn \in {"popup", "q_sort"} : call = [fn |-> fn, a |-> a]
     \/ \E m \in CrcMessages : call = [fn |-> "crc", m |-> m]
     \/ \E p, q \in Factors, x \in Codes : \E e \in GetRandom(p, q) :
          call = [fn |-> "rsa_demo", p |-> p, q |-> q, e |-> e, x |-> x]
     \/ \E x \in Codes : call = [fn |-> "rsa_algorithm", x |-> x]
     \/ \E b \in Behind : call = [fn |-> "rsa_deploy", behind |-> b]
  /\ result = <<>>

CAlgorithmsNext ==
  \/ Asked("popup") /\ Return(Popup(call.a))
  \/ Asked("q_sort") /\ Return(QSort(call.a, 1, Len(call.a)))
  \/ Asked("crc") /\ Return(Crc16(call.m))
  \/ Asked("rsa_demo") /\ Return(RsaDemo(call.p, call.q, call.e, call.x))
  \/ Asked("rsa_algorithm") /\ Return(RsaAlgorithm(call.x))
  \/ Asked("rsa_deploy") /\ Return(RsaDeploy(call.behind))

-----------------------------------------------------------------------------
Permuted(a, b) ==
  /\ Len(a) = Len(b)
  /\ \A v \in Range(a) \cup Range(b) :
       Cardinality({i \in DOMAIN a : a[i] = v}) = Cardinality({i \in DOMAIN b : b[i] = v})

(* popup sorts downwards in exactly n(n+1)/2 rounds, q_sort upwards in at  *)
(* most n(n-1)/2; neither loses nor repeats an element.                    *)
Sorts ==
  LET n == Len(call.a)
      b == result[1].a
  IN /\ Returned("popup") =>
          /\ Permuted(call.a, b) /\ \A i \in 2 .. n : b[i - 1] >= b[i]
          /\ 2 * result[1].round = n * (n + 1)
     /\ Returned("q_sort") =>
          /\ Permuted(call.a, b) /\ \A i \in 2 .. n : b[i - 1] <= b[i]
          /\ 2 * result[1].round <= n * (n - 1)

(* The bytes of test_CRC16_Xmode.                                         *)
TestMessage ==
  LET ones(b) == {i \in 0 .. 7 : (b \div 2 ^ i) % 2 = 1}
      data == <<152, 0, 18, 1, 0, 1, 18, 52, 86, 120, 90, 38, 8, 206, 35>>
  IN [i \in 1 .. 15 |-> ones(data[i])]

(* CRC16_XMODEM is a CRC: a message that is followed by its own checksum   *)
(* has checksum zero, and a message (the difference of two, since the CRC  *)
(* is linear) whose ones lie within 16 bits has not.  The message of       *)
(* test_CRC16_Xmode has the checksum that the program prints, D96B.        *)
ChecksumLaws ==
  Returned("crc") =>
    LET r == result[1]
        ones == UNION {{8 * k - i : i \in call.m[k]} : k \in DOMAIN call.m}
    IN /\ r \subseteq 0 .. 15
       /\ Crc16(call.m \o <<{i - 8 : i \in r \ (0 .. 7)}, r \cap (0 .. 7)>>) = {}
       /\ ones # {} /\ Max(ones) - Min(ones) < 16 => r # {}
       /\ call.m = TestMessage => r = {15, 14, 12, 11, 8, 6, 5, 3, 1, 0}

(* rsa_demo refuses factors that are composite or equal.  For others it    *)
(* gives back each character modulo n, whatever e was drawn, and hence     *)
(* only the characters below n: with 7 and 11 no letter of its own text.   *)
(* The built-in key of rsa_algorithm.c restores every character, and       *)
(* rsa_deploy.c gives test1test2test3test4, as its main announces, exactly *)
(* if no digit lies behind the eight that strtol is to read.               *)
RsaRoundTrip ==
  /\ Returned("rsa_demo") =>
       result[1] = IF Prime(call.p) /\ Prime(call.q) /\ call.p # call.q
                   THEN call.x % (call.p * call.q) ELSE Refused
  /\ Returned("rsa_algorithm") => result[1] = call.x
  /\ Returned("rsa_deploy") =>
       (result[1] = FlattenSeq([k \in 1 .. 4 |-> <<116, 101, 115, 116, 48 + k>>])
          <=> call.behind = <<>>)
=============================================================================
