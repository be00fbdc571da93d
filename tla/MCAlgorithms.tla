----------------------------- MODULE MCAlgorithms -----------------------------
(***************************************************************************)
(* The pure functions of the repository on small inputs: every behaviour   *)
(* is one call.                                                            *)
(*                                                                         *)
(* HttpText: all short texts over the characters the functions tell apart, *)
(* and objects of one or two pairs whose keys are prefixes of one another  *)
(* and whose values may look like a key.                                   *)
(*                                                                         *)
(* ReportParser: reports around every boundary of the layouts.  The header *)
(* ends at 16, an application id at 62, the fixed fields at 202 or 248, an *)
(* extension of an event at 334 or 380; beyond 510, 837 or 883, 955 and    *)
(* 966 characters a text outgrows a buffer of C.                           *)
(*                                                                         *)
(* BigNum: numbers of one to four digits that carry in every place, and    *)
(* longer ones on both sides of an array of eight digits.                  *)
(*                                                                         *)
(* Des: the key and the message of the program's main, and others with all *)
(* or single bits set.                                                     *)
(*                                                                         *)
(* BigNumCpp: limbs in base 4, numbers of up to five limbs with zero, one  *)
(* and the largest limb in every place; texts that fill a limb or not.     *)
(*                                                                         *)
(* Paillier: primes of one digit in base 8, tried by the one odd prime 3.  *)
(*                                                                         *)
(* CAlgorithms: all arrays of up to four values with repetitions; bursts   *)
(* and the message of the CRC test; factors that are prime, composite or   *)
(* equal, and codes on both sides of their products.                       *)
(***************************************************************************)
EXTENDS HttpText, ReportParser, BigNum, Des, BigNumCpp, Paillier, CAlgorithms

MCChars == {"x", " ", "\r", "\n"}
MCKeys == {<<"a">>, <<"a", "b">>, <<"c", "d">>}
MCValues == {[num |-> FALSE, chars |-> v] :
               v \in {<<>>, <<"v">>, <<"v", "w", "x">>, <<"c", "d">>}}
            \cup {[num |-> TRUE, chars |-> <<"7", "1">>]}

MCLengths == {0, 1, 14, 15, 16, 17, 23, 24, 61, 62, 63, 69, 70, 100, 201, 202,
              206, 208, 209, 247, 248, 253, 254, 255, 334, 363, 364, 380, 510,
              511, 837, 838, 883, 884, 955, 956, 966, 967}
MCCtrls == {<<"C", "1">>, <<"C", "2">>, <<"D", "2">>}
MCSeqs == {<<"8", "0">>, <<"8", "1">>, <<"0", "1">>, <<"8", "2">>}
MCIds == {<<"8", "0", "0", "1">>, <<"8", "0", "0", "2">>,
          <<"8", "0", "0", "3">>, <<"9", "0", "0", "3">>}

MCStrings == UNION {[1 .. n -> {0, 5, 9}] : n \in 1 .. 2}
             \cup UNION {[1 .. n -> {1, 9}] : n \in 3 .. 4}
             \cup {<<5, 5, 5>>, <<1, 0, 0, 0, 0>>}
             \cup {[i \in 1 .. n |-> 9] : n \in {5, 6, 8}}
MCInts == {0, 9, 10, 99, 100, 95599, 999999999, 1000000000, 2147483647}

MCDesKeys == {<<104, 101, 108, 108, 111, 107, 101, 121>>,
              <<0, 0, 0, 0, 0, 0, 0, 0>>, <<1, 35, 69, 103, 137, 171, 205, 239>>}
MCPlains == {<<104, 101, 108, 108, 111, 100, 101, 99>>,
             <<255, 255, 255, 255, 255, 255, 255, 255>>}
            \cup {[i \in 1 .. 8 |-> IF i = k THEN 2 ^ (k - 1) ELSE 0] : k \in 1 .. 8}

MCOperands == (0 .. 20) \cup {31, 32, 48, 52} \cup (63 .. 68) \cup {79, 80}
              \cup (127 .. 129) \cup {192, 200, 240} \cup (255 .. 257)
              \cup {271, 512, 768, 1000, 1023}
MCCStrings == {<<104>>, <<104, 105>>, <<1, 200, 3>>}
           \cup {[i \in 1 .. n |-> i] : n \in {4, 5, 8}}

MCArrays == UNION {[1 .. n -> 0 .. 3] : n \in 1 .. 4} \cup [1 .. 5 -> {1, 2}]
MCCrcMessages == {<<b>> : b \in SUBSET (0 .. 7)} \cup [1 .. 3 -> SUBSET {0, 7}]
                 \cup {TestMessage}

Init ==
  \/ HttpTextInit \/ ReportInit \/ BigNumInit \/ DesInit
  \/ BigNumCppInit \/ PaillierInit \/ CAlgorithmsInit

Next ==
  \/ HttpTextNext \/ ReportNext \/ BigNumNext \/ DesNext
  \/ BigNumCppNext \/ PaillierNext \/ CAlgorithmsNext

Spec == Init /\ [][Next]_callVars
=============================================================================
