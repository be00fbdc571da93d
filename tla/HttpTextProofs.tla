---------------------------- MODULE HttpTextProofs ----------------------------
(***************************************************************************)
(* The functions of cpp/http/util.c cut method, URI, lines, body and JSON  *)
(* values out of every text and every object.                              *)
(*                                                                         *)
(* They are loops, which the models write as recursive functions of the    *)
(* number of turns.  The first part has what all proofs about such loops   *)
(* need, those of AlgorithmsProofs too: induction up to n, that such a     *)
(* definition has a solution, and that the solution is the run of the      *)
(* loop.                                                                   *)
(***************************************************************************)
EXTENDS HttpText, WellFoundedInduction, TLAPS

-----------------------------------------------------------------------------
(* A set that holds 0 and, with each number below n, the next one, holds   *)
(* all numbers up to n: the induction of the loops.                        *)
LEMMA LoopInduction ==
  ASSUME NEW n \in Nat, NEW T, 0 \in T, \A k \in 1 .. n : k - 1 \in T => k \in T
  PROVE  \A k \in 0 .. n : k \in T
<1> DEFINE Out == {k \in Nat : k <= n /\ k \notin T}
<1>1. SUFFICES Out = {}
  BY DEF Out
<1>2. SUFFICES ASSUME Out # {} PROVE FALSE
  OBVIOUS
<1>3. PICK k \in Out : \A j \in Out : ~(<<j, k>> \in OpToRel(<, Nat))
  <2>1. Out \subseteq Nat
    OBVIOUS
  <2> HIDE DEF Out
  <2> QED
    BY <1>2, <2>1, WFMin, NatLessThanWellFounded
<1>4. k \in 1 .. n /\ k - 1 \in Nat
  OBVIOUS
<1>5. k - 1 \notin Out
  <2>1. <<k - 1, k>> \in OpToRel(<, Nat)
    BY <1>4 DEF OpToRel
  <2> QED
    BY <1>3, <2>1
<1> QED
  BY <1>4, <1>5

(* The values that a loop of n turns gives its variable, which is a before *)
(* it; step[k] is what turn k does.                                        *)
Runs(f, n, S, a, step) ==
  /\ f \in [0 .. n -> S]
  /\ f[0] = a
  /\ \A k \in 1 .. n : f[k] = step[k][f[k - 1]]

(* A loop whose turns keep its variable in S has a run.                     *)
LEMMA LoopRuns ==
  ASSUME NEW n \in Nat, NEW S, NEW a \in S, NEW step \in [1 .. n -> [S -> S]]
  PROVE  \E f : Runs(f, n, S, a, step)
<1> DEFINE Good(f, m) == f[0] = a /\ \A k \in 1 .. m : f[k] = step[k][f[k - 1]]
<1> DEFINE T == {m \in 0 .. n : \E f \in [0 .. n -> S] : Good(f, m)}
<1>1. 0 \in T
  <2> DEFINE f == [k \in 0 .. n |-> a]
  <2>1. f \in [0 .. n -> S] /\ f[0] = a /\ 1 .. 0 = {}
    OBVIOUS
  <2> HIDE DEF f
  <2> QED
    BY <2>1
<1>2. ASSUME NEW m \in 1 .. n, m - 1 \in T PROVE m \in T
  <2>1. PICK f \in [0 .. n -> S] : Good(f, m - 1)
    BY <1>2
  <2> DEFINE g == [f EXCEPT ![m] = step[m][f[m - 1]]]
  <2>2. f[m - 1] \in S /\ step[m] \in [S -> S]
    OBVIOUS
  <2>3. g \in [0 .. n -> S]
    BY <2>2
  <2>4. g[0] = a
    BY <2>1
  <2>5. ASSUME NEW k \in 1 .. m PROVE g[k] = step[k][g[k - 1]]
    <3>1. g[k - 1] = f[k - 1]
      OBVIOUS
    <3>2. CASE k = m
      BY <3>1, <3>2
    <3>3. CASE k # m
      <4>1. k \in 1 .. m - 1 /\ g[k] = f[k]
        BY <3>3
      <4> QED
        BY <2>1, <3>1, <4>1
    <3> QED
      BY <3>2, <3>3
  <2> HIDE DEF g
  <2> QED
    BY <2>3, <2>4, <2>5
<1>3. \A k \in 1 .. n : k - 1 \in T => k \in T
  BY <1>2
<1> HIDE DEF T
<1>4. \A k \in 0 .. n : k \in T
  BY <1>1, <1>3, LoopInduction
<1> QED
  BY <1>4 DEF T, Runs

(* The right-hand side d of a recursive definition of f, if turn k takes   *)
(* what f[k - 1] is, as long as it is in S, to d[k].                       *)
Unfolds(d, f, n, S, a, step) ==
  /\ d = [k \in 0 .. n |-> d[k]]
  /\ d[0] = a
  /\ \A k \in 1 .. n : f[k - 1] \in S => d[k] = step[k][f[k - 1]]

(* A run satisfies the recursive definition.                               *)
LEMMA LoopUnfolds ==
  ASSUME NEW n \in Nat, NEW S, NEW a, NEW step,
         NEW f, Runs(f, n, S, a, step), NEW d, Unfolds(d, f, n, S, a, step)
  PROVE  f = d
<1>1. f = [k \in 0 .. n |-> f[k]]
  BY DEF Runs
<1>2. \A k \in 0 .. n : f[k] = d[k]
  <2>1. \A k \in 0 .. n : k = 0 \/ (k \in 1 .. n /\ f[k - 1] \in S)
    BY DEF Runs
  <2> QED
    BY <2>1, Zenon DEF Runs, Unfolds
<1> QED
  BY <1>1, <1>2, Zenon DEF Unfolds

(* What satisfies the recursive definition is a run.                       *)
LEMMA LoopIs ==
  ASSUME NEW n \in Nat, NEW S, NEW a \in S, NEW step \in [1 .. n -> [S -> S]],
         NEW m, Unfolds(m, m, n, S, a, step)
  PROVE  Runs(m, n, S, a, step)
<1> DEFINE T == {k \in 0 .. n : m[k] \in S}
<1>1. 0 \in T
  BY DEF Unfolds
<1>2. ASSUME NEW k \in 1 .. n, k - 1 \in T PROVE k \in T
  <2>1. m[k] = step[k][m[k - 1]] /\ step[k] \in [S -> S]
    BY <1>2 DEF Unfolds
  <2> QED
    BY <1>2, <2>1
<1>3. \A k \in 1 .. n : k - 1 \in T => k \in T
  BY <1>2
<1> HIDE DEF T
<1>4. \A k \in 0 .. n : k \in T
  BY <1>1, <1>3, LoopInduction
<1>5. \A k \in 0 .. n : m[k] \in S
  BY <1>4 DEF T
<1>6. m \in [0 .. n -> S]
  BY <1>5, Zenon DEF Unfolds
<1>7. \A k \in 1 .. n : k - 1 \in 0 .. n
  OBVIOUS
<1> QED
  BY <1>5, <1>6, <1>7, Zenon DEF Runs, Unfolds

-----------------------------------------------------------------------------
(* The functions of util.c.  First what the loops that copy have in        *)
(* common.                                                                 *)

(* A set of numbers that is not empty has a least one.                     *)
LEMMA LeastIs ==
  ASSUME NEW T, T \subseteq Nat, T # {}
  PROVE  Min(T) \in T /\ \A y \in T : Min(T) <= y
<1>1. PICK x \in T : \A y \in T : ~(<<y, x>> \in OpToRel(<, Nat))
  BY WFMin, NatLessThanWellFounded
<1>2. \A y \in T : x <= y
  <2> SUFFICES ASSUME NEW y \in T, ~(x <= y) PROVE FALSE
    OBVIOUS
  <2>1. x \in Nat /\ y \in Nat /\ y < x
    OBVIOUS
  <2>2. <<y, x>> \in OpToRel(<, Nat)
    BY <2>1 DEF OpToRel
  <2> QED
    BY <1>1, <2>2
<1> QED
  BY <1>1, <1>2 DEF Min

(* The characters p to i of a text are its characters p to i - 1 and i.    *)
LEMMA SubSeqGrows ==
  ASSUME NEW S, NEW s \in Seq(S), NEW p \in 1 .. Len(s), NEW i \in p .. Len(s)
  PROVE  SubSeq(s, p, i) = Append(SubSeq(s, p, i - 1), s[i])
<1> DEFINE x == SubSeq(s, p, i)  y == SubSeq(s, p, i - 1)
<1>1. /\ x \in Seq(S) /\ Len(x) = i - p + 1
      /\ \A k \in 1 .. i - p + 1 : x[k] = s[p + k - 1]
  OBVIOUS
<1>2. /\ y \in Seq(S) /\ Len(y) = i - p
      /\ \A k \in 1 .. i - p : y[k] = s[p + k - 1]
  OBVIOUS
<1>3. s[i] \in S
  OBVIOUS
<1> HIDE DEF x, y
<1> QED
  BY <1>1, <1>2, <1>3

-----------------------------------------------------------------------------
(* No character of s from p to m is in E.                                  *)
Clear(s, p, m, E) == \A k \in p .. m : s[k] \notin E

(* Where UpTo stops: at m, if the next character ends it, if s ends or if  *)
(* there are n characters.                                                 *)
LEMMA UpToIs ==
  ASSUME NEW S, NEW s \in Seq(S), NEW p \in 1 .. Len(s) + 1, NEW E, NEW n \in Nat,
         NEW m \in p - 1 .. Len(s), Clear(s, p, m, E), m - p + 1 <= n,
         m = Len(s) \/ (m < Len(s) /\ s[m + 1] \in E) \/ m - p + 1 = n
  PROVE  UpTo(s, p, E, n) = SubSeq(s, p, m)
<1> DEFINE ends == {k \in p .. Len(s) : s[k] \in E} \cup {Len(s) + 1}
<1>1. ends \subseteq Nat /\ ends # {}
  OBVIOUS
<1>2. \A y \in ends : m + 1 <= y
  BY DEF Clear
<1>3. m = Len(s) \/ (m < Len(s) /\ s[m + 1] \in E) => m + 1 \in ends
  OBVIOUS
<1> DEFINE e == Min(ends)
<1>4. e \in Nat /\ m + 1 <= e /\ (m + 1 \in ends => e = m + 1)
  <2> HIDE DEF ends
  <2>1. e \in ends /\ \A y \in ends : e <= y
    BY <1>1, LeastIs
  <2> HIDE DEF e
  <2> QED
    BY <1>1, <1>2, <2>1
<1>5. UpTo(s, p, E, n) = SubSeq(s, p, Min({e - 1, p + n - 1}))
  BY DEF UpTo
<1> HIDE DEF e, ends
<1>6. Min({e - 1, p + n - 1}) = m
  <2> DEFINE T == {e - 1, p + n - 1}
  <2>1. T \subseteq Nat /\ T # {} /\ m \in T /\ \A y \in T : m <= y
    BY <1>3, <1>4
  <2>2. T \subseteq Nat /\ T # {}
    BY <2>1
  <2> HIDE DEF T
  <2> DEFINE x == Min(T)
  <2>3. x \in T /\ \A y \in T : x <= y
    BY <2>2, LeastIs
  <2> HIDE DEF x
  <2>4. x = m
    BY <2>1, <2>3
  <2> QED
    BY <2>4 DEF T, x
<1> QED
  BY <1>5, <1>6

(* What a loop that copies from p on until a character of E, at most n,    *)
(* has in t after character i.                                             *)
Took(s, p, E, n, i, a) ==
  IF a.stop
  THEN \E m \in p - 1 .. i - 1 :
         /\ a.t = SubSeq(s, p, m) /\ Clear(s, p, m, E) /\ m - p + 1 <= n
         /\ s[m + 1] \in E \/ m - p + 1 = n
  ELSE a.t = SubSeq(s, p, i) /\ Clear(s, p, i, E) /\ i - p + 1 <= n

(* The turn of such a loop.                                                *)
TakeTurn(s, E, n, i, a) ==
  IF a.stop THEN a
  ELSE IF s[i] \in E THEN Stopped(a) ELSE PutIfRoom(a, s[i], n)

(* Before the first character to copy.                                     *)
LEMMA TookStart ==
  ASSUME NEW S, NEW s \in Seq(S), NEW f \in 0 .. Len(s), NEW E, NEW n \in Nat,
         NEW a \in Locals(s), a.t = <<>>, ~a.stop
  PROVE  Took(s, f + 1, E, n, f, a)
<1>1. SubSeq(s, f + 1, f) = <<>> /\ f + 1 .. f = {} /\ f - (f + 1) + 1 <= n
  OBVIOUS
<1> QED
  BY <1>1 DEF Took, Clear

(* A turn of such a loop goes on with it.                                  *)
LEMMA TookStep ==
  ASSUME NEW S, NEW s \in Seq(S), NEW p \in 1 .. Len(s), NEW i \in p .. Len(s),
         NEW E, NEW n \in Nat, NEW a \in Locals(s), Took(s, p, E, n, i - 1, a)
  PROVE  Took(s, p, E, n, i, TakeTurn(s, E, n, i, a))
<1>1. CASE a.stop
  <2>1. PICK m \in p - 1 .. i - 1 - 1 :
          /\ a.t = SubSeq(s, p, m) /\ Clear(s, p, m, E) /\ m - p + 1 <= n
          /\ s[m + 1] \in E \/ m - p + 1 = n
    BY <1>1, Zenon DEF Took
  <2>2. m \in p - 1 .. i - 1
    OBVIOUS
  <2>3. TakeTurn(s, E, n, i, a) = a
    BY <1>1 DEF TakeTurn
  <2> QED
    BY <1>1, <2>1, <2>2, <2>3, Zenon DEF Took
<1>2. CASE ~a.stop
  <2>1. /\ a.t = SubSeq(s, p, i - 1) /\ Clear(s, p, i - 1, E)
        /\ i - 1 - p + 1 <= n
    BY <1>2, Zenon DEF Took
  <2>2. Len(a.t) = i - p
    BY <2>1
  <2> DEFINE st == Stopped(a)
  <2>3. st.stop /\ st.t = a.t
    BY DEF Stopped, Locals
  <2>4. i - 1 \in p - 1 .. i - 1 /\ i - 1 + 1 = i /\ i - 1 - p + 1 = i - p
    OBVIOUS
  <2> HIDE DEF st
  <2>5. CASE s[i] \in E
    <3>1. TakeTurn(s, E, n, i, a) = st
      BY <1>2, <2>5 DEF TakeTurn, st
    <3>2. Took(s, p, E, n, i, st)
      BY <2>1, <2>3, <2>4, <2>5, Zenon DEF Took
    <3> QED
      BY <3>1, <3>2
  <2>6. CASE s[i] \notin E /\ Len(a.t) < n
    <3> DEFINE b == Put(a, s[i])
    <3>1. TakeTurn(s, E, n, i, a) = b
      BY <1>2, <2>6 DEF TakeTurn, PutIfRoom
    <3>2. ~b.stop /\ b.t = Append(a.t, s[i])
      BY <1>2 DEF Put, Locals
    <3>3. b.t = SubSeq(s, p, i)
      BY <2>1, <3>2, SubSeqGrows
    <3>4. Clear(s, p, i, E) /\ i - p + 1 <= n
      BY <2>1, <2>2, <2>6 DEF Clear
    <3> HIDE DEF b
    <3>5. Took(s, p, E, n, i, b)
      BY <3>2, <3>3, <3>4, Zenon DEF Took
    <3> QED
      BY <3>1, <3>5
  <2>7. CASE s[i] \notin E /\ ~(Len(a.t) < n)
    <3>1. TakeTurn(s, E, n, i, a) = st
      BY <1>2, <2>7 DEF TakeTurn, PutIfRoom, st
    <3>2. i - 1 - p + 1 = n
      BY <2>1, <2>2, <2>7
    <3>3. Took(s, p, E, n, i, st)
      BY <2>1, <2>3, <2>4, <3>2, Zenon DEF Took
    <3> QED
      BY <3>1, <3>3
  <2> QED
    BY <2>5, <2>6, <2>7
<1> QED
  BY <1>1, <1>2

(* At the end of the text it is what UpTo is.                              *)
LEMMA TookEnd ==
  ASSUME NEW S, NEW s \in Seq(S), NEW p \in 1 .. Len(s) + 1, NEW E, NEW n \in Nat,
         NEW a, Took(s, p, E, n, Len(s), a)
  PROVE  a.t = UpTo(s, p, E, n)
<1>1. CASE a.stop
  <2>1. PICK m \in p - 1 .. Len(s) - 1 :
          /\ a.t = SubSeq(s, p, m) /\ Clear(s, p, m, E) /\ m - p + 1 <= n
          /\ s[m + 1] \in E \/ m - p + 1 = n
    BY <1>1, Zenon DEF Took
  <2>2. m \in p - 1 .. Len(s) /\ m < Len(s)
    OBVIOUS
  <2> QED
    BY <2>1, <2>2, UpToIs
<1>2. CASE ~a.stop
  <2>1. a.t = SubSeq(s, p, Len(s)) /\ Clear(s, p, Len(s), E) /\ Len(s) - p + 1 <= n
    BY <1>2, Zenon DEF Took
  <2>2. Len(s) \in p - 1 .. Len(s)
    OBVIOUS
  <2> QED
    BY <2>1, <2>2, UpToIs
<1> QED
  BY <1>1, <1>2

(* The locals after each character of a text.                              *)
Scanned(c, s) == c \in [0 .. Len(s) -> Locals(s)] /\ c[0] = Start

(* The loop of each function of util.c.                                    *)
LEMMA ScanIs ==
  ASSUME NEW S, NEW s \in Seq(S),
         NEW turn \in [1 .. Len(s) -> [Locals(s) -> Locals(s)]]
  PROVE  /\ Scanned(Scan(s, turn), s)
         /\ \A k \in 1 .. Len(s) : Scan(s, turn)[k] = turn[k][Scan(s, turn)[k - 1]]
<1> DEFINE n == Len(s)
           L == Locals(s)
<1>1. n \in Nat
  OBVIOUS
<1>2. Start \in L
  BY DEF Start, Locals
<1>3. turn \in [1 .. n -> [L -> L]]
  OBVIOUS
<1> DEFINE d(g) == [k \in 0 .. n |-> IF k = 0 THEN Start ELSE turn[k][g[k - 1]]]
           m == Scan(s, turn)
<1>4. m = CHOOSE g : g = d(g)
  BY DEF Scan
<1>5. Scanned(m, s) <=> m \in [0 .. n -> L] /\ m[0] = Start
  BY DEF Scanned
<1> HIDE DEF n, L, m
<1>6. PICK f : Runs(f, n, L, Start, turn)
  BY <1>1, <1>2, <1>3, LoopRuns
<1>7. ASSUME NEW g PROVE Unfolds(d(g), g, n, L, Start, turn)
  <2>1. d(g) = [k \in 0 .. n |-> d(g)[k]] /\ d(g)[0] = Start
    BY <1>1
  <2>2. \A k \in 1 .. n : d(g)[k] = turn[k][g[k - 1]]
    BY <1>1
  <2> HIDE DEF d
  <2> QED
    BY <2>1, <2>2, Zenon DEF Unfolds
<1> HIDE DEF d
<1>8. f = d(f)
  BY <1>1, <1>6, <1>7, LoopUnfolds
<1>9. m = d(m)
  BY <1>4, <1>8
<1>10. Runs(m, n, L, Start, turn)
  BY <1>1, <1>2, <1>3, <1>7, <1>9, LoopIs
<1> QED
  BY <1>5, <1>10, Zenon DEF Runs, m, n

(* The turns keep the types of the locals.                                 *)
LEMMA StoppedType ==
  ASSUME NEW s, NEW a \in Locals(s)
  PROVE  Stopped(a) \in Locals(s)
BY DEF Stopped, Locals

(* A character of the text may be put into the target.                     *)
LEMMA PutType ==
  ASSUME NEW S, NEW s \in Seq(S), NEW i \in 1 .. Len(s), NEW a \in Locals(s)
  PROVE  Put(a, s[i]) \in Locals(s)
<1>1. s[i] \in Range(s)
  BY DEF Range
<1>2. a.t \in Seq(Range(s))
  BY DEF Locals
<1>3. Append(a.t, s[i]) \in Seq(Range(s))
  BY <1>1, <1>2
<1> QED
  BY <1>3 DEF Put, Locals

(* The locals of getmethod.                                                *)
LEMMA MethodScan ==
  ASSUME NEW S, NEW s \in Seq(S), NEW n \in Nat
  PROVE  \E c : /\ Scanned(c, s) /\ GetMethod(s, n) = c[Len(s)].t
                /\ \A k \in 1 .. Len(s) : c[k] = MethodTurn(s, n, k, c[k - 1])
<1> DEFINE B(i, a) == MethodTurn(s, n, i, a)
           turn == [i \in DOMAIN s |-> [a \in Locals(s) |-> B(i, a)]]
           c == Scan(s, turn)
<1>1. GetMethod(s, n) = c[Len(s)].t
  BY DEF GetMethod
<1>2. \A i \in 1 .. Len(s), a \in Locals(s) : B(i, a) \in Locals(s)
  BY StoppedType, PutType DEF MethodTurn, PutIfRoom
<1> HIDE DEF B
<1>3. DOMAIN s = 1 .. Len(s)
  OBVIOUS
<1>4. turn \in [1 .. Len(s) -> [Locals(s) -> Locals(s)]]
  BY <1>2, <1>3
<1>5. \A i \in 1 .. Len(s), a \in Locals(s) : turn[i][a] = B(i, a)
  BY <1>3
<1> HIDE DEF turn
<1>6. Scanned(c, s) /\ \A k \in 1 .. Len(s) : c[k] = turn[k][c[k - 1]]
  BY <1>4, ScanIs
<1> HIDE DEF c
<1>7. \A k \in 1 .. Len(s) : c[k - 1] \in Locals(s)
  BY <1>6 DEF Scanned
<1>8. \A k \in 1 .. Len(s) : c[k] = B(k, c[k - 1])
  BY <1>5, <1>6, <1>7
<1> QED
  BY <1>1, <1>6, <1>8 DEF B

-----------------------------------------------------------------------------
(* From character f on, as long as j is J and nothing is to be skipped,    *)
(* the loop copies what TakeTurn copies.                                   *)
Copies(c, s, f, e, J, E, n) ==
  /\ c[f].t = <<>> /\ ~c[f].stop /\ c[f].j = J /\ c[f].skip = 0
  /\ \A k \in f + 1 .. e :
       c[k - 1].j = J /\ c[k - 1].skip = 0 => c[k] = TakeTurn(s, E, n, k, c[k - 1])

(* Such a loop has copied what Took says.                                  *)
LEMMA CopiesTake ==
  ASSUME NEW S, NEW s \in Seq(S), NEW c, Scanned(c, s), NEW f \in 0 .. Len(s),
         NEW e \in f .. Len(s), NEW J, NEW E, NEW n \in Nat, Copies(c, s, f, e, J, E, n)
  PROVE  Took(s, f + 1, E, n, e, c[e]) /\ c[e].skip = 0 /\ c[e].j = J
<1> DEFINE P(k) == Took(s, f + 1, E, n, k, c[k]) /\ c[k].j = J /\ c[k].skip = 0
           m == e - f
           T == {k \in 0 .. m : P(f + k)}
<1>1. \A k \in 0 .. Len(s) : c[k] \in Locals(s)
  BY DEF Scanned
<1>2. P(f)
  <2>1. c[f] \in Locals(s) /\ c[f].t = <<>> /\ ~c[f].stop
    BY <1>1 DEF Copies
  <2>2. Took(s, f + 1, E, n, f, c[f])
    BY <2>1, TookStart
  <2> QED
    BY <2>2 DEF Copies
<1>3. ASSUME NEW k \in f + 1 .. e, P(k - 1) PROVE P(k)
  <2>1. c[k] = TakeTurn(s, E, n, k, c[k - 1])
    BY <1>3 DEF Copies
  <2>2. c[k - 1] \in Locals(s)
    BY <1>1
  <2>3. k \in f + 1 .. Len(s) /\ f + 1 \in 1 .. Len(s)
    OBVIOUS
  <2>4. Took(s, f + 1, E, n, k, c[k])
    BY <1>3, <2>1, <2>2, <2>3, TookStep
  <2>5. c[k].j = c[k - 1].j /\ c[k].skip = c[k - 1].skip
    BY <2>1, <2>2 DEF TakeTurn, PutIfRoom, Put, Stopped, Locals
  <2> QED
    BY <1>3, <2>4, <2>5
<1> HIDE DEF P
<1>4. m \in Nat /\ f + 0 = f
  OBVIOUS
<1>5. 0 \in T
  BY <1>2, <1>4
<1>6. ASSUME NEW k \in 1 .. m, k - 1 \in T PROVE k \in T
  <2>1. f + k \in f + 1 .. e /\ f + k - 1 = f + (k - 1)
    OBVIOUS
  <2>2. P(f + k - 1)
    BY <1>6, <2>1
  <2>3. P(f + k)
    BY <1>3, <2>1, <2>2
  <2> QED
    BY <2>3
<1> HIDE DEF T
<1>7. \A k \in 0 .. m : k \in T
  BY <1>4, <1>5, <1>6, LoopInduction
<1>8. m \in T /\ f + m = e
  BY <1>4, <1>7 DEF m
<1>9. P(e)
  BY <1>8 DEF T
<1> QED
  BY <1>9 DEF P

(* Copied to the end of the text, t is what UpTo cuts out.                  *)
LEMMA CopiesUpTo ==
  ASSUME NEW S, NEW s \in Seq(S), NEW c, Scanned(c, s), NEW f \in 0 .. Len(s),
         NEW J, NEW E, NEW n \in Nat, Copies(c, s, f, Len(s), J, E, n)
  PROVE  c[Len(s)].t = UpTo(s, f + 1, E, n)
<1>1. Len(s) \in f .. Len(s) /\ f + 1 \in 1 .. Len(s) + 1
  OBVIOUS
<1>2. Took(s, f + 1, E, n, Len(s), c[Len(s)])
  BY <1>1, CopiesTake
<1> QED
  BY <1>1, <1>2, TookEnd

(* Until character f nothing happens.                                      *)
Waits(c, f) == \A k \in 1 .. f : c[k - 1] = Start => c[k] = Start

(* The locals are the first ones until then.                               *)
LEMMA WaitsStart ==
  ASSUME NEW c, c[0] = Start, NEW f \in Nat, Waits(c, f)
  PROVE  \A k \in 0 .. f : c[k] = Start
<1> DEFINE T == {k \in 0 .. f : c[k] = Start}
<1>1. 0 \in T
  OBVIOUS
<1>2. \A k \in 1 .. f : k - 1 \in T => k \in T
  BY DEF Waits
<1> HIDE DEF T
<1>3. \A k \in 0 .. f : k \in T
  BY <1>1, <1>2, LoopInduction
<1> QED
  BY <1>3 DEF T

(* getmethod.                                                              *)
LEMMA MethodIs ==
  ASSUME NEW S, NEW s \in Seq(S), NEW n \in Nat
  PROVE  GetMethod(s, n) = UpTo(s, 1, LineEnd \cup {SP}, n)
<1>1. PICK c : /\ Scanned(c, s) /\ GetMethod(s, n) = c[Len(s)].t
               /\ \A k \in 1 .. Len(s) : c[k] = MethodTurn(s, n, k, c[k - 1])
  BY MethodScan
<1> DEFINE E == LineEnd \cup {SP}
<1>2. c[0].t = <<>> /\ ~c[0].stop /\ c[0].j = 0 /\ c[0].skip = 0
  BY <1>1 DEF Scanned, Start
<1>3. \A k \in 1 .. Len(s) : c[k] = TakeTurn(s, E, n, k, c[k - 1])
  BY <1>1 DEF MethodTurn, TakeTurn
<1> HIDE DEF E
<1>4. Copies(c, s, 0, Len(s), 0, E, n)
  BY <1>2, <1>3 DEF Copies
<1>5. 0 \in 0 .. Len(s) /\ 0 + 1 = 1
  OBVIOUS
<1>6. c[Len(s)].t = UpTo(s, 0 + 1, E, n)
  BY <1>1, <1>4, <1>5, CopiesUpTo
<1> QED
  BY <1>1, <1>5, <1>6 DEF E

(* The locals of geturi.                                                   *)
LEMMA UriScan ==
  ASSUME NEW S, NEW s \in Seq(S), NEW n \in Nat
  PROVE  \E c : /\ Scanned(c, s) /\ GetUri(s, n) = c[Len(s)].t
                /\ \A k \in 1 .. Len(s) : c[k] = UriTurn(s, n, k, c[k - 1])
<1> DEFINE B(i, a) == UriTurn(s, n, i, a)
           turn == [i \in DOMAIN s |-> [a \in Locals(s) |-> B(i, a)]]
           c == Scan(s, turn)
<1>1. GetUri(s, n) = c[Len(s)].t
  BY DEF GetUri
<1>2. \A i \in 1 .. Len(s), a \in Locals(s) : B(i, a) \in Locals(s)
  <2> SUFFICES ASSUME NEW i \in 1 .. Len(s), NEW a \in Locals(s)
               PROVE  B(i, a) \in Locals(s)
    OBVIOUS
  <2>1. [a EXCEPT !.j = @ + 1] \in Locals(s)
    BY DEF Locals
  <2> QED
    BY <2>1, StoppedType, PutType DEF UriTurn, PutIfRoom
<1> HIDE DEF B
<1>3. DOMAIN s = 1 .. Len(s)
  OBVIOUS
<1>4. turn \in [1 .. Len(s) -> [Locals(s) -> Locals(s)]]
  BY <1>2, <1>3
<1>5. \A i \in 1 .. Len(s), a \in Locals(s) : turn[i][a] = B(i, a)
  BY <1>3
<1> HIDE DEF turn
<1>6. Scanned(c, s) /\ \A k \in 1 .. Len(s) : c[k] = turn[k][c[k - 1]]
  BY <1>4, ScanIs
<1> HIDE DEF c
<1>7. \A k \in 1 .. Len(s) : c[k - 1] \in Locals(s)
  BY <1>6 DEF Scanned
<1>8. \A k \in 1 .. Len(s) : c[k] = B(k, c[k - 1])
  BY <1>5, <1>6, <1>7
<1> QED
  BY <1>1, <1>6, <1>8 DEF B

(* The locals of getln.                                                    *)
LEMMA LnScan ==
  ASSUME NEW S, NEW s \in Seq(S), NEW n \in Nat, NEW l \in Nat
  PROVE  \E c : /\ Scanned(c, s) /\ GetLn(s, n, l) = c[Len(s)].t
                /\ \A k \in 1 .. Len(s) : c[k] = LnTurn(s, n, l, k, c[k - 1])
<1> DEFINE B(i, a) == LnTurn(s, n, l, i, a)
           turn == [i \in DOMAIN s |-> [a \in Locals(s) |-> B(i, a)]]
           c == Scan(s, turn)
<1>1. GetLn(s, n, l) = c[Len(s)].t
  BY DEF GetLn
<1>2. \A i \in 1 .. Len(s), a \in Locals(s) : B(i, a) \in Locals(s)
  <2> SUFFICES ASSUME NEW i \in 1 .. Len(s), NEW a \in Locals(s)
               PROVE  B(i, a) \in Locals(s)
    OBVIOUS
  <2>1. [a EXCEPT !.j = @ + 1] \in Locals(s)
    BY DEF Locals
  <2> QED
    BY <2>1, StoppedType, PutType DEF LnTurn, PutIfRoom
<1> HIDE DEF B
<1>3. DOMAIN s = 1 .. Len(s)
  OBVIOUS
<1>4. turn \in [1 .. Len(s) -> [Locals(s) -> Locals(s)]]
  BY <1>2, <1>3
<1>5. \A i \in 1 .. Len(s), a \in Locals(s) : turn[i][a] = B(i, a)
  BY <1>3
<1> HIDE DEF turn
<1>6. Scanned(c, s) /\ \A k \in 1 .. Len(s) : c[k] = turn[k][c[k - 1]]
  BY <1>4, ScanIs
<1> HIDE DEF c
<1>7. \A k \in 1 .. Len(s) : c[k - 1] \in Locals(s)
  BY <1>6 DEF Scanned
<1>8. \A k \in 1 .. Len(s) : c[k] = B(k, c[k - 1])
  BY <1>5, <1>6, <1>7
<1> QED
  BY <1>1, <1>6, <1>8 DEF B

(* The locals of getbody.                                                  *)
LEMMA BodyScan ==
  ASSUME NEW S, NEW s \in Seq(S), NEW n \in Nat
  PROVE  \E c : /\ Scanned(c, s) /\ GetBody(s, n) = c[Len(s)].t
                /\ \A k \in 1 .. Len(s) : c[k] = BodyTurn(s, n, k, c[k - 1])
<1> DEFINE B(i, a) == BodyTurn(s, n, i, a)
           turn == [i \in DOMAIN s |-> [a \in Locals(s) |-> B(i, a)]]
           c == Scan(s, turn)
<1>1. GetBody(s, n) = c[Len(s)].t
  BY DEF GetBody
<1>2. \A i \in 1 .. Len(s), a \in Locals(s) : B(i, a) \in Locals(s)
  <2> SUFFICES ASSUME NEW i \in 1 .. Len(s), NEW a \in Locals(s)
               PROVE  B(i, a) \in Locals(s)
    OBVIOUS
  <2>1. [a EXCEPT !.j = 1] \in Locals(s)
    BY DEF Locals
  <2> QED
    BY <2>1, StoppedType, PutType DEF BodyTurn
<1> HIDE DEF B
<1>3. DOMAIN s = 1 .. Len(s)
  OBVIOUS
<1>4. turn \in [1 .. Len(s) -> [Locals(s) -> Locals(s)]]
  BY <1>2, <1>3
<1>5. \A i \in 1 .. Len(s), a \in Locals(s) : turn[i][a] = B(i, a)
  BY <1>3
<1> HIDE DEF turn
<1>6. Scanned(c, s) /\ \A k \in 1 .. Len(s) : c[k] = turn[k][c[k - 1]]
  BY <1>4, ScanIs
<1> HIDE DEF c
<1>7. \A k \in 1 .. Len(s) : c[k - 1] \in Locals(s)
  BY <1>6 DEF Scanned
<1>8. \A k \in 1 .. Len(s) : c[k] = B(k, c[k - 1])
  BY <1>5, <1>6, <1>7
<1> QED
  BY <1>1, <1>6, <1>8 DEF B

(* The run of the loop of getjsonv.                                        *)
JsonRun(c, s, key, n) ==
  /\ Scanned(c, s)
  /\ GetJsonV(s, key, n).t = c[Len(s)].t
  /\ GetJsonV(s, key, n).nul = Min({k \in DOMAIN s : c[k].stop} \cup {Len(s) + 1}) - 1
  /\ \A k \in 1 .. Len(s) : c[k] = JsonVTurn(s, key, n, k, c[k - 1])

(* The locals of getjsonv.                                                 *)
LEMMA JsonVScan ==
  ASSUME NEW S, NEW s \in Seq(S), NEW n \in Nat, NEW K, NEW key \in Seq(K)
  PROVE  \E c : JsonRun(c, s, key, n)
<1> DEFINE B(i, a) == JsonVTurn(s, key, n, i, a)
           turn == [i \in DOMAIN s |-> [a \in Locals(s) |-> B(i, a)]]
           c == Scan(s, turn)
<1>1. /\ GetJsonV(s, key, n).t = c[Len(s)].t
      /\ GetJsonV(s, key, n).nul = Min({k \in DOMAIN s : c[k].stop} \cup {Len(s) + 1}) - 1
  BY DEF GetJsonV
<1>2. \A i \in 1 .. Len(s), a \in Locals(s) : B(i, a) \in Locals(s)
  <2> SUFFICES ASSUME NEW i \in 1 .. Len(s), NEW a \in Locals(s)
               PROVE  B(i, a) \in Locals(s)
    OBVIOUS
  <2>1. [a EXCEPT !.j = @ + 1] \in Locals(s)
    <3>1. a.j + 1 \in Nat
      BY DEF Locals
    <3> QED
      BY <3>1 DEF Locals
  <2>3. a.skip > 0 => [a EXCEPT !.skip = @ - 1] \in Locals(s)
    <3>1. a.skip > 0 => a.skip - 1 \in Nat
      BY DEF Locals
    <3> QED
      BY <3>1 DEF Locals
  <2>2. [a EXCEPT !.j = 1, !.skip = Len(key)] \in Locals(s)
    <3>1. Len(key) \in Nat
      OBVIOUS
    <3> QED
      BY <3>1 DEF Locals
  <2> QED
    BY <2>1, <2>2, <2>3, StoppedType, PutType DEF JsonVTurn, PutIfRoom
<1> HIDE DEF B
<1>3. DOMAIN s = 1 .. Len(s)
  OBVIOUS
<1>4. turn \in [1 .. Len(s) -> [Locals(s) -> Locals(s)]]
  BY <1>2, <1>3
<1>5. \A i \in 1 .. Len(s), a \in Locals(s) : turn[i][a] = B(i, a)
  BY <1>3
<1> HIDE DEF turn
<1>6. Scanned(c, s) /\ \A k \in 1 .. Len(s) : c[k] = turn[k][c[k - 1]]
  BY <1>4, ScanIs
<1> HIDE DEF c
<1>7. \A k \in 1 .. Len(s) : c[k - 1] \in Locals(s)
  BY <1>6 DEF Scanned
<1>8. \A k \in 1 .. Len(s) : c[k] = B(k, c[k - 1])
  BY <1>5, <1>6, <1>7
<1>9. JsonRun(c, s, key, n)
  BY <1>1, <1>6, <1>8 DEF B, JsonRun
<1> QED
  BY <1>9

(* geturi.                                                                 *)
LEMMA UriIs ==
  ASSUME NEW S, NEW s \in Seq(S), NEW n \in Nat
  PROVE  LET sps == {k \in DOMAIN s : s[k] = SP}
         IN GetUri(s, n) = IF sps = {} THEN <<>> ELSE UpTo(s, Min(sps) + 1, {SP}, n)
<1> DEFINE sps == {k \in DOMAIN s : s[k] = SP}
<1>1. PICK c : /\ Scanned(c, s) /\ GetUri(s, n) = c[Len(s)].t
               /\ \A k \in 1 .. Len(s) : c[k] = UriTurn(s, n, k, c[k - 1])
  BY UriScan
<1>2. c[0] = Start /\ Start.j = 0 /\ ~Start.stop /\ Start.t = <<>>
  BY <1>1 DEF Scanned, Start
<1>3. ASSUME NEW k \in 1 .. Len(s), s[k] # SP, c[k - 1] = Start PROVE c[k] = Start
  <2>1. UriTurn(s, n, k, Start) = Start
    BY <1>3 DEF UriTurn, Start
  <2> QED
    BY <1>1, <1>3, <2>1
<1>4. CASE sps = {}
  <2>1. Waits(c, Len(s))
    BY <1>3, <1>4 DEF Waits
  <2>2. Len(s) \in Nat /\ Len(s) \in 0 .. Len(s)
    OBVIOUS
  <2>3. c[Len(s)] = Start
    BY <1>2, <2>1, <2>2, WaitsStart
  <2> QED
    BY <1>1, <1>2, <1>4, <2>3
<1>5. CASE sps # {}
  <2> DEFINE f == Min(sps)
  <2>1. sps \subseteq Nat
    OBVIOUS
  <2>2. f \in sps /\ \A y \in sps : f <= y
    <3> HIDE DEF sps
    <3> QED
      BY <1>5, <2>1, LeastIs
  <2> HIDE DEF f
  <2>3. f \in 1 .. Len(s) /\ s[f] = SP /\ f - 1 \in Nat /\ f - 1 \in 0 .. f - 1
    BY <2>2
  <2>4. \A k \in 1 .. f - 1 : k \in 1 .. Len(s) /\ s[k] # SP
    BY <2>2, <2>3
  <2>5. Waits(c, f - 1)
    BY <1>3, <2>4 DEF Waits
  <2>6. c[f - 1] = Start
    BY <1>2, <2>3, <2>5, WaitsStart
  <2>7. c[f] = [Start EXCEPT !.j = @ + 1]
    BY <1>1, <1>2, <2>3, <2>6 DEF UriTurn
  <2>8. c[f].t = <<>> /\ ~c[f].stop /\ c[f].j = 1 /\ c[f].skip = 0
    BY <2>7 DEF Start
  <2>9. ASSUME NEW k \in f + 1 .. Len(s), c[k - 1].j = 1
        PROVE  c[k] = TakeTurn(s, {SP}, n, k, c[k - 1])
    <3>1. c[k] = UriTurn(s, n, k, c[k - 1])
      BY <1>1, <2>3
    <3>2. ASSUME NEW a, a.j = 1
          PROVE  UriTurn(s, n, k, a) = TakeTurn(s, {SP}, n, k, a)
      BY <3>2 DEF UriTurn, TakeTurn
    <3> QED
      BY <2>9, <3>1, <3>2
  <2>10. Copies(c, s, f, Len(s), 1, {SP}, n)
    BY <2>8, <2>9 DEF Copies
  <2>11. c[Len(s)].t = UpTo(s, f + 1, {SP}, n)
    BY <1>1, <2>3, <2>10, CopiesUpTo
  <2> QED
    BY <1>1, <1>5, <2>11 DEF f
<1> QED
  BY <1>4, <1>5

(* getbody.                                                                *)
LEMMA BodyIs ==
  ASSUME NEW S, NEW s \in Seq(S), NEW n \in Nat
  PROVE  LET ends == {k \in 4 .. Len(s) : SubSeq(s, k - 3, k) = HeadEnd}
         IN GetBody(s, n) = IF ends = {} THEN <<>> ELSE UpTo(s, Min(ends) + 1, {}, n)
<1> DEFINE ends == {k \in 4 .. Len(s) : SubSeq(s, k - 3, k) = HeadEnd}
<1> SUFFICES GetBody(s, n) = IF ends = {} THEN <<>> ELSE UpTo(s, Min(ends) + 1, {}, n)
  OBVIOUS
<1>1. PICK c : /\ Scanned(c, s) /\ GetBody(s, n) = c[Len(s)].t
               /\ \A k \in 1 .. Len(s) : c[k] = BodyTurn(s, n, k, c[k - 1])
  BY BodyScan
<1>2. /\ c[0] = Start /\ Start.j = 0 /\ ~Start.stop /\ Start.t = <<>>
      /\ Len(<<>>) = 0
  BY <1>1 DEF Scanned, Start
<1>3. Len(s) \in Nat /\ Len(s) \in 0 .. Len(s)
  OBVIOUS
<1> DEFINE f == Min(ends)
<1>4. ends \subseteq Nat
  OBVIOUS
<1>5. ends # {} => f \in ends /\ \A y \in ends : f <= y
  <2> HIDE DEF ends
  <2> QED
    BY <1>4, LeastIs
<1>6. ends # {} => f \in 4 .. Len(s) /\ SubSeq(s, f - 3, f) = HeadEnd
  <2> HIDE DEF f
  <2> QED
    BY <1>5
<1>7. CASE n = 0
  <2> DEFINE T == {k \in 0 .. Len(s) : c[k].t = <<>> /\ c[k].j = 0}
  <2>1. 0 \in T
    BY <1>2
  <2>2. ASSUME NEW k \in 1 .. Len(s), k - 1 \in T PROVE k \in T
    <3>1. c[k] = BodyTurn(s, n, k, c[k - 1]) /\ c[k - 1].t = <<>> /\ c[k - 1].j = 0
      BY <1>1, <2>2
    <3>2. c[k - 1] \in Locals(s)
      BY <1>1 DEF Scanned
    <3>3. c[k] = c[k - 1] \/ c[k] = Stopped(c[k - 1])
      BY <1>2, <1>7, <3>1 DEF BodyTurn
    <3> QED
      BY <3>1, <3>2, <3>3 DEF Stopped, Locals
  <2>3. \A k \in 1 .. Len(s) : k - 1 \in T => k \in T
    BY <2>2
  <2> HIDE DEF T
  <2>4. \A k \in 0 .. Len(s) : k \in T
    BY <1>3, <2>1, <2>3, LoopInduction
  <2>5. c[Len(s)].t = <<>>
    BY <1>3, <2>4 DEF T
  <2>6. ends # {} => UpTo(s, f + 1, {}, n) = <<>>
    <3> SUFFICES ASSUME ends # {} PROVE UpTo(s, f + 1, {}, n) = <<>>
      OBVIOUS
    <3>1. f \in 4 .. Len(s)
      BY <1>6
    <3> HIDE DEF f, ends
    <3> DEFINE p == f + 1
    <3>2. /\ p \in 1 .. Len(s) + 1 /\ f \in p - 1 .. Len(s)
          /\ f - p + 1 = n /\ f - p + 1 <= n /\ SubSeq(s, p, f) = <<>>
      BY <1>7, <3>1
    <3>3. Clear(s, p, f, {})
      BY <3>2 DEF Clear
    <3> HIDE DEF p
    <3>4. UpTo(s, p, {}, n) = SubSeq(s, p, f)
      BY <3>2, <3>3, UpToIs
    <3> QED
      BY <3>2, <3>4 DEF p
  <2> QED
    BY <1>1, <2>5, <2>6
<1>8. CASE n > 0
  <2>1. ASSUME NEW k \in 1 .. Len(s), k \notin ends, c[k - 1] = Start PROVE c[k] = Start
    <3>1. k <= 3 \/ SubSeq(s, k - 3, k) # HeadEnd
      BY <2>1
    <3>2. BodyTurn(s, n, k, Start) = Start
      BY <1>8, <3>1 DEF BodyTurn, Start
    <3> QED
      BY <1>1, <2>1, <3>2
  <2>2. CASE ends = {}
    <3>1. Waits(c, Len(s))
      BY <2>1, <2>2 DEF Waits
    <3>2. c[Len(s)] = Start
      BY <1>2, <1>3, <3>1, WaitsStart
    <3> QED
      BY <1>1, <1>2, <2>2, <3>2
  <2>3. CASE ends # {}
    <3>1. f \in 4 .. Len(s) /\ SubSeq(s, f - 3, f) = HeadEnd /\ \A y \in ends : f <= y
      BY <1>5, <1>6, <2>3
    <3> HIDE DEF f, ends
    <3>3. f - 1 \in Nat /\ f - 1 \in 0 .. f - 1 /\ f \in 1 .. Len(s) /\ f \in 0 .. Len(s)
      BY <3>1
    <3>4. \A k \in 1 .. f - 1 : k \in 1 .. Len(s) /\ k \notin ends
      BY <3>1
    <3>5. Waits(c, f - 1)
      BY <2>1, <3>4 DEF Waits
    <3>6. c[f - 1] = Start
      BY <1>2, <3>3, <3>5, WaitsStart
    <3>7. c[f] = [Start EXCEPT !.j = 1]
      <4>1. BodyTurn(s, n, f, Start) = [Start EXCEPT !.j = 1]
        BY <1>8, <3>1 DEF BodyTurn, Start
      <4> QED
        BY <1>1, <3>3, <3>6, <4>1
    <3>8. c[f].t = <<>> /\ ~c[f].stop /\ c[f].j = 1 /\ c[f].skip = 0
      BY <3>7 DEF Start
    <3>9. ASSUME NEW k \in f + 1 .. Len(s), c[k - 1].j = 1
          PROVE  c[k] = TakeTurn(s, {}, n, k, c[k - 1])
      <4>1. c[k] = BodyTurn(s, n, k, c[k - 1]) /\ ~(k <= 3)
        BY <1>1, <3>1
      <4>2. c[k - 1].t \in Seq(Range(s))
        <5>1. c[k - 1] \in Locals(s)
          <6>1. k - 1 \in 0 .. Len(s)
            BY <3>3
          <6> QED
            BY <1>1, <6>1 DEF Scanned
        <5> QED
          BY <5>1 DEF Locals
      <4>3. Len(c[k - 1].t) >= n <=> ~(Len(c[k - 1].t) < n)
        BY <4>2
      <4>4. ASSUME NEW a, a.j = 1, Len(a.t) >= n <=> ~(Len(a.t) < n)
            PROVE  BodyTurn(s, n, k, a) = TakeTurn(s, {}, n, k, a)
        BY <4>1, <4>4 DEF BodyTurn, TakeTurn, PutIfRoom
      <4> QED
        BY <3>9, <4>1, <4>3, <4>4
    <3>10. Copies(c, s, f, Len(s), 1, {}, n)
      BY <3>8, <3>9 DEF Copies
    <3>11. c[Len(s)].t = UpTo(s, f + 1, {}, n)
      BY <1>1, <3>3, <3>10, CopiesUpTo
    <3> QED
      BY <1>1, <2>3, <3>11 DEF f
  <2> QED
    BY <2>2, <2>3
<1> QED
  BY <1>7, <1>8

(* getln for the first line.                                               *)
LEMMA FirstLineIs ==
  ASSUME NEW S, NEW s \in Seq(S), NEW n \in Nat
  PROVE  GetLn(s, n, 0) = UpTo(s, 1, LineEnd, n)
<1>1. PICK c : /\ Scanned(c, s) /\ GetLn(s, n, 0) = c[Len(s)].t
               /\ \A k \in 1 .. Len(s) : c[k] = LnTurn(s, n, 0, k, c[k - 1])
  BY LnScan
<1>2. c[0].t = <<>> /\ ~c[0].stop /\ c[0].j = 0 /\ c[0].skip = 0
  BY <1>1 DEF Scanned, Start
<1>3. ASSUME NEW k \in 1 .. Len(s), c[k - 1].j = 0
      PROVE  c[k] = TakeTurn(s, LineEnd, n, k, c[k - 1])
  <2>1. ASSUME NEW a, a.j = 0
        PROVE  LnTurn(s, n, 0, k, a) = TakeTurn(s, LineEnd, n, k, a)
    BY <2>1 DEF LnTurn, TakeTurn
  <2> QED
    BY <1>1, <1>3, <2>1
<1>4. Copies(c, s, 0, Len(s), 0, LineEnd, n)
  BY <1>2, <1>3 DEF Copies
<1>5. 0 \in 0 .. Len(s) /\ 0 + 1 = 1
  OBVIOUS
<1>6. c[Len(s)].t = UpTo(s, 0 + 1, LineEnd, n)
  BY <1>1, <1>4, <1>5, CopiesUpTo
<1> QED
  BY <1>1, <1>5, <1>6

(* The locals before anything is copied.                                   *)
Before(a, j, skip) == a.t = <<>> /\ ~a.stop /\ a.j = j /\ a.skip = skip

(* The number of line feeds up to each character.                          *)
LEMMA FeedsAre ==
  ASSUME NEW S, NEW s \in Seq(S)
  PROVE  /\ Feeds(s) \in [0 .. Len(s) -> Nat] /\ Feeds(s)[0] = 0
         /\ \A k \in 1 .. Len(s) :
              Feeds(s)[k] = Feeds(s)[k - 1] + IF s[k] = LF THEN 1 ELSE 0
<1> DEFINE n == Len(s)
           d(g) == [k \in 0 .. n |->
                     IF k = 0 THEN 0 ELSE g[k - 1] + IF s[k] = LF THEN 1 ELSE 0]
           step == [k \in 1 .. n |->
                     [j \in Nat |-> j + IF s[k] = LF THEN 1 ELSE 0]]
           m == Feeds(s)
<1>1. n \in Nat /\ 0 \in Nat
  OBVIOUS
<1>2. \A k \in 1 .. n, j \in Nat :
        step[k][j] \in Nat /\ step[k][j] = j + IF s[k] = LF THEN 1 ELSE 0
  OBVIOUS
<1>3. step \in [1 .. n -> [Nat -> Nat]]
  OBVIOUS
<1>4. m = CHOOSE g : g = d(g)
  BY DEF Feeds
<1> HIDE DEF m, step
<1>5. PICK f : Runs(f, n, Nat, 0, step)
  BY <1>1, <1>3, LoopRuns
<1>6. ASSUME NEW g PROVE Unfolds(d(g), g, n, Nat, 0, step)
  <2>1. d(g) = [k \in 0 .. n |-> d(g)[k]] /\ d(g)[0] = 0
    BY <1>1
  <2>2. \A k \in 1 .. n : d(g)[k] = g[k - 1] + IF s[k] = LF THEN 1 ELSE 0
    BY <1>1
  <2> HIDE DEF d, n
  <2>3. \A k \in 1 .. n : g[k - 1] \in Nat => d(g)[k] = step[k][g[k - 1]]
    BY <1>2, <2>2, Zenon
  <2> QED
    BY <2>1, <2>3, Zenon DEF Unfolds
<1> HIDE DEF d, n
<1>7. f = d(f)
  BY <1>1, <1>5, <1>6, LoopUnfolds
<1>8. m = d(m)
  BY <1>4, <1>7
<1>9. Runs(m, n, Nat, 0, step)
  BY <1>1, <1>3, <1>6, <1>8, LoopIs
<1>10. m \in [0 .. n -> Nat] /\ m[0] = 0 /\ \A k \in 1 .. n : m[k] = step[k][m[k - 1]]
  BY <1>9 DEF Runs
<1>11. \A k \in 1 .. n : m[k - 1] \in Nat
  <2>1. \A k \in 1 .. n : k - 1 \in 0 .. n
    BY <1>1
  <2> QED
    BY <1>10, <2>1
<1> QED
  BY <1>2, <1>10, <1>11, Zenon DEF m, n

(* getln on a text whose lines end in a line feed alone: while no more     *)
(* than l line feeds have passed, j is their number and nothing is copied. *)
LEMMA LineIs ==
  ASSUME NEW S, NEW s \in Seq(S), NEW n \in Nat, NEW l \in Nat, CR \notin Range(s)
  PROVE  IsLine(GetLn(s, n, l), s, n, l)
<1> DEFINE f == Feeds(s)
           x == GetLn(s, n, l)
<1>1. PICK c : /\ Scanned(c, s) /\ x = c[Len(s)].t
               /\ \A k \in 1 .. Len(s) : c[k] = LnTurn(s, n, l, k, c[k - 1])
  BY LnScan
<1> DEFINE D(k) == f[k] < l \/ (f[k] = l /\ k > 0 /\ s[k] = LF)
           T == {k \in 0 .. Len(s) : D(k) => Before(c[k], f[k], 0)}
<1>2. /\ f \in [0 .. Len(s) -> Nat] /\ f[0] = 0
      /\ \A k \in 1 .. Len(s) : f[k] = f[k - 1] + IF s[k] = LF THEN 1 ELSE 0
  BY FeedsAre
<1>3. /\ Len(s) \in Nat /\ Len(s) \in 0 .. Len(s)
      /\ \A k \in 0 .. Len(s) : f[k] \in Nat /\ c[k] \in Locals(s)
  <2>1. c \in [0 .. Len(s) -> Locals(s)]
    BY <1>1 DEF Scanned
  <2> HIDE DEF f
  <2>2. \A k \in 0 .. Len(s) : f[k] \in Nat
    BY <1>2
  <2>3. \A k \in 0 .. Len(s) : c[k] \in Locals(s)
    BY <2>1
  <2>4. Len(s) \in Nat /\ Len(s) \in 0 .. Len(s)
    OBVIOUS
  <2> QED
    BY <2>2, <2>3, <2>4
<1>4. \A k \in 1 .. Len(s) : s[k] \in LineEnd <=> s[k] = LF
  <2>1. \A k \in 1 .. Len(s) : s[k] \in Range(s)
    BY DEF Range
  <2> QED
    BY <2>1 DEF LineEnd
<1> HIDE DEF f, x
<1>5. 0 \in T
  <2>1. Before(c[0], 0, 0)
    BY <1>1 DEF Scanned, Start, Before
  <2> QED
    BY <1>2, <2>1, <1>3
<1>6. ASSUME NEW k \in 1 .. Len(s), k - 1 \in T PROVE k \in T
  <2> SUFFICES ASSUME D(k) PROVE Before(c[k], f[k], 0)
    OBVIOUS
  <2> DEFINE a == c[k - 1]
             j == f[k - 1]
             b == [a EXCEPT !.j = @ + 1]
  <2>1. k - 1 \in 0 .. Len(s) /\ k \in 0 .. Len(s)
    OBVIOUS
  <2>2. a \in Locals(s) /\ j \in Nat /\ f[k] \in Nat
    BY <1>3, <2>1
  <2>3. f[k] = j + IF s[k] = LF THEN 1 ELSE 0
    BY <1>2
  <2>4. j < l
    BY <2>2, <2>3
  <2>5. Before(a, j, 0)
    BY <1>6, <2>4
  <2>6. c[k] = LnTurn(s, n, l, k, a)
    BY <1>1
  <2> HIDE DEF a, j
  <2>7. b.t = a.t /\ b.stop = a.stop /\ b.j = a.j + 1 /\ b.skip = a.skip
    BY <2>2 DEF Locals
  <2>8. LnTurn(s, n, l, k, a) = IF s[k] = LF THEN b ELSE a
    <3>1. ~a.stop /\ a.j # l
      BY <2>2, <2>4, <2>5 DEF Before
    <3> QED
      BY <1>4, <3>1, Zenon DEF LnTurn
  <2> HIDE DEF b
  <2>9. CASE s[k] = LF
    BY <2>3, <2>5, <2>6, <2>7, <2>8, <2>9 DEF Before
  <2>10. CASE s[k] # LF
    <3>1. f[k] = j /\ c[k] = a
      BY <2>2, <2>3, <2>6, <2>8, <2>10
    <3> QED
      BY <2>5, <3>1
  <2> QED
    BY <2>9, <2>10
<1> HIDE DEF T
<1>7. \A k \in 0 .. Len(s) : k \in T
  BY <1>3, <1>5, <1>6, LoopInduction
<1>8. \A k \in 0 .. Len(s) : D(k) => Before(c[k], f[k], 0)
  BY <1>7 DEF T
<1>9. l = 0 => x = UpTo(s, 1, LineEnd, n)
  BY FirstLineIs DEF x
<1>10. ASSUME NEW p \in DOMAIN s, s[p] = LF, f[p] = l
       PROVE  x = UpTo(s, p + 1, LineEnd, n)
  <2>1. p \in 0 .. Len(s) /\ p > 0 /\ p \in Nat
    OBVIOUS
  <2>2. Before(c[p], l, 0)
    BY <1>8, <1>10, <2>1
  <2>3. ASSUME NEW k \in p + 1 .. Len(s), c[k - 1].j = l
        PROVE  c[k] = TakeTurn(s, LineEnd, n, k, c[k - 1])
    <3>1. ASSUME NEW a, a.j = l
          PROVE  LnTurn(s, n, l, k, a) = TakeTurn(s, LineEnd, n, k, a)
      BY <3>1 DEF LnTurn, TakeTurn
    <3>2. k \in 1 .. Len(s)
      BY <2>1
    <3> QED
      BY <1>1, <2>3, <3>1, <3>2
  <2>4. Copies(c, s, p, Len(s), l, LineEnd, n)
    BY <2>2, <2>3 DEF Copies, Before
  <2> QED
    BY <1>1, <2>1, <2>4, CopiesUpTo
<1>11. f[Len(s)] < l => x = <<>>
  BY <1>1, <1>3, <1>8 DEF Before
<1> QED
  BY <1>9, <1>10, <1>11 DEF IsLine, f, x

JsonChars == STRING \cup {"{", "}", ":", ",", Q}

(* The characters of keys and values are characters of texts.              *)
LEMMA JsonCharsAre ==
  \A x \in Seq(STRING \ {Q}) : x \in Seq(JsonChars)
<1>1. ASSUME NEW A, NEW B, A \subseteq B, NEW x \in Seq(A) PROVE x \in Seq(B)
  BY <1>1
<1>2. STRING \ {Q} \subseteq JsonChars
  BY Zenon DEF JsonChars
<1> QED
  BY <1>1, <1>2

(* So are the marks between them.                                          *)
LEMMA JsonMarksAre ==
  /\ <<"{">> \in Seq(JsonChars) /\ Len(<<"{">>) = 1
  /\ <<"}">> \in Seq(JsonChars)
  /\ <<",">> \in Seq(JsonChars) /\ Len(<<",">>) = 1
  /\ <<>> \in Seq(JsonChars) /\ Len(<<>>) = 0
<1>1. "{" \in JsonChars /\ "}" \in JsonChars /\ "," \in JsonChars
  BY DEF JsonChars
<1>2. ASSUME NEW x \in JsonChars PROVE <<x>> \in Seq(JsonChars) /\ Len(<<x>>) = 1
  OBVIOUS
<1>3. <<>> \in Seq(JsonChars) /\ Len(<<>>) = 0
  OBVIOUS
<1> QED
  BY <1>1, <1>2, <1>3, Zenon

(* x is the text of a pair: the key in quotation marks, the colon, the     *)
(* value v, in quotation marks unless it is a number.                      *)
PairText(x, key, v, num) ==
  LET l == Len(key)
      m == Len(v)
  IN /\ x \in Seq(JsonChars)
     /\ x[1] = Q /\ x[l + 2] = Q /\ x[l + 3] = ":"
     /\ \A i \in 1 .. l : x[i + 1] = key[i]
     /\ num => Len(x) = l + m + 3 /\ \A i \in 1 .. m : x[l + 3 + i] = v[i]
     /\ ~num => /\ Len(x) = l + m + 5 /\ x[l + 4] = Q /\ x[l + m + 5] = Q
                /\ \A i \in 1 .. m : x[l + 4 + i] = v[i]

(* Two sequences, one behind the other.                                    *)
LEMMA TextConcat ==
  ASSUME NEW S, NEW a \in Seq(S), NEW b \in Seq(S)
  PROVE  /\ a \o b \in Seq(S) /\ Len(a \o b) = Len(a) + Len(b)
         /\ \A i \in 1 .. Len(a) : (a \o b)[i] = a[i]
         /\ \A i \in 1 .. Len(b) : (a \o b)[Len(a) + i] = b[i]
OBVIOUS

(* What Pair puts together is the text of a pair.                          *)
LEMMA PairIs ==
  ASSUME NEW key \in Seq(JsonChars), NEW value, value.chars \in Seq(JsonChars),
         NEW p, p[1] = key, p[2] = value
  PROVE  PairText(Pair(p), key, value.chars, value.num)
<1> DEFINE l == Len(key)
           v == value.chars
           m == Len(v)
           q == Quoted(key)
           w == Quoted(v)
           h == q \o <<":">>
<1>1. Q \in JsonChars /\ ":" \in JsonChars
  BY DEF JsonChars
<1>2. l \in Nat /\ m \in Nat /\ v \in Seq(JsonChars)
  OBVIOUS
<1>3. ASSUME NEW y \in Seq(JsonChars)
      PROVE  /\ Quoted(y) \in Seq(JsonChars) /\ Len(Quoted(y)) = Len(y) + 2
             /\ Quoted(y)[1] = Q /\ Quoted(y)[Len(y) + 2] = Q
             /\ \A i \in 1 .. Len(y) : Quoted(y)[i + 1] = y[i]
  BY <1>1 DEF Quoted
<1>4. /\ q \in Seq(JsonChars) /\ Len(q) = l + 2 /\ q[1] = Q /\ q[l + 2] = Q
      /\ \A i \in 1 .. l : q[i + 1] = key[i]
  BY <1>3
<1>5. /\ w \in Seq(JsonChars) /\ Len(w) = m + 2 /\ w[1] = Q /\ w[m + 2] = Q
      /\ \A i \in 1 .. m : w[i + 1] = v[i]
  BY <1>3
<1>6. Pair(p) = h \o (IF value.num THEN v ELSE w)
  BY Zenon DEF Pair
<1>7. /\ h \in Seq(JsonChars) /\ Len(h) = l + 3
      /\ h[1] = Q /\ h[l + 2] = Q /\ h[l + 3] = ":"
      /\ \A i \in 1 .. l : h[i + 1] = key[i]
  <2> HIDE DEF q, l
  <2> QED
    BY <1>1, <1>2, <1>4
<1> HIDE DEF l, v, m, q, w, h
<1>8. CASE value.num
  <2>1. Pair(p) = h \o v
    BY <1>6, <1>8
  <2> DEFINE x == h \o v
  <2>2. x \in Seq(JsonChars) /\ Len(x) = l + m + 3
    <3>2. h \in Seq(JsonChars) /\ v \in Seq(JsonChars)
      BY <1>2, <1>7
    <3>1. x \in Seq(JsonChars) /\ Len(x) = Len(h) + Len(v)
      BY <3>2, TextConcat
    <3> HIDE DEF x
    <3> QED
      BY <1>2, <1>7, <3>1 DEF m
  <2>3. \A i \in 1 .. l + 3 : x[i] = h[i]
    BY <1>2, <1>7
  <2>4. \A i \in 1 .. m : x[l + 3 + i] = v[i]
    BY <1>2, <1>7 DEF m
  <2> HIDE DEF x
  <2>5. /\ x[1] = Q /\ x[l + 2] = Q /\ x[l + 3] = ":"
        /\ \A i \in 1 .. l : x[i + 1] = key[i]
    BY <1>2, <1>7, <2>3
  <2> QED
    BY <1>8, <2>1, <2>2, <2>4, <2>5 DEF PairText, x, l, v, m
<1>9. CASE ~value.num
  <2>1. Pair(p) = h \o w
    BY <1>6, <1>9
  <2> DEFINE x == h \o w
  <2>2. x \in Seq(JsonChars) /\ Len(x) = l + m + 5
    <3>2. h \in Seq(JsonChars) /\ w \in Seq(JsonChars)
      BY <1>5, <1>7
    <3>1. x \in Seq(JsonChars) /\ Len(x) = Len(h) + Len(w)
      BY <3>2, TextConcat
    <3> HIDE DEF x
    <3> QED
      BY <1>2, <1>5, <1>7, <3>1
  <2>3. \A i \in 1 .. l + 3 : x[i] = h[i]
    BY <1>2, <1>5, <1>7
  <2>4. \A i \in 1 .. m + 2 : x[l + 3 + i] = w[i]
    BY <1>2, <1>5, <1>7
  <2> HIDE DEF x
  <2>5. /\ x[1] = Q /\ x[l + 2] = Q /\ x[l + 3] = ":"
        /\ \A i \in 1 .. l : x[i + 1] = key[i]
    BY <1>2, <1>7, <2>3
  <2>6. x[l + 4] = Q /\ x[l + m + 5] = Q /\ \A i \in 1 .. m : x[l + 4 + i] = v[i]
    <3>1. /\ l + 4 = l + 3 + 1 /\ l + m + 5 = l + 3 + (m + 2)
          /\ 1 \in 1 .. m + 2 /\ m + 2 \in 1 .. m + 2
      BY <1>2
    <3>2. \A i \in 1 .. m : i + 1 \in 1 .. m + 2 /\ l + 4 + i = l + 3 + (i + 1)
      BY <1>2
    <3> QED
      BY <1>5, <2>4, <3>1, <3>2
  <2> QED
    BY <1>9, <2>1, <2>2, <2>5, <2>6 DEF PairText, x, l, v, m
<1> QED
  BY <1>8, <1>9

(* x is in s from position h + 1 on.                                       *)
Within(x, s, h) ==
  /\ x \in Seq(JsonChars) /\ s \in Seq(JsonChars) /\ h \in Nat
  /\ h + Len(x) <= Len(s)
  /\ \A i \in 1 .. Len(x) : s[h + i] = x[i]

(* The first of two sequences is at the beginning.                         *)
LEMMA WithinFirst ==
  ASSUME NEW x \in Seq(JsonChars), NEW y \in Seq(JsonChars)
  PROVE  Within(x, x \o y, 0)
BY DEF Within

(* The second part follows the first.                                      *)
LEMMA WithinSecond ==
  ASSUME NEW x \in Seq(JsonChars), NEW y \in Seq(JsonChars)
  PROVE  Within(y, x \o y, Len(x))
BY DEF Within

(* What is in a part is in the whole.                                      *)
LEMMA WithinWithin ==
  ASSUME NEW x, NEW y, NEW z, NEW i, NEW j, Within(x, y, i), Within(y, z, j)
  PROVE  Within(x, z, i + j)
<1>1. /\ x \in Seq(JsonChars) /\ y \in Seq(JsonChars) /\ z \in Seq(JsonChars)
      /\ i \in Nat /\ j \in Nat
      /\ i + Len(x) <= Len(y) /\ j + Len(y) <= Len(z)
  BY DEF Within
<1>2. ASSUME NEW k \in 1 .. Len(x) PROVE z[i + j + k] = x[k]
  <2>1. i + k \in 1 .. Len(y) /\ j + (i + k) = i + j + k
    BY <1>1
  <2>2. y[i + k] = x[k] /\ z[j + (i + k)] = y[i + k]
    BY <2>1, Zenon DEF Within
  <2> QED
    BY <2>1, <2>2
<1>3. i + j \in Nat /\ i + j + Len(x) <= Len(z)
  BY <1>1
<1> QED
  BY <1>1, <1>2, <1>3, Zenon DEF Within

(* A sequence is in itself.                                                *)
LEMMA WithinSelf ==
  ASSUME NEW x \in Seq(JsonChars)
  PROVE  Within(x, x, 0)
BY DEF Within

(* The pairs of an object, one after the other.                            *)
LEMMA PairsAre ==
  ASSUME NEW o \in Objects
  PROVE  /\ Len(o) \in Nat /\ DOMAIN o = 1 .. Len(o)
         /\ \A k \in 1 .. Len(o) : /\ o[k][1] \in Keys /\ o[k][2] \in Values
                                   /\ Pair(o[k]) \in Seq(JsonChars)
         /\ Pairs(o) \in [0 .. Len(o) -> Seq(JsonChars)]
         /\ Pairs(o)[0] = <<>>
         /\ \A k \in 1 .. Len(o) :
              Pairs(o)[k] = Pairs(o)[k - 1] \o (IF k = 1 THEN <<>> ELSE <<",">>) \o Pair(o[k])
<1>1. PICK j \in 1 .. MaxPairs : o \in [1 .. j -> Keys \X Values]
  BY DEF Objects
<1>2. j \in Nat
  BY HttpTextAssumption
<1> DEFINE n == Len(o)
           S == Seq(JsonChars)
           w(k) == Pair(o[k])
           v(k) == IF k = 1 THEN <<>> ELSE <<",">>
           step == [k \in 1 .. n |-> [x \in S |-> x \o v(k) \o w(k)]]
<1>3. n \in Nat /\ DOMAIN o = 1 .. n
  BY <1>1, <1>2
<1>4. \A k \in 1 .. n : o[k][1] \in Keys /\ o[k][2] \in Values
  <2>1. \A k \in 1 .. n : o[k] \in Keys \X Values
    BY <1>1, <1>3
  <2> QED
    BY <2>1
<1>5. \A k \in 1 .. n : w(k) \in S
  <2> SUFFICES ASSUME NEW k \in 1 .. n PROVE w(k) \in S
    OBVIOUS
  <2> DEFINE p == o[k]
             key == p[1]
             value == p[2]
  <2>1. key \in Keys /\ value \in Values
    BY <1>4
  <2> HIDE DEF n, p
  <2>2. key \in Seq(STRING \ {Q}) /\ value.chars \in Seq(STRING \ {Q})
    BY <2>1, HttpTextAssumption
  <2>3. key \in Seq(JsonChars) /\ value.chars \in Seq(JsonChars)
    BY <2>2, JsonCharsAre, Zenon
  <2> HIDE DEF key, value
  <2>4. Pair(p) \in S
    BY <2>3, PairIs DEF PairText, key, value
  <2> QED
    BY <2>4 DEF p
<1>6. \A k \in 1 .. n : v(k) \in S
  BY JsonMarksAre, Zenon
<1> HIDE DEF n, w, v
<1>7. step \in [1 .. n -> [S -> S]] /\ <<>> \in S
  BY <1>5, <1>6
<1>8. \A k \in 1 .. n, x \in S : step[k][x] = x \o v(k) \o w(k)
  OBVIOUS
<1> HIDE DEF step, S
<1>9. PICK f : Runs(f, n, S, <<>>, step)
  BY <1>3, <1>7, LoopRuns
<1> DEFINE d(g) == [k \in 0 .. n |-> IF k = 0 THEN <<>> ELSE g[k - 1] \o v(k) \o w(k)]
<1>10. ASSUME NEW g PROVE Unfolds(d(g), g, n, S, <<>>, step)
  <2>1. d(g) = [k \in 0 .. n |-> d(g)[k]] /\ d(g)[0] = <<>>
    BY <1>3
  <2>2. ASSUME NEW k \in 1 .. n PROVE d(g)[k] = g[k - 1] \o v(k) \o w(k)
    <3>1. k \in 0 .. n /\ k # 0
      BY <1>3
    <3> QED
      BY <3>1
  <2> HIDE DEF d
  <2> QED
    BY <1>8, <2>1, <2>2, Zenon DEF Unfolds
<1> DEFINE m == Pairs(o)
<1>11. m = CHOOSE g : g = d(g)
  BY DEF Pairs, n, w, v
<1> HIDE DEF d, m
<1>12. f = d(f)
  BY <1>3, <1>9, <1>10, LoopUnfolds
<1>13. m = d(m)
  BY <1>11, <1>12
<1>14. Runs(m, n, S, <<>>, step)
  BY <1>3, <1>7, <1>10, <1>13, LoopIs
<1>15. \A k \in 1 .. n : m[k - 1] \in S
  BY <1>3, <1>14 DEF Runs
<1>16. \A k \in 1 .. n : m[k] = m[k - 1] \o v(k) \o w(k)
  BY <1>8, <1>14, <1>15, Zenon DEF Runs
<1>17. m \in [0 .. n -> S] /\ m[0] = <<>>
  BY <1>14, Zenon DEF Runs
<1> QED
  BY <1>3, <1>4, <1>5, <1>16, <1>17, Zenon DEF m, n, w, v, S

(* Where pair k is in the text of an object.                               *)
LEMMA PairWithin ==
  ASSUME NEW o \in Objects, NEW k \in 1 .. Len(o)
  PROVE  Within(Pair(o[k]), Render(o), Len(Pairs(o)[k - 1]) + IF k = 1 THEN 1 ELSE 2)
<1> DEFINE n == Len(o)
           m == Pairs(o)
           sep(i) == IF i = 1 THEN <<>> ELSE <<",">>
           x == Pair(o[k])
<1>1. /\ n \in Nat /\ m \in [0 .. n -> Seq(JsonChars)]
      /\ \A i \in 1 .. n : /\ Pair(o[i]) \in Seq(JsonChars)
                           /\ m[i] = m[i - 1] \o sep(i) \o Pair(o[i])
  BY PairsAre
<1>2. \A i \in 1 .. n : sep(i) \in Seq(JsonChars) /\ Len(sep(i)) = IF i = 1 THEN 0 ELSE 1
  <2> SUFFICES ASSUME NEW i
               PROVE  sep(i) \in Seq(JsonChars) /\ Len(sep(i)) = IF i = 1 THEN 0 ELSE 1
    OBVIOUS
  <2>1. CASE i = 1
    <3>1. sep(1) = <<>>
      OBVIOUS
    <3> HIDE DEF sep
    <3>2. sep(1) \in Seq(JsonChars) /\ Len(sep(1)) = 0
      BY <3>1, JsonMarksAre, Zenon
    <3> QED
      BY <2>1, <3>2
  <2>2. CASE i # 1
    <3>1. sep(i) = <<",">>
      BY <2>2
    <3> HIDE DEF sep
    <3> QED
      BY <2>2, <3>1, JsonMarksAre
  <2> QED
    BY <2>1, <2>2
<1>3. k \in 1 .. n /\ Render(o) = <<"{">> \o m[n] \o <<"}">>
  BY DEF Render
<1> HIDE DEF n, m, sep
<1>11. n \in Nat /\ k \in Nat /\ 1 <= k /\ k <= n
  <2>1. n \in Nat /\ k \in 1 .. n
    BY <1>1, <1>3
  <2> QED
    BY <2>1
<1>4. \A i \in 1 .. n : m[i - 1] \in Seq(JsonChars) /\ m[i] \in Seq(JsonChars)
  BY <1>1
<1>5. Within(x, m[k], Len(m[k - 1]) + Len(sep(k)))
  <2>1. m[k - 1] \in Seq(JsonChars) /\ sep(k) \in Seq(JsonChars) /\ x \in Seq(JsonChars)
    BY <1>1, <1>2, <1>3, <1>4
  <2>2. m[k] = m[k - 1] \o sep(k) \o x
    BY <1>1, <1>3
  <2> DEFINE y == m[k - 1] \o sep(k)
  <2>3. y \in Seq(JsonChars) /\ Len(y) = Len(m[k - 1]) + Len(sep(k))
    BY <2>1
  <2> HIDE DEF y, x
  <2>4. Within(x, y \o x, Len(y))
    BY <2>1, <2>3, WithinSecond
  <2> QED
    BY <2>2, <2>3, <2>4 DEF y
<1>6. Within(m[k], m[n], 0)
  <2> DEFINE T == {i \in 0 .. n : i >= k => Within(m[k], m[i], 0)}
  <2>1. 0 \in T
    BY <1>11
  <2>2. ASSUME NEW i \in 1 .. n, i - 1 \in T PROVE i \in T
    <3>1. CASE i < k
      BY <1>11, <3>1
    <3>2. CASE i = k
      <4>1. Within(m[k], m[k], 0)
        BY <1>3, <1>4, WithinSelf
      <4> QED
        BY <3>2, <4>1
    <3>3. CASE i > k
      <4>1. Within(m[k], m[i - 1], 0)
        BY <1>11, <2>2, <3>3
      <4> DEFINE a == m[i - 1]
                 b == sep(i)
                 p == Pair(o[i])
      <4>2. a \in Seq(JsonChars) /\ b \in Seq(JsonChars) /\ p \in Seq(JsonChars)
        BY <1>1, <1>2, <1>4
      <4>3. m[i] = a \o b \o p
        BY <1>1
      <4> HIDE DEF a, b, p
      <4>4. a \o b \in Seq(JsonChars)
        BY <4>2
      <4>5. Within(a, a \o b, 0) /\ Within(a \o b, a \o b \o p, 0)
        BY <4>2, <4>4, WithinFirst
      <4>6. 0 + 0 = 0
        OBVIOUS
      <4>7. Within(m[k], a \o b, 0)
        BY <4>1, <4>5, <4>6, WithinWithin DEF a
      <4>8. Within(m[k], a \o b \o p, 0)
        BY <4>5, <4>6, <4>7, WithinWithin
      <4>9. Within(m[k], m[i], 0)
        BY <4>3, <4>8
      <4> QED
        BY <1>11, <4>9
    <3> QED
      BY <1>11, <3>1, <3>2, <3>3
  <2> HIDE DEF T
  <2>3. \A i \in 0 .. n : i \in T
    BY <1>1, <2>1, <2>2, LoopInduction
  <2>4. n \in 0 .. n /\ n >= k
    BY <1>11
  <2> QED
    BY <2>3, <2>4 DEF T
<1>7. Within(m[n], Render(o), 1)
  <2> DEFINE a == <<"{">>
             b == m[n]
             p == <<"}">>
  <2>1. a \in Seq(JsonChars) /\ p \in Seq(JsonChars) /\ Len(a) = 1
    BY JsonMarksAre, Zenon
  <2>2. b \in Seq(JsonChars)
    BY <1>1
  <2>3. Render(o) = a \o b \o p
    BY <1>3
  <2> HIDE DEF a, b, p
  <2>4. a \o b \in Seq(JsonChars)
    BY <2>1, <2>2
  <2>5. Within(b, a \o b, Len(a))
    BY <2>1, <2>2, WithinSecond
  <2>7. Within(a \o b, a \o b \o p, 0)
    BY <2>1, <2>4, WithinFirst
  <2>8. 1 + 0 = 1
    OBVIOUS
  <2>6. Within(b, a \o b \o p, 1)
    BY <2>1, <2>5, <2>7, <2>8, WithinWithin
  <2> QED
    BY <2>3, <2>6 DEF b
<1> DEFINE h == Len(m[k - 1]) + Len(sep(k))
<1>8. h \in Nat /\ h + 0 = h /\ h + 1 = Len(m[k - 1]) + IF k = 1 THEN 1 ELSE 2
  <2>1. Len(m[k - 1]) \in Nat /\ Len(sep(k)) = IF k = 1 THEN 0 ELSE 1
    <3>1. m[k - 1] \in Seq(JsonChars) /\ Len(sep(k)) = IF k = 1 THEN 0 ELSE 1
      BY <1>2, <1>3, <1>4, Zenon
    <3> QED
      BY <3>1
  <2>2. CASE k = 1
    BY <2>1, <2>2
  <2>3. CASE k # 1
    BY <2>1, <2>3
  <2> QED
    BY <2>2, <2>3
<1> HIDE DEF h, x
<1>9. Within(x, m[n], h)
  <2>1. Within(x, m[n], h + 0)
    BY <1>5, <1>6, WithinWithin DEF h
  <2> QED
    BY <1>8, <2>1
<1>10. Within(x, Render(o), h + 1)
  BY <1>7, <1>9, WithinWithin
<1> QED
  BY <1>8, <1>10 DEF x, m

(* s has at p, and not before, the text of key, and after it the value x,  *)
(* without quotation marks if it is a number.                              *)
KeyHasValue(s, p, key, x, num) ==
  LET l == Len(key)
      m == Len(x)
  IN /\ s \in Seq(JsonChars) /\ key \in Seq(JsonChars) /\ x \in Seq(JsonChars)
     /\ l > 0 /\ p \in Nat /\ p > 0
     /\ KeyAt(s, key, p) /\ \A i \in 1 .. p - 1 : ~KeyAt(s, key, i)
     /\ s[p + l + 1] = ":"
     /\ \A i \in 1 .. m : x[i] # Q
     /\ num => /\ p + l + 1 + m <= Len(s)
               /\ \A i \in 1 .. m : s[p + l + 1 + i] = x[i] /\ x[i] # ":"
     /\ ~num => /\ p + l + 2 + m < Len(s) /\ s[p + l + 2] = Q
                /\ s[p + l + 3 + m] = Q
                /\ \A i \in 1 .. m : s[p + l + 2 + i] = x[i]

(* The turns of the search.                                                *)
LEMMA SearchTurn ==
  ASSUME NEW s, NEW key, NEW n, NEW k, ~KeyAt(s, key, k),
         NEW a, ~a.stop, a.skip = 0, a.j = 0
  PROVE  JsonVTurn(s, key, n, k, a) = a
BY DEF JsonVTurn

(* The turn that finds the key.                                            *)
LEMMA FoundTurn ==
  ASSUME NEW s \in Seq(JsonChars), NEW key \in Seq(JsonChars), NEW n, NEW k \in Nat,
         KeyAt(s, key, k), k - 1 < Len(s) - Len(key),
         NEW a \in Locals(s), Before(a, 0, 0)
  PROVE  Before(JsonVTurn(s, key, n, k, a), 1, Len(key))
<1> DEFINE b == [a EXCEPT !.j = 1, !.skip = Len(key)]
<1>1. b.t = a.t /\ b.stop = a.stop /\ b.j = 1 /\ b.skip = Len(key)
  BY DEF Locals
<1>2. JsonVTurn(s, key, n, k, a) = b
  <2>1. ~a.stop /\ ~(a.skip > 0) /\ a.j = 0
    BY DEF Before
  <2> QED
    BY <2>1, Zenon DEF JsonVTurn
<1> QED
  BY <1>1, <1>2, Zenon DEF Before

(* The loop finds the key, skips it and the quotation mark behind it, and  *)
(* counts the colon.                                                       *)
LEMMA FindsKey ==
  ASSUME NEW s, NEW p, NEW key, NEW x, NEW num, KeyHasValue(s, p, key, x, num),
         NEW n \in Nat, NEW c, Scanned(c, s),
         \A k \in 1 .. Len(s) : c[k] = JsonVTurn(s, key, n, k, c[k - 1])
  PROVE  Before(c[p + Len(key) + 1], 2, 0)
<1> DEFINE l == Len(key)
<1>1. /\ s \in Seq(JsonChars) /\ key \in Seq(JsonChars) /\ x \in Seq(JsonChars)
      /\ l > 0 /\ p \in Nat /\ p > 0
      /\ KeyAt(s, key, p) /\ \A i \in 1 .. p - 1 : ~KeyAt(s, key, i)
      /\ s[p + l + 1] = ":"
  BY DEF KeyHasValue
<1>2. l \in Nat /\ Len(s) \in Nat /\ Len(x) \in Nat
  BY <1>1
<1>3. p + l + 1 <= Len(s)
  <2>1. CASE num
    <3>1. p + l + 1 + Len(x) <= Len(s)
      BY <2>1 DEF KeyHasValue
    <3> HIDE DEF l
    <3> QED
      BY <1>1, <1>2, <3>1
  <2>2. CASE ~num
    <3>1. p + l + 2 + Len(x) < Len(s)
      BY <2>2 DEF KeyHasValue
    <3> HIDE DEF l
    <3> QED
      BY <1>1, <1>2, <3>1
  <2> QED
    BY <2>1, <2>2
<1>4. c[0] = Start /\ \A k \in 0 .. Len(s) : c[k] \in Locals(s)
  BY DEF Scanned
<1>5. /\ p - 1 \in Nat /\ p - 1 \in 0 .. p - 1 /\ p \in 1 .. Len(s)
      /\ p - 1 < Len(s) - l
  <2> HIDE DEF l
  <2> QED
    BY <1>1, <1>2, <1>3
<1>6. Waits(c, p - 1)
  <2> SUFFICES ASSUME NEW k \in 1 .. p - 1, c[k - 1] = Start PROVE c[k] = Start
    BY DEF Waits
  <2>1. ~KeyAt(s, key, k) /\ k \in 1 .. Len(s)
    BY <1>1, <1>5
  <2>2. JsonVTurn(s, key, n, k, Start) = Start
    <3>1. ~Start.stop /\ Start.skip = 0 /\ Start.j = 0
      BY DEF Start
    <3> QED
      BY <2>1, <3>1, SearchTurn
  <2> QED
    BY <2>1, <2>2
<1>7. c[p - 1] = Start
  BY <1>4, <1>5, <1>6, WaitsStart
<1>8. Before(c[p], 1, l)
  <2>1. Start \in Locals(s) /\ Before(Start, 0, 0)
    BY DEF Start, Before, Locals
  <2>2. Before(JsonVTurn(s, key, n, p, Start), 1, Len(key))
    BY <1>1, <1>5, <2>1, FoundTurn
  <2> QED
    BY <1>5, <1>7, <2>2
<1> DEFINE T == {i \in 0 .. l : Before(c[p + i], 1, l - i)}
<1> HIDE DEF l
<1>9. 0 \in T
  BY <1>1, <1>2, <1>8
<1>10. ASSUME NEW i \in 1 .. l, i - 1 \in T PROVE i \in T
  <2> DEFINE k == p + i
             r == l - (i - 1)
             a == c[k - 1]
  <2>1. /\ k \in 1 .. Len(s) /\ k - 1 = p + (i - 1) /\ k - 1 \in 0 .. Len(s)
        /\ r \in Nat /\ r > 0 /\ r - 1 = l - i
    BY <1>1, <1>2, <1>3
  <2>2. Before(a, 1, r) /\ a \in Locals(s)
    BY <1>4, <1>10, <2>1
  <2>3. c[k] = JsonVTurn(s, key, n, k, a)
    BY <2>1
  <2> HIDE DEF k, r, a
  <2>4. JsonVTurn(s, key, n, k, a) = [a EXCEPT !.skip = @ - 1]
    BY <2>1, <2>2 DEF JsonVTurn, Before
  <2> DEFINE b == [a EXCEPT !.skip = @ - 1]
  <2>5. b.t = a.t /\ b.stop = a.stop /\ b.j = a.j /\ b.skip = a.skip - 1
    BY <2>2 DEF Locals
  <2> HIDE DEF b
  <2>6. Before(b, 1, l - i)
    BY <2>1, <2>2, <2>5 DEF Before
  <2>7. Before(c[k], 1, l - i)
    BY <2>3, <2>4, <2>6 DEF b
  <2> QED
    BY <1>2, <2>7 DEF k
<1> HIDE DEF T
<1>11. \A i \in 0 .. l : i \in T
  BY <1>2, <1>9, <1>10, LoopInduction
<1>12. Before(c[p + l], 1, 0)
  <2>1. l \in 0 .. l /\ l - l = 0
    BY <1>2
  <2> QED
    BY <1>11, <2>1 DEF T
<1> DEFINE k == p + l + 1
           a == c[k - 1]
<1>13. k \in 1 .. Len(s) /\ k - 1 \in 0 .. Len(s) /\ k - 1 = p + l /\ s[k] = ":"
  BY <1>1, <1>2, <1>3
<1>14. Before(a, 1, 0) /\ a \in Locals(s) /\ c[k] = JsonVTurn(s, key, n, k, a)
  BY <1>4, <1>12, <1>13
<1> HIDE DEF k, a
<1>15. JsonVTurn(s, key, n, k, a) = [a EXCEPT !.j = @ + 1]
  <2>1. /\ a.j = 1 /\ a.skip = 0 /\ ~a.stop
        /\ ~(0 > 0) /\ 1 # 0 /\ 1 < 3 /\ s[k] \in {":", Q}
    BY <1>13, <1>14 DEF Before
  <2> QED
    BY <2>1 DEF JsonVTurn
<1> DEFINE b == [a EXCEPT !.j = @ + 1]
<1>16. b.t = a.t /\ b.stop = a.stop /\ b.j = a.j + 1 /\ b.skip = a.skip
  BY <1>14 DEF Locals
<1> HIDE DEF b
<1>17. Before(b, 2, 0)
  BY <1>14, <1>16 DEF Before
<1> QED
  BY <1>14, <1>15, <1>17 DEF b, k, l

(* Sequences with the same elements are the same.                          *)
LEMMA SameSeq ==
  ASSUME NEW S, NEW y \in Seq(S), NEW z \in Seq(S), Len(y) = Len(z),
         \A i \in 1 .. Len(y) : y[i] = z[i]
  PROVE  y = z
OBVIOUS

(* The same characters at two places.                                      *)
LEMMA SubSeqSame ==
  ASSUME NEW S, NEW s \in Seq(S), NEW x \in Seq(S), NEW f \in Nat, NEW d \in Nat,
         d <= Len(x), f + d <= Len(s), \A i \in 1 .. d : s[f + i] = x[i]
  PROVE  SubSeq(s, f + 1, f + d) = SubSeq(x, 1, d)
<1> DEFINE y == SubSeq(s, f + 1, f + d)
           z == SubSeq(x, 1, d)
<1>1. y \in Seq(S) /\ Len(y) = d /\ \A i \in 1 .. d : y[i] = s[f + i]
  OBVIOUS
<1>2. z \in Seq(S) /\ Len(z) = d /\ \A i \in 1 .. d : z[i] = x[i]
  OBVIOUS
<1> HIDE DEF y, z
<1>3. \A i \in 1 .. d : y[i] = z[i]
  BY <1>1, <1>2
<1>4. Len(y) = Len(z) /\ \A i \in 1 .. Len(y) : y[i] = z[i]
  BY <1>1, <1>2, <1>3
<1>5. y = z
  BY <1>1, <1>2, <1>4, SameSeq
<1> QED
  BY <1>5 DEF y, z

(* The first n characters.                                                 *)
LEMMA HeadIs ==
  ASSUME NEW S, NEW x \in Seq(S), NEW n \in Nat, NEW d \in Nat, d <= n, d <= Len(x),
         d = Len(x) \/ d = n
  PROVE  UpTo(x, 1, {}, n) = SubSeq(x, 1, d)
<1>1. /\ 1 \in 1 .. Len(x) + 1 /\ d \in 1 - 1 .. Len(x) /\ d - 1 + 1 <= n
      /\ d = Len(x) \/ d - 1 + 1 = n
  OBVIOUS
<1>2. Clear(x, 1, d, {})
  BY DEF Clear
<1> QED
  BY <1>1, <1>2, UpToIs

(* Once left, a loop stays left.                                           *)
StaysLeft(c, e) == \A k \in 1 .. e : c[k - 1].stop => c[k].stop

(* A loop that has not been left at e had not been left before.            *)
LEMMA StopStays ==
  ASSUME NEW c, NEW e \in Nat, StaysLeft(c, e), ~c[e].stop
  PROVE  \A k \in 0 .. e : ~c[k].stop
<1> DEFINE T == {i \in 0 .. e : ~c[e - i].stop}
<1>1. 0 \in T
  OBVIOUS
<1>2. ASSUME NEW i \in 1 .. e, i - 1 \in T PROVE i \in T
  <2> DEFINE k == e - (i - 1)
  <2>1. k \in 1 .. e /\ k - 1 = e - i
    OBVIOUS
  <2>2. ~c[k].stop
    BY <1>2, <2>1
  <2> HIDE DEF k
  <2>3. ~c[k - 1].stop
    BY <2>1, <2>2, Zenon DEF StaysLeft
  <2> QED
    BY <2>1, <2>3
<1> HIDE DEF T
<1>3. \A i \in 0 .. e : i \in T
  BY <1>1, <1>2, LoopInduction
<1> SUFFICES ASSUME NEW k \in 0 .. e PROVE ~c[k].stop
  OBVIOUS
<1>4. e - k \in 0 .. e /\ e - (e - k) = k
  OBVIOUS
<1> QED
  BY <1>3, <1>4 DEF T

(* getjsonv for a value in quotation marks.                                *)
LEMMA StringValueIs ==
  ASSUME NEW s, NEW p, NEW key, NEW x, NEW num, ~num,
         KeyHasValue(s, p, key, x, num), NEW n \in Nat
  PROVE  /\ GetJsonV(s, key, n).t = UpTo(x, 1, {}, n)
         /\ GetJsonV(s, key, n).nul = p + Len(key) + 2 + Len(UpTo(x, 1, {}, n))
<1> DEFINE l == Len(key)
           m == Len(x)
           f == p + l + 2
<1>1. /\ s \in Seq(JsonChars) /\ key \in Seq(JsonChars) /\ x \in Seq(JsonChars)
      /\ p \in Nat /\ p > 0
  BY DEF KeyHasValue
<1>2. /\ p + l + 2 + m < Len(s) /\ s[p + l + 2] = Q /\ s[p + l + 3 + m] = Q
      /\ \A i \in 1 .. m : s[p + l + 2 + i] = x[i] /\ x[i] # Q
  BY DEF KeyHasValue
<1>3. l \in Nat /\ m \in Nat /\ Len(s) \in Nat
  BY <1>1
<1>0. PICK c : JsonRun(c, s, key, n)
  BY <1>1, JsonVScan
<1>4. /\ Scanned(c, s) /\ GetJsonV(s, key, n).t = c[Len(s)].t
      /\ \A k \in 1 .. Len(s) : c[k] = JsonVTurn(s, key, n, k, c[k - 1])
  BY <1>0 DEF JsonRun
<1>5. Before(c[p + l + 1], 2, 0)
  BY <1>4, FindsKey
<1> HIDE DEF l, m
<1>6. /\ f \in Nat /\ f \in 1 .. Len(s) /\ f - 1 = p + l + 1 /\ f - 1 \in 0 .. Len(s)
      /\ f + m < Len(s)
  BY <1>1, <1>2, <1>3
<1>7. s[f] = Q /\ s[f + m + 1] = Q /\ \A i \in 1 .. m : s[f + i] = x[i] /\ x[i] # Q
  <2>1. f + m + 1 = p + l + 3 + m
    BY <1>1, <1>3
  <2> QED
    BY <1>2, <2>1
<1>8. Before(c[f - 1], 2, 0)
  BY <1>5, <1>6
<1> HIDE DEF f
<1>9. c[f].t = <<>> /\ ~c[f].stop /\ c[f].j = 3 /\ c[f].skip = 0
  <2> DEFINE a == c[f - 1]
             b == [a EXCEPT !.j = @ + 1]
  <2>1. a \in Locals(s)
    BY <1>4, <1>6 DEF Scanned
  <2>2. ~a.stop /\ ~(a.skip > 0) /\ a.j # 0 /\ a.j < 3 /\ s[f] \in {":", Q}
    BY <1>7, <1>8 DEF Before
  <2>3. c[f] = JsonVTurn(s, key, n, f, a)
    BY <1>4, <1>6
  <2> HIDE DEF a
  <2>4. b.t = a.t /\ b.stop = a.stop /\ b.j = a.j + 1 /\ b.skip = a.skip
    BY <2>1 DEF Locals
  <2>5. JsonVTurn(s, key, n, f, a) = b
    BY <2>2, Zenon DEF JsonVTurn
  <2> HIDE DEF b
  <2> QED
    BY <1>8, <2>3, <2>4, <2>5 DEF Before, a
<1>10. ASSUME NEW k \in f + 1 .. Len(s), c[k - 1].j = 3, c[k - 1].skip = 0
       PROVE  c[k] = TakeTurn(s, {Q}, n, k, c[k - 1])
  <2>1. ASSUME NEW a, a.j = 3, a.skip = 0
        PROVE  JsonVTurn(s, key, n, k, a) = TakeTurn(s, {Q}, n, k, a)
    <3>1. ~(a.skip > 0) /\ a.j # 0 /\ ~(a.j < 3)
      BY <2>1
    <3> QED
      BY <3>1, Zenon DEF JsonVTurn, TakeTurn
  <2>2. k \in 1 .. Len(s)
    BY <1>6
  <2> QED
    BY <1>4, <1>10, <2>1, <2>2
<1>11. Copies(c, s, f, Len(s), 3, {Q}, n)
  BY <1>9, <1>10 DEF Copies
<1>12. f \in 0 .. Len(s)
  BY <1>6
<1>13. c[Len(s)].t = UpTo(s, f + 1, {Q}, n)
  BY <1>1, <1>4, <1>11, <1>12, CopiesUpTo
<1>14. PICK d \in Nat : d <= n /\ d <= m /\ (d = m \/ d = n)
  <2>1. m <= n \/ n <= m
    BY <1>3
  <2> QED
    BY <1>3, <2>1
<1>15. UpTo(x, 1, {}, n) = SubSeq(x, 1, d)
  BY <1>1, <1>14, HeadIs DEF m
<1>16. UpTo(s, f + 1, {Q}, n) = SubSeq(s, f + 1, f + d)
  <2> DEFINE g == f + 1
             e == f + d
  <2>1. /\ g \in 1 .. Len(s) + 1 /\ e \in g - 1 .. Len(s) /\ e - g + 1 = d /\ e < Len(s)
        /\ e - g + 1 <= n
    BY <1>3, <1>6, <1>14
  <2>2. Clear(s, g, e, {Q})
    <3> SUFFICES ASSUME NEW k \in g .. e PROVE s[k] # Q
      BY DEF Clear
    <3>1. k - f \in 1 .. m /\ f + (k - f) = k
      BY <1>3, <1>6, <1>14
    <3>2. s[f + (k - f)] # Q
      BY <1>7, <3>1
    <3> QED
      BY <3>1, <3>2
  <2>3. (e < Len(s) /\ s[e + 1] \in {Q}) \/ e - g + 1 = n
    BY <1>7, <1>14, <2>1
  <2> HIDE DEF g, e
  <2>4. UpTo(s, g, {Q}, n) = SubSeq(s, g, e)
    BY <1>1, <2>1, <2>2, <2>3, UpToIs
  <2> QED
    BY <2>4 DEF g, e
<1>17. SubSeq(s, f + 1, f + d) = SubSeq(x, 1, d)
  <2>1. d <= Len(x) /\ f + d <= Len(s)
    BY <1>3, <1>6, <1>14 DEF m
  <2>2. \A i \in 1 .. d : s[f + i] = x[i]
    BY <1>3, <1>7, <1>14
  <2> QED
    BY <1>1, <1>6, <2>1, <2>2, SubSeqSame
<1>18. d \in Nat /\ f + d \in f .. Len(s) /\ f + d + 1 \in 1 .. Len(s) /\ f + d \in Nat
  BY <1>3, <1>6, <1>14
<1>19. Copies(c, s, f, f + d, 3, {Q}, n)
  <2>1. \A k \in f + 1 .. f + d : k \in f + 1 .. Len(s)
    BY <1>6, <1>18
  <2> QED
    BY <1>9, <1>10, <2>1 DEF Copies
<1>20. /\ Took(s, f + 1, {Q}, n, f + d, c[f + d])
       /\ c[f + d].skip = 0 /\ c[f + d].j = 3
  <2> DEFINE e == f + d
  <2>1. e \in f .. Len(s) /\ Copies(c, s, f, e, 3, {Q}, n)
    BY <1>18, <1>19
  <2> HIDE DEF e
  <2>2. Took(s, f + 1, {Q}, n, e, c[e]) /\ c[e].skip = 0 /\ c[e].j = 3
    BY <1>1, <1>4, <1>12, <2>1, CopiesTake
  <2> QED
    BY <2>2 DEF e
<1>21. ~c[f + d].stop
  <2> SUFFICES ASSUME c[f + d].stop PROVE FALSE
    OBVIOUS
  <2> DEFINE g == f + 1
             e == f + d
             E == {Q}
  <2>1. Took(s, g, E, n, e, c[e]) /\ c[e].stop
    BY <1>20
  <2> HIDE DEF g, e, E
  <2>2. PICK k \in g - 1 .. e - 1 : s[k + 1] \in E \/ k - g + 1 = n
    BY <2>1, Zenon DEF Took
  <2>3. k + 1 - f \in 1 .. m /\ f + (k + 1 - f) = k + 1 /\ k - g + 1 # n
    BY <1>3, <1>6, <1>14, <1>18 DEF g, e
  <2>4. s[f + (k + 1 - f)] # Q
    BY <1>7, <2>3
  <2> QED
    BY <2>2, <2>3, <2>4 DEF E
<1>22. c[f + d].t = SubSeq(s, f + 1, f + d)
  BY <1>20, <1>21, Zenon DEF Took
<1>23. Len(c[f + d].t) = d
  BY <1>1, <1>6, <1>18, <1>22
<1>24. c[f + d + 1].stop
  <2> DEFINE k == f + d + 1
             a == c[k - 1]
  <2>1. k \in f + 1 .. Len(s) /\ k - 1 = f + d
    BY <1>6, <1>18
  <2>2. c[k] = TakeTurn(s, {Q}, n, k, a) /\ ~a.stop /\ Len(a.t) = d
    BY <1>10, <1>20, <1>21, <1>23, <2>1
  <2>3. s[k] \in {Q} \/ ~(d < n)
    BY <1>7, <1>14
  <2>4. a \in Locals(s)
    <3>1. k - 1 \in 0 .. Len(s)
      BY <1>18, <2>1
    <3> QED
      BY <1>4, <3>1 DEF Scanned
  <2> HIDE DEF k, a
  <2>5. c[k] = Stopped(a)
    BY <2>2, <2>3, Zenon DEF TakeTurn, PutIfRoom
  <2> QED
    BY <2>4, <2>5 DEF Stopped, Locals, k
<1>25. \A k \in 0 .. f + d : ~c[k].stop
  <2> DEFINE e == f + d
  <2>1. e \in Nat /\ ~c[e].stop /\ \A k \in 1 .. e : k \in 1 .. Len(s)
    BY <1>18, <1>21
  <2> HIDE DEF e
  <2>2. StaysLeft(c, e)
    <3> SUFFICES ASSUME NEW k \in 1 .. e, c[k - 1].stop PROVE c[k].stop
      BY DEF StaysLeft
    <3>1. c[k] = JsonVTurn(s, key, n, k, c[k - 1])
      BY <1>4, <2>1
    <3>2. c[k] = c[k - 1]
      BY <3>1, Zenon DEF JsonVTurn
    <3> QED
      BY <3>2
  <2>3. \A k \in 0 .. e : ~c[k].stop
    BY <2>1, <2>2, StopStays
  <2> QED
    BY <2>3 DEF e
<1> DEFINE left == {k \in DOMAIN s : c[k].stop} \cup {Len(s) + 1}
           e == f + d + 1
<1>26. GetJsonV(s, key, n).nul = Min(left) - 1
  BY <1>0 DEF JsonRun
<1>27. left \subseteq Nat /\ e \in left /\ \A y \in left : e <= y
  <2>1. DOMAIN s = 1 .. Len(s)
    BY <1>1
  <2>2. left \subseteq Nat /\ e \in left
    BY <1>3, <1>18, <1>24, <2>1
  <2>3. ASSUME NEW y \in left, ~(e <= y) PROVE FALSE
    <3>1. y \in 1 .. Len(s) /\ c[y].stop
      BY <1>3, <1>18, <2>1, <2>3
    <3>2. y \in 0 .. f + d
      BY <1>18, <2>3, <3>1
    <3> QED
      BY <1>25, <3>1, <3>2
  <2> QED
    BY <2>2, <2>3
<1> HIDE DEF left
<1>28. Min(left) = e
  <2>1. left # {}
    BY <1>27
  <2> DEFINE u == Min(left)
  <2>2. u \in left /\ \A y \in left : u <= y
    BY <1>27, <2>1, LeastIs
  <2> HIDE DEF u, e
  <2>3. u \in Nat /\ e \in Nat /\ u <= e /\ e <= u
    BY <1>27, <2>2
  <2>4. u = e
    BY <2>3
  <2> QED
    BY <2>4 DEF u
<1>29. Len(UpTo(x, 1, {}, n)) = d
  BY <1>13, <1>15, <1>17, <1>22, <1>23
<1>30. GetJsonV(s, key, n).nul = f + d
  BY <1>18, <1>26, <1>28
<1>31. GetJsonV(s, key, n).t = UpTo(x, 1, {}, n)
  BY <1>4, <1>13, <1>15, <1>16, <1>17
<1> QED
  BY <1>29, <1>30, <1>31 DEF f, l

(* x is the beginning of y.                                                *)
Begins(x, y) == Len(x) <= Len(y) /\ \A i \in 1 .. Len(x) : y[i] = x[i]

(* No turn takes anything back.                                            *)
LEMMA TurnGrows ==
  ASSUME NEW S, NEW s \in Seq(S), NEW key, NEW n, NEW k \in 1 .. Len(s), NEW a \in Locals(s),
         NEW x \in Seq(Range(s)), Begins(x, a.t)
  PROVE  Begins(x, JsonVTurn(s, key, n, k, a).t)
<1> DEFINE b == JsonVTurn(s, key, n, k, a)
<1>1. b.t = a.t \/ b.t = Append(a.t, s[k])
  <2>1. Stopped(a).t = a.t /\ Put(a, s[k]).t = Append(a.t, s[k])
    BY DEF Stopped, Put, Locals
  <2>2. /\ [a EXCEPT !.skip = @ - 1].t = a.t /\ [a EXCEPT !.j = @ + 1].t = a.t
        /\ [a EXCEPT !.j = 1, !.skip = Len(key)].t = a.t
    BY DEF Locals
  <2> QED
    BY <2>1, <2>2, Zenon DEF JsonVTurn, PutIfRoom
<1> HIDE DEF b
<1>2. a.t \in Seq(Range(s)) /\ s[k] \in Range(s)
  BY DEF Locals, Range
<1>3. CASE b.t = a.t
  BY <1>3 DEF b
<1>4. CASE b.t = Append(a.t, s[k])
  <2> DEFINE y == a.t
             z == Append(y, s[k])
  <2>1. y \in Seq(Range(s)) /\ Len(z) = Len(y) + 1 /\ \A i \in 1 .. Len(y) : z[i] = y[i]
    BY <1>2
  <2>2. Len(x) <= Len(y) /\ \A i \in 1 .. Len(x) : y[i] = x[i]
    BY DEF Begins
  <2> HIDE DEF y, z
  <2>3. Len(x) \in Nat /\ Len(y) \in Nat
    BY <2>1
  <2>4. Begins(x, z)
    BY <2>1, <2>2, <2>3 DEF Begins
  <2> QED
    BY <1>4, <2>4 DEF b, y, z
<1> QED
  BY <1>1, <1>3, <1>4

(* The same, as ValueOfKey says it.                                        *)
StartsWith(y, x) == Len(x) <= Len(y) /\ SubSeq(y, 1, Len(x)) = x

(* getjsonv for a number.                                                  *)
LEMMA NumberValueIs ==
  ASSUME NEW s, NEW p, NEW key, NEW x, NEW num, num,
         KeyHasValue(s, p, key, x, num), NEW n \in Nat
  PROVE  StartsWith(GetJsonV(s, key, n).t, UpTo(x, 1, {}, n))
<1> DEFINE l == Len(key)
           m == Len(x)
           f == p + l + 1
           e == f + m
           head == UpTo(x, 1, {}, n)
<1>1. /\ s \in Seq(JsonChars) /\ key \in Seq(JsonChars) /\ x \in Seq(JsonChars)
      /\ p \in Nat /\ p > 0
  BY DEF KeyHasValue
<1>2. /\ p + l + 1 + m <= Len(s)
      /\ \A i \in 1 .. m : s[p + l + 1 + i] = x[i] /\ x[i] # ":" /\ x[i] # Q
  BY DEF KeyHasValue
<1>3. l \in Nat /\ m \in Nat /\ Len(s) \in Nat
  BY <1>1
<1>0. PICK c : JsonRun(c, s, key, n)
  BY <1>1, JsonVScan
<1>4. /\ Scanned(c, s) /\ GetJsonV(s, key, n).t = c[Len(s)].t
      /\ \A k \in 1 .. Len(s) : c[k] = JsonVTurn(s, key, n, k, c[k - 1])
  BY <1>0 DEF JsonRun
<1>5. Before(c[f], 2, 0)
  BY <1>4, FindsKey
<1> HIDE DEF l, m
<1>6. f \in Nat /\ f \in 0 .. Len(s) /\ e \in Nat /\ e \in f .. Len(s) /\ e <= Len(s)
  BY <1>1, <1>2, <1>3
<1>7. \A i \in 1 .. m : s[f + i] = x[i] /\ x[i] # ":" /\ x[i] # Q
  BY <1>2
<1>8. \A k \in 0 .. Len(s) : c[k] \in Locals(s)
  BY <1>4 DEF Scanned
<1> HIDE DEF f
<1>9. ASSUME NEW k \in f + 1 .. e, c[k - 1].j = 2, c[k - 1].skip = 0
      PROVE  c[k] = TakeTurn(s, {}, n, k, c[k - 1])
  <2>1. k \in 1 .. Len(s) /\ k - f \in 1 .. m /\ f + (k - f) = k
    BY <1>3, <1>6
  <2>2. s[f + (k - f)] # ":" /\ s[f + (k - f)] # Q
    BY <1>7, <2>1
  <2>3. s[k] \notin {":", Q} /\ s[k] # Q
    BY <2>1, <2>2
  <2>4. ASSUME NEW a, a.j = 2, a.skip = 0
        PROVE  JsonVTurn(s, key, n, k, a) = TakeTurn(s, {}, n, k, a)
    <3>1. ~(a.skip > 0) /\ a.j # 0
      BY <2>4
    <3> QED
      BY <2>3, <3>1, Zenon DEF JsonVTurn, TakeTurn
  <2> QED
    BY <1>4, <1>9, <2>1, <2>4
<1>10. Copies(c, s, f, e, 2, {}, n)
  BY <1>5, <1>9 DEF Copies, Before
<1> HIDE DEF e
<1>11. Took(s, f + 1, {}, n, e, c[e])
  BY <1>1, <1>4, <1>6, <1>10, CopiesTake
<1>12. PICK d \in Nat : /\ d <= n /\ d <= m /\ (d = m \/ d = n)
                        /\ c[e].t = SubSeq(s, f + 1, f + d)
  <2> DEFINE D(d) == /\ d <= n /\ d <= m /\ (d = m \/ d = n)
                     /\ c[e].t = SubSeq(s, f + 1, f + d)
  <2>1. CASE c[e].stop
    <3> DEFINE E == {}
               g == f + 1
    <3>1. Took(s, g, E, n, e, c[e])
      BY <1>11
    <3>2. g - 1 = f
      BY <1>6
    <3> HIDE DEF E, g
    <3>3. PICK k \in g - 1 .. e - 1 :
            /\ c[e].t = SubSeq(s, g, k) /\ Clear(s, g, k, E) /\ k - g + 1 <= n
            /\ s[k + 1] \in E \/ k - g + 1 = n
      BY <2>1, <3>1, Zenon DEF Took
    <3>4. k = f + n /\ n <= m
      BY <1>3, <1>6, <3>2, <3>3 DEF e, E, g
    <3>5. D(n)
      BY <3>3, <3>4 DEF g
    <3> QED
      BY <3>5
  <2>2. CASE ~c[e].stop
    <3>1. c[e].t = SubSeq(s, f + 1, e) /\ e - (f + 1) + 1 <= n
      BY <1>11, <2>2, Zenon DEF Took
    <3>2. e = f + m /\ m <= n
      BY <1>3, <1>6, <3>1 DEF e
    <3>3. D(m)
      BY <1>3, <3>1, <3>2
    <3> QED
      BY <1>3, <3>3
  <2> QED
    BY <2>1, <2>2
<1>13. head = SubSeq(x, 1, d)
  BY <1>1, <1>12, HeadIs DEF m
<1>14. SubSeq(s, f + 1, f + d) = SubSeq(x, 1, d)
  <2>1. d <= Len(x) /\ f + d <= Len(s)
    BY <1>3, <1>6, <1>12 DEF m, e
  <2>2. \A i \in 1 .. d : s[f + i] = x[i]
    BY <1>3, <1>7, <1>12
  <2> QED
    BY <1>1, <1>6, <2>1, <2>2, SubSeqSame
<1>15. c[e].t = head
  BY <1>12, <1>13, <1>14
<1> HIDE DEF head
<1>16. head \in Seq(Range(s)) /\ Len(head) \in Nat
  <2>1. c[e] \in Locals(s)
    BY <1>6, <1>8
  <2>2. c[e].t \in Seq(Range(s))
    BY <2>1 DEF Locals
  <2> QED
    BY <1>15, <2>2
<1> DEFINE T == {i \in 0 .. Len(s) : i >= e => Begins(head, c[i].t)}
<1>17. Begins(head, c[e].t)
  BY <1>15, <1>16 DEF Begins
<1>18. 0 \in T
  BY <1>3, <1>6, <1>17
<1>19. ASSUME NEW i \in 1 .. Len(s), i - 1 \in T PROVE i \in T
  <2>1. CASE i <= e
    BY <1>6, <1>17, <2>1
  <2>2. CASE i > e
    <3>1. Begins(head, c[i - 1].t) /\ c[i - 1] \in Locals(s)
      BY <1>6, <1>8, <1>19, <2>2
    <3>2. Begins(head, JsonVTurn(s, key, n, i, c[i - 1]).t)
      BY <1>1, <1>16, <3>1, TurnGrows
    <3> QED
      BY <1>4, <3>2
  <2> QED
    BY <1>6, <2>1, <2>2
<1> HIDE DEF T
<1>20. \A i \in 0 .. Len(s) : i \in T
  BY <1>3, <1>18, <1>19, LoopInduction
<1> DEFINE r == c[Len(s)].t
<1>21. Begins(head, r)
  <2>1. Len(s) \in 0 .. Len(s) /\ Len(s) >= e
    BY <1>3, <1>6
  <2> QED
    BY <1>20, <2>1 DEF T
<1>22. r \in Seq(Range(s))
  <2>1. c[Len(s)] \in Locals(s)
    BY <1>3, <1>8
  <2> QED
    BY <2>1 DEF Locals
<1>23. GetJsonV(s, key, n).t = r
  BY <1>4
<1> HIDE DEF r
<1>24. Len(head) <= Len(r) /\ SubSeq(r, 1, Len(head)) = head
  BY <1>16, <1>21, <1>22 DEF Begins
<1> QED
  BY <1>23, <1>24 DEF StartsWith, head

(* A key of an object, if its text does not occur before it, is found with *)
(* its value.                                                              *)
LEMMA ObjectHasValue ==
  ASSUME NEW o \in Objects, NEW k \in 1 .. Len(o),
         NEW key, key = o[k][1], NEW value, value = o[k][2],
         \A i \in 1 .. Len(Pairs(o)[k - 1]) + 2 : ~KeyAt(Render(o), key, i)
  PROVE  KeyHasValue(Render(o), Len(Pairs(o)[k - 1]) + (IF k = 1 THEN 1 ELSE 2) + 2,
                     key, value.chars, value.num)
<1> DEFINE s == Render(o)
           x == value.chars
           l == Len(key)
           m == Len(x)
           h == Len(Pairs(o)[k - 1]) + (IF k = 1 THEN 1 ELSE 2)
           w == o[k]
           y == Pair(w)
           p == h + 2
<1>1. key \in Keys /\ value \in Values
  BY PairsAre
<1>2. /\ key \in Seq(STRING \ {Q}) /\ key # <<>> /\ x \in Seq(STRING \ {Q})
      /\ value.num \in BOOLEAN
      /\ value.num => x \in Seq(STRING \ {Q, ":"})
  BY <1>1, HttpTextAssumption
<1>3. key \in Seq(JsonChars) /\ x \in Seq(JsonChars)
  BY <1>2, JsonCharsAre, Zenon
<1>4. l \in Nat /\ l > 0 /\ m \in Nat
  BY <1>2, <1>3
<1>5. /\ y \in Seq(JsonChars) /\ y[1] = Q /\ y[l + 2] = Q /\ y[l + 3] = ":"
      /\ \A i \in 1 .. l : y[i + 1] = key[i]
      /\ value.num => /\ Len(y) = l + m + 3
                      /\ \A i \in 1 .. m : y[l + 3 + i] = x[i]
      /\ ~value.num => /\ Len(y) = l + m + 5 /\ y[l + 4] = Q /\ y[l + m + 5] = Q
                       /\ \A i \in 1 .. m : y[l + 4 + i] = x[i]
  <2>1. w[1] = key /\ w[2] = value
    OBVIOUS
  <2> HIDE DEF w
  <2>2. PairText(y, key, x, value.num)
    BY <1>3, <2>1, PairIs
  <2> QED
    BY <2>2 DEF PairText
<1>6. Within(y, s, h)
  BY PairWithin
<1>7. \A i \in 1 .. m : x[i] # Q /\ (value.num => x[i] # ":")
  <2>1. \A i \in 1 .. m : x[i] \in STRING \ {Q}
    BY <1>2
  <2>2. value.num => \A i \in 1 .. m : x[i] \in STRING \ {Q, ":"}
    BY <1>2
  <2> HIDE DEF x, m
  <2> QED
    BY <2>1, <2>2, Zenon
<1>8. key[1] # Q
  BY <1>2, <1>4
<1>9. \A i \in 1 .. Len(Pairs(o)[k - 1]) + 2 : ~KeyAt(s, key, i)
  OBVIOUS
<1>10. Len(Pairs(o)[k - 1]) \in Nat /\ k \in Nat
  <2>1. Pairs(o) \in [0 .. Len(o) -> Seq(JsonChars)] /\ Len(o) \in Nat
    BY PairsAre
  <2>2. k - 1 \in 0 .. Len(o) /\ k \in Nat
    BY <2>1
  <2>3. Pairs(o)[k - 1] \in Seq(JsonChars)
    BY <2>1, <2>2
  <2> QED
    BY <2>2, <2>3
<1> DEFINE z == Len(Pairs(o)[k - 1])
<1>11. z \in Nat /\ (h = z + 1 \/ h = z + 2) /\ h \in Nat
  <2>1. CASE k = 1
    BY <1>10, <2>1
  <2>2. CASE k # 1
    BY <1>10, <2>2
  <2> QED
    BY <2>1, <2>2
<1>12. /\ s \in Seq(JsonChars) /\ h + Len(y) <= Len(s)
       /\ \A i \in 1 .. Len(y) : s[h + i] = y[i]
  BY <1>6 DEF Within
<1> HIDE DEF s, x, l, m, h, y, z
<1>13. Len(y) \in Nat /\ Len(y) >= l + m + 3 /\ Len(s) \in Nat
  BY <1>2, <1>4, <1>5, <1>12
<1>14. KeyAt(s, key, p)
  <2> DEFINE u == SubSeq(s, p, p + l - 1)
  <2>1. p + l - 1 <= Len(s) /\ p \in Nat /\ p > 0
    BY <1>4, <1>11, <1>12, <1>13
  <2>2. u \in Seq(JsonChars) /\ Len(u) = l /\ \A i \in 1 .. l : u[i] = s[p + i - 1]
    BY <1>4, <1>12, <2>1
  <2>3. ASSUME NEW i \in 1 .. l PROVE u[i] = key[i]
    <3>1. p + i - 1 = h + (i + 1) /\ i + 1 \in 1 .. Len(y)
      BY <1>4, <1>11, <1>13
    <3>2. s[h + (i + 1)] = y[i + 1] /\ y[i + 1] = key[i]
      BY <1>5, <1>12, <3>1
    <3> QED
      BY <2>2, <3>1, <3>2
  <2> HIDE DEF u
  <2>4. u = key
    BY <1>3, <2>2, <2>3 DEF l
  <2> QED
    BY <2>1, <2>4 DEF KeyAt, u, l
<1>15. ASSUME NEW i \in 1 .. p - 1 PROVE ~KeyAt(s, key, i)
  <2>1. CASE i <= z + 2
    <3>1. i \in 1 .. z + 2
      BY <1>11, <2>1
    <3> QED
      BY <1>9, <3>1 DEF z
  <2>2. CASE i > z + 2
    <3>1. i = h + 1 /\ i \in Nat /\ i > 0
      BY <1>11, <2>2
    <3>2. s[i] = Q
      <4>1. 1 \in 1 .. Len(y)
        BY <1>4, <1>13
      <4> QED
        BY <1>5, <1>12, <3>1, <4>1
    <3> SUFFICES ASSUME i + Len(key) - 1 <= Len(s), SubSeq(s, i, i + Len(key) - 1) = key
                 PROVE  FALSE
      BY DEF KeyAt
    <3> DEFINE u == SubSeq(s, i, i + l - 1)
    <3>5. u = key /\ i + l - 1 <= Len(s)
      BY DEF l
    <3>4. u[1] = s[i]
      <4>1. i + l - 1 \in 1 .. Len(s) /\ i <= i + l - 1
        BY <1>4, <1>13, <3>1, <3>5
      <4> QED
        BY <1>12, <3>1, <4>1
    <3> HIDE DEF u
    <3> QED
      BY <1>8, <3>2, <3>4, <3>5
  <2> QED
    BY <1>11, <2>1, <2>2
<1>16. p \in Nat /\ p > 0
  BY <1>11
<1>17. ASSUME NEW i \in 1 .. Len(y) - 1 PROVE s[p + i - 1] = y[i + 1]
  <2>1. i + 1 \in 1 .. Len(y) /\ p + i - 1 = h + (i + 1)
    BY <1>11, <1>13
  <2> QED
    BY <1>12, <2>1
<1>18. s[p + l + 1] = ":"
  <2>1. l + 2 \in 1 .. Len(y) - 1 /\ p + (l + 2) - 1 = p + l + 1 /\ l + 2 + 1 = l + 3
    BY <1>4, <1>13, <1>16
  <2>2. s[p + (l + 2) - 1] = y[l + 2 + 1]
    BY <1>17, <2>1
  <2> QED
    BY <1>5, <2>1, <2>2
<1>19. value.num => /\ p + l + 1 + m <= Len(s)
                    /\ \A i \in 1 .. m : s[p + l + 1 + i] = x[i] /\ x[i] # ":"
  <2> SUFFICES ASSUME value.num
               PROVE  /\ p + l + 1 + m <= Len(s)
                      /\ \A i \in 1 .. m : s[p + l + 1 + i] = x[i] /\ x[i] # ":"
    OBVIOUS
  <2>1. Len(y) = l + m + 3
    BY <1>5
  <2>2. p + l + 1 + m <= Len(s)
    <3>1. h + Len(y) <= Len(s) /\ Len(s) \in Nat
      BY <1>12, <1>13
    <3> QED
      BY <1>4, <1>11, <2>1, <3>1
  <2>3. ASSUME NEW i \in 1 .. m PROVE s[p + l + 1 + i] = x[i]
    <3>1. /\ l + 2 + i \in 1 .. Len(y) - 1 /\ p + (l + 2 + i) - 1 = p + l + 1 + i
          /\ l + 2 + i + 1 = l + 3 + i
      BY <1>4, <1>16, <2>1
    <3>2. s[p + (l + 2 + i) - 1] = y[l + 2 + i + 1]
      BY <1>17, <3>1
    <3> QED
      BY <1>5, <3>1, <3>2
  <2> QED
    BY <1>7, <2>2, <2>3
<1>20. ~value.num => /\ p + l + 2 + m < Len(s) /\ s[p + l + 2] = Q
                     /\ s[p + l + 3 + m] = Q
                     /\ \A i \in 1 .. m : s[p + l + 2 + i] = x[i]
  <2> SUFFICES ASSUME ~value.num
               PROVE  /\ p + l + 2 + m < Len(s) /\ s[p + l + 2] = Q
                      /\ s[p + l + 3 + m] = Q
                      /\ \A i \in 1 .. m : s[p + l + 2 + i] = x[i]
    OBVIOUS
  <2>1. Len(y) = l + m + 5
    BY <1>5
  <2>2. p + l + 2 + m < Len(s)
    <3>1. h + Len(y) <= Len(s) /\ Len(s) \in Nat
      BY <1>12, <1>13
    <3> QED
      BY <1>4, <1>11, <2>1, <3>1
  <2>3. s[p + l + 2] = Q
    <3>1. /\ l + 3 \in 1 .. Len(y) - 1 /\ p + (l + 3) - 1 = p + l + 2
          /\ l + 3 + 1 = l + 4
      BY <1>4, <1>16, <2>1
    <3>2. s[p + (l + 3) - 1] = y[l + 3 + 1]
      BY <1>17, <3>1
    <3> QED
      BY <1>5, <3>1, <3>2
  <2>4. s[p + l + 3 + m] = Q
    <3>1. /\ l + m + 4 \in 1 .. Len(y) - 1 /\ p + (l + m + 4) - 1 = p + l + 3 + m
          /\ l + m + 4 + 1 = l + m + 5
      BY <1>4, <1>16, <2>1
    <3>2. s[p + (l + m + 4) - 1] = y[l + m + 4 + 1]
      BY <1>17, <3>1
    <3> QED
      BY <1>5, <3>1, <3>2
  <2>5. ASSUME NEW i \in 1 .. m PROVE s[p + l + 2 + i] = x[i]
    <3>1. /\ l + 3 + i \in 1 .. Len(y) - 1 /\ p + (l + 3 + i) - 1 = p + l + 2 + i
          /\ l + 3 + i + 1 = l + 4 + i
      BY <1>4, <1>16, <2>1
    <3>2. s[p + (l + 3 + i) - 1] = y[l + 3 + i + 1]
      BY <1>17, <3>1
    <3> QED
      BY <1>5, <3>1, <3>2
  <2> QED
    BY <2>2, <2>3, <2>4, <2>5
<1> HIDE DEF p
<1>21. KeyHasValue(s, p, key, x, value.num)
  BY <1>3, <1>4, <1>7, <1>12, <1>14, <1>15, <1>16, <1>18, <1>19, <1>20, Zenon
  DEF KeyHasValue, l, m
<1> QED
  BY <1>21 DEF s, x, p, h

(* A call of a function of util.c and what it returned.                    *)
TextInv ==
  /\ call.n \in Ns
  /\ call.fn \in {"getmethod", "geturi", "getbody", "getln"} => call.s \in Texts
  /\ call.fn = "getln" => call.l \in 0 .. 3
  /\ call.fn = "getjsonv" => call.obj \in Objects /\ call.s = Render(call.obj)
  /\ Returned("getmethod") => result[1] = GetMethod(call.s, call.n)
  /\ Returned("geturi") => result[1] = GetUri(call.s, call.n)
  /\ Returned("getln") => result[1] = GetLn(call.s, call.n, call.l)
  /\ Returned("getbody") => result[1] = GetBody(call.s, call.n)
  /\ Returned("getjsonv") => result[1] = GetJsonV(call.s, call.key, call.n)

(* HTTP texts are sequences of characters.                                 *)
LEMMA TextsAre == \A s \in Texts : s \in Seq(Chars)
<1> SUFFICES ASSUME NEW s \in Texts PROVE s \in Seq(Chars)
  OBVIOUS
<1>1. PICK k \in 0 .. MaxLen : s \in [1 .. k -> Chars]
  BY DEF Texts
<1>2. k \in Nat
  BY HttpTextAssumption
<1> QED
  BY <1>1, <1>2

(* What getmethod, geturi, getln and getbody return.                       *)
LEMMA TextInvCuts == TextInv => CutsText
<1> SUFFICES ASSUME TextInv PROVE CutsText
  OBVIOUS
<1> DEFINE s == call.s
           n == call.n
<1>1. n \in Nat
  BY HttpTextAssumption DEF TextInv
<1>2. call.fn \in {"getmethod", "geturi", "getbody", "getln"} => s \in Seq(Chars)
  BY TextsAre DEF TextInv
<1> HIDE DEF s, n
<1>3. ASSUME Returned("getmethod")
      PROVE  result[1] = UpTo(s, 1, LineEnd \cup {SP}, n)
  <2>1. s \in Seq(Chars) /\ result[1] = GetMethod(s, n)
    BY <1>2, <1>3 DEF TextInv, Returned, s, n
  <2> QED
    BY <1>1, <2>1, MethodIs
<1>4. ASSUME Returned("geturi")
      PROVE  LET sps == {k \in DOMAIN s : s[k] = SP}
             IN result[1] = IF sps = {} THEN <<>> ELSE UpTo(s, Min(sps) + 1, {SP}, n)
  <2>1. s \in Seq(Chars) /\ result[1] = GetUri(s, n)
    BY <1>2, <1>4 DEF TextInv, Returned, s, n
  <2> QED
    BY <1>1, <2>1, UriIs
<1>5. ASSUME Returned("getbody")
      PROVE  LET ends == {k \in 4 .. Len(s) : SubSeq(s, k - 3, k) = HeadEnd}
             IN result[1] = IF ends = {} THEN <<>> ELSE UpTo(s, Min(ends) + 1, {}, n)
  <2>1. s \in Seq(Chars) /\ result[1] = GetBody(s, n)
    BY <1>2, <1>5 DEF TextInv, Returned, s, n
  <2> QED
    BY <1>1, <2>1, BodyIs
<1>6. ASSUME Returned("getln")
      PROVE  /\ call.l = 0 => result[1] = UpTo(s, 1, LineEnd, n)
             /\ CR \notin Range(s) => IsLine(result[1], s, n, call.l)
  <2> DEFINE l == call.l
  <2>1. s \in Seq(Chars) /\ result[1] = GetLn(s, n, l) /\ l \in Nat
    BY <1>2, <1>6 DEF TextInv, Returned, s, n
  <2> HIDE DEF l
  <2>2. l = 0 => result[1] = UpTo(s, 1, LineEnd, n)
    BY <1>1, <2>1, FirstLineIs
  <2>3. CR \notin Range(s) => IsLine(result[1], s, n, l)
    BY <1>1, <2>1, LineIs
  <2> QED
    BY <2>2, <2>3 DEF l
<1> QED
  BY <1>3, <1>4, <1>5, <1>6 DEF CutsText, s, n

(* What getjsonv returns.                                                  *)
LEMMA TextInvValue == TextInv => ValueOfKey
<1> SUFFICES ASSUME TextInv, Returned("getjsonv"), NEW k \in DOMAIN call.obj,
                    call.obj[k][1] = call.key,
                    \A i \in 1 .. Len(Pairs(call.obj)[k - 1]) + 2 : ~KeyAt(call.s, call.key, i)
             PROVE  LET value == call.obj[k][2]
                        head == UpTo(value.chars, 1, {}, call.n)
                    IN IF value.num
                       THEN /\ Len(head) <= Len(result[1].t)
                            /\ SubSeq(result[1].t, 1, Len(head)) = head
                       ELSE /\ result[1].t = head
                            /\ result[1].nul = ValueAt(call.obj, k) + Len(head)
  BY Zenon DEF ValueOfKey
<1> DEFINE o == call.obj
           n == call.n
           key == call.key
           value == o[k][2]
           x == value.chars
           s == Render(o)
<1>1. /\ n \in Nat /\ o \in Objects /\ call.s = s /\ result[1] = GetJsonV(s, key, n)
  BY HttpTextAssumption DEF TextInv, Returned
<1>2. key = o[k][1] /\ \A i \in 1 .. Len(Pairs(o)[k - 1]) + 2 : ~KeyAt(s, key, i)
  BY <1>1
<1> HIDE DEF o, n, key
<1>3. k \in 1 .. Len(o)
  BY <1>1, PairsAre DEF o
<1> HIDE DEF s
<1> DEFINE p == Len(Pairs(o)[k - 1]) + (IF k = 1 THEN 1 ELSE 2) + 2
<1>4. KeyHasValue(s, p, key, x, value.num)
  <2> HIDE DEF value
  <2> QED
    BY <1>1, <1>2, <1>3, ObjectHasValue DEF s, value
<1> DEFINE num == value.num
<1>8. ValueAt(o, k) = p + Len(key) + 2
  <2>1. Len(Pairs(o)[k - 1]) \in Nat
    <3>1. Pairs(o) \in [0 .. Len(o) -> Seq(JsonChars)] /\ Len(o) \in Nat
      BY <1>1, PairsAre
    <3>2. Pairs(o)[k - 1] \in Seq(JsonChars)
      BY <1>3, <3>1
    <3> QED
      BY <3>2
  <2>2. key \in Seq(JsonChars)
    BY <1>4 DEF KeyHasValue
  <2>3. Len(key) \in Nat /\ Len(o[k][1]) = Len(key)
    BY <1>2, <2>2
  <2> DEFINE h == Len(Pairs(o)[k - 1])
             g == IF k = 1 THEN 1 ELSE 2
             l == Len(key)
  <2>4. h \in Nat /\ g \in Nat /\ l \in Nat
    BY <2>1, <2>3
  <2>5. ValueAt(o, k) = h + g + l + 4 /\ p = h + g + 2
    BY <2>3 DEF ValueAt
  <2> HIDE DEF h, g, l, p
  <2>6. h + g + l + 4 = h + g + 2 + l + 2
    BY <2>4
  <2> QED
    BY <2>5, <2>6 DEF l
<1> HIDE DEF value, x, num, p
<1>5. KeyHasValue(s, p, key, x, num)
  BY <1>4 DEF num
<1>6. CASE num
  <2>1. StartsWith(GetJsonV(s, key, n).t, UpTo(x, 1, {}, n))
    BY <1>1, <1>5, <1>6, NumberValueIs
  <2> QED
    BY <1>1, <1>6, <2>1, Zenon DEF StartsWith, num, x, value, o, n
<1>7. CASE ~num
  <2>1. /\ GetJsonV(s, key, n).t = UpTo(x, 1, {}, n)
        /\ GetJsonV(s, key, n).nul = p + Len(key) + 2 + Len(UpTo(x, 1, {}, n))
    BY <1>1, <1>5, <1>7, StringValueIs
  <2>2. GetJsonV(s, key, n).nul = ValueAt(o, k) + Len(UpTo(x, 1, {}, n))
    BY <1>8, <2>1
  <2> QED
    BY <1>1, <1>7, <2>1, <2>2, Zenon DEF num, x, value, o, n
<1> QED
  BY <1>6, <1>7

(* For all texts, keys and sizes: each function cuts out what it should.   *)
THEOREM TextIsCut == HttpTextSpec => []TextCutRight
<1>1. HttpTextInit => TextInv
  <2> SUFFICES ASSUME HttpTextInit PROVE TextInv
    OBVIOUS
  <2>1. \A fn : ~Returned(fn)
    BY DEF HttpTextInit, Returned
  <2>2. CASE \E s \in Texts, n \in Ns, fn \in {"getmethod", "geturi", "getbody"} :
               call = [fn |-> fn, s |-> s, n |-> n]
    BY <2>1, <2>2 DEF TextInv
  <2>3. CASE \E s \in Texts, n \in Ns, l \in 0 .. 3 :
               call = [fn |-> "getln", s |-> s, n |-> n, l |-> l]
    BY <2>1, <2>3 DEF TextInv
  <2>4. CASE \E o \in Objects, key \in Keys, n \in Ns :
               call = [fn |-> "getjsonv", s |-> Render(o), key |-> key, n |-> n, obj |-> o]
    BY <2>1, <2>4 DEF TextInv
  <2> QED
    BY <2>2, <2>3, <2>4, Zenon DEF HttpTextInit
<1>2. TextInv /\ [HttpTextNext]_callVars => TextInv'
  <2> SUFFICES ASSUME TextInv, [HttpTextNext]_callVars PROVE TextInv'
    OBVIOUS
  <2>1. CASE Asked("getmethod") /\ Return(GetMethod(call.s, call.n))
    BY <2>1 DEF TextInv, Asked, Return, Returned
  <2>2. CASE Asked("geturi") /\ Return(GetUri(call.s, call.n))
    BY <2>2 DEF TextInv, Asked, Return, Returned
  <2>3. CASE Asked("getln") /\ Return(GetLn(call.s, call.n, call.l))
    BY <2>3 DEF TextInv, Asked, Return, Returned
  <2>4. CASE Asked("getbody") /\ Return(GetBody(call.s, call.n))
    BY <2>4 DEF TextInv, Asked, Return, Returned
  <2>5. CASE Asked("getjsonv") /\ Return(GetJsonV(call.s, call.key, call.n))
    BY <2>5 DEF TextInv, Asked, Return, Returned
  <2>6. CASE UNCHANGED callVars
    BY <2>6 DEF callVars, TextInv, Returned
  <2> QED
    BY <2>1, <2>2, <2>3, <2>4, <2>5, <2>6 DEF HttpTextNext
<1>3. TextInv => TextCutRight
  BY TextInvCuts, TextInvValue DEF TextCutRight
<1> QED
  BY <1>1, <1>2, <1>3, PTL DEF HttpTextSpec
====
