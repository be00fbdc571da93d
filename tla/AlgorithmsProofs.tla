--------------------------- MODULE AlgorithmsProofs ---------------------------
(***************************************************************************)
(* The report parsers of ReportParser cut every report right and agree,    *)
(* and the DES of Des deciphers what it enciphers, for every report, key   *)
(* and message.  The lemmas about loops are those of HttpTextProofs.       *)
(***************************************************************************)
EXTENDS ReportParser, Des, HttpTextProofs

-----------------------------------------------------------------------------
(* The report parsers                                                      *)

FieldKeys ==
  {"cr", "ctrl", "l", "c", "r", "seq", "n", "id", "time", "sts", "iVStd", "iV",
   "fVStd", "fV", "flwRtStd", "flwRt", "t", "p", "engSum", "engDst", "acsV",
   "vlt", "pwr", "nb", "ecl", "cid", "rnf", "evt", "fvStdS1", "date", "dt"}

(* Layouts in which the cursor moves by what has been cut.                 *)
Columns == {x \in FieldKeys \X Nat \X Nat : x[2] = x[3]}
Layouts == Seq(Columns)

(* A position of the report, or its end.                                   *)
Limit(r, i) == Min({i, r.len})

(* A position cut at the end of the report is one of it.                    *)
LEMMA LimitIs ==
  ASSUME NEW r, r.len \in Nat, NEW i \in Nat
  PROVE  /\ Limit(r, i) \in Nat /\ Limit(r, i) <= r.len
         /\ i <= r.len => Limit(r, i) = i
         /\ i >= r.len => Limit(r, i) = r.len
<1>1. \E x \in {i, r.len} : \A y \in {i, r.len} : x <= y
  OBVIOUS
<1>2. /\ Limit(r, i) \in {i, r.len}
      /\ \A y \in {i, r.len} : Limit(r, i) <= y
  BY <1>1 DEF Min, Limit
<1> QED
  BY <1>2

(* A field of a layout.                                                    *)
LEMMA ColumnsAre ==
  ASSUME NEW layout \in Layouts
  PROVE  /\ Len(layout) \in Nat
         /\ \A k \in 1 .. Len(layout) :
              layout[k][1] \in FieldKeys /\ layout[k][2] \in Nat /\ layout[k][3] = layout[k][2]
<1>1. Len(layout) \in Nat /\ \A k \in 1 .. Len(layout) : layout[k] \in Columns
  BY DEF Layouts
<1>2. \A x \in Columns : x[1] \in FieldKeys /\ x[2] \in Nat /\ x[3] = x[2]
  BY DEF Columns
<1> QED
  BY <1>1, <1>2

(* The cursor of a layout.                                                 *)
LEMMA MovedIs ==
  ASSUME NEW layout \in Layouts
  PROVE  /\ Moved(layout) \in [0 .. Len(layout) -> Nat]
         /\ Moved(layout)[0] = 0
         /\ \A k \in 1 .. Len(layout) :
              Moved(layout)[k] = Moved(layout)[k - 1] + layout[k][3]
<1> DEFINE n == Len(layout)
           w(k) == layout[k][3]
           step == [k \in 1 .. n |-> [x \in Nat |-> x + w(k)]]
<1>1. n \in Nat /\ \A k \in 1 .. n : w(k) \in Nat
  BY ColumnsAre
<1>2. step \in [1 .. n -> [Nat -> Nat]] /\ 0 \in Nat
  BY <1>1
<1>3. \A k \in 1 .. n, x \in Nat : step[k][x] = x + w(k)
  BY <1>1
<1> HIDE DEF n, step, w
<1>4. PICK f : Runs(f, n, Nat, 0, step)
  BY <1>1, <1>2, LoopRuns
<1> DEFINE d(g) == [k \in 0 .. n |-> IF k = 0 THEN 0 ELSE g[k - 1] + w(k)]
<1>5. ASSUME NEW g PROVE Unfolds(d(g), g, n, Nat, 0, step)
  <2>1. d(g) = [k \in 0 .. n |-> d(g)[k]] /\ d(g)[0] = 0
    BY <1>1
  <2>2. \A k \in 1 .. n : d(g)[k] = g[k - 1] + w(k)
    BY <1>1
  <2> HIDE DEF d
  <2> QED
    BY <1>3, <2>1, <2>2, Zenon DEF Unfolds
<1> DEFINE m == Moved(layout)
<1>6. m = CHOOSE g : g = d(g)
  BY DEF Moved, n, w
<1> HIDE DEF d, m
<1>7. f = d(f)
  BY <1>1, <1>4, <1>5, LoopUnfolds
<1>8. m = d(m)
  BY <1>6, <1>7
<1>9. Runs(m, n, Nat, 0, step)
  BY <1>1, <1>2, <1>5, <1>8, LoopIs
<1>10. \A k \in 1 .. n : m[k - 1] \in Nat
  BY <1>1, <1>9 DEF Runs
<1> QED
  BY <1>3, <1>9, <1>10, Zenon DEF Runs, m, n, w

(* It never goes back.                                                     *)
LEMMA MovedGrows ==
  ASSUME NEW layout \in Layouts
  PROVE  \A k \in 0 .. Len(layout) : Moved(layout)[k] <= Width(layout)
<1> DEFINE n == Len(layout)
           m == Moved(layout)
           T == {i \in 0 .. n : m[n - i] <= m[n]}
<1>1. /\ n \in Nat /\ m \in [0 .. n -> Nat]
      /\ \A k \in 1 .. n : layout[k][3] \in Nat /\ m[k] = m[k - 1] + layout[k][3]
  BY ColumnsAre, MovedIs
<1>2. Width(layout) = m[n]
  BY DEF Width
<1> HIDE DEF n, m
<1>3. 0 \in T
  <2>1. n - 0 = n /\ m[n] \in Nat
    BY <1>1
  <2> QED
    BY <1>1, <2>1
<1>4. ASSUME NEW i \in 1 .. n, i - 1 \in T PROVE i \in T
  <2> DEFINE k == n - (i - 1)
  <2>1. k \in 1 .. n /\ k - 1 = n - i /\ k \in 0 .. n /\ k - 1 \in 0 .. n
    BY <1>1
  <2>2. m[k] <= m[n] /\ m[k] = m[k - 1] + layout[k][3] /\ layout[k][3] \in Nat
    BY <1>1, <1>4, <2>1
  <2>3. m[k] \in Nat /\ m[k - 1] \in Nat /\ m[n] \in Nat
    BY <1>1, <2>1
  <2> HIDE DEF k
  <2>4. m[k - 1] <= m[n]
    BY <2>2, <2>3
  <2> QED
    BY <2>1, <2>4
<1> HIDE DEF T
<1>5. \A i \in 0 .. n : i \in T
  BY <1>1, <1>3, <1>4, LoopInduction
<1>6. ASSUME NEW k \in 0 .. n PROVE m[k] <= m[n]
  <2>1. n - k \in 0 .. n /\ n - (n - k) = k
    BY <1>1
  <2> QED
    BY <1>5, <2>1 DEF T
<1> QED
  BY <1>2, <1>6 DEF n, m

Field == [key : FieldKeys, start : Nat, from : Nat, to : Nat]

(* No field starts behind e.                                               *)
StartBy(f, e) == \A k \in 1 .. Len(f) : f[k].start \in Nat /\ f[k].start <= e

(* So it is with two rows.                                                 *)
LEMMA StartJoined ==
  ASSUME NEW S, NEW f \in Seq(S), NEW g \in Seq(S), NEW e, StartBy(f, e), StartBy(g, e)
  PROVE  StartBy(f \o g, e)
<1> DEFINE h == f \o g
           n == Len(f)
           m == Len(g)
<1>1. /\ n \in Nat /\ m \in Nat /\ Len(h) = n + m
      /\ \A k \in 1 .. n : h[k] = f[k]
      /\ \A k \in 1 .. n + m : k > n => k - n \in 1 .. m /\ h[k] = g[k - n]
  OBVIOUS
<1>2. /\ \A k \in 1 .. n : f[k].start \in Nat /\ f[k].start <= e
      /\ \A k \in 1 .. m : g[k].start \in Nat /\ g[k].start <= e
  BY DEF StartBy
<1> HIDE DEF h, n, m
<1>3. ASSUME NEW k \in 1 .. n + m PROVE h[k].start \in Nat /\ h[k].start <= e
  <2>1. k \in 1 .. n \/ k > n
    BY <1>1
  <2> QED
    BY <1>1, <1>2, <2>1
<1> QED
  BY <1>1, <1>3 DEF StartBy, h

(* The fields f lie side by side, from position i of the report to j.      *)
SideBySide(r, f, i, j) ==
  /\ f \in Seq(Field) /\ f # <<>>
  /\ \A k \in 1 .. Len(f) : f[k].from <= f[k].to /\ f[k].to <= r.len
  /\ \A k \in 1 .. Len(f) - 1 : f[k].to = f[k + 1].from
  /\ f[1].from = Limit(r, i) /\ f[Len(f)].to = Limit(r, j)

(* Fields that end where others begin make one row with them.               *)
LEMMA Joined ==
  ASSUME NEW r, NEW i, NEW j, NEW l, NEW f, NEW g,
         SideBySide(r, f, i, j), SideBySide(r, g, j, l)
  PROVE  SideBySide(r, f \o g, i, l)
<1> DEFINE h == f \o g
           n == Len(f)
           m == Len(g)
<1>1. /\ f \in Seq(Field) /\ g \in Seq(Field) /\ n \in Nat \ {0} /\ m \in Nat \ {0}
  BY DEF SideBySide
<1>2. h \in Seq(Field) /\ Len(h) = n + m
  BY <1>1
<1>3. /\ \A k \in 1 .. n : h[k] = f[k]
      /\ \A k \in 1 .. n + m : k > n => k - n \in 1 .. m /\ h[k] = g[k - n]
  BY <1>1
<1> HIDE DEF h, n, m
<1>4. h # <<>>
  BY <1>1, <1>2
<1>5. /\ \A k \in 1 .. n : f[k].from <= f[k].to /\ f[k].to <= r.len
      /\ \A k \in 1 .. m : g[k].from <= g[k].to /\ g[k].to <= r.len
      /\ \A k \in 1 .. n - 1 : f[k].to = f[k + 1].from
      /\ \A k \in 1 .. m - 1 : g[k].to = g[k + 1].from
      /\ f[1].from = Limit(r, i) /\ f[n].to = Limit(r, j)
      /\ g[1].from = Limit(r, j) /\ g[m].to = Limit(r, l)
  BY DEF SideBySide, n, m
<1>6. ASSUME NEW k \in 1 .. n + m PROVE h[k].from <= h[k].to /\ h[k].to <= r.len
  <2>1. k \in 1 .. n \/ k > n
    BY <1>1
  <2> QED
    BY <1>3, <1>5, <2>1
<1>7. ASSUME NEW k \in 1 .. n + m - 1 PROVE h[k].to = h[k + 1].from
  <2>1. CASE k < n
    <3>1. k \in 1 .. n - 1 /\ k \in 1 .. n /\ k + 1 \in 1 .. n
      BY <1>1, <2>1
    <3> QED
      BY <1>3, <1>5, <3>1
  <2>2. CASE k = n
    <3>1. k \in 1 .. n /\ k + 1 \in 1 .. n + m /\ k + 1 > n /\ (k + 1) - n = 1
      BY <1>1, <2>2
    <3> QED
      BY <1>3, <1>5, <2>2, <3>1
  <2>3. CASE k > n
    <3>1. /\ k \in 1 .. n + m /\ k + 1 \in 1 .. n + m /\ k + 1 > n
          /\ k - n \in 1 .. m - 1 /\ (k + 1) - n = (k - n) + 1
      BY <1>1, <2>3
    <3> QED
      BY <1>3, <1>5, <2>3, <3>1
  <2> QED
    BY <1>1, <2>1, <2>2, <2>3
<1>8. h[1].from = Limit(r, i) /\ h[n + m].to = Limit(r, l)
  <2>1. 1 \in 1 .. n /\ n + m \in 1 .. n + m /\ n + m > n /\ (n + m) - n = m
    BY <1>1
  <2> QED
    BY <1>3, <1>5, <2>1
<1>9. SideBySide(r, h, i, l)
  <2>1. \A k \in 1 .. Len(h) : h[k].from <= h[k].to /\ h[k].to <= r.len
    BY <1>2, <1>6, Zenon
  <2>2. ASSUME NEW k \in 1 .. Len(h) - 1 PROVE h[k].to = h[k + 1].from
    <3>1. k \in 1 .. n + m - 1
      BY <1>1, <1>2
    <3> QED
      BY <1>7, <3>1
  <2>3. h[1].from = Limit(r, i) /\ h[Len(h)].to = Limit(r, l)
    BY <1>2, <1>8, Zenon
  <2> QED
    BY <1>2, <1>4, <2>1, <2>2, <2>3, Zenon DEF SideBySide
<1> QED
  BY <1>9 DEF h

(* The fields of a layout lie side by side.                                *)
LEMMA CutIs ==
  ASSUME NEW r, r.len \in Nat, NEW layout \in Layouts, layout # <<>>, NEW i \in Nat
  PROVE  /\ SideBySide(r, Cut(r, layout, i), i, i + Width(layout))
         /\ Width(layout) \in Nat
         /\ Len(Cut(r, layout, i)) = Len(layout)
         /\ Cut(r, layout, i)[Len(layout)].key = layout[Len(layout)][1]
         /\ StartBy(Cut(r, layout, i), i + Width(layout))
         /\ \A k \in 1 .. Len(layout) :
              /\ Cut(r, layout, i)[k].key = layout[k][1]
              /\ Cut(r, layout, i)[k].start = i + Moved(layout)[k - 1]
<1> DEFINE n == Len(layout)
           f == Cut(r, layout, i)
           m == Moved(layout)
<1>0. layout \in Seq(Columns)
  BY DEF Layouts
<1>1. n \in Nat \ {0} /\ \A k \in 1 .. n : layout[k][1] \in FieldKeys /\ layout[k][2] \in Nat
  BY <1>0, ColumnsAre
<1>2. /\ m \in [0 .. n -> Nat] /\ m[0] = 0
      /\ \A k \in 1 .. n : m[k] = m[k - 1] + layout[k][2]
  BY ColumnsAre, MovedIs
<1>3. ASSUME NEW k \in 1 .. n
      PROVE  f[k] = [key |-> layout[k][1], start |-> i + m[k - 1],
                     from |-> Limit(r, i + m[k - 1]), to |-> Limit(r, i + m[k])]
  <2>1. m[k - 1] \in Nat /\ m[k] = m[k - 1] + layout[k][2]
    BY <1>1, <1>2
  <2>2. f[k] = Slice(r, layout[k][1], i + m[k - 1], layout[k][2])
    BY DEF Cut
  <2>3. i + m[k - 1] + layout[k][2] = i + m[k]
    BY <1>1, <2>1
  <2> QED
    BY <2>2, <2>3 DEF Slice, Limit
<1>4. f = [k \in 1 .. n |-> f[k]]
  BY DEF Cut
<1> DEFINE at(k) == Limit(r, i + m[k])
<1> HIDE DEF f, m, n
<1>5. ASSUME NEW k \in 0 .. n PROVE at(k) \in Nat /\ at(k) <= r.len
  <2>1. i + m[k] \in Nat
    BY <1>2
  <2> QED
    BY <2>1, LimitIs
<1>6. ASSUME NEW k \in 1 .. n PROVE at(k - 1) <= at(k)
  <2> DEFINE x == i + m[k - 1]
             y == i + m[k]
  <2>1. m[k - 1] \in Nat /\ layout[k][2] \in Nat /\ m[k] = m[k - 1] + layout[k][2]
    BY <1>1, <1>2
  <2>2. x \in Nat /\ y \in Nat /\ x <= y
    <3> DEFINE u == m[k - 1]
               v == layout[k][2]
    <3> HIDE DEF u, v
    <3> QED
      BY <2>1 DEF u, v
  <2>3. Limit(r, x) <= Limit(r, y)
    <3> HIDE DEF x, y
    <3> QED
      BY <2>2, LimitIs
  <2> QED
    BY <2>3
<1>7. ASSUME NEW k \in 1 .. n
      PROVE  /\ f[k] \in Field /\ f[k].key = layout[k][1]
             /\ f[k].from = at(k - 1) /\ f[k].to = at(k)
             /\ f[k].start = i + m[k - 1]
  <2>1. k \in 0 .. n /\ k - 1 \in 0 .. n
    BY <1>1
  <2> DEFINE st == i + m[k - 1]
  <2>2. at(k - 1) \in Nat /\ at(k) \in Nat /\ st \in Nat
    BY <1>2, <1>5, <2>1
  <2>3. f[k] = [key |-> layout[k][1], start |-> st, from |-> at(k - 1), to |-> at(k)]
    BY <1>3
  <2> HIDE DEF at, st
  <2>4. layout[k][1] \in FieldKeys
    BY <1>1
  <2>5. /\ f[k] \in Field /\ f[k].key = layout[k][1]
        /\ f[k].from = at(k - 1) /\ f[k].to = at(k) /\ f[k].start = st
    BY <2>2, <2>3, <2>4 DEF Field
  <2> QED
    BY <2>5 DEF st
<1>8. f \in Seq(Field) /\ Len(f) = n
  <2>1. f \in [1 .. n -> Field]
    BY <1>4, <1>7, Zenon
  <2> QED
    BY <1>1, <2>1
<1>9. at(0) = Limit(r, i)
  BY <1>2
<1>10. Width(layout) = m[n] /\ m[n] \in Nat /\ at(n) = Limit(r, i + Width(layout))
  BY <1>1, <1>2 DEF Width, m, n
<1> HIDE DEF at
<1>11. ASSUME NEW k \in 1 .. n PROVE f[k].from <= f[k].to /\ f[k].to <= r.len
  <2>1. k \in 0 .. n
    BY <1>1
  <2> QED
    BY <1>5, <1>6, <1>7, <2>1
<1>12. ASSUME NEW k \in 1 .. n - 1 PROVE f[k].to = f[k + 1].from
  <2>1. k \in 1 .. n /\ k + 1 \in 1 .. n /\ (k + 1) - 1 = k
    BY <1>1
  <2> QED
    BY <1>7, <2>1
<1>13. f[1].from = at(0) /\ f[n].to = at(n) /\ f[n].key = layout[n][1]
  <2>1. 1 \in 1 .. n /\ n \in 1 .. n /\ 1 - 1 = 0
    BY <1>1
  <2> QED
    BY <1>7, <2>1
<1>14. SideBySide(r, f, i, i + Width(layout))
  BY <1>1, <1>8, <1>9, <1>10, <1>11, <1>12, <1>13 DEF SideBySide
<1>15. StartBy(f, i + Width(layout))
  <2> SUFFICES ASSUME NEW k \in 1 .. n
               PROVE  f[k].start \in Nat /\ f[k].start <= i + Width(layout)
    BY <1>8 DEF StartBy
  <2>1. k - 1 \in 0 .. n
    BY <1>1
  <2>2. m[k - 1] \in Nat /\ m[k - 1] <= Width(layout)
    BY <1>2, <2>1, MovedGrows DEF m, n
  <2> QED
    BY <1>7, <1>10, <2>2
<1>16. \A k \in 1 .. n : f[k].key = layout[k][1] /\ f[k].start = i + m[k - 1]
  BY <1>7
<1> QED
  BY <1>8, <1>10, <1>13, <1>14, <1>15, <1>16 DEF f, n, m

(* The rest of a report.                                                   *)
LEMMA ToEndIs ==
  ASSUME NEW r, r.len \in Nat, NEW i \in Nat, NEW key \in FieldKeys
  PROVE  /\ SideBySide(r, ToEnd(r, key, i), i, i + r.len)
         /\ Len(ToEnd(r, key, i)) = 1
         /\ ToEnd(r, key, i)[1].key = key
         /\ ToEnd(r, key, i)[1].to = r.len
         /\ ToEnd(r, key, i)[1].start = i
<1> DEFINE x == Limit(r, i)
           y == Limit(r, i + r.len)
           f == ToEnd(r, key, i)
<1>1. x \in Nat /\ y \in Nat /\ x <= r.len /\ y = r.len
  BY LimitIs
<1>2. f = <<[key |-> key, start |-> i, from |-> x, to |-> y]>>
  BY DEF ToEnd, Slice, Limit
<1> HIDE DEF x, y, f
<1>3. f \in Seq(Field) /\ Len(f) = 1 /\ f # <<>>
  BY <1>1, <1>2 DEF Field
<1>4. f[1].key = key /\ f[1].from = x /\ f[1].to = y /\ f[1].start = i
  BY <1>2
<1>5. SideBySide(r, f, i, i + r.len)
  BY <1>1, <1>3, <1>4 DEF SideBySide, x, y
<1> QED
  BY <1>1, <1>3, <1>4, <1>5 DEF f

(* Both parsers have the same layouts, and the cursor moves by what has    *)
(* been cut in all of them.                                                *)
LEMMA LayoutsAre ==
  /\ CHeader \in Layouts /\ CUnion \in Layouts /\ CObject \in Layouts
  /\ CEvt \in Layouts /\ CAt \in Layouts
  /\ PyHeader = CHeader /\ PyUnion = CUnion /\ PyObject = CObject
  /\ PyEvt = CEvt /\ PyAt = CAt
  /\ CHeader # <<>> /\ CUnion # <<>> /\ CObject # <<>> /\ CEvt # <<>> /\ CAt # <<>>
<1>1. /\ PyHeader = CHeader /\ PyUnion = CUnion /\ PyObject = CObject
      /\ PyEvt = CEvt /\ PyAt = CAt
  BY DEF CHeader, CUnion, CObject, CEvt, CAt, PyHeader, PyUnion, PyObject, PyEvt, PyAt
<1>2. CHeader \in Layouts /\ CUnion \in Layouts /\ CAt \in Layouts
  BY DEF CHeader, CUnion, CAt, Layouts, Columns, FieldKeys
<1>3. CObject \in Layouts
  BY DEF CObject, Layouts, Columns, FieldKeys
<1>4. CEvt \in Layouts
  BY DEF CEvt, Layouts, Columns, FieldKeys
<1>5. CHeader # <<>> /\ CUnion # <<>> /\ CObject # <<>> /\ CEvt # <<>> /\ CAt # <<>>
  BY DEF CHeader, CUnion, CObject, CEvt, CAt
<1> QED
  BY <1>1, <1>2, <1>3, <1>4, <1>5

(* How long they are.                                                      *)
LEMMA WidthsAre ==
  /\ Width(CHeader) = 16 /\ Width(CUnion) = 8 /\ Width(CObject) = 178
  /\ Width(CEvt) = 132 /\ Width(CAt) = 6
<1>1. Width(CHeader) = 16
  <2> DEFINE m == Moved(CHeader)
  <2>1. CHeader \in Layouts /\ Len(CHeader) = 6
    BY LayoutsAre DEF CHeader
  <2>2. m[0] = 0 /\ \A k \in 1 .. 6 : m[k] = m[k - 1] + CHeader[k][3]
    BY <2>1, MovedIs
  <2>3. /\ CHeader[1][3] = 2 /\ CHeader[2][3] = 2 /\ CHeader[3][3] = 2
        /\ CHeader[4][3] = 4 /\ CHeader[5][3] = 4 /\ CHeader[6][3] = 2
    BY DEF CHeader
  <2> HIDE DEF m
  <2>4. /\ m[1] = 2 /\ m[2] = 4 /\ m[3] = 6 /\ m[4] = 10 /\ m[5] = 14
        /\ m[6] = 16
    BY <2>2, <2>3
  <2> QED
    BY <2>1, <2>4 DEF Width, m
<1>2. Width(CUnion) = 8
  <2> DEFINE m == Moved(CUnion)
  <2>1. CUnion \in Layouts /\ Len(CUnion) = 3
    BY LayoutsAre DEF CUnion
  <2>2. m[0] = 0 /\ \A k \in 1 .. 3 : m[k] = m[k - 1] + CUnion[k][3]
    BY <2>1, MovedIs
  <2>3. /\ CUnion[1][3] = 2 /\ CUnion[2][3] = 2 /\ CUnion[3][3] = 4
    BY DEF CUnion
  <2> HIDE DEF m
  <2>4. /\ m[1] = 2 /\ m[2] = 4 /\ m[3] = 8
    BY <2>2, <2>3
  <2> QED
    BY <2>1, <2>4 DEF Width, m
<1>3. Width(CObject) = 178
  <2> DEFINE m == Moved(CObject)
  <2>1. CObject \in Layouts /\ Len(CObject) = 19
    BY LayoutsAre DEF CObject
  <2>2. m[0] = 0 /\ \A k \in 1 .. 19 : m[k] = m[k - 1] + CObject[k][3]
    BY <2>1, MovedIs
  <2>3. /\ CObject[1][3] = 12 /\ CObject[2][3] = 8 /\ CObject[3][3] = 16
        /\ CObject[4][3] = 16 /\ CObject[5][3] = 16 /\ CObject[6][3] = 16
        /\ CObject[7][3] = 8 /\ CObject[8][3] = 8 /\ CObject[9][3] = 8
        /\ CObject[10][3] = 8 /\ CObject[11][3] = 16 /\ CObject[12][3] = 8
        /\ CObject[13][3] = 4 /\ CObject[14][3] = 4 /\ CObject[15][3] = 2
        /\ CObject[16][3] = 8 /\ CObject[17][3] = 4 /\ CObject[18][3] = 12
        /\ CObject[19][3] = 4
    BY DEF CObject
  <2> HIDE DEF m
  <2>4. /\ m[1] = 12 /\ m[2] = 20 /\ m[3] = 36 /\ m[4] = 52 /\ m[5] = 68
        /\ m[6] = 84 /\ m[7] = 92 /\ m[8] = 100 /\ m[9] = 108 /\ m[10] = 116
        /\ m[11] = 132 /\ m[12] = 140 /\ m[13] = 144 /\ m[14] = 148 /\ m[15] = 150
        /\ m[16] = 158 /\ m[17] = 162 /\ m[18] = 174 /\ m[19] = 178
    BY <2>2, <2>3
  <2> QED
    BY <2>1, <2>4 DEF Width, m
<1>4. Width(CEvt) = 132
  <2> DEFINE m == Moved(CEvt)
  <2>1. CEvt \in Layouts /\ Len(CEvt) = 11
    BY LayoutsAre DEF CEvt
  <2>2. m[0] = 0 /\ \A k \in 1 .. 11 : m[k] = m[k - 1] + CEvt[k][3]
    BY <2>1, MovedIs
  <2>3. /\ CEvt[1][3] = 2 /\ CEvt[2][3] = 16 /\ CEvt[3][3] = 6
        /\ CEvt[4][3] = 16 /\ CEvt[5][3] = 16 /\ CEvt[6][3] = 6
        /\ CEvt[7][3] = 16 /\ CEvt[8][3] = 16 /\ CEvt[9][3] = 6
        /\ CEvt[10][3] = 16 /\ CEvt[11][3] = 16
    BY DEF CEvt
  <2> HIDE DEF m
  <2>4. /\ m[1] = 2 /\ m[2] = 18 /\ m[3] = 24 /\ m[4] = 40 /\ m[5] = 56
        /\ m[6] = 62 /\ m[7] = 78 /\ m[8] = 94 /\ m[9] = 100 /\ m[10] = 116
        /\ m[11] = 132
    BY <2>2, <2>3
  <2> QED
    BY <2>1, <2>4 DEF Width, m
<1>5. Width(CAt) = 6
  <2> DEFINE m == Moved(CAt)
  <2>1. CAt \in Layouts /\ Len(CAt) = 1
    BY LayoutsAre DEF CAt
  <2>2. m[0] = 0 /\ \A k \in 1 .. 1 : m[k] = m[k - 1] + CAt[k][3]
    BY <2>1, MovedIs
  <2>3. /\ CAt[1][3] = 6
    BY DEF CAt
  <2> HIDE DEF m
  <2>4. /\ m[1] = 6
    BY <2>2, <2>3
  <2> QED
    BY <2>1, <2>4 DEF Width, m
<1> QED
  BY <1>1, <1>2, <1>3, <1>4, <1>5

(* The last field of two rows is that of the second.                        *)
LEMMA LastOfJoined ==
  ASSUME NEW S, NEW f \in Seq(S), NEW g \in Seq(S), g # <<>>
  PROVE  f \o g \in Seq(S) /\ f \o g # <<>> /\ (f \o g)[Len(f \o g)] = g[Len(g)]
<1> DEFINE n == Len(f)
           m == Len(g)
           h == f \o g
<1>1. n \in Nat /\ m \in Nat /\ m # 0
  OBVIOUS
<1>2. h \in Seq(S) /\ Len(h) = n + m
  OBVIOUS
<1>3. \A k \in 1 .. n + m : k > n => h[k] = g[k - n]
  OBVIOUS
<1> HIDE DEF n, m, h
<1>4. n + m \in 1 .. n + m /\ n + m > n /\ (n + m) - n = m
  BY <1>1
<1>5. h[n + m] = g[m]
  BY <1>3, <1>4
<1>6. h # <<>>
  BY <1>1, <1>2
<1> QED
  BY <1>2, <1>5, <1>6 DEF h, m

(* The extension of an event: it does not end in a rest.                   *)
LEMMA EvtExtIs ==
  ASSUME NEW r, r.len \in Nat, NEW i \in Nat
  PROVE  /\ SideBySide(r, CEvtExt(r, i), i, i + 132)
         /\ CEvtExt(r, i)[Len(CEvtExt(r, i))].key # "dt"
         /\ StartBy(CEvtExt(r, i), i + 132)
<1>1. CEvt \in Layouts /\ CEvt # <<>> /\ Width(CEvt) = 132
  BY LayoutsAre, WidthsAre
<1>2. Len(CEvt) = 11 /\ CEvt[11][1] = "fV"
  BY DEF CEvt
<1>3. /\ SideBySide(r, Cut(r, CEvt, i), i, i + Width(CEvt))
      /\ Len(Cut(r, CEvt, i)) = Len(CEvt)
      /\ Cut(r, CEvt, i)[Len(CEvt)].key = CEvt[Len(CEvt)][1]
      /\ StartBy(Cut(r, CEvt, i), i + Width(CEvt))
  BY <1>1, CutIs
<1> QED
  BY <1>1, <1>2, <1>3, "fV" # "dt" DEF CEvtExt

(* A daily extension goes to the end of the report.                        *)
LEMMA AtExtIs ==
  ASSUME NEW r, r.len \in Nat, NEW i \in Nat
  PROVE  /\ SideBySide(r, CAtExt(r, i), i, (i + 6) + r.len)
         /\ CAtExt(r, i)[Len(CAtExt(r, i))].to = r.len
         /\ StartBy(CAtExt(r, i), i + 6)
<1> DEFINE f == Cut(r, CAt, i)
           g == ToEnd(r, "dt", i + 6)
<1>1. CAt \in Layouts /\ CAt # <<>> /\ Width(CAt) = 6
  BY LayoutsAre, WidthsAre
<1>2. SideBySide(r, f, i, i + 6) /\ StartBy(f, i + 6)
  <2>1. SideBySide(r, f, i, i + Width(CAt)) /\ StartBy(f, i + Width(CAt))
    BY <1>1, CutIs
  <2> QED
    BY <1>1, <2>1
<1>3. "dt" \in FieldKeys /\ i + 6 \in Nat
  BY DEF FieldKeys
<1>4. /\ SideBySide(r, g, i + 6, (i + 6) + r.len) /\ Len(g) = 1
      /\ g[1].to = r.len /\ g[1].start = i + 6
  BY <1>3, ToEndIs
<1>5. SideBySide(r, f \o g, i, (i + 6) + r.len)
  BY <1>2, <1>4, Joined
<1>6. CAtExt(r, i) = f \o g
  BY <1>1 DEF CAtExt
<1>7. f \in Seq(Field) /\ g \in Seq(Field) /\ g # <<>>
  BY <1>2, <1>4 DEF SideBySide
<1>8. StartBy(g, i + 6)
  BY <1>3, <1>4 DEF StartBy
<1> HIDE DEF f, g
<1>9. (f \o g)[Len(f \o g)] = g[1]
  BY <1>4, <1>7, LastOfJoined
<1>10. StartBy(f \o g, i + 6)
  BY <1>2, <1>7, <1>8, StartJoined
<1> QED
  BY <1>4, <1>5, <1>6, <1>9, <1>10

(* What CutsReport says of the result x.                                   *)
CutsRight(r, x) ==
  LET f == Fields(x)
  IN /\ \A k \in DOMAIN f : f[k].from <= f[k].to /\ f[k].to <= r.len
     /\ \A k \in 1 .. Len(f) - 1 : f[k].to = f[k + 1].from
     /\ x.ext # <<>> /\ x.ext[Len(x.ext)].key = "dt"
        => x.ext[Len(x.ext)].to = r.len

(* Fields side by side cut the report right, if a rest "dt" at their end    *)
(* goes to the end of the report.                                           *)
LEMMA SideBySideCuts ==
  ASSUME NEW r, NEW x, NEW i, NEW j, SideBySide(r, Fields(x), i, j),
         \/ x.ext = <<>>
         \/ x.ext[Len(x.ext)].key # "dt"
         \/ x.ext[Len(x.ext)].to = r.len
  PROVE  CutsRight(r, x)
<1> DEFINE f == Fields(x)
<1>1. f \in Seq(Field)
  BY DEF SideBySide
<1> HIDE DEF f
<1>2. DOMAIN f = 1 .. Len(f)
  BY <1>1
<1> QED
  BY <1>2 DEF SideBySide, CutsRight, f

(* The three kinds of result that are cut right.                           *)
LEMMA ExtCuts ==
  ASSUME NEW r, NEW i, NEW j, NEW l, NEW f, NEW g,
         SideBySide(r, f, i, j), SideBySide(r, g, j, l),
         g[Len(g)].key # "dt" \/ g[Len(g)].to = r.len
  PROVE  CutsRight(r, Json(f, g))
<1>1. Json(f, g).fields = f /\ Json(f, g).ext = g
  BY DEF Json
<1>2. SideBySide(r, f \o g, i, l)
  BY Joined
<1> QED
  BY <1>1, <1>2, SideBySideCuts DEF Fields

(* So they do when there is no extension.                                   *)
LEMMA NoExtCuts ==
  ASSUME NEW r, NEW i, NEW j, NEW f, SideBySide(r, f, i, j)
  PROVE  CutsRight(r, Json(f, <<>>)) /\ CutsRight(r, NotJson(f))
<1>1. /\ Json(f, <<>>).fields = f /\ Json(f, <<>>).ext = <<>>
      /\ NotJson(f).fields = f /\ NotJson(f).ext = <<>>
  BY DEF Json, NotJson
<1>2. f \o <<>> = f
  BY DEF SideBySide
<1> QED
  BY <1>1, <1>2, SideBySideCuts DEF Fields

(* So does a rest alone.                                                    *)
LEMMA BareCuts ==
  ASSUME NEW r, r.len \in Nat, NEW i \in Nat
  PROVE  CutsRight(r, Json(<<>>, ToEnd(r, "dt", i)))
<1> DEFINE g == ToEnd(r, "dt", i)
<1>1. "dt" \in FieldKeys
  BY DEF FieldKeys
<1>2. SideBySide(r, g, i, i + r.len) /\ Len(g) = 1 /\ g[1].to = r.len
  BY <1>1, ToEndIs
<1>3. Json(<<>>, g).fields = <<>> /\ Json(<<>>, g).ext = g
  BY DEF Json
<1> HIDE DEF g
<1>4. <<>> \o g = g
  BY <1>2 DEF SideBySide
<1>5. CutsRight(r, Json(<<>>, g))
  BY <1>2, <1>3, <1>4, SideBySideCuts DEF Fields
<1> QED
  BY <1>5 DEF g

(* A report has no more behind i than as a whole.                          *)
LEMMA RestIs ==
  ASSUME NEW r, r.len \in Nat, NEW i \in Nat
  PROVE  /\ Rest(r, i) \in Nat /\ Rest(r, i) <= r.len
         /\ i <= r.len => Rest(r, i) = r.len - i
<1>1. Rest(r, i) = r.len - Limit(r, i)
  BY DEF Rest, Limit
<1> QED
  BY <1>1, LimitIs

(* An undefined result has no fields.                                      *)
LEMMA UndefinedIs ==
  /\ Undefined.fields = <<>> /\ Undefined.ext = <<>> /\ Undefined.def = FALSE
  /\ Fields(Undefined) = <<>> /\ StartBy(Fields(Undefined), 0)
  /\ \A r : CutsRight(r, Undefined)
<1>1. Undefined.fields = <<>> /\ Undefined.ext = <<>> /\ Undefined.def = FALSE
  BY DEF Undefined
<1>2. Fields(Undefined) = <<>>
  BY <1>1 DEF Fields
<1> QED
  BY <1>1, <1>2 DEF CutsRight, StartBy

(* The object of either parser.  Up to an extension for an event it ends   *)
(* 310 characters behind its start.                                        *)
LEMMA ObjCuts ==
  ASSUME NEW r, r.len \in Nat, NEW i \in Nat, NEW id
  PROVE  /\ CutsRight(r, CUpRptDtObj(r, id, i))
         /\ CutsRight(r, PyUpRptDtObj(r, FALSE, id, i))
         /\ StartBy(Fields(CUpRptDtObj(r, id, i)), i + 310)
         /\ r.len <= 510 => CUpRptDtObj(r, id, i).def = TRUE
<1> DEFINE f == Cut(r, CObject, i)
           j == i + 178
           c == CUpRptDtObj(r, id, i)
<1>1. SideBySide(r, f, i, j) /\ StartBy(f, j) /\ j \in Nat
  <2>1. SideBySide(r, f, i, i + Width(CObject)) /\ StartBy(f, i + Width(CObject))
    BY LayoutsAre, CutIs
  <2> QED
    BY <2>1, WidthsAre
<1>2. /\ SideBySide(r, CEvtExt(r, j), j, j + 132)
      /\ CEvtExt(r, j)[Len(CEvtExt(r, j))].key # "dt"
      /\ StartBy(CEvtExt(r, j), j + 132)
  BY <1>1, EvtExtIs
<1>3. /\ SideBySide(r, CAtExt(r, j), j, (j + 6) + r.len)
      /\ CAtExt(r, j)[Len(CAtExt(r, j))].to = r.len
      /\ StartBy(CAtExt(r, j), j + 6)
  BY <1>1, AtExtIs
<1> DEFINE e == Json(f, CEvtExt(r, j))
           d == Json(f, CAtExt(r, j))
           x == NotJson(f)
<1>4. c \in {e, d, x, Undefined}
  BY WidthsAre DEF CUpRptDtObj
<1>5. CutsRight(r, Json(f, <<>>)) /\ CutsRight(r, x)
  BY <1>1, NoExtCuts
<1>6. CutsRight(r, e) /\ CutsRight(r, d)
  <2> HIDE DEF f, j
  <2> QED
    BY <1>1, <1>2, <1>3, ExtCuts
<1>7. CutsRight(r, c)
  <2> HIDE DEF c, e, d, x
  <2> QED
    BY <1>4, <1>5, <1>6, UndefinedIs
<1>8. f \in Seq(Field) /\ CEvtExt(r, j) \in Seq(Field) /\ CAtExt(r, j) \in Seq(Field)
  <2> HIDE DEF f, j
  <2> QED
    BY <1>1, <1>2, <1>3 DEF SideBySide
<1>9. /\ Fields(e) = f \o CEvtExt(r, j) /\ Fields(d) = f \o CAtExt(r, j)
      /\ Fields(x) = f
  <2> HIDE DEF f, j
  <2> QED
    BY <1>8 DEF Fields, Json, NotJson
<1> DEFINE g == CEvtExt(r, j)
           h == CAtExt(r, j)
<1>10. StartBy(f, i + 310) /\ StartBy(g, i + 310) /\ StartBy(h, i + 310)
  <2>1. /\ \A k \in 1 .. Len(f) : f[k].start \in Nat /\ f[k].start <= i + 178
        /\ \A k \in 1 .. Len(g) : g[k].start \in Nat /\ g[k].start <= (i + 178) + 132
        /\ \A k \in 1 .. Len(h) : h[k].start \in Nat /\ h[k].start <= (i + 178) + 6
    BY <1>1, <1>2, <1>3 DEF StartBy
  <2> HIDE DEF f, g, h
  <2> QED
    BY <2>1 DEF StartBy
<1>11. StartBy(f \o g, i + 310) /\ StartBy(f \o h, i + 310)
  <2> HIDE DEF f, g, h
  <2>1. f \in Seq(Field) /\ g \in Seq(Field) /\ h \in Seq(Field)
    BY <1>8 DEF g, h
  <2> QED
    BY <1>10, <2>1, StartJoined
<1>12. StartBy(Fields(c), i + 310)
  <2>1. StartBy(Fields(Undefined), i + 310)
    BY UndefinedIs DEF StartBy
  <2>2. StartBy(Fields(e), i + 310) /\ StartBy(Fields(d), i + 310)
        /\ StartBy(Fields(x), i + 310)
    BY <1>9, <1>10, <1>11
  <2> HIDE DEF c, e, d, x
  <2> QED
    BY <1>4, <2>1, <2>2
<1>13. ASSUME r.len <= 510 PROVE c.def = TRUE
  <2>1. Rest(r, j + 6) \in Nat /\ Rest(r, j + 6) <= r.len
    BY <1>1, RestIs
  <2>2. Rest(r, j + 6) + 394 < 1024
    BY <1>13, <2>1
  <2>3. c \in {e, d, x}
    BY <2>2, WidthsAre DEF CUpRptDtObj
  <2>4. e.def = TRUE /\ d.def = TRUE /\ x.def = TRUE
    BY DEF Json, NotJson
  <2> HIDE DEF c, e, d, x
  <2> QED
    BY <2>3, <2>4
<1>14. /\ Cut(r, PyObject, i) = f /\ i + Width(PyObject) = j
       /\ PyEvtExt(r, j) = CEvtExt(r, j)
       /\ PyAtExt(r, FALSE, j) = CAtExt(r, j)
  BY LayoutsAre, WidthsAre DEF PyEvtExt, CEvtExt, PyAtExt, CAtExt
<1>15. CutsRight(r, PyUpRptDtObj(r, FALSE, id, i))
  <2> HIDE DEF f, j
  <2> QED
    BY <1>5, <1>6, <1>14 DEF PyUpRptDtObj
<1> QED
  BY <1>7, <1>12, <1>13, <1>15

(* Where the data start.                                                   *)
LEMMA DataFromIs ==
  ASSUME NEW r
  PROVE  /\ PyDataFrom(r) = 62
         /\ CDataFrom(r) = IF Seqno(r)[2] = "0" THEN 62 ELSE 16
BY LayoutsAre, WidthsAre DEF CDataFrom, PyDataFrom

(* The results of C: that of a data union, or the rest of the report.      *)
LEMMA CResults ==
  ASSUME NEW r
  PROVE  \/ CUpRptDt(r) = Undefined
         \/ /\ ~(Ctrl(r)[2] = "2" /\ Seqno(r)[2] = "1")
            /\ CUpRptDt(r) = CDtU(r, CDataFrom(r))
         \/ /\ Ctrl(r)[2] = "2" /\ Seqno(r)[2] = "1"
            /\ CUpRptDt(r) = Json(<<>>, ToEnd(r, "dt", 16))
<1>1. Seqno(r)[2] = "1" => CDataFrom(r) = 16
  BY DataFromIs, "1" # "0"
<1> QED
  BY <1>1 DEF CUpRptDt

(* Both parsers cut every report without gap or overlap.                   *)
LEMMA ParsersCut ==
  ASSUME NEW r \in Reports
  PROVE  /\ CutsRight(r, CUpRptDt(r)) /\ CutsRight(r, CPrsDt(r))
         /\ CutsRight(r, PyMain(r))
<1>1. r.len \in Nat
  BY ReportAssumption DEF Reports
<1>2. CDataFrom(r) \in Nat /\ PyDataFrom(r) = 62
  BY DataFromIs
<1>3. Width(CUnion) = 8 /\ PyUnion = CUnion
  BY LayoutsAre, WidthsAre
<1>4. CutsRight(r, CUpRptDt(r))
  <2>1. CDataFrom(r) + 8 \in Nat
    BY <1>2
  <2>2. CutsRight(r, CDtU(r, CDataFrom(r)))
    BY <1>1, <1>3, <2>1, ObjCuts DEF CDtU
  <2>3. CutsRight(r, Json(<<>>, ToEnd(r, "dt", 16)))
    BY <1>1, BareCuts
  <2> QED
    BY <2>2, <2>3, CResults, UndefinedIs
<1>5. CutsRight(r, CPrsDt(r))
  BY <1>4, UndefinedIs DEF CPrsDt
<1>6. CutsRight(r, PyMain(r))
  <2> DEFINE naked == Ctrl(r) = <<"C", "2">> /\ Seqno(r) = <<"8", "1">>
             i == PyDataFrom(r)
  <2>1. i \in Nat /\ i + Width(PyUnion) \in Nat
    BY <1>2, <1>3
  <2>2. CutsRight(r, NotJson(<<>>))
    BY DEF CutsRight, NotJson, Fields
  <2>3. CutsRight(r, PyUpRptDtObj(r, TRUE, <<>>, i))
    BY <1>1, <2>1, BareCuts DEF PyUpRptDtObj, PyAtExt
  <2>4. CutsRight(r, PyUpRptDtObj(r, FALSE, IdAt(r, i), i + Width(PyUnion)))
    BY <1>1, <2>1, ObjCuts
  <2>5. \/ PyMain(r) = NotJson(<<>>)
        \/ PyMain(r) = PyUpRptDtObj(r, TRUE, <<>>, i)
        \/ PyMain(r) = PyUpRptDtObj(r, FALSE, IdAt(r, i), i + Width(PyUnion))
    BY DEF PyMain
  <2> QED
    BY <2>2, <2>3, <2>4, <2>5
<1> QED
  BY <1>4, <1>5, <1>6

(* C stays within its buffers for a report of up to 510 characters, and    *)
(* within the report too if that has 380.                                  *)
LEMMA CDefined ==
  ASSUME NEW r \in Reports, r.len <= 510
  PROVE  /\ CUpRptDt(r).def = TRUE
         /\ r.len >= 380 => CPrsDt(r).def = TRUE
<1>1. r.len \in Nat
  BY ReportAssumption DEF Reports
<1> DEFINE i == CDataFrom(r)
           o == CUpRptDtObj(r, IdAt(r, i), i + 8)
           b == Json(<<>>, ToEnd(r, "dt", 16))
<1>2. i \in Nat /\ i + 8 \in Nat /\ i <= 62
  BY DataFromIs
<1>3. o.def = TRUE /\ StartBy(Fields(o), (i + 8) + 310)
  BY <1>1, <1>2, ObjCuts
<1>4. b.def = TRUE /\ StartBy(Fields(b), 16)
  <2> DEFINE g == ToEnd(r, "dt", 16)
  <2>1. "dt" \in FieldKeys
    BY DEF FieldKeys
  <2>2. Len(g) = 1 /\ g[1].start = 16 /\ g \in Seq(Field)
    BY <1>1, <2>1, ToEndIs DEF SideBySide
  <2> HIDE DEF g
  <2>3. Fields(Json(<<>>, g)) = g /\ Json(<<>>, g).def = TRUE
    BY <2>2 DEF Fields, Json
  <2>4. StartBy(g, 16)
    BY <2>2 DEF StartBy
  <2> QED
    BY <2>3, <2>4 DEF g
<1>5. Rest(r, 16) + 17 < 512
  <2>1. CASE 16 <= r.len
    BY <1>1, <2>1, RestIs
  <2>2. CASE r.len < 16
    BY <1>1, <2>2, RestIs
  <2> QED
    BY <1>1, <2>1, <2>2
<1>6. CUpRptDt(r) = o \/ CUpRptDt(r) = b
  <2>1. Seqno(r)[2] = "1" => i = 16
    BY DataFromIs, "1" # "0"
  <2>2. CDtU(r, i) = o
    BY WidthsAre DEF CDtU
  <2>3. /\ ~(r.len + 68 >= 1024) /\ ~(r.len + 57 >= 1024)
    BY <1>1
  <2> HIDE DEF o
  <2> QED
    BY <1>5, <2>1, <2>2, <2>3 DEF CUpRptDt
<1> DEFINE x == CUpRptDt(r)
           f == Fields(x)
<1>7. x.def = TRUE
  <2> HIDE DEF o, b, x
  <2> QED
    BY <1>3, <1>4, <1>6 DEF x
<1>8. ASSUME r.len >= 380 PROVE CPrsDt(r).def = TRUE
  <2>1. ASSUME NEW k \in 1 .. Len(f) PROVE ~(f[k].start > r.len)
    <3>1. CASE x = o
      <4>1. f[k].start \in Nat /\ f[k].start <= (i + 8) + 310
        BY <1>3, <3>1 DEF StartBy
      <4> QED
        BY <1>1, <1>2, <1>8, <4>1
    <3>2. CASE x = b
      <4>1. f[k].start \in Nat /\ f[k].start <= 16
        BY <1>4, <3>2 DEF StartBy
      <4> QED
        BY <1>1, <1>8, <4>1
    <3> QED
      BY <1>6, <3>1, <3>2
  <2> QED
    BY <1>7, <2>1 DEF CPrsDt
<1> QED
  BY <1>7, <1>8

(* Both parsers give the same fields for a report with an application id   *)
(* and an id 800x.                                                         *)
LEMMA ParsersGiveTheSame ==
  ASSUME NEW r \in Reports, Seqno(r)[2] = "0", CUpRptDt(r).def,
         \A k \in 1 .. 3 : Clip(r, r.id66, 66)[k] = <<"8", "0", "0">>[k]
  PROVE  Fields(CUpRptDt(r)) = Fields(PyMain(r))
<1> DEFINE nil == ""
           Char == STRING \ {nil}
<1>1. /\ r.len \in Nat /\ r.seq \in [1 .. 2 -> Char] /\ r.id66 \in [1 .. 4 -> Char]
      /\ nil \notin Char /\ nil # "0"
  BY ReportAssumption DEF Reports
<1>2. Seqno(r)[1] # nil
  <2>1. Seqno(r) = [k \in 1 .. 2 |-> IF 14 + k - 1 < r.len THEN r.seq[k] ELSE nil]
    BY <1>1 DEF Seqno, Clip
  <2> HIDE DEF nil, Char
  <2>2. /\ Seqno(r)[1] = IF 14 < r.len THEN r.seq[1] ELSE nil
        /\ Seqno(r)[2] = IF 15 < r.len THEN r.seq[2] ELSE nil
    BY <1>1, <2>1
  <2> QED
    BY <1>1, <2>2
<1>3. CDataFrom(r) = 62 /\ PyDataFrom(r) = 62
  BY DataFromIs
<1> DEFINE id == Clip(r, r.id66, 66)
           f == Cut(r, CObject, 70)
           j == 70 + Width(CObject)
<1>4. IdAt(r, 62) = id
  BY DEF IdAt
<1>5. ~Undefined.def
  BY UndefinedIs
<1>6. CUpRptDt(r) = CUpRptDtObj(r, id, 70)
  <2>1. CDtU(r, 62) = CUpRptDtObj(r, id, 70)
    BY <1>4, WidthsAre DEF CDtU
  <2>2. Seqno(r)[2] # "1"
    BY "0" # "1"
  <2> QED
    BY <1>3, <1>5, <2>1, <2>2, CResults
<1>7. PyMain(r) = PyUpRptDtObj(r, FALSE, id, 70)
  <2>1. Seqno(r) # <<"8", "1">>
    OBVIOUS
  <2>2. Width(PyUnion) = 8
    BY LayoutsAre, WidthsAre
  <2>3. PyMain(r) = PyUpRptDtObj(r, FALSE, id, 62 + 8)
    <3> HIDE DEF id
    <3> QED
      BY <1>2, <1>3, <1>4, <2>1, <2>2 DEF PyMain
  <2> QED
    BY <2>3
<1>8. \A x \in {"2", "3"} : id[4] = x <=> id = <<"8", "0", "0", x>>
  <2>1. id = [k \in 1 .. 4 |-> id[k]]
    BY <1>1 DEF Clip
  <2>2. id[1] = "8" /\ id[2] = "0" /\ id[3] = "0"
    OBVIOUS
  <2> HIDE DEF id
  <2>3. ASSUME NEW x, id[4] = x PROVE id = <<"8", "0", "0", x>>
    BY <2>1, <2>2, <2>3
  <2>4. ASSUME NEW x, id = <<"8", "0", "0", x>> PROVE id[4] = x
    BY <2>4
  <2> QED
    BY <2>3, <2>4
<1>9. /\ Cut(r, PyObject, 70) = f /\ 70 + Width(PyObject) = j
      /\ PyEvtExt(r, j) = CEvtExt(r, j) /\ PyAtExt(r, FALSE, j) = CAtExt(r, j)
  BY LayoutsAre DEF PyEvtExt, CEvtExt, PyAtExt, CAtExt
<1> HIDE DEF id
<1>10. CUpRptDtObj(r, id, 70) = IF id[4] = "3" THEN Json(f, CEvtExt(r, j))
                                ELSE IF id[4] = "2" THEN Json(f, CAtExt(r, j))
                                ELSE NotJson(f)
  <2>1. CUpRptDtObj(r, id, 70) # Undefined
    BY <1>5, <1>6
  <2> HIDE DEF f, j
  <2> QED
    BY <2>1 DEF CUpRptDtObj, f, j
<1>11. PyUpRptDtObj(r, FALSE, id, 70) = IF id[4] = "3" THEN Json(f, CEvtExt(r, j))
                                        ELSE IF id[4] = "2" THEN Json(f, CAtExt(r, j))
                                        ELSE Json(f, <<>>)
  <2>1. /\ id[4] = "3" <=> id = <<"8", "0", "0", "3">>
        /\ id[4] = "2" <=> id = <<"8", "0", "0", "2">>
    BY <1>8
  <2> HIDE DEF f, j
  <2> QED
    BY <1>9, <2>1, Zenon DEF PyUpRptDtObj
<1>12. Fields(NotJson(f)) = Fields(Json(f, <<>>))
  BY DEF Fields, Json, NotJson
<1> HIDE DEF f, j
<1> QED
  BY <1>6, <1>7, <1>10, <1>11, <1>12

(* The fields of an object that starts 46 characters later.                *)
LEMMA ObjectLater ==
  ASSUME NEW r, r.len \in Nat
  PROVE  /\ Later(Cut(r, CObject, 24), Cut(r, CObject, 70), 46)
         /\ Cut(r, CObject, 70) # <<>>
<1> DEFINE n == Len(CObject)
           m == Moved(CObject)
           f == Cut(r, CObject, 24)
           g == Cut(r, CObject, 70)
<1>1. CObject \in Layouts /\ CObject # <<>>
  BY LayoutsAre
<1>2. /\ n = 19 /\ m \in [0 .. n -> Nat]
  BY <1>1, MovedIs DEF CObject
<1>3. \A k \in 1 .. n : /\ f[k].key = CObject[k][1] /\ f[k].start = 24 + m[k - 1]
                        /\ g[k].key = CObject[k][1] /\ g[k].start = 70 + m[k - 1]
  BY <1>1, CutIs, 24 \in Nat, 70 \in Nat
<1>4. DOMAIN f = 1 .. n /\ DOMAIN g = 1 .. n
  BY DEF Cut
<1> HIDE DEF f, g, m, n
<1>5. ASSUME NEW k \in 1 .. n
      PROVE  g[k].key = f[k].key /\ g[k].start = f[k].start + 46
  <2>1. m[k - 1] \in Nat
    BY <1>2
  <2> QED
    BY <1>3, <2>1
<1>6. g # <<>>
  <2>1. 1 \in DOMAIN g /\ DOMAIN <<>> = {}
    BY <1>2, <1>4
  <2> QED
    BY <2>1
<1> QED
  BY <1>4, <1>5, <1>6 DEF Later, f, g

(* Without an application id Python gives what it gives 46 characters      *)
(* behind C.                                                               *)
LEMMA PythonIsLater ==
  ASSUME NEW r \in Reports, Seqno(r)[2] # "0"
  PROVE  LET c == CUpRptDt(r)
             py == PyMain(r)
         IN /\ Later(c.fields, py.fields, 46)
            /\ py.fields = <<>> => Later(c.ext, py.ext, 46)
<1> DEFINE c == CUpRptDt(r)
           py == PyMain(r)
           f == Cut(r, CObject, 24)
           g == Cut(r, CObject, 70)
<1>1. r.len \in Nat
  BY ReportAssumption DEF Reports
<1>2. Later(f, g, 46) /\ g # <<>>
  BY <1>1, ObjectLater
<1>3. \A x : Later(<<>>, x, 46) /\ Later(x, <<>>, 46)
  BY DEF Later
<1>4. CDataFrom(r) = 16 /\ PyDataFrom(r) = 62
  BY DataFromIs
<1>5. c.fields = f \/ c.fields = <<>>
  <2>1. CDtU(r, 16) = CUpRptDtObj(r, IdAt(r, 16), 24)
    BY WidthsAre DEF CDtU
  <2>2. LET x == CUpRptDtObj(r, IdAt(r, 16), 24)
        IN x.fields = f \/ x.fields = <<>>
    BY UndefinedIs DEF CUpRptDtObj, Json, NotJson
  <2>3. Json(<<>>, ToEnd(r, "dt", 16)).fields = <<>>
    BY DEF Json
  <2> HIDE DEF f
  <2> QED
    BY <1>4, <2>1, <2>2, <2>3, CResults, UndefinedIs
<1> DEFINE naked == Ctrl(r) = <<"C", "2">> /\ Seqno(r) = <<"8", "1">>
<1>6. \/ py = NotJson(<<>>)
      \/ naked /\ py = Json(<<>>, ToEnd(r, "dt", 62))
      \/ py.fields = g
  <2>1. Width(PyUnion) = 8 /\ PyObject = CObject
    BY LayoutsAre, WidthsAre
  <2>2. PyUpRptDtObj(r, TRUE, <<>>, 62) = Json(<<>>, ToEnd(r, "dt", 62))
    BY DEF PyUpRptDtObj, PyAtExt
  <2>3. PyUpRptDtObj(r, FALSE, IdAt(r, 62), 70).fields = g
    BY <2>1 DEF PyUpRptDtObj, Json
  <2>4. \/ PyMain(r) = NotJson(<<>>)
        \/ naked /\ PyMain(r) = PyUpRptDtObj(r, TRUE, <<>>, 62)
        \/ PyMain(r) = PyUpRptDtObj(r, FALSE, IdAt(r, 62), 70)
    <3>1. \/ PyMain(r) = NotJson(<<>>)
          \/ naked /\ PyMain(r) = PyUpRptDtObj(r, TRUE, <<>>, 62)
          \/ PyMain(r) = PyUpRptDtObj(r, FALSE, IdAt(r, 62), 62 + 8)
      BY <1>4, <2>1 DEF PyMain
    <3>2. 62 + 8 = 70
      OBVIOUS
    <3> HIDE DEF naked
    <3> QED
      BY <3>1, <3>2, Zenon
  <2> HIDE DEF g
  <2> QED
    BY <2>2, <2>3, <2>4
<1>7. /\ NotJson(<<>>).fields = <<>> /\ NotJson(<<>>).ext = <<>>
      /\ \A x : Json(<<>>, x).fields = <<>> /\ Json(<<>>, x).ext = x
  BY DEF NotJson, Json
<1>8. naked => c.ext = <<>> \/ c.ext = ToEnd(r, "dt", 16)
  <2>1. naked => Ctrl(r)[2] = "2" /\ Seqno(r)[2] = "1"
    OBVIOUS
  <2> HIDE DEF naked
  <2> QED
    BY <1>7, <2>1, CResults, UndefinedIs
<1>9. Later(ToEnd(r, "dt", 16), ToEnd(r, "dt", 62), 46)
  <2>1. 16 \in Nat /\ 62 \in Nat /\ "dt" \in FieldKeys
    BY DEF FieldKeys
  <2> DEFINE x == ToEnd(r, "dt", 16)
             y == ToEnd(r, "dt", 62)
  <2>2. /\ x[1].key = "dt" /\ x[1].start = 16 /\ y[1].key = "dt" /\ y[1].start = 62
    BY <1>1, <2>1, ToEndIs
  <2>3. DOMAIN x = {1}
    BY DEF ToEnd
  <2> HIDE DEF x, y
  <2>4. Later(x, y, 46)
    BY <2>2, <2>3 DEF Later
  <2> QED
    BY <2>4 DEF x, y
<1> HIDE DEF c, py, f, g, naked
<1>10. Later(c.fields, py.fields, 46)
  BY <1>2, <1>3, <1>5, <1>6, <1>7
<1>11. py.fields = <<>> => Later(c.ext, py.ext, 46)
  BY <1>2, <1>3, <1>6, <1>7, <1>8, <1>9
<1> QED
  BY <1>10, <1>11 DEF c, py

(* A call of one of the parsers and what it returned.                      *)
ReportInv ==
  /\ call.fn \in {"parsedt", "prs_dt", "dt_parser"} /\ call.r \in Reports
  /\ result # <<>> => result[1] = IF call.fn = "parsedt" THEN CUpRptDt(call.r)
                                  ELSE IF call.fn = "prs_dt" THEN CPrsDt(call.r)
                                  ELSE PyMain(call.r)

(* For reports of any length and content: both parsers cut them without    *)
(* gap or overlap, C within its buffers up to 510 characters; they agree   *)
(* on those that have an application id, and on the others Python is 46    *)
(* characters late.                                                        *)
THEOREM ReportsCut == ReportSpec => []ReportsCutRight
<1>1. ReportInit => ReportInv
  BY DEF ReportInit, ReportInv
<1>2. ReportInv /\ [ReportNext]_callVars => ReportInv'
  <2> SUFFICES ASSUME ReportInv, [ReportNext]_callVars PROVE ReportInv'
    OBVIOUS
  <2>1. CASE Asked("parsedt") /\ Return(CUpRptDt(call.r))
    BY <2>1 DEF Asked, Return, ReportInv
  <2>2. CASE Asked("prs_dt") /\ Return(CPrsDt(call.r))
    BY <2>2 DEF Asked, Return, ReportInv
  <2>3. CASE Asked("dt_parser") /\ Return(PyMain(call.r))
    BY <2>3 DEF Asked, Return, ReportInv
  <2>4. CASE UNCHANGED callVars
    BY <2>4 DEF callVars, ReportInv
  <2> QED
    BY <2>1, <2>2, <2>3, <2>4 DEF ReportNext
<1>3. ReportInv => ReportsCutRight
  <2> SUFFICES ASSUME ReportInv PROVE ReportsCutRight
    OBVIOUS
  <2>1. CutsReport
    <3> SUFFICES ASSUME Parsed PROVE CutsRight(call.r, result[1])
      BY DEF CutsReport, CutsRight
    <3> QED
      BY ParsersCut DEF ReportInv, Parsed, Returned
  <2>2. Defined
    <3>1. ASSUME Returned("parsedt"), call.r.len <= 510 PROVE result[1].def
      <4>1. call.r \in Reports /\ result[1] = CUpRptDt(call.r)
        BY <3>1 DEF ReportInv, Returned
      <4> QED
        BY <3>1, <4>1, CDefined
    <3>2. ASSUME Returned("prs_dt"), call.r.len \in 380 .. 510 PROVE result[1].def
      <4>1. call.r \in Reports /\ result[1] = CPrsDt(call.r)
        BY <3>2 DEF ReportInv, Returned
      <4>2. call.r.len <= 510 /\ call.r.len >= 380
        BY <3>2
      <4> QED
        BY <4>1, <4>2, CDefined
    <3> QED
      BY <3>1, <3>2 DEF Defined
  <2>3. ParsersAgree
    <3> SUFFICES ASSUME Returned("parsedt"), result[1].def PROVE ParsersAgree
      BY DEF ParsersAgree
    <3>1. call.r \in Reports /\ result[1] = CUpRptDt(call.r)
      BY DEF ReportInv, Returned
    <3>2. ASSUME Seqno(call.r)[2] = "0",
                 \A k \in 1 .. 3 : Clip(call.r, call.r.id66, 66)[k]
                                     = <<"8", "0", "0">>[k]
          PROVE  Fields(result[1]) = Fields(PyMain(call.r))
      BY <3>1, <3>2, ParsersGiveTheSame
    <3>3. ASSUME Seqno(call.r)[2] # "0"
          PROVE  /\ Later(result[1].fields, PyMain(call.r).fields, 46)
                 /\ PyMain(call.r).fields = <<>>
                    => Later(result[1].ext, PyMain(call.r).ext, 46)
      BY <3>1, <3>3, PythonIsLater
    <3> QED
      BY <3>2, <3>3 DEF ParsersAgree
  <2> QED
    BY <2>1, <2>2, <2>3 DEF ReportsCutRight
<1> QED
  BY <1>1, <1>2, <1>3, PTL DEF ReportSpec

-----------------------------------------------------------------------------
(* DES                                                                     *)

Bits(n) == [1 .. n -> {0, 1}]
Bytes == [1 .. 8 -> 0 .. 255]

(* The tables that pick m of n bits.                                       *)
Picks(m, n) == [1 .. m -> 1 .. n]

(* Every bit inverted.                                                     *)
Not(x) == [i \in DOMAIN x |-> 1 - x[i]]

(* A word of n bits, and its inverse.                                       *)
LEMMA BitsAre ==
  ASSUME NEW n \in Nat, NEW x \in Bits(n)
  PROVE  /\ x \in Seq({0, 1}) /\ Len(x) = n /\ DOMAIN x = 1 .. n
         /\ \A i \in 1 .. n : x[i] \in {0, 1}
         /\ Not(x) \in Bits(n) /\ \A i \in 1 .. n : Not(x)[i] = 1 - x[i]
BY DEF Bits, Not

(* Words with the same bits are the same.                                   *)
LEMMA SameBits ==
  ASSUME NEW n \in Nat, NEW x \in Bits(n), NEW y \in Bits(n),
         \A i \in 1 .. n : x[i] = y[i]
  PROVE  x = y
BY DEF Bits

(* m bits from position a on.                                               *)
LEMMA SliceIs ==
  ASSUME NEW n \in Nat, NEW x \in Bits(n), NEW a \in 1 .. n, NEW m \in Nat,
         a + m - 1 <= n
  PROVE  /\ SubSeq(x, a, a + m - 1) \in Bits(m)
         /\ \A i \in 1 .. m : SubSeq(x, a, a + m - 1)[i] = x[a + i - 1]
<1> DEFINE y == SubSeq(x, a, a + m - 1)
<1>1. x \in Seq({0, 1}) /\ Len(x) = n
  BY BitsAre
<1>2. y = [i \in 1 .. m |-> x[a + i - 1]]
  <2>1. y = [i \in 1 .. (a + m - 1) - a + 1 |-> x[i + a - 1]]
    BY <1>1
  <2>2. (a + m - 1) - a + 1 = m /\ \A i \in 1 .. m : i + a - 1 = a + i - 1
    OBVIOUS
  <2> QED
    BY <2>1, <2>2
<1>3. \A i \in 1 .. m : a + i - 1 \in 1 .. n
  OBVIOUS
<1> HIDE DEF y
<1>4. y \in Bits(m) /\ \A i \in 1 .. m : y[i] = x[a + i - 1]
  BY <1>2, <1>3 DEF Bits
<1> QED
  BY <1>4 DEF y

(* The bits of two words, one after the other.                              *)
LEMMA ConcatIs ==
  ASSUME NEW n \in Nat, NEW m \in Nat, NEW x \in Bits(n), NEW y \in Bits(m)
  PROVE  /\ x \o y \in Bits(n + m)
         /\ \A i \in 1 .. n : (x \o y)[i] = x[i]
         /\ \A i \in 1 .. m : (x \o y)[n + i] = y[i]
<1>1. x \in Seq({0, 1}) /\ Len(x) = n /\ y \in Seq({0, 1}) /\ Len(y) = m
  BY BitsAre
<1> DEFINE z == x \o y
<1>2. /\ z \in Seq({0, 1}) /\ Len(z) = n + m
      /\ \A i \in 1 .. n + m : z[i] = IF i <= n THEN x[i] ELSE y[i - n]
  BY <1>1
<1> HIDE DEF z
<1>3. z \in Bits(n + m)
  BY <1>2 DEF Bits
<1>4. \A i \in 1 .. n : z[i] = x[i]
  BY <1>2
<1>5. ASSUME NEW i \in 1 .. m PROVE z[n + i] = y[i]
  <2>1. n + i \in 1 .. n + m /\ ~(n + i <= n) /\ (n + i) - n = i
    OBVIOUS
  <2> QED
    BY <1>2, <2>1
<1> QED
  BY <1>3, <1>4, <1>5 DEF z

(* tbl_replace picks the bits its table names: inverted ones of an inverted *)
(* word.                                                                    *)
LEMMA TblReplaceIs ==
  ASSUME NEW n \in Nat, NEW m \in Nat, NEW x \in Bits(n), NEW t \in Picks(m, n)
  PROVE  /\ TblReplace(x, t) \in Bits(m)
         /\ \A i \in 1 .. m : TblReplace(x, t)[i] = x[t[i]]
         /\ TblReplace(Not(x), t) = Not(TblReplace(x, t))
<1>1. /\ TblReplace(x, t) \in Bits(m) /\ \A i \in 1 .. m : TblReplace(x, t)[i] = x[t[i]]
      /\ \A i \in 1 .. m : t[i] \in 1 .. n
  BY DEF TblReplace, Bits, Picks
<1>2. Not(x) \in Bits(n)
  BY BitsAre
<1>3. /\ TblReplace(Not(x), t) \in Bits(m)
      /\ \A i \in 1 .. m : TblReplace(Not(x), t)[i] = Not(x)[t[i]]
  BY <1>2 DEF TblReplace, Bits, Picks
<1> DEFINE y == TblReplace(x, t)
           z == TblReplace(Not(x), t)
<1> HIDE DEF y, z
<1>4. Not(y) \in Bits(m) /\ \A i \in 1 .. m : Not(y)[i] = 1 - y[i]
  BY <1>1, BitsAre DEF y
<1>5. \A i \in 1 .. m : Not(x)[t[i]] = 1 - x[t[i]]
  BY <1>1, BitsAre
<1>6. \A i \in 1 .. m : z[i] = Not(y)[i]
  BY <1>1, <1>3, <1>4, <1>5 DEF y, z
<1>7. z = Not(y)
  BY <1>3, <1>4, <1>6, SameBits DEF z
<1> QED
  BY <1>1, <1>7 DEF y, z

(* xor adds bit by bit.                                                     *)
LEMMA XorIs ==
  ASSUME NEW n \in Nat, NEW x \in Bits(n), NEW y \in Bits(n)
  PROVE  /\ Xor(x, y) \in Bits(n)
         /\ \A i \in 1 .. n : Xor(x, y)[i] = (x[i] + y[i]) % 2
<1>1. Xor(x, y) = [i \in 1 .. n |-> (x[i] + y[i]) % 2]
  BY BitsAre DEF Xor
<1>2. \A i \in 1 .. n : (x[i] + y[i]) % 2 \in {0, 1}
  BY DEF Bits
<1> QED
  BY <1>1, <1>2 DEF Bits

(* Mixing twice undoes it; inverted on both sides it is the same, inverted *)
(* on one side it is inverted.                                             *)
LEMMA XorLaws ==
  ASSUME NEW n \in Nat, NEW x \in Bits(n), NEW y \in Bits(n)
  PROVE  /\ Xor(x, Xor(x, y)) = y
         /\ Xor(Not(x), Not(y)) = Xor(x, y)
         /\ Xor(x, Not(y)) = Not(Xor(x, y))
<1>1. \A a, b \in {0, 1} : /\ (a + ((a + b) % 2)) % 2 = b
                           /\ ((1 - a) + (1 - b)) % 2 = (a + b) % 2
                           /\ (a + (1 - b)) % 2 = 1 - ((a + b) % 2)
  OBVIOUS
<1>2. \A i \in 1 .. n : x[i] \in {0, 1} /\ y[i] \in {0, 1}
  BY DEF Bits
<1> DEFINE z == Xor(x, y)
<1>3. z \in Bits(n) /\ \A i \in 1 .. n : z[i] = (x[i] + y[i]) % 2
  BY XorIs
<1>4. /\ Not(x) \in Bits(n) /\ \A i \in 1 .. n : Not(x)[i] = 1 - x[i]
      /\ Not(y) \in Bits(n) /\ \A i \in 1 .. n : Not(y)[i] = 1 - y[i]
      /\ Not(z) \in Bits(n) /\ \A i \in 1 .. n : Not(z)[i] = 1 - z[i]
  BY <1>3, BitsAre
<1> HIDE DEF z
<1>5. Xor(x, z) = y
  <2>1. Xor(x, z) \in Bits(n) /\ \A i \in 1 .. n : Xor(x, z)[i] = (x[i] + z[i]) % 2
    BY <1>3, XorIs
  <2> QED
    BY <1>1, <1>2, <1>3, <2>1, SameBits
<1>6. Xor(Not(x), Not(y)) = z
  <2>1. /\ Xor(Not(x), Not(y)) \in Bits(n)
        /\ \A i \in 1 .. n : Xor(Not(x), Not(y))[i] = (Not(x)[i] + Not(y)[i]) % 2
    BY <1>4, XorIs
  <2> QED
    BY <1>1, <1>2, <1>3, <1>4, <2>1, SameBits
<1>7. Xor(x, Not(y)) = Not(z)
  <2>1. /\ Xor(x, Not(y)) \in Bits(n)
        /\ \A i \in 1 .. n : Xor(x, Not(y))[i] = (x[i] + Not(y)[i]) % 2
    BY <1>4, XorIs
  <2> QED
    BY <1>1, <1>2, <1>3, <1>4, <2>1, SameBits
<1> QED
  BY <1>5, <1>6, <1>7 DEF z

(* The tables name bits of the words they are applied to.                   *)
LEMMA Tables ==
  /\ ip_tbl \in Picks(64, 64) /\ ipr_tbl \in Picks(64, 64)
  /\ e_tbl \in Picks(48, 32) /\ p_tbl \in Picks(32, 32)
  /\ pc1_tbl \in Picks(56, 64) /\ pc2_tbl \in Picks(48, 56)
  /\ mv_tbl \in [1 .. 16 -> 1 .. 2]
<1>1. ip_tbl \in Picks(64, 64)
  BY DEF ip_tbl, Picks
<1>2. ipr_tbl \in Picks(64, 64)
  BY DEF ipr_tbl, Picks
<1>3. e_tbl \in Picks(48, 32)
  BY DEF e_tbl, Picks
<1>4. p_tbl \in Picks(32, 32)
  BY DEF p_tbl, Picks
<1>5. pc1_tbl \in Picks(56, 64)
  BY DEF pc1_tbl, Picks
<1>6. pc2_tbl \in Picks(48, 56)
  BY DEF pc2_tbl, Picks
<1>7. mv_tbl \in [1 .. 16 -> 1 .. 2]
  BY DEF mv_tbl
<1> QED
  BY <1>1, <1>2, <1>3, <1>4, <1>5, <1>6, <1>7

(* The two permutations are inverse to each other.                         *)
LEMMA Permutations ==
  ASSUME NEW x \in Bits(64)
  PROVE  /\ TblReplace(TblReplace(x, ip_tbl), ipr_tbl) = x
         /\ TblReplace(TblReplace(x, ipr_tbl), ip_tbl) = x
<1>1. \A i \in 1 .. 64 : ip_tbl[ipr_tbl[i]] = i
  BY DEF ip_tbl, ipr_tbl
<1>2. \A i \in 1 .. 64 : ipr_tbl[ip_tbl[i]] = i
  BY DEF ip_tbl, ipr_tbl
<1>3. TblReplace(TblReplace(x, ip_tbl), ipr_tbl) = x
  <2> DEFINE y == TblReplace(x, ip_tbl)
  <2>1. y \in Bits(64) /\ \A i \in 1 .. 64 : y[i] = x[ip_tbl[i]]
    BY Tables, TblReplaceIs, 64 \in Nat
  <2> HIDE DEF y
  <2>2. /\ TblReplace(y, ipr_tbl) \in Bits(64)
        /\ \A i \in 1 .. 64 : TblReplace(y, ipr_tbl)[i] = y[ipr_tbl[i]]
    BY <2>1, Tables, TblReplaceIs, 64 \in Nat
  <2>3. \A i \in 1 .. 64 : ipr_tbl[i] \in 1 .. 64
    BY Tables DEF Picks
  <2>4. \A i \in 1 .. 64 : TblReplace(y, ipr_tbl)[i] = x[i]
    BY <1>1, <2>1, <2>2, <2>3
  <2>5. TblReplace(y, ipr_tbl) = x
    BY <2>2, <2>4, SameBits
  <2> QED
    BY <2>5 DEF y
<1>4. TblReplace(TblReplace(x, ipr_tbl), ip_tbl) = x
  <2> DEFINE y == TblReplace(x, ipr_tbl)
  <2>1. y \in Bits(64) /\ \A i \in 1 .. 64 : y[i] = x[ipr_tbl[i]]
    BY Tables, TblReplaceIs, 64 \in Nat
  <2> HIDE DEF y
  <2>2. /\ TblReplace(y, ip_tbl) \in Bits(64)
        /\ \A i \in 1 .. 64 : TblReplace(y, ip_tbl)[i] = y[ip_tbl[i]]
    BY <2>1, Tables, TblReplaceIs, 64 \in Nat
  <2>3. \A i \in 1 .. 64 : ip_tbl[i] \in 1 .. 64
    BY Tables DEF Picks
  <2>4. \A i \in 1 .. 64 : TblReplace(y, ip_tbl)[i] = x[i]
    BY <1>2, <2>1, <2>2, <2>3
  <2>5. TblReplace(y, ip_tbl) = x
    BY <2>2, <2>4, SameBits
  <2> QED
    BY <2>5 DEF y
<1> QED
  BY <1>3, <1>4

-----------------------------------------------------------------------------
(* The conversions                                                         *)

(* The bits of 255 - n are those of n inverted.                             *)
LEMMA BitIs ==
  ASSUME NEW n \in 0 .. 255, NEW i \in 0 .. 7
  PROVE  Bit(n, i) \in {0, 1} /\ Bit(255 - n, i) = 1 - Bit(n, i)
<1>1. Bit(n, i) \in {0, 1}
  BY DEF Bit
<1>2. Bit(255 - n, 0) = 1 - Bit(n, 0) /\ Bit(255 - n, 1) = 1 - Bit(n, 1)
  BY DEF Bit
<1>3. Bit(255 - n, 2) = 1 - Bit(n, 2) /\ Bit(255 - n, 3) = 1 - Bit(n, 3)
  BY DEF Bit
<1>4. Bit(255 - n, 4) = 1 - Bit(n, 4) /\ Bit(255 - n, 5) = 1 - Bit(n, 5)
  BY DEF Bit
<1>5. Bit(255 - n, 6) = 1 - Bit(n, 6) /\ Bit(255 - n, 7) = 1 - Bit(n, 7)
  BY DEF Bit
<1>6. i \in {0, 1, 2, 3, 4, 5, 6, 7}
  OBVIOUS
<1> QED
  BY <1>1, <1>2, <1>3, <1>4, <1>5, <1>6

(* byte_to_bit gives eight bits of each byte.                               *)
LEMMA ByteToBitIs ==
  ASSUME NEW b \in Bytes
  PROVE  /\ ByteToBit(b) \in Bits(64)
         /\ \A i \in 1 .. 8, j \in 0 .. 7 : ByteToBit(b)[8 * i - 7 + j] = Bit(b[i], j)
<1>1. ByteToBit(b) = [i \in 1 .. 64 |-> Bit(b[(i - 1) \div 8 + 1], (i - 1) % 8)]
  <2>1. Len(b) = 8
    BY DEF Bytes
  <2> QED
    BY <2>1 DEF ByteToBit
<1>2. ASSUME NEW i \in 1 .. 64 PROVE ByteToBit(b)[i] \in {0, 1}
  <2>1. (i - 1) \div 8 + 1 \in 1 .. 8 /\ (i - 1) % 8 \in 0 .. 7
    OBVIOUS
  <2>2. b[(i - 1) \div 8 + 1] \in 0 .. 255
    BY <2>1 DEF Bytes
  <2> QED
    BY <1>1, <2>1, <2>2, BitIs
<1>3. ASSUME NEW i \in 1 .. 8, NEW j \in 0 .. 7
      PROVE  ByteToBit(b)[8 * i - 7 + j] = Bit(b[i], j)
  <2>1. /\ 8 * i - 7 + j \in 1 .. 64
        /\ (8 * i - 7 + j - 1) \div 8 + 1 = i /\ (8 * i - 7 + j - 1) % 8 = j
    OBVIOUS
  <2> QED
    BY <1>1, <2>1
<1>4. ByteToBit(b) \in Bits(64)
  BY <1>1, <1>2 DEF Bits
<1> QED
  BY <1>3, <1>4

(* bit_to_byte undoes byte_to_bit.                                          *)
LEMMA BytesBack ==
  ASSUME NEW b \in Bytes
  PROVE  BitToByte(ByteToBit(b)) = b
<1> DEFINE x == ByteToBit(b)
<1>1. x \in Bits(64) /\ \A i \in 1 .. 8, j \in 0 .. 7 : x[8 * i - 7 + j] = Bit(b[i], j)
  BY ByteToBitIs
<1>2. Len(x) = 64
  BY <1>1, BitsAre
<1> HIDE DEF x
<1>3. BitToByte(x) = [i \in 1 .. 8 |-> Nibble(x, 8 * i - 7) + 16 * Nibble(x, 8 * i - 3)]
  BY <1>2 DEF BitToByte
<1>4. ASSUME NEW i \in 1 .. 8
      PROVE  Nibble(x, 8 * i - 7) + 16 * Nibble(x, 8 * i - 3) = b[i]
  <2> DEFINE n == b[i]
  <2>1. n \in 0 .. 255
    BY DEF Bytes
  <2>2. /\ x[8 * i - 7] = Bit(n, 0) /\ x[8 * i - 7 + 1] = Bit(n, 1)
        /\ x[8 * i - 7 + 2] = Bit(n, 2) /\ x[8 * i - 7 + 3] = Bit(n, 3)
    BY <1>1
  <2>3. /\ x[8 * i - 3] = Bit(n, 4) /\ x[8 * i - 3 + 1] = Bit(n, 5)
        /\ x[8 * i - 3 + 2] = Bit(n, 6) /\ x[8 * i - 3 + 3] = Bit(n, 7)
    <3>1. /\ 8 * i - 3 = 8 * i - 7 + 4 /\ 8 * i - 3 + 1 = 8 * i - 7 + 5
          /\ 8 * i - 3 + 2 = 8 * i - 7 + 6 /\ 8 * i - 3 + 3 = 8 * i - 7 + 7
      OBVIOUS
    <3> QED
      BY <1>1, <3>1
  <2> HIDE DEF n
  <2>4. Bit(n, 0) + 2 * Bit(n, 1) + 4 * Bit(n, 2) + 8 * Bit(n, 3) = n % 16
    BY <2>1 DEF Bit
  <2>5. Bit(n, 4) + 2 * Bit(n, 5) + 4 * Bit(n, 6) + 8 * Bit(n, 7) = n \div 16
    BY <2>1 DEF Bit
  <2>6. Nibble(x, 8 * i - 7) = n % 16 /\ Nibble(x, 8 * i - 3) = n \div 16
    BY <2>2, <2>3, <2>4, <2>5 DEF Nibble
  <2>7. (n % 16) + 16 * (n \div 16) = n
    BY <2>1
  <2> QED
    BY <2>6, <2>7 DEF n
<1>5. b = [i \in 1 .. 8 |-> b[i]]
  BY DEF Bytes
<1> QED
  BY <1>3, <1>4, <1>5 DEF x

(* The bits of the inverted bytes are the inverted bits.                    *)
LEMMA ComplementIs ==
  ASSUME NEW b \in Bytes
  PROVE  Complement(b) \in Bytes /\ ByteToBit(Complement(b)) = Not(ByteToBit(b))
<1>1. Complement(b) \in Bytes /\ \A i \in 1 .. 8 : Complement(b)[i] = 255 - b[i]
  BY DEF Complement, Bytes
<1> DEFINE x == ByteToBit(b)
           y == ByteToBit(Complement(b))
<1>2. x \in Bits(64) /\ \A i \in 1 .. 8, j \in 0 .. 7 : x[8 * i - 7 + j] = Bit(b[i], j)
  BY ByteToBitIs
<1>3. /\ y \in Bits(64)
      /\ \A i \in 1 .. 8, j \in 0 .. 7 : y[8 * i - 7 + j] = Bit(Complement(b)[i], j)
  BY <1>1, ByteToBitIs
<1> HIDE DEF x, y
<1>4. Not(x) \in Bits(64) /\ \A k \in 1 .. 64 : Not(x)[k] = 1 - x[k]
  BY <1>2, BitsAre
<1>5. ASSUME NEW k \in 1 .. 64 PROVE y[k] = Not(x)[k]
  <2>1. PICK i \in 1 .. 8, j \in 0 .. 7 : k = 8 * i - 7 + j
    <3>1. /\ (k - 1) \div 8 + 1 \in 1 .. 8 /\ (k - 1) % 8 \in 0 .. 7
          /\ k = 8 * ((k - 1) \div 8 + 1) - 7 + ((k - 1) % 8)
      OBVIOUS
    <3> QED
      BY <3>1
  <2>2. b[i] \in 0 .. 255
    BY DEF Bytes
  <2>3. y[k] = Bit(255 - b[i], j) /\ x[k] = Bit(b[i], j)
    BY <1>1, <1>2, <1>3, <2>1
  <2>4. Bit(255 - b[i], j) = 1 - Bit(b[i], j)
    BY <2>2, BitIs
  <2> QED
    BY <1>4, <2>3, <2>4
<1>6. y = Not(x)
  BY <1>3, <1>4, <1>5, SameBits
<1> QED
  BY <1>1, <1>6 DEF x, y

(* A hexadecimal digit gives back its four bits.                           *)
LEMMA NibbleIs ==
  ASSUME NEW a \in {0, 1}, NEW b \in {0, 1}, NEW c \in {0, 1}, NEW d \in {0, 1},
         NEW n, n = a + 2 * b + 4 * c + 8 * d
  PROVE  /\ n \in 0 .. 15
         /\ Bit(n, 0) = a /\ Bit(n, 1) = b /\ Bit(n, 2) = c /\ Bit(n, 3) = d
BY DEF Bit

(* hex_to_bit undoes bit_to_hex.                                            *)
LEMMA HexBack ==
  ASSUME NEW x \in Bits(64)
  PROVE  HexToBit(BitToHex(x)) = x
<1> DEFINE n(i) == Nibble(x, 4 * i - 3)
           h == BitToHex(x)
           ch(i) == IF n(i) > 9 THEN n(i) + 55 ELSE n(i) + 48
<1>1. h = [i \in 1 .. 16 |-> ch(i)]
  <2>1. Len(x) = 64
    BY BitsAre, 64 \in Nat
  <2> QED
    BY <2>1 DEF BitToHex
<1>2. ASSUME NEW i \in 1 .. 16
      PROVE  /\ n(i) \in 0 .. 15
             /\ \A j \in 0 .. 3 : Bit(n(i), j) = x[4 * i - 3 + j]
  <2>1. 4 * i - 3 \in 1 .. 64 /\ 4 * i - 3 + 1 \in 1 .. 64 /\ 4 * i - 3 + 2 \in 1 .. 64
        /\ 4 * i - 3 + 3 \in 1 .. 64 /\ 4 * i - 3 + 0 = 4 * i - 3
    OBVIOUS
  <2>2. \A k \in 1 .. 64 : x[k] \in {0, 1}
    BY DEF Bits
  <2> DEFINE k == 4 * i - 3
  <2>3. n(i) = x[k] + 2 * x[k + 1] + 4 * x[k + 2] + 8 * x[k + 3]
    BY DEF Nibble
  <2>4. /\ n(i) \in 0 .. 15
        /\ Bit(n(i), 0) = x[k] /\ Bit(n(i), 1) = x[k + 1]
        /\ Bit(n(i), 2) = x[k + 2] /\ Bit(n(i), 3) = x[k + 3]
    <3> HIDE DEF n, k
    <3>1. x[k] \in {0, 1} /\ x[k + 1] \in {0, 1} /\ x[k + 2] \in {0, 1} /\ x[k + 3] \in {0, 1}
      BY <2>1, <2>2 DEF k
    <3> QED
      BY <2>3, <3>1, NibbleIs
  <2>5. \A j \in 0 .. 3 : j = 0 \/ j = 1 \/ j = 2 \/ j = 3
    OBVIOUS
  <2> HIDE DEF n
  <2> QED
    BY <2>1, <2>4, <2>5
<1> HIDE DEF n
<1>3. ASSUME NEW i \in 1 .. 16
      PROVE  (IF h[i] <= 57 THEN h[i] - 48 ELSE h[i] - 55) = n(i)
  BY <1>1, <1>2
<1> HIDE DEF h
<1>4. Len(h) = 16
  BY <1>1
<1> DEFINE d(i) == IF h[i] <= 57 THEN h[i] - 48 ELSE h[i] - 55
           y == HexToBit(h)
<1>5. y = [k \in 1 .. 64 |-> Bit(d((k - 1) \div 4 + 1), (k - 1) % 4)]
  BY <1>4 DEF HexToBit
<1>6. ASSUME NEW k \in 1 .. 64 PROVE y[k] = x[k]
  <2> DEFINE i == (k - 1) \div 4 + 1
             j == (k - 1) % 4
  <2>1. i \in 1 .. 16 /\ j \in 0 .. 3 /\ 4 * i - 3 + j = k
    OBVIOUS
  <2>2. y[k] = Bit(d(i), j)
    BY <1>5
  <2> HIDE DEF i, j
  <2>3. d(i) = n(i)
    BY <1>3, <2>1
  <2>4. Bit(n(i), j) = x[4 * i - 3 + j]
    BY <1>2, <2>1
  <2> HIDE DEF y, d
  <2> QED
    BY <2>1, <2>2, <2>3, <2>4
<1>7. y = [k \in 1 .. 64 |-> y[k]]
  BY <1>5
<1> HIDE DEF y
<1>8. x = [k \in 1 .. 64 |-> x[k]]
  BY DEF Bits
<1>9. y = x
  BY <1>6, <1>7, <1>8, Zenon
<1> QED
  BY <1>9 DEF y, h

-----------------------------------------------------------------------------
(* The rounds                                                              *)

(* The S boxes hold 64 numbers of four bits each.                           *)
LEMMA SBoxes == \A i \in 1 .. 8 : s_box[i] \in [1 .. 64 -> 0 .. 15]
<1>1. s_box[1] \in [1 .. 64 -> 0 .. 15]
  BY DEF s_box
<1>2. s_box[2] \in [1 .. 64 -> 0 .. 15]
  BY DEF s_box
<1>3. s_box[3] \in [1 .. 64 -> 0 .. 15]
  BY DEF s_box
<1>4. s_box[4] \in [1 .. 64 -> 0 .. 15]
  BY DEF s_box
<1>5. s_box[5] \in [1 .. 64 -> 0 .. 15]
  BY DEF s_box
<1>6. s_box[6] \in [1 .. 64 -> 0 .. 15]
  BY DEF s_box
<1>7. s_box[7] \in [1 .. 64 -> 0 .. 15]
  BY DEF s_box
<1>8. s_box[8] \in [1 .. 64 -> 0 .. 15]
  BY DEF s_box
<1>9. \A i \in 1 .. 8 : i \in {1, 2, 3, 4, 5, 6, 7, 8}
  OBVIOUS
<1> QED
  BY <1>1, <1>2, <1>3, <1>4, <1>5, <1>6, <1>7, <1>8, <1>9

(* s_change finds every entry it looks for inside its box, and gives 32     *)
(* bits.                                                                    *)
LEMMA SChangeIs ==
  ASSUME NEW x \in Bits(48)
  PROVE  SChange(x) \in Bits(32)
<1> DEFINE b(i) == (i - 1) \div 4
           in(i, k) == x[6 * b(i) + k]
           row(i) == 2 * in(i, 1) + in(i, 6)
           col(i) == 8 * in(i, 2) + 4 * in(i, 3) + 2 * in(i, 4) + in(i, 5)
           v(i) == Bit(s_box[b(i) + 1][16 * row(i) + col(i) + 1], (i - 1) % 4)
<1>1. SChange(x) = [i \in 1 .. 32 |-> v(i)]
  BY DEF SChange
<1>2. ASSUME NEW i \in 1 .. 32 PROVE v(i) \in {0, 1}
  <2>1. b(i) + 1 \in 1 .. 8 /\ \A k \in 1 .. 6 : 6 * b(i) + k \in 1 .. 48
    OBVIOUS
  <2>2. \A k \in 1 .. 6 : in(i, k) \in {0, 1}
    BY <2>1 DEF Bits
  <2> HIDE DEF b, in
  <2>3. 16 * row(i) + col(i) + 1 \in 1 .. 64
    BY <2>2
  <2> HIDE DEF row, col
  <2>4. s_box[b(i) + 1][16 * row(i) + col(i) + 1] \in 0 .. 255
    <3>1. s_box[b(i) + 1] \in [1 .. 64 -> 0 .. 15]
      BY <2>1, SBoxes
    <3> DEFINE box == s_box[b(i) + 1]
               k == 16 * row(i) + col(i) + 1
    <3> HIDE DEF box, k
    <3>2. box \in [1 .. 64 -> 0 .. 15] /\ k \in 1 .. 64
      BY <2>3, <3>1 DEF box, k
    <3>3. box[k] \in 0 .. 255
      BY <3>2
    <3> QED
      BY <3>3 DEF box, k
  <2>5. (i - 1) % 4 \in 0 .. 7
    OBVIOUS
  <2> QED
    BY <2>4, <2>5, BitIs
<1> HIDE DEF v
<1> QED
  BY <1>1, <1>2 DEF Bits

(* Whatever the sub-key is, the function of a round gives 32 bits, and the *)
(* same ones when half and sub-key are inverted.                           *)
LEMMA FChangeIs ==
  ASSUME NEW h \in Bits(32), NEW s \in Bits(48)
  PROVE  FChange(h, s) \in Bits(32) /\ FChange(Not(h), Not(s)) = FChange(h, s)
<1> DEFINE e == TblReplace(h, e_tbl)
<1>1. e \in Bits(48) /\ TblReplace(Not(h), e_tbl) = Not(e)
  BY Tables, TblReplaceIs, 32 \in Nat, 48 \in Nat
<1>2. Xor(e, s) \in Bits(48) /\ Xor(Not(e), Not(s)) = Xor(e, s)
  BY <1>1, XorIs, XorLaws, 48 \in Nat
<1>3. SChange(Xor(e, s)) \in Bits(32)
  BY <1>2, SChangeIs
<1>4. TblReplace(SChange(Xor(e, s)), p_tbl) \in Bits(32)
  BY <1>3, Tables, TblReplaceIs, 32 \in Nat
<1> QED
  BY <1>1, <1>2, <1>4 DEF FChange

(* The halves of a message, and a message from two halves.                 *)
LEMMA HalvesAre ==
  ASSUME NEW x \in Bits(64)
  PROVE  /\ Left(x) \in Bits(32) /\ Right(x) \in Bits(32)
         /\ \A i \in 1 .. 32 : Left(x)[i] = x[i] /\ Right(x)[i] = x[32 + i]
<1>1. 64 \in Nat /\ 32 \in Nat /\ 1 \in 1 .. 64 /\ 33 \in 1 .. 64
      /\ 1 + 32 - 1 = 32 /\ 33 + 32 - 1 = 64 /\ 32 <= 64 /\ 64 <= 64
  OBVIOUS
<1>2. Left(x) \in Bits(32) /\ \A i \in 1 .. 32 : Left(x)[i] = x[1 + i - 1]
  BY <1>1, SliceIs DEF Left
<1>3. Right(x) \in Bits(32) /\ \A i \in 1 .. 32 : Right(x)[i] = x[33 + i - 1]
  BY <1>1, SliceIs DEF Right
<1>4. \A i \in 1 .. 32 : 1 + i - 1 = i /\ 33 + i - 1 = 32 + i
  OBVIOUS
<1> QED
  BY <1>2, <1>3, <1>4

(* Messages with the same halves are the same.                              *)
LEMMA SameHalves ==
  ASSUME NEW x \in Bits(64), NEW y \in Bits(64), Left(x) = Left(y), Right(x) = Right(y)
  PROVE  x = y
<1>1. ASSUME NEW i \in 1 .. 64 PROVE x[i] = y[i]
  <2>1. CASE i <= 32
    <3>1. i \in 1 .. 32
      BY <2>1
    <3> QED
      BY <3>1, HalvesAre
  <2>2. CASE i > 32
    <3>1. i - 32 \in 1 .. 32 /\ 32 + (i - 32) = i
      BY <2>2
    <3>2. x[32 + (i - 32)] = Right(x)[i - 32] /\ y[32 + (i - 32)] = Right(y)[i - 32]
      BY <3>1, HalvesAre
    <3> QED
      BY <3>1, <3>2
  <2> QED
    BY <2>1, <2>2
<1> QED
  BY <1>1, SameBits, 64 \in Nat

(* Two halves are those of the message they make.                           *)
LEMMA HalvesOf ==
  ASSUME NEW l \in Bits(32), NEW r \in Bits(32)
  PROVE  l \o r \in Bits(64) /\ Left(l \o r) = l /\ Right(l \o r) = r
<1> DEFINE x == l \o r
<1>1. x \in Bits(32 + 32) /\ \A i \in 1 .. 32 : x[i] = l[i] /\ x[32 + i] = r[i]
  BY ConcatIs, 32 \in Nat
<1>2. 32 + 32 = 64
  OBVIOUS
<1>3. x \in Bits(64)
  BY <1>1, <1>2
<1> HIDE DEF x
<1>4. Left(x) = l /\ Right(x) = r
  BY <1>1, <1>3, HalvesAre, SameBits, 32 \in Nat
<1> QED
  BY <1>3, <1>4 DEF x

(* The halves of the inverted message are the inverted halves.              *)
LEMMA NotHalves ==
  ASSUME NEW x \in Bits(64)
  PROVE  /\ Not(x) \in Bits(64)
         /\ Left(Not(x)) = Not(Left(x)) /\ Right(Not(x)) = Not(Right(x))
<1>1. Not(x) \in Bits(64) /\ \A i \in 1 .. 64 : Not(x)[i] = 1 - x[i]
  BY BitsAre, 64 \in Nat
<1> DEFINE l == Left(x)
           r == Right(x)
           nl == Left(Not(x))
           nr == Right(Not(x))
<1>2. /\ l \in Bits(32) /\ r \in Bits(32)
      /\ \A i \in 1 .. 32 : l[i] = x[i] /\ r[i] = x[32 + i]
  BY HalvesAre
<1>3. /\ nl \in Bits(32) /\ nr \in Bits(32)
      /\ \A i \in 1 .. 32 : nl[i] = Not(x)[i] /\ nr[i] = Not(x)[32 + i]
  BY <1>1, HalvesAre
<1>4. /\ Not(l) \in Bits(32) /\ Not(r) \in Bits(32)
      /\ \A i \in 1 .. 32 : Not(l)[i] = 1 - l[i] /\ Not(r)[i] = 1 - r[i]
  BY <1>2, BitsAre, 32 \in Nat
<1> HIDE DEF l, r, nl, nr
<1>5. \A i \in 1 .. 32 : i \in 1 .. 64 /\ 32 + i \in 1 .. 64
  OBVIOUS
<1>6. \A i \in 1 .. 32 : nl[i] = Not(l)[i] /\ nr[i] = Not(r)[i]
  BY <1>1, <1>2, <1>3, <1>4, <1>5
<1>7. nl = Not(l) /\ nr = Not(r)
  BY <1>3, <1>4, <1>6, SameBits, 32 \in Nat
<1> QED
  BY <1>1, <1>7 DEF l, r, nl, nr

(* A round of decrypt undoes one of encrypt with the same sub-key.         *)
LEMMA RoundUndone ==
  ASSUME NEW x \in Bits(64), NEW s \in Bits(48)
  PROVE  /\ EncryptRound(x, s) \in Bits(64)
         /\ DecryptRound(x, s) \in Bits(64)
         /\ DecryptRound(EncryptRound(x, s), s) = x
<1> DEFINE l == Left(x)
           r == Right(x)
           f == FChange(r, s)
           y == EncryptRound(x, s)
<1>1. l \in Bits(32) /\ r \in Bits(32)
  BY HalvesAre
<1>2. f \in Bits(32) /\ FChange(l, s) \in Bits(32)
  BY <1>1, FChangeIs
<1>3. /\ Xor(f, l) \in Bits(32) /\ Xor(f, Xor(f, l)) = l
      /\ Xor(FChange(l, s), r) \in Bits(32)
  BY <1>1, <1>2, XorIs, XorLaws, 32 \in Nat
<1>4. y = r \o Xor(f, l) /\ DecryptRound(x, s) = Xor(FChange(l, s), r) \o l
  BY DEF EncryptRound, DecryptRound
<1>5. y \in Bits(64) /\ Left(y) = r /\ Right(y) = Xor(f, l)
  BY <1>1, <1>3, <1>4, HalvesOf
<1>6. DecryptRound(x, s) \in Bits(64)
  BY <1>1, <1>3, <1>4, HalvesOf
<1>7. DecryptRound(y, s) = l \o r
  <2>1. DecryptRound(y, s) = Xor(FChange(Left(y), s), Right(y)) \o Left(y)
    BY DEF DecryptRound
  <2> HIDE DEF y
  <2> QED
    BY <1>3, <1>5, <2>1
<1>8. l \o r = x
  BY <1>1, HalvesOf, SameHalves
<1> QED
  BY <1>5, <1>6, <1>7, <1>8

(* With message and sub-key inverted, a round gives the inverse.           *)
LEMMA RoundInverted ==
  ASSUME NEW x \in Bits(64), NEW s \in Bits(48)
  PROVE  EncryptRound(Not(x), Not(s)) = Not(EncryptRound(x, s))
<1> DEFINE l == Left(x)
           r == Right(x)
           f == FChange(r, s)
           y == EncryptRound(x, s)
           z == EncryptRound(Not(x), Not(s))
<1>1. l \in Bits(32) /\ r \in Bits(32) /\ Not(l) \in Bits(32) /\ Not(r) \in Bits(32)
  BY HalvesAre, BitsAre, 32 \in Nat
<1>2. f \in Bits(32) /\ FChange(Not(r), Not(s)) = f
  BY <1>1, FChangeIs
<1>3. Xor(f, l) \in Bits(32) /\ Xor(f, Not(l)) = Not(Xor(f, l)) /\ Xor(f, Not(l)) \in Bits(32)
  BY <1>1, <1>2, XorIs, XorLaws, 32 \in Nat
<1>4. y = r \o Xor(f, l)
  BY DEF EncryptRound
<1>5. z = Not(r) \o Xor(f, Not(l))
  <2>1. Left(Not(x)) = Not(l) /\ Right(Not(x)) = Not(r)
    BY NotHalves
  <2> HIDE DEF l, r, f
  <2> QED
    BY <1>2, <2>1 DEF EncryptRound
<1>6. y \in Bits(64) /\ Left(y) = r /\ Right(y) = Xor(f, l)
  BY <1>1, <1>3, <1>4, HalvesOf
<1>7. z \in Bits(64) /\ Left(z) = Not(r) /\ Right(z) = Xor(f, Not(l))
  BY <1>1, <1>3, <1>5, HalvesOf
<1> HIDE DEF l, r, f, y, z
<1>8. Not(y) \in Bits(64) /\ Left(Not(y)) = Not(r) /\ Right(Not(y)) = Not(Xor(f, l))
  BY <1>6, NotHalves
<1>9. z = Not(y)
  BY <1>3, <1>7, <1>8, SameHalves
<1> QED
  BY <1>9 DEF y, z

(* A part of an inverted word is the inverted part.                         *)
LEMMA NotSlice ==
  ASSUME NEW n \in Nat, NEW x \in Bits(n), NEW a \in 1 .. n, NEW m \in Nat,
         a + m - 1 <= n
  PROVE  SubSeq(Not(x), a, a + m - 1) = Not(SubSeq(x, a, a + m - 1))
<1> DEFINE y == SubSeq(x, a, a + m - 1)
           z == SubSeq(Not(x), a, a + m - 1)
<1>1. Not(x) \in Bits(n) /\ \A i \in 1 .. n : Not(x)[i] = 1 - x[i]
  BY BitsAre
<1>2. y \in Bits(m) /\ \A i \in 1 .. m : y[i] = x[a + i - 1]
  BY SliceIs
<1>3. z \in Bits(m) /\ \A i \in 1 .. m : z[i] = Not(x)[a + i - 1]
  BY <1>1, SliceIs
<1> HIDE DEF y, z
<1>4. Not(y) \in Bits(m) /\ \A i \in 1 .. m : Not(y)[i] = 1 - y[i]
  BY <1>2, BitsAre
<1>5. \A i \in 1 .. m : a + i - 1 \in 1 .. n
  OBVIOUS
<1>6. \A i \in 1 .. m : z[i] = Not(y)[i]
  BY <1>1, <1>2, <1>3, <1>4, <1>5
<1>7. z = Not(y)
  BY <1>3, <1>4, <1>6, SameBits
<1> QED
  BY <1>7 DEF y, z

(* Inverted words one after the other are the inverse of both.              *)
LEMMA NotConcat ==
  ASSUME NEW n \in Nat, NEW m \in Nat, NEW x \in Bits(n), NEW y \in Bits(m)
  PROVE  Not(x) \o Not(y) = Not(x \o y)
<1> DEFINE u == x \o y
           v == Not(x) \o Not(y)
<1>1. /\ Not(x) \in Bits(n) /\ \A i \in 1 .. n : Not(x)[i] = 1 - x[i]
      /\ Not(y) \in Bits(m) /\ \A i \in 1 .. m : Not(y)[i] = 1 - y[i]
  BY BitsAre
<1>2. /\ u \in Bits(n + m) /\ \A i \in 1 .. n : u[i] = x[i]
      /\ \A i \in 1 .. m : u[n + i] = y[i]
  BY ConcatIs
<1>3. /\ v \in Bits(n + m) /\ \A i \in 1 .. n : v[i] = Not(x)[i]
      /\ \A i \in 1 .. m : v[n + i] = Not(y)[i]
  BY <1>1, ConcatIs
<1> HIDE DEF u, v
<1>4. n + m \in Nat /\ Not(u) \in Bits(n + m)
      /\ \A i \in 1 .. n + m : Not(u)[i] = 1 - u[i]
  <2>1. n + m \in Nat
    OBVIOUS
  <2> QED
    BY <1>2, <2>1, BitsAre
<1>5. ASSUME NEW i \in 1 .. n + m PROVE v[i] = Not(u)[i]
  <2>1. CASE i <= n
    BY <1>1, <1>2, <1>3, <1>4, <2>1
  <2>2. CASE i > n
    <3>1. i - n \in 1 .. m /\ n + (i - n) = i
      BY <2>2
    <3>2. v[n + (i - n)] = 1 - y[i - n] /\ u[n + (i - n)] = y[i - n]
      BY <1>1, <1>2, <1>3, <3>1
    <3> QED
      BY <1>4, <3>1, <3>2
  <2> QED
    BY <2>1, <2>2
<1>6. v = Not(u)
  BY <1>2, <1>3, <1>4, <1>5, SameBits
<1> QED
  BY <1>6 DEF u, v

(* loop_bit turns half a key, inverted if it is inverted.                   *)
LEMMA LoopBitIs ==
  ASSUME NEW x \in Bits(28), NEW s \in 1 .. 2
  PROVE  LoopBit(x, s) \in Bits(28) /\ LoopBit(Not(x), s) = Not(LoopBit(x, s))
<1> DEFINE n == 28
           m == n - s
<1>1. n \in Nat /\ m \in Nat /\ s \in Nat /\ s + 1 \in 1 .. n /\ 1 \in 1 .. n
      /\ (s + 1) + m - 1 = n /\ 1 + s - 1 = s /\ m + s = n /\ s <= n /\ n <= n
  OBVIOUS
<1>2. x \in Bits(n) /\ Not(x) \in Bits(n)
  BY BitsAre, 28 \in Nat
<1>3. Len(x) = n /\ Len(Not(x)) = n
  BY <1>2, BitsAre, 28 \in Nat
<1> HIDE DEF n, m
<1> DEFINE u == SubSeq(x, s + 1, n)
           v == SubSeq(x, 1, s)
<1>4. u \in Bits(m) /\ SubSeq(Not(x), s + 1, n) = Not(u)
  <2>1. /\ SubSeq(x, s + 1, (s + 1) + m - 1) \in Bits(m)
        /\ SubSeq(Not(x), s + 1, (s + 1) + m - 1) = Not(SubSeq(x, s + 1, (s + 1) + m - 1))
    BY <1>1, <1>2, SliceIs, NotSlice
  <2> QED
    BY <1>1, <2>1
<1>5. v \in Bits(s) /\ SubSeq(Not(x), 1, s) = Not(v)
  <2>1. /\ SubSeq(x, 1, 1 + s - 1) \in Bits(s)
        /\ SubSeq(Not(x), 1, 1 + s - 1) = Not(SubSeq(x, 1, 1 + s - 1))
    BY <1>1, <1>2, SliceIs, NotSlice
  <2> QED
    BY <1>1, <2>1
<1>6. LoopBit(x, s) = u \o v /\ LoopBit(Not(x), s) = Not(u) \o Not(v)
  BY <1>3, <1>4, <1>5 DEF LoopBit
<1> HIDE DEF u, v
<1>7. u \o v \in Bits(m + s) /\ Not(u) \o Not(v) = Not(u \o v)
  BY <1>1, <1>4, <1>5, ConcatIs, NotConcat
<1>8. Bits(m + s) = Bits(28)
  BY <1>1 DEF n
<1> QED
  BY <1>6, <1>7, <1>8

(* So are both halves turned.                                               *)
LEMMA TurnIs ==
  ASSUME NEW x \in Bits(56), NEW s \in 1 .. 2
  PROVE  Turn(x, s) \in Bits(56) /\ Turn(Not(x), s) = Not(Turn(x, s))
<1> DEFINE n == 56
           m == 28
           a == 29
           u == SubSeq(x, 1, m)
           v == SubSeq(x, a, n)
<1>1. n \in Nat /\ m \in Nat /\ 1 \in 1 .. n /\ a \in 1 .. n /\ m + m = n
      /\ 1 + m - 1 = m /\ a + m - 1 = n /\ m <= n /\ n <= n /\ x \in Bits(n)
  OBVIOUS
<1> HIDE DEF n, m, a
<1>2. u \in Bits(m) /\ SubSeq(Not(x), 1, m) = Not(u)
  <2>1. /\ SubSeq(x, 1, 1 + m - 1) \in Bits(m)
        /\ SubSeq(Not(x), 1, 1 + m - 1) = Not(SubSeq(x, 1, 1 + m - 1))
    BY <1>1, SliceIs, NotSlice
  <2> QED
    BY <1>1, <2>1
<1>3. v \in Bits(m) /\ SubSeq(Not(x), a, n) = Not(v)
  <2>1. /\ SubSeq(x, a, a + m - 1) \in Bits(m)
        /\ SubSeq(Not(x), a, a + m - 1) = Not(SubSeq(x, a, a + m - 1))
    BY <1>1, SliceIs, NotSlice
  <2> QED
    BY <1>1, <2>1
<1> DEFINE lu == LoopBit(u, s)
           lv == LoopBit(v, s)
<1>4. Turn(x, s) = lu \o lv
  BY DEF Turn, n, m, a
<1>5. Turn(Not(x), s) = LoopBit(Not(u), s) \o LoopBit(Not(v), s)
  BY <1>2, <1>3 DEF Turn, n, m, a
<1> HIDE DEF u, v
<1>6. /\ lu \in Bits(m) /\ LoopBit(Not(u), s) = Not(lu)
      /\ lv \in Bits(m) /\ LoopBit(Not(v), s) = Not(lv)
  BY <1>2, <1>3, LoopBitIs DEF m
<1> HIDE DEF lu, lv
<1>7. lu \o lv \in Bits(m + m) /\ Not(lu) \o Not(lv) = Not(lu \o lv)
  BY <1>1, <1>6, ConcatIs, NotConcat
<1> QED
  BY <1>1, <1>4, <1>5, <1>6, <1>7 DEF n

SubKeys == [1 .. 16 -> Bits(48)]

(* The loop of set_key.                                                    *)
LEMMA TurnedIs ==
  ASSUME NEW x \in Bits(56)
  PROVE  /\ Turned(x) \in [0 .. 16 -> Bits(56)]
         /\ Turned(x)[0] = x
         /\ \A k \in 1 .. 16 : Turned(x)[k] = Turn(Turned(x)[k - 1], mv_tbl[k])
<1> DEFINE w(k) == mv_tbl[k]
           step == [k \in 1 .. 16 |-> [y \in Bits(56) |-> Turn(y, w(k))]]
<1>1. 16 \in Nat /\ \A k \in 1 .. 16 : w(k) \in 1 .. 2
  BY Tables
<1> HIDE DEF w
<1>2. \A k \in 1 .. 16, y \in Bits(56) : Turn(y, w(k)) \in Bits(56)
  BY <1>1, TurnIs
<1>3. step \in [1 .. 16 -> [Bits(56) -> Bits(56)]]
  BY <1>2
<1>4. \A k \in 1 .. 16, y \in Bits(56) : step[k][y] = Turn(y, w(k))
  OBVIOUS
<1> HIDE DEF step
<1>5. PICK f : Runs(f, 16, Bits(56), x, step)
  BY <1>1, <1>3, LoopRuns
<1> DEFINE d(g) == [k \in 0 .. 16 |-> IF k = 0 THEN x ELSE Turn(g[k - 1], w(k))]
<1>6. ASSUME NEW g PROVE Unfolds(d(g), g, 16, Bits(56), x, step)
  <2>1. d(g) = [k \in 0 .. 16 |-> d(g)[k]] /\ d(g)[0] = x
    OBVIOUS
  <2>2. \A k \in 1 .. 16 : d(g)[k] = Turn(g[k - 1], w(k))
    OBVIOUS
  <2> HIDE DEF d
  <2> QED
    BY <1>4, <2>1, <2>2, Zenon DEF Unfolds
<1> DEFINE m == Turned(x)
<1>7. m = CHOOSE g : g = d(g)
  BY DEF Turned, w
<1> HIDE DEF d, m
<1>8. f = d(f)
  BY <1>1, <1>5, <1>6, LoopUnfolds
<1>9. m = d(m)
  BY <1>7, <1>8
<1>10. Runs(m, 16, Bits(56), x, step)
  BY <1>1, <1>3, <1>6, <1>9, LoopIs
<1>11. \A k \in 1 .. 16 : m[k - 1] \in Bits(56)
  BY <1>10 DEF Runs
<1> QED
  BY <1>4, <1>10, <1>11, Zenon DEF Runs, m, w

(* The loop of encrypt.                                                    *)
LEMMA EncryptRoundsAre ==
  ASSUME NEW x \in Bits(64), NEW sub \in SubKeys
  PROVE  /\ EncryptRounds(x, sub) \in [0 .. 16 -> Bits(64)]
         /\ EncryptRounds(x, sub)[0] = x
         /\ \A k \in 1 .. 16 :
              EncryptRounds(x, sub)[k] = EncryptRound(EncryptRounds(x, sub)[k - 1], sub[k])
<1> DEFINE w(k) == sub[k]
           step == [k \in 1 .. 16 |-> [y \in Bits(64) |-> EncryptRound(y, w(k))]]
<1>1. 16 \in Nat /\ \A k \in 1 .. 16 : w(k) \in Bits(48)
  BY DEF SubKeys
<1> HIDE DEF w
<1>2. \A k \in 1 .. 16, y \in Bits(64) : EncryptRound(y, w(k)) \in Bits(64)
  BY <1>1, RoundUndone
<1>3. step \in [1 .. 16 -> [Bits(64) -> Bits(64)]]
  BY <1>2
<1>4. \A k \in 1 .. 16, y \in Bits(64) : step[k][y] = EncryptRound(y, w(k))
  OBVIOUS
<1> HIDE DEF step
<1>5. PICK f : Runs(f, 16, Bits(64), x, step)
  BY <1>1, <1>3, LoopRuns
<1> DEFINE d(g) == [k \in 0 .. 16 |-> IF k = 0 THEN x ELSE EncryptRound(g[k - 1], w(k))]
<1>6. ASSUME NEW g PROVE Unfolds(d(g), g, 16, Bits(64), x, step)
  <2>1. d(g) = [k \in 0 .. 16 |-> d(g)[k]] /\ d(g)[0] = x
    OBVIOUS
  <2>2. \A k \in 1 .. 16 : d(g)[k] = EncryptRound(g[k - 1], w(k))
    OBVIOUS
  <2> HIDE DEF d
  <2> QED
    BY <1>4, <2>1, <2>2, Zenon DEF Unfolds
<1> DEFINE m == EncryptRounds(x, sub)
<1>7. m = CHOOSE g : g = d(g)
  BY DEF EncryptRounds, w
<1> HIDE DEF d, m
<1>8. f = d(f)
  BY <1>1, <1>5, <1>6, LoopUnfolds
<1>9. m = d(m)
  BY <1>7, <1>8
<1>10. Runs(m, 16, Bits(64), x, step)
  BY <1>1, <1>3, <1>6, <1>9, LoopIs
<1>11. \A k \in 1 .. 16 : m[k - 1] \in Bits(64)
  BY <1>10 DEF Runs
<1> QED
  BY <1>4, <1>10, <1>11, Zenon DEF Runs, m, w

(* The loop of decrypt.                                                    *)
LEMMA DecryptRoundsAre ==
  ASSUME NEW x \in Bits(64), NEW sub \in SubKeys
  PROVE  /\ DecryptRounds(x, sub) \in [0 .. 16 -> Bits(64)]
         /\ DecryptRounds(x, sub)[0] = x
         /\ \A k \in 1 .. 16 :
              DecryptRounds(x, sub)[k] = DecryptRound(DecryptRounds(x, sub)[k - 1], sub[17 - k])
<1> DEFINE w(k) == sub[17 - k]
           step == [k \in 1 .. 16 |-> [y \in Bits(64) |-> DecryptRound(y, w(k))]]
<1>1. 16 \in Nat /\ \A k \in 1 .. 16 : w(k) \in Bits(48)
  BY DEF SubKeys
<1> HIDE DEF w
<1>2. \A k \in 1 .. 16, y \in Bits(64) : DecryptRound(y, w(k)) \in Bits(64)
  BY <1>1, RoundUndone
<1>3. step \in [1 .. 16 -> [Bits(64) -> Bits(64)]]
  BY <1>2
<1>4. \A k \in 1 .. 16, y \in Bits(64) : step[k][y] = DecryptRound(y, w(k))
  OBVIOUS
<1> HIDE DEF step
<1>5. PICK f : Runs(f, 16, Bits(64), x, step)
  BY <1>1, <1>3, LoopRuns
<1> DEFINE d(g) == [k \in 0 .. 16 |-> IF k = 0 THEN x ELSE DecryptRound(g[k - 1], w(k))]
<1>6. ASSUME NEW g PROVE Unfolds(d(g), g, 16, Bits(64), x, step)
  <2>1. d(g) = [k \in 0 .. 16 |-> d(g)[k]] /\ d(g)[0] = x
    OBVIOUS
  <2>2. \A k \in 1 .. 16 : d(g)[k] = DecryptRound(g[k - 1], w(k))
    OBVIOUS
  <2> HIDE DEF d
  <2> QED
    BY <1>4, <2>1, <2>2, Zenon DEF Unfolds
<1> DEFINE m == DecryptRounds(x, sub)
<1>7. m = CHOOSE g : g = d(g)
  BY DEF DecryptRounds, w
<1> HIDE DEF d, m
<1>8. f = d(f)
  BY <1>1, <1>5, <1>6, LoopUnfolds
<1>9. m = d(m)
  BY <1>7, <1>8
<1>10. Runs(m, 16, Bits(64), x, step)
  BY <1>1, <1>3, <1>6, <1>9, LoopIs
<1>11. \A k \in 1 .. 16 : m[k - 1] \in Bits(64)
  BY <1>10 DEF Runs
<1> QED
  BY <1>4, <1>10, <1>11, Zenon DEF Runs, m, w

(* The rounds of decrypt go back through the rounds of encrypt.            *)
LEMMA RoundsUndone ==
  ASSUME NEW x \in Bits(64), NEW sub \in SubKeys
  PROVE  DecryptRounds(EncryptRounds(x, sub)[16], sub)[16] = x
<1> DEFINE e == EncryptRounds(x, sub)
           y == e[16]
           d == DecryptRounds(y, sub)
           T == {k \in 0 .. 16 : d[k] = e[16 - k]}
<1>1. /\ e \in [0 .. 16 -> Bits(64)] /\ e[0] = x
      /\ \A k \in 1 .. 16 : e[k] = EncryptRound(e[k - 1], sub[k])
  BY EncryptRoundsAre
<1> HIDE DEF e
<1>2. y \in Bits(64)
  BY <1>1
<1> HIDE DEF y
<1>3. d[0] = y /\ \A k \in 1 .. 16 : d[k] = DecryptRound(d[k - 1], sub[17 - k])
  BY <1>2, DecryptRoundsAre
<1> HIDE DEF d
<1>4. 0 \in T
  BY <1>3 DEF y
<1>5. ASSUME NEW k \in 1 .. 16, k - 1 \in T PROVE k \in T
  <2> DEFINE j == 17 - k
  <2>1. j \in 1 .. 16 /\ 16 - (k - 1) = j /\ 16 - k = j - 1 /\ j - 1 \in 0 .. 16
    OBVIOUS
  <2>2. d[k] = DecryptRound(e[j], sub[j])
    BY <1>3, <1>5, <2>1
  <2> HIDE DEF j
  <2>3. e[j] = EncryptRound(e[j - 1], sub[j]) /\ e[j - 1] \in Bits(64) /\ sub[j] \in Bits(48)
    BY <1>1, <2>1 DEF SubKeys
  <2>4. DecryptRound(EncryptRound(e[j - 1], sub[j]), sub[j]) = e[j - 1]
    BY <2>3, RoundUndone
  <2> QED
    BY <2>1, <2>2, <2>3, <2>4
<1>6. \A k \in 1 .. 16 : k - 1 \in T => k \in T
  BY <1>5
<1> HIDE DEF T
<1>7. \A k \in 0 .. 16 : k \in T
  BY <1>4, <1>6, LoopInduction, 16 \in Nat
<1>8. d[16] = e[0]
  BY <1>7 DEF T
<1> QED
  BY <1>1, <1>8 DEF d, y, e

(* With message and sub-keys inverted, every round gives the inverse.      *)
LEMMA RoundsInverted ==
  ASSUME NEW x \in Bits(64), NEW sub \in SubKeys, NEW neg \in SubKeys,
         \A k \in 1 .. 16 : neg[k] = Not(sub[k])
  PROVE  EncryptRounds(Not(x), neg)[16] = Not(EncryptRounds(x, sub)[16])
<1> DEFINE e == EncryptRounds(x, sub)
           d == EncryptRounds(Not(x), neg)
           T == {k \in 0 .. 16 : d[k] = Not(e[k])}
<1>1. /\ e \in [0 .. 16 -> Bits(64)] /\ e[0] = x
      /\ \A k \in 1 .. 16 : e[k] = EncryptRound(e[k - 1], sub[k])
  BY EncryptRoundsAre
<1>2. Not(x) \in Bits(64)
  BY BitsAre, 64 \in Nat
<1>3. d[0] = Not(x) /\ \A k \in 1 .. 16 : d[k] = EncryptRound(d[k - 1], neg[k])
  BY <1>2, EncryptRoundsAre
<1> HIDE DEF d, e
<1>4. 0 \in T
  BY <1>1, <1>3
<1>5. ASSUME NEW k \in 1 .. 16, k - 1 \in T PROVE k \in T
  <2>1. e[k - 1] \in Bits(64) /\ sub[k] \in Bits(48)
    BY <1>1 DEF SubKeys
  <2>2. EncryptRound(Not(e[k - 1]), Not(sub[k])) = Not(EncryptRound(e[k - 1], sub[k]))
    BY <2>1, RoundInverted
  <2> QED
    BY <1>1, <1>3, <1>5, <2>2
<1>6. \A k \in 1 .. 16 : k - 1 \in T => k \in T
  BY <1>5
<1> HIDE DEF T
<1>7. \A k \in 0 .. 16 : k \in T
  BY <1>4, <1>6, LoopInduction, 16 \in Nat
<1> QED
  BY <1>7 DEF T, d, e

(* A permutation of the message, and its bits inverted.                    *)
LEMMA PermutedIs ==
  ASSUME NEW x \in Bits(64), NEW t \in Picks(64, 64)
  PROVE  TblReplace(x, t) \in Bits(64) /\ TblReplace(Not(x), t) = Not(TblReplace(x, t))
BY TblReplaceIs, 64 \in Nat

(* The 56 bits that set_key picks of a key.                                 *)
LEMMA SelectedIs ==
  ASSUME NEW x \in Bits(64)
  PROVE  /\ TblReplace(x, pc1_tbl) \in Bits(56)
         /\ TblReplace(Not(x), pc1_tbl) = Not(TblReplace(x, pc1_tbl))
BY Tables, TblReplaceIs, 64 \in Nat, 56 \in Nat

(* The 48 bits that make a sub-key.                                         *)
LEMMA CompressedIs ==
  ASSUME NEW x \in Bits(56)
  PROVE  /\ TblReplace(x, pc2_tbl) \in Bits(48)
         /\ TblReplace(Not(x), pc2_tbl) = Not(TblReplace(x, pc2_tbl))
BY Tables, TblReplaceIs, 56 \in Nat, 48 \in Nat

(* The sub-keys of the inverted key are the inverted sub-keys.             *)
LEMMA SubKeysAre ==
  ASSUME NEW key \in Bytes
  PROVE  /\ SetKey(key) \in SubKeys /\ SetKey(Complement(key)) \in SubKeys
         /\ \A k \in 1 .. 16 : SetKey(Complement(key))[k] = Not(SetKey(key)[k])
<1> DEFINE x == ByteToBit(key)
           y == TblReplace(x, pc1_tbl)
           t == Turned(y)
           nt == Turned(Not(y))
           T == {k \in 0 .. 16 : nt[k] = Not(t[k])}
<1>1. x \in Bits(64) /\ Not(x) \in Bits(64) /\ ByteToBit(Complement(key)) = Not(x)
  BY ByteToBitIs, ComplementIs
<1>2. y \in Bits(56) /\ Not(y) \in Bits(56) /\ TblReplace(Not(x), pc1_tbl) = Not(y)
  <2>1. y \in Bits(56) /\ TblReplace(Not(x), pc1_tbl) = Not(y)
    <3> HIDE DEF x
    <3> QED
      BY <1>1, SelectedIs
  <2> HIDE DEF y
  <2> QED
    BY <2>1, BitsAre, 56 \in Nat
<1>3. /\ SetKey(key) = [k \in 1 .. 16 |-> TblReplace(t[k], pc2_tbl)]
      /\ SetKey(Complement(key)) = [k \in 1 .. 16 |-> TblReplace(nt[k], pc2_tbl)]
  BY <1>1, <1>2 DEF SetKey
<1> HIDE DEF y
<1>4. /\ t \in [0 .. 16 -> Bits(56)] /\ t[0] = y
      /\ \A k \in 1 .. 16 : t[k] = Turn(t[k - 1], mv_tbl[k])
  BY <1>2, TurnedIs
<1>5. /\ nt \in [0 .. 16 -> Bits(56)] /\ nt[0] = Not(y)
      /\ \A k \in 1 .. 16 : nt[k] = Turn(nt[k - 1], mv_tbl[k])
  BY <1>2, TurnedIs
<1> HIDE DEF t, nt
<1>6. 0 \in T
  BY <1>4, <1>5
<1>7. ASSUME NEW k \in 1 .. 16, k - 1 \in T PROVE k \in T
  <2>1. t[k - 1] \in Bits(56) /\ mv_tbl[k] \in 1 .. 2
    <3>1. mv_tbl \in [1 .. 16 -> 1 .. 2]
      BY Tables
    <3> QED
      BY <1>4, <3>1
  <2>2. Turn(Not(t[k - 1]), mv_tbl[k]) = Not(Turn(t[k - 1], mv_tbl[k]))
    BY <2>1, TurnIs
  <2> QED
    BY <1>4, <1>5, <1>7, <2>2
<1>8. \A k \in 1 .. 16 : k - 1 \in T => k \in T
  BY <1>7
<1> HIDE DEF T
<1>9. \A k \in 0 .. 16 : k \in T
  BY <1>6, <1>8, LoopInduction, 16 \in Nat
<1>10. ASSUME NEW k \in 1 .. 16
       PROVE  /\ TblReplace(t[k], pc2_tbl) \in Bits(48)
              /\ TblReplace(nt[k], pc2_tbl) \in Bits(48)
              /\ TblReplace(nt[k], pc2_tbl) = Not(TblReplace(t[k], pc2_tbl))
  <2>1. t[k] \in Bits(56) /\ nt[k] \in Bits(56) /\ nt[k] = Not(t[k])
    BY <1>4, <1>5, <1>9 DEF T
  <2> QED
    BY <2>1, CompressedIs
<1> QED
  BY <1>3, <1>10 DEF SubKeys

(* The bits of a cypher text, between the two permutations.                *)
LEMMA CypherIs ==
  ASSUME NEW plain \in Bytes, NEW sub \in SubKeys
  PROVE  LET m == EncryptRounds(TblReplace(ByteToBit(plain), ip_tbl), sub)[16]
         IN  /\ TblReplace(ByteToBit(plain), ip_tbl) \in Bits(64)
             /\ m \in Bits(64)
             /\ HexToBit(Encrypt(plain, sub)) = TblReplace(m, ipr_tbl)
<1> DEFINE x == ByteToBit(plain)
           y == TblReplace(x, ip_tbl)
           m == EncryptRounds(y, sub)[16]
           z == TblReplace(m, ipr_tbl)
<1>1. x \in Bits(64)
  BY ByteToBitIs
<1>2. ip_tbl \in Picks(64, 64) /\ ipr_tbl \in Picks(64, 64)
  BY Tables
<1>3. Encrypt(plain, sub) = BitToHex(z)
  BY DEF Encrypt
<1> HIDE DEF x
<1>4. y \in Bits(64)
  BY <1>1, <1>2, PermutedIs
<1> HIDE DEF y
<1>5. m \in Bits(64)
  BY <1>4, EncryptRoundsAre
<1> HIDE DEF m
<1>6. z \in Bits(64)
  BY <1>2, <1>5, PermutedIs
<1> HIDE DEF z
<1>7. HexToBit(Encrypt(plain, sub)) = z
  BY <1>3, <1>6, HexBack
<1> QED
  BY <1>4, <1>5, <1>7 DEF x, y, m, z

(* decrypt gives back the message.                                         *)
LEMMA Deciphers ==
  ASSUME NEW plain \in Bytes, NEW sub \in SubKeys
  PROVE  Decrypt(Encrypt(plain, sub), sub) = plain
<1> DEFINE x == ByteToBit(plain)
           y == TblReplace(x, ip_tbl)
           m == EncryptRounds(y, sub)[16]
           c == Encrypt(plain, sub)
           w == TblReplace(HexToBit(c), ip_tbl)
<1>1. x \in Bits(64) /\ BitToByte(x) = plain
  BY ByteToBitIs, BytesBack
<1>2. y \in Bits(64) /\ m \in Bits(64) /\ HexToBit(c) = TblReplace(m, ipr_tbl)
  BY CypherIs
<1>3. TblReplace(y, ipr_tbl) = x
  <2> HIDE DEF x
  <2> QED
    BY <1>1, Permutations
<1> HIDE DEF x, y
<1>4. DecryptRounds(m, sub)[16] = y
  BY <1>2, RoundsUndone
<1> HIDE DEF m
<1>5. w = m
  BY <1>2, Permutations
<1>6. Decrypt(c, sub) = BitToByte(TblReplace(DecryptRounds(w, sub)[16], ipr_tbl))
  BY DEF Decrypt
<1> HIDE DEF w, c
<1>7. Decrypt(c, sub) = plain
  BY <1>1, <1>3, <1>4, <1>5, <1>6
<1> QED
  BY <1>7 DEF c

(* The inverted message under the inverted key gives the inverted cypher   *)
(* text.                                                                   *)
LEMMA InvertedCypher ==
  ASSUME NEW plain \in Bytes, NEW key \in Bytes
  PROVE  HexToBit(Encrypt(Complement(plain), SetKey(Complement(key))))
           = [i \in 1 .. 64 |-> 1 - HexToBit(Encrypt(plain, SetKey(key)))[i]]
<1> DEFINE sub == SetKey(key)
           neg == SetKey(Complement(key))
           x == ByteToBit(plain)
           y == TblReplace(x, ip_tbl)
           m == EncryptRounds(y, sub)[16]
           z == TblReplace(m, ipr_tbl)
           c == HexToBit(Encrypt(plain, sub))
           nc == HexToBit(Encrypt(Complement(plain), neg))
<1>1. /\ sub \in SubKeys /\ neg \in SubKeys
      /\ \A k \in 1 .. 16 : neg[k] = Not(sub[k])
  BY SubKeysAre
<1> HIDE DEF sub, neg
<1>2. /\ x \in Bits(64) /\ Complement(plain) \in Bytes
      /\ ByteToBit(Complement(plain)) = Not(x)
  BY ByteToBitIs, ComplementIs
<1>3. ip_tbl \in Picks(64, 64) /\ ipr_tbl \in Picks(64, 64)
  BY Tables
<1>4. y \in Bits(64) /\ m \in Bits(64) /\ c = z
  BY <1>1, CypherIs
<1>5. TblReplace(Not(x), ip_tbl) = Not(y)
  <2> HIDE DEF x
  <2> QED
    BY <1>2, <1>3, PermutedIs
<1>6. nc = TblReplace(EncryptRounds(Not(y), neg)[16], ipr_tbl)
  <2> HIDE DEF x, y
  <2> QED
    BY <1>1, <1>2, <1>5, CypherIs
<1> HIDE DEF x, y, c, nc
<1>7. EncryptRounds(Not(y), neg)[16] = Not(m)
  BY <1>1, <1>4, RoundsInverted
<1> HIDE DEF m
<1>8. z \in Bits(64) /\ TblReplace(Not(m), ipr_tbl) = Not(z)
  BY <1>3, <1>4, PermutedIs
<1> HIDE DEF z
<1>9. nc = Not(c) /\ DOMAIN c = 1 .. 64
  <2>1. nc = Not(z)
    BY <1>6, <1>7, <1>8
  <2>2. DOMAIN z = 1 .. 64
    BY <1>8 DEF Bits
  <2> QED
    BY <1>4, <2>1, <2>2
<1>10. nc = [i \in 1 .. 64 |-> 1 - c[i]]
  BY <1>9 DEF Not
<1> QED
  BY <1>10 DEF c, nc, sub, neg

(* A call of encrypt and what it returned.                                 *)
DesInv ==
  /\ call.key \in DesKeys /\ call.plain \in Plains
  /\ result # <<>> => result[1] = Encrypt(call.plain, SetKey(call.key))

(* For every key and every message: decrypt undoes encrypt, and inverting  *)
(* key and message inverts the cypher text.                                *)
THEOREM CypherIsRight == DesSpec => []CipherLaws
<1>1. DesInit => DesInv
  BY DEF DesInit, DesInv
<1>2. DesInv /\ [DesNext]_callVars => DesInv'
  <2> SUFFICES ASSUME DesInv, [DesNext]_callVars PROVE DesInv'
    OBVIOUS
  <2>1. CASE DesNext
    BY <2>1 DEF DesNext, Asked, Return, DesInv
  <2>2. CASE UNCHANGED callVars
    BY <2>2 DEF callVars, DesInv
  <2> QED
    BY <2>1, <2>2
<1>3. DesInv => CipherLaws
  <2> SUFFICES ASSUME DesInv, Returned("encrypt")
               PROVE  /\ Decrypt(result[1], SetKey(call.key)) = call.plain
                      /\ HexToBit(Encrypt(Complement(call.plain), SetKey(Complement(call.key))))
                           = [i \in 1 .. 64 |-> 1 - HexToBit(result[1])[i]]
    BY DEF CipherLaws
  <2>1. result[1] = Encrypt(call.plain, SetKey(call.key))
    BY DEF DesInv, Returned
  <2>2. call.key \in Bytes /\ call.plain \in Bytes
    BY DesAssumption DEF DesInv, Bytes
  <2>3. SetKey(call.key) \in SubKeys
    BY <2>2, SubKeysAre
  <2>4. Decrypt(result[1], SetKey(call.key)) = call.plain
    BY <2>1, <2>2, <2>3, Deciphers
  <2>5. HexToBit(Encrypt(Complement(call.plain), SetKey(Complement(call.key))))
          = [i \in 1 .. 64 |-> 1 - HexToBit(Encrypt(call.plain, SetKey(call.key)))[i]]
    BY <2>2, InvertedCypher
  <2> QED
    BY <2>1, <2>4, <2>5, Zenon
<1> QED
  BY <1>1, <1>2, <1>3, PTL DEF DesSpec
====
