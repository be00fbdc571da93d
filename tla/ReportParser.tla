----------------------------- MODULE ReportParser -----------------------------
(***************************************************************************)
(* The parsers of a meter report, a string of hex digits cut into fields   *)
(* of fixed width: cpp/http/dtparser.c (cpp/dtprs/dtparser.c is the same   *)
(* program) and py/dt_parser.py.                                           *)
(*                                                                         *)
(* A report is its length and the characters the parsers look at.  A field *)
(* is the interval of positions it was cut from.  Beyond the end of the    *)
(* report Python slices empty fields.  So does the C of the server, which  *)
(* has the body in a buffer filled with zeros; the program dtprs/main.c    *)
(* and the library that dtprs/dtparser.py loads pass the report as it is,  *)
(* and what lies behind its terminator is anything: then, and when a text  *)
(* outgrows its static buffer, the result is Undefined.                    *)
(***************************************************************************)
EXTENDS Call, FiniteSetsExt

CONSTANTS
  Lengths,   \* lengths of reports
  Ctrls,     \* values of the two characters at 2, as <<char, char>>
  Seqs,      \* values of the two characters at 14
  Ids        \* values of the four characters of an id, at 20 or 66

ASSUME ReportAssumption ==
  /\ Lengths \subseteq Nat
  /\ Ctrls \cup Seqs \subseteq [1 .. 2 -> STRING \ {""}]
  /\ Ids \subseteq [1 .. 4 -> STRING \ {""}]

Reports == [len : Lengths, ctrl : Ctrls, seq : Seqs, id20 : Ids, id66 : Ids]

(* The characters of t, which stands at position p, as far as the report   *)
(* goes; "" beyond its end.                                                *)
Clip(r, t, p) == [k \in DOMAIN t |-> IF p + k - 1 < r.len THEN t[k] ELSE ""]

Ctrl(r) == Clip(r, r.ctrl, 2)
Seqno(r) == Clip(r, r.seq, 14)

(* The id of a data union that starts at i, which is 16 or 62.             *)
IdAt(r, i) ==
  IF i = 16 THEN Clip(r, r.id20, 20) ELSE Clip(r, r.id66, 66)

-----------------------------------------------------------------------------
(* strncat(dt, s+i, w), or s[i:i+w].                                       *)
Slice(r, key, i, w) ==
  [key |-> key, start |-> i,
   from |-> Min({i, r.len}), to |-> Min({i + w, r.len})]

(* What the cursor has moved by behind the first k fields of a layout,     *)
(* which is a sequence of <<key, width of the cut, move of the cursor>>.   *)
Moved(layout) ==
  LET moved[k \in 0 .. Len(layout)] ==
        IF k = 0 THEN 0 ELSE moved[k - 1] + layout[k][3]
  IN moved

Width(layout) == Moved(layout)[Len(layout)]

(* The fields of a layout from i on.                                       *)
Cut(r, layout, i) ==
  [k \in 1 .. Len(layout) |->
     Slice(r, layout[k][1], i + Moved(layout)[k - 1], layout[k][2])]

(* strcat(dt, s+i), or s[i:].                                              *)
ToEnd(r, key, i) == <<Slice(r, key, i, r.len)>>

(* The number of characters from i on.                                     *)
Rest(r, i) == r.len - Min({i, r.len})

(* A result: whether it is defined, whether it is JSON, the fields of the  *)
(* object, those of "ext".                                                 *)
Json(fields, ext) == [def |-> TRUE, ok |-> TRUE, fields |-> fields, ext |-> ext]
NotJson(fields) == [def |-> TRUE, ok |-> FALSE, fields |-> fields, ext |-> <<>>]
Undefined == [def |-> FALSE, ok |-> FALSE, fields |-> <<>>, ext |-> <<>>]

-----------------------------------------------------------------------------
(* dtparser.c                                                              *)

CHeader ==
  <<<<"cr", 2, 2>>, <<"ctrl", 2, 2>>, <<"l", 2, 2>>, <<"c", 4, 4>>,
    <<"r", 4, 4>>, <<"seq", 2, 2>>>>

CUnion ==
  <<<<"ctrl", 2, 2>>, <<"n", 2, 2>>, <<"id", 4, 4>>>>

(* Mutant: behind fV the cursor is moved as for flwRtStd.                  *)
CObjectSlips ==
  <<<<"time", 12, 12>>, <<"sts", 8, 8>>, <<"iVStd", 16, 16>>,
    <<"iV", 16, 16>>, <<"fVStd", 16, 16>>, <<"fV", 16, 8>>,
    <<"flwRtStd", 8, 8>>, <<"flwRt", 8, 8>>, <<"t", 8, 8>>, <<"p", 8, 8>>,
    <<"engSum", 16, 16>>, <<"engDst", 8, 8>>, <<"acsV", 4, 4>>,
    <<"vlt", 4, 4>>, <<"pwr", 2, 2>>, <<"nb", 8, 8>>, <<"ecl", 4, 4>>,
    <<"cid", 12, 12>>, <<"rnf", 4, 4>>>>

CObject ==
  <<<<"time", 12, 12>>, <<"sts", 8, 8>>, <<"iVStd", 16, 16>>,
    <<"iV", 16, 16>>, <<"fVStd", 16, 16>>, <<"fV", 16, 16>>,
    <<"flwRtStd", 8, 8>>, <<"flwRt", 8, 8>>, <<"t", 8, 8>>, <<"p", 8, 8>>,
    <<"engSum", 16, 16>>, <<"engDst", 8, 8>>, <<"acsV", 4, 4>>,
    <<"vlt", 4, 4>>, <<"pwr", 2, 2>>, <<"nb", 8, 8>>, <<"ecl", 4, 4>>,
    <<"cid", 12, 12>>, <<"rnf", 4, 4>>>>

(* Three days follow the first two fields.                                 *)
CEvt ==
  <<<<"evt", 2, 2>>, <<"fvStdS1", 16, 16>>, <<"date", 6, 6>>,
    <<"fVStd", 16, 16>>, <<"fV", 16, 16>>, <<"date", 6, 6>>,
    <<"fVStd", 16, 16>>, <<"fV", 16, 16>>, <<"date", 6, 6>>,
    <<"fVStd", 16, 16>>, <<"fV", 16, 16>>>>

CEvtExt(r, i) == Cut(r, CEvt, i)

CAt == <<<<"date", 6, 6>>>>

(* Mutant: the cursor is not moved past the date.                          *)
CAtExtStays(r, i) == Cut(r, CAt, i) \o ToEnd(r, "dt", i)

CAtExt(r, i) == Cut(r, CAt, i) \o ToEnd(r, "dt", i + Width(CAt))

(* prs_up_rpt_dt_obj: the kind of extension is told by the last digit of   *)
(* the id; for any other digit "ext": is left without a value.  Names,     *)
(* quotes and the fields before "dt" are 394 characters of the 1024.       *)
CUpRptDtObj(r, id, i) ==
  LET fields == Cut(r, CObject, i)
      j == i + Width(CObject)
  IN IF id[4] = "3" THEN Json(fields, CEvtExt(r, j))
     ELSE IF id[4] # "2" THEN NotJson(fields)
     ELSE IF Rest(r, j + Width(CAt)) + 394 < 1024 THEN Json(fields, CAtExt(r, j))
     ELSE Undefined

(* prs_dt_u, whose own text has room when that of prs_up_rpt_dt has.       *)
CDtU(r, i) == CUpRptDtObj(r, IdAt(r, i), i + Width(CUnion))

(* Where the data start: an application id of 46 characters follows when   *)
(* the last digit of seq is 0.                                             *)
CDataFrom(r) == Width(CHeader) + IF Seqno(r)[2] = "0" THEN 46 ELSE 0

(* prs_up_rpt_dt.  Its text of 1024 takes all characters of the report,    *)
(* and 57 or 68 of names and quotes; that of a report without a data union *)
(* has 512.  The memset there clears 1024, that is, static buffers behind  *)
(* it which this call does not use any more (HttpServer has those of other *)
(* calls).                                                                 *)
CUpRptDt(r) ==
  LET i == CDataFrom(r)
      names == IF Seqno(r)[2] = "0" THEN 68 ELSE 57
  IN IF r.len + names >= 1024 THEN Undefined
     ELSE IF ~(Ctrl(r)[2] = "2" /\ Seqno(r)[2] = "1") THEN CDtU(r, i)
     ELSE IF Rest(r, i) + 17 < 512 THEN Json(<<>>, ToEnd(r, "dt", i))
     ELSE Undefined

Fields(x) == x.fields \o x.ext

(* prs_dt on a report with anything behind it: no cut may start behind the *)
(* terminator.                                                             *)
CPrsDt(r) ==
  LET x == CUpRptDt(r)
  IN IF \E k \in DOMAIN Fields(x) : Fields(x)[k].start > r.len THEN Undefined
     ELSE x

-----------------------------------------------------------------------------
(* dt_parser.py                                                            *)

PyHeader ==
  <<<<"cr", 2, 2>>, <<"ctrl", 2, 2>>, <<"l", 2, 2>>, <<"c", 4, 4>>,
    <<"r", 4, 4>>, <<"seq", 2, 2>>>>

PyUnion ==
  <<<<"ctrl", 2, 2>>, <<"n", 2, 2>>, <<"id", 4, 4>>>>

PyObject ==
  <<<<"time", 12, 12>>, <<"sts", 8, 8>>, <<"iVStd", 16, 16>>,
    <<"iV", 16, 16>>, <<"fVStd", 16, 16>>, <<"fV", 16, 16>>,
    <<"flwRtStd", 8, 8>>, <<"flwRt", 8, 8>>, <<"t", 8, 8>>, <<"p", 8, 8>>,
    <<"engSum", 16, 16>>, <<"engDst", 8, 8>>, <<"acsV", 4, 4>>,
    <<"vlt", 4, 4>>, <<"pwr", 2, 2>>, <<"nb", 8, 8>>, <<"ecl", 4, 4>>,
    <<"cid", 12, 12>>, <<"rnf", 4, 4>>>>

PyEvt ==
  <<<<"evt", 2, 2>>, <<"fvStdS1", 16, 16>>, <<"date", 6, 6>>,
    <<"fVStd", 16, 16>>, <<"fV", 16, 16>>, <<"date", 6, 6>>,
    <<"fVStd", 16, 16>>, <<"fV", 16, 16>>, <<"date", 6, 6>>,
    <<"fVStd", 16, 16>>, <<"fV", 16, 16>>>>

PyEvtExt(r, i) == Cut(r, PyEvt, i)

PyAt == <<<<"date", 6, 6>>>>

PyAtExt(r, naked, i) ==
  IF naked THEN ToEnd(r, "dt", i)
  ELSE Cut(r, PyAt, i) \o ToEnd(r, "dt", i + Width(PyAt))

PyUpRptDtObj(r, naked, id, i) ==
  LET fields == Cut(r, PyObject, i)
      j == i + Width(PyObject)
  IN IF naked THEN Json(<<>>, PyAtExt(r, naked, i))
     ELSE IF id = <<"8", "0", "0", "3">> THEN Json(fields, PyEvtExt(r, j))
     ELSE IF id = <<"8", "0", "0", "2">> THEN Json(fields, PyAtExt(r, naked, j))
     ELSE Json(fields, <<>>)

(* The test seq >= 0 holds for every number: the application id is always  *)
(* cut.                                                                    *)
PyDataFrom(r) == Width(PyHeader) + 46

(* The main program; int(seq, 16) raises an exception on an empty string.  *)
PyMain(r) ==
  LET naked == Ctrl(r) = <<"C", "2">> /\ Seqno(r) = <<"8", "1">>
      i == PyDataFrom(r)
  IN IF Seqno(r)[1] = "" THEN NotJson(<<>>)
     ELSE IF naked THEN PyUpRptDtObj(r, naked, <<>>, i)
     ELSE PyUpRptDtObj(r, naked, IdAt(r, i), i + Width(PyUnion))

-----------------------------------------------------------------------------
ReportInit ==
  /\ \E r \in Reports, fn \in {"parsedt", "prs_dt", "dt_parser"} :
       call = [fn |-> fn, r |-> r]
  /\ result = <<>>

ReportNext ==
  \/ Asked("parsedt") /\ Return(CUpRptDt(call.r))
  \/ Asked("prs_dt") /\ Return(CPrsDt(call.r))
  \/ Asked("dt_parser") /\ Return(PyMain(call.r))

ReportSpec == ReportInit /\ [][ReportNext]_callVars

-----------------------------------------------------------------------------
Parsed == \E fn \in {"parsedt", "prs_dt", "dt_parser"} : Returned(fn)

(* No character is cut twice and none is skipped between two fields, for   *)
(* reports of any length that have a defined result, the truncated ones    *)
(* included; and one that ends in a "dt" field, daily or without a data    *)
(* union, is returned up to its last character.                            *)
CutsReport ==
  Parsed /\ result[1].def =>
    LET f == Fields(result[1])
        ext == result[1].ext
    IN /\ \A k \in DOMAIN f : f[k].from <= f[k].to /\ f[k].to <= call.r.len
       /\ \A k \in 1 .. Len(f) - 1 : f[k].to = f[k + 1].from
       /\ ext # <<>> /\ ext[Len(ext)].key = "dt" => ext[Len(ext)].to = call.r.len

(* The server has a defined result for every report of up to 510           *)
(* characters, the program and the library for those that are also as long *)
(* as a whole event report with an application id, 380 characters.         *)
Defined ==
  /\ Returned("parsedt") /\ call.r.len <= 510 => result[1].def
  /\ Returned("prs_dt") /\ call.r.len \in 380 .. 510 => result[1].def

(* Field by field, y has what x has, n characters later.                   *)
Later(x, y, n) ==
  \A k \in DOMAIN x \cap DOMAIN y :
    y[k].key = x[k].key /\ y[k].start = x[k].start + n

(* C and Python give the same fields for a report that has an application  *)
(* id and one of the ids 800x, wherever it breaks off later.  They differ  *)
(* on one that has none: Python cuts an application id all the same, and   *)
(* every field it gives starts 46 characters behind that of C.             *)
ParsersAgree ==
  Returned("parsedt") /\ result[1].def =>
    LET c == result[1]
        py == PyMain(call.r)
    IN /\ /\ Seqno(call.r)[2] = "0"
          /\ \A k \in 1 .. 3 : Clip(call.r, call.r.id66, 66)[k] = <<"8", "0", "0">>[k]
          => Fields(c) = Fields(py)
       /\ Seqno(call.r)[2] # "0" =>
            /\ Later(c.fields, py.fields, 46)
            /\ py.fields = <<>> => Later(c.ext, py.ext, 46)

(* Both parsers cut a report without gap or overlap (CutsReport), C within *)
(* its buffers (Defined), and they agree on what it contains as far as     *)
(* they can (ParsersAgree).                                                *)
ReportsCutRight == CutsReport /\ Defined /\ ParsersAgree
=============================================================================
