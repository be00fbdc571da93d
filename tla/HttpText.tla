------------------------------- MODULE HttpText -------------------------------
(***************************************************************************)
(* cpp/http/util.c: the functions that cut method, URI, a line and the     *)
(* body out of an HTTP text, and the value of a key out of a JSON text.    *)
(* A text is a sequence of characters.  Each loop over the text is given   *)
(* by what it does to the target t and the local counters at a character,  *)
(* stop being set once it has been left by break.  The target is zeroed    *)
(* before the call, as in every caller.  The terminator goes right behind  *)
(* what was copied, but for getjsonv, whose result says where it goes.     *)
(***************************************************************************)
EXTENDS Call, Functions, FiniteSetsExt

CONSTANTS
  Chars,     \* characters of HTTP texts
  MaxLen,    \* bound: length of HTTP texts
  Keys,      \* keys of JSON objects, sequences of characters
  Values,    \* [num |-> it is a number, chars |-> sequence of characters]
  MaxPairs,  \* bound: pairs of a JSON object
  Ns         \* sizes n the functions are called with

CR == "\r"
LF == "\n"
SP == " "
Q == "q"        \* the quotation mark
LineEnd == {CR, LF}
HeadEnd == <<CR, LF, CR, LF>>

(* A character of a key or a value is not the quotation mark, and one of a *)
(* number not the colon.                                                   *)
ASSUME HttpTextAssumption ==
  /\ MaxLen \in Nat /\ MaxPairs \in Nat /\ Ns \subseteq Nat
  /\ Keys \subseteq Seq(STRING \ {Q}) \ {<<>>}
  /\ Values \subseteq [num : BOOLEAN, chars : Seq(STRING \ {Q})]
  /\ \A v \in Values : v.num => v.chars \in Seq(STRING \ {Q, ":"})

Texts == UNION {[1 .. k -> Chars] : k \in 0 .. MaxLen}

Objects == UNION {[1 .. k -> Keys \X Values] : k \in 1 .. MaxPairs}

(* The text of an object, without spaces, as decdt and test.c write it.    *)
Quoted(x) == <<Q>> \o x \o <<Q>>

Pair(p) ==
  Quoted(p[1]) \o <<":">> \o IF p[2].num THEN p[2].chars ELSE Quoted(p[2].chars)

(* The first k pairs.                                                      *)
Pairs(o) ==
  LET pairs[k \in 0 .. Len(o)] ==
        IF k = 0 THEN <<>>
        ELSE pairs[k - 1] \o (IF k = 1 THEN <<>> ELSE <<",">>) \o Pair(o[k])
  IN pairs

Render(o) == <<"{">> \o Pairs(o)[Len(o)] \o <<"}">>

-----------------------------------------------------------------------------
Locals(s) == [t : Seq(Range(s)), j : Nat, skip : Nat, stop : BOOLEAN]

Start == [t |-> <<>>, j |-> 0, skip |-> 0, stop |-> FALSE]

(* The locals after each character; turn[i][a] is what the body of the     *)
(* loop does with a at s[i].                                               *)
Scan(s, turn) ==
  LET scan[i \in 0 .. Len(s)] ==
        IF i = 0 THEN Start ELSE turn[i][scan[i - 1]]
  IN scan

Stopped(a) == [a EXCEPT !.stop = TRUE]
Put(a, ch) == [a EXCEPT !.t = Append(@, ch)]

(* t[k++] = s[i] while k < n, otherwise break.                             *)
PutIfRoom(a, ch, n) == IF Len(a.t) < n THEN Put(a, ch) ELSE Stopped(a)

MethodTurn(s, n, i, a) ==
  IF a.stop THEN a
  ELSE IF s[i] \in LineEnd \cup {SP} THEN Stopped(a) ELSE PutIfRoom(a, s[i], n)

GetMethod(s, n) ==
  Scan(s, [i \in DOMAIN s |-> [a \in Locals(s) |-> MethodTurn(s, n, i, a)]])[Len(s)].t

(* j counts spaces.                                                        *)
UriTurn(s, n, i, a) ==
  IF a.stop THEN a
  ELSE IF a.j = 1 THEN IF s[i] = SP THEN Stopped(a) ELSE PutIfRoom(a, s[i], n)
  ELSE IF s[i] = SP THEN [a EXCEPT !.j = @ + 1] ELSE a

GetUri(s, n) ==
  Scan(s, [i \in DOMAIN s |-> [a \in Locals(s) |-> UriTurn(s, n, i, a)]])[Len(s)].t

(* j counts line ends: a carriage return and the line feed after it are    *)
(* two.                                                                    *)
LnTurn(s, n, l, i, a) ==
  IF a.stop THEN a
  ELSE IF a.j = l THEN IF s[i] \in LineEnd THEN Stopped(a) ELSE PutIfRoom(a, s[i], n)
  ELSE IF s[i] \in LineEnd THEN [a EXCEPT !.j = @ + 1] ELSE a

GetLn(s, n, l) ==
  Scan(s, [i \in DOMAIN s |-> [a \in Locals(s) |-> LnTurn(s, n, l, i, a)]])[Len(s)].t

(* Mutant: the body starts behind the first empty line feed pair.          *)
BodyTurnEarly(s, n, i, a) ==
  IF a.stop THEN a
  ELSE IF i <= 3 THEN a
  ELSE IF Len(a.t) >= n THEN Stopped(a)
  ELSE IF a.j = 1 THEN Put(a, s[i])
  ELSE IF SubSeq(s, i - 2, i) = <<LF, CR, LF>> THEN [a EXCEPT !.j = 1] ELSE a

(* j is the flag k of the code: the end of the head has been seen.         *)
BodyTurn(s, n, i, a) ==
  IF a.stop THEN a
  ELSE IF i <= 3 THEN a
  ELSE IF Len(a.t) >= n THEN Stopped(a)
  ELSE IF a.j = 1 THEN Put(a, s[i])
  ELSE IF SubSeq(s, i - 3, i) = HeadEnd THEN [a EXCEPT !.j = 1] ELSE a

GetBody(s, n) ==
  Scan(s, [i \in DOMAIN s |-> [a \in Locals(s) |-> BodyTurn(s, n, i, a)]])[Len(s)].t

(* strncmp(&s[i], jsonk, strlen(jsonk)) == 0                               *)
KeyAt(s, key, i) ==
  i + Len(key) - 1 <= Len(s) /\ SubSeq(s, i, i + Len(key) - 1) = key

(* Mutant: the closing quotation mark of the key is not skipped.           *)
JsonVTurnUnskipped(s, key, n, i, a) ==
  IF a.stop THEN a
  ELSE IF a.skip > 0 THEN [a EXCEPT !.skip = @ - 1]
  ELSE IF a.j = 0 THEN
         IF ~KeyAt(s, key, i) THEN a
         ELSE [a EXCEPT !.j = 1, !.skip = Len(key) - 1]
  ELSE IF a.j < 3 /\ s[i] \in {":", Q} THEN [a EXCEPT !.j = @ + 1]
  ELSE IF s[i] # Q THEN PutIfRoom(a, s[i], n) ELSE Stopped(a)

(* j is the counter k of the code: 0 until the key is found, when the loop *)
(* skips it and the quotation mark behind it; then it counts the colon and *)
(* the quotation mark before the value.                                    *)
JsonVTurn(s, key, n, i, a) ==
  IF a.stop THEN a
  ELSE IF a.skip > 0 THEN [a EXCEPT !.skip = @ - 1]
  ELSE IF a.j = 0 THEN
         IF ~KeyAt(s, key, i) THEN a
         ELSE IF i - 1 < Len(s) - Len(key)
              THEN [a EXCEPT !.j = 1, !.skip = Len(key)]
              ELSE Stopped(a)
  ELSE IF a.j < 3 /\ s[i] \in {":", Q} THEN [a EXCEPT !.j = @ + 1]
  ELSE IF s[i] # Q THEN PutIfRoom(a, s[i], n) ELSE Stopped(a)

(* The value, and the index nul at which t is terminated: it is that of    *)
(* the source where the loop was left, counted from 0.                     *)
GetJsonV(s, key, n) ==
  LET scan == Scan(s, [i \in DOMAIN s |->
                        [a \in Locals(s) |-> JsonVTurn(s, key, n, i, a)]])
      left == {k \in DOMAIN s : scan[k].stop} \cup {Len(s) + 1}
  IN [t |-> scan[Len(s)].t, nul |-> Min(left) - 1]

-----------------------------------------------------------------------------
HttpTextInit ==
  /\ \/ \E s \in Texts, n \in Ns :
          \/ \E fn \in {"getmethod", "geturi", "getbody"} :
               call = [fn |-> fn, s |-> s, n |-> n]
          \/ \E l \in 0 .. 3 : call = [fn |-> "getln", s |-> s, n |-> n, l |-> l]
     \/ \E o \in Objects, key \in Keys, n \in Ns :
          call = [fn |-> "getjsonv", s |-> Render(o), key |-> key, n |-> n,
                  obj |-> o]
  /\ result = <<>>

HttpTextNext ==
  \/ Asked("getmethod") /\ Return(GetMethod(call.s, call.n))
  \/ Asked("geturi") /\ Return(GetUri(call.s, call.n))
  \/ Asked("getln") /\ Return(GetLn(call.s, call.n, call.l))
  \/ Asked("getbody") /\ Return(GetBody(call.s, call.n))
  \/ Asked("getjsonv") /\ Return(GetJsonV(call.s, call.key, call.n))

HttpTextSpec == HttpTextInit /\ [][HttpTextNext]_callVars

-----------------------------------------------------------------------------
(* The part of s from i on that precedes the first character in E, at most *)
(* n characters of it.                                                     *)
UpTo(s, i, E, n) ==
  LET ends == {k \in i .. Len(s) : s[k] \in E} \cup {Len(s) + 1}
  IN SubSeq(s, i, Min({Min(ends) - 1, i + n - 1}))

(* Every line end of s is CR LF.                                           *)
IsHttp(s) ==
  \A k \in DOMAIN s :
    /\ s[k] = LF => k > 1 /\ s[k - 1] = CR
    /\ s[k] = CR => k < Len(s) /\ s[k + 1] = LF

(* The number of line feeds up to each character.                          *)
Feeds(s) ==
  LET feeds[i \in 0 .. Len(s)] ==
        IF i = 0 THEN 0 ELSE feeds[i - 1] + IF s[i] = LF THEN 1 ELSE 0
  IN feeds

(* x is line l of s, counted from 0, at most n characters of it.           *)
IsLine(x, s, n, l) ==
  /\ l = 0 => x = UpTo(s, 1, LineEnd, n)
  /\ \A p \in DOMAIN s :
       s[p] = LF /\ Feeds(s)[p] = l => x = UpTo(s, p + 1, LineEnd, n)
  /\ Feeds(s)[Len(s)] < l => x = <<>>

(* getmethod returns the first word of the first line, geturi the word     *)
(* between the first two spaces, getbody what follows the first empty line *)
(* and getln the first line, or any line when lines end in a line feed     *)
(* alone: whichever way the text breaks off, and never more than n         *)
(* characters.                                                             *)
CutsText ==
  /\ Returned("getmethod") =>
       result[1] = UpTo(call.s, 1, LineEnd \cup {SP}, call.n)
  /\ Returned("geturi") =>
       LET sps == {k \in DOMAIN call.s : call.s[k] = SP}
       IN result[1] = IF sps = {} THEN <<>>
                      ELSE UpTo(call.s, Min(sps) + 1, {SP}, call.n)
  /\ Returned("getbody") =>
       LET ends == {k \in 4 .. Len(call.s) : SubSeq(call.s, k - 3, k) = HeadEnd}
       IN result[1] = IF ends = {} THEN <<>>
                      ELSE UpTo(call.s, Min(ends) + 1, {}, call.n)
  /\ Returned("getln") =>
       /\ call.l = 0 => result[1] = UpTo(call.s, 1, LineEnd, call.n)
       /\ CR \notin Range(call.s) => IsLine(result[1], call.s, call.n, call.l)

(* util.h on getln: it reads line l, counted from 0, of a text; here one   *)
(* whose lines end in CR LF, as those of HTTP do.                          *)
LinesOfHttp ==
  Returned("getln") /\ IsHttp(call.s) =>
    IsLine(result[1], call.s, call.n, call.l)

(* The index, from 0, of the first character of a string value, that of    *)
(* pair k of object o.                                                     *)
ValueAt(o, k) ==
  Len(Pairs(o)[k - 1]) + (IF k = 1 THEN 1 ELSE 2) + Len(o[k][1]) + 4

(* getjsonv returns the value of a key whose text does not occur before    *)
(* the key itself, and terminates it at the index of the text where the    *)
(* cut ends: behind the value, and inside a target of n characters only if *)
(* that is one of the first n characters of the text.  For a number, which *)
(* no quotation mark ends, the value is only the beginning of what it      *)
(* returns.                                                                *)
ValueOfKey ==
  Returned("getjsonv") =>
    \A k \in DOMAIN call.obj :
      LET value == call.obj[k][2]
      IN /\ call.obj[k][1] = call.key
         /\ \A i \in 1 .. Len(Pairs(call.obj)[k - 1]) + 2 : ~KeyAt(call.s, call.key, i)
         => LET head == UpTo(value.chars, 1, {}, call.n)
            IN IF value.num
               THEN /\ Len(head) <= Len(result[1].t)
                    /\ SubSeq(result[1].t, 1, Len(head)) = head
               ELSE /\ result[1].t = head
                    /\ result[1].nul = ValueAt(call.obj, k) + Len(head)

(* What util.c cuts out of a request: a part of the text (CutsText) or the *)
(* value of a key of its body (ValueOfKey).                                *)
TextCutRight == CutsText /\ ValueOfKey
=============================================================================
