----------------------------- MODULE MCHttpLines -----------------------------
(* The functions of cpp/http/util.c on all short texts over the characters *)
(* they tell apart.                                                        *)
EXTENDS HttpText

MCChars == {"x", " ", "\r", "\n"}
=============================================================================
