---------------------------- MODULE MCHttpServer ----------------------------
(* Three clients of HttpServer that may come together, with every branch   *)
(* of dispatch, and both shapes of report at once, in some mix of          *)
(* requests.                                                               *)
EXTENDS HttpServer, TLC

CONSTANTS c1, c2, c3

Three == {c1, c2, c3}
Mixed ==
  {c1 :> "ext" @@ c2 :> "obj" @@ c3 :> "dn",
   c1 :> "ext" @@ c2 :> "up" @@ c3 :> "get",
   c1 :> "other" @@ c2 :> "dn" @@ c3 :> "get"}
=============================================================================
