--------------------------------- MODULE Call ---------------------------------
(***************************************************************************)
(* One call of a function: its name and arguments in the record call, what *)
(* it returned, once it has, as the only element of result.  The modules   *)
(* of the pure functions share these variables, so that one run checks     *)
(* all of them on all their inputs.                                        *)
(***************************************************************************)
EXTENDS Integers, Sequences

VARIABLES call, result

callVars == <<call, result>>

Asked(fn) == call.fn = fn /\ result = <<>>

Return(value) == result' = <<value>> /\ UNCHANGED call

Returned(fn) == call.fn = fn /\ result # <<>>
=============================================================================
