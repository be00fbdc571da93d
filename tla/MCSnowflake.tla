----------------------------- MODULE MCSnowflake -----------------------------
(* Snowflake with tiny fields: two ids per millisecond and instance, two   *)
(* worker ids, two data centers.  Instance g3 is configured with a worker  *)
(* id one past its field, which the constructor must refuse.               *)
EXTENDS Snowflake, TLC

CONSTANTS g1, g2, g3, t1, t2

MCGens == {g1, g2, g3}
MCWorkerOf == g1 :> 0 @@ g2 :> 0 @@ g3 :> 2
MCDataCenterOf == g1 :> 0 @@ g2 :> 1 @@ g3 :> 0

OneGen == {g1}
OneWorkerOf == g1 :> 1
OneDataCenterOf == g1 :> 0
=============================================================================
