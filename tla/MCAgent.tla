------------------------------ MODULE MCAgent ------------------------------
(***************************************************************************)
(* The agent on a map of two lanes and one coordinate that both the pickup *)
(* and the destination are near: the lane of each leg depends on where the *)
(* leg starts, so the two legs have different goals.                       *)
(***************************************************************************)
EXTENDS Agent, TLC

CONSTANTS l1, l2, g1

MCNearest == g1 :> l1

MCConnected == <<g1, l1>> :> l2 @@ <<g1, l2>> :> l1

=============================================================================
