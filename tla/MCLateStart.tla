---------------------------- MODULE MCLateStart ----------------------------
(***************************************************************************)
(* The agent of MCAgent with one order of the commands and ticks.  The     *)
(* gateway asks for a trip, cancels it when it is quoted, asks again and   *)
(* drives the second trip.  The strand falls behind whenever it may: the   *)
(* next post is made as long as there is room for it.  So the startTrip()  *)
(* of the first quote is posted behind the whole second query, and that of *)
(* the second quote behind its TripMoves.  What Autoware sends, and when   *)
(* it is handled, is free.                                                 *)
(***************************************************************************)
EXTENDS MCAgent

VARIABLE posted  \* posts made so far

LegTicks == <<"onTickTimer", "onTickTimer", "onTickTimer", "onTickTimer",
              "onTickTimer">>

Query == <<"queryEta">> \o LegTicks \o LegTicks

Drive == <<"handleMoveCommand", "onTickTimer", "onTickTimer", "onTickTimer",
           "onTickTimer", "handleMoveCommand">>

Schedule ==
  <<"onTickTimer">> \o Query \o <<"cancelTrip">> \o Query \o Drive

PostNext ==
  /\ wired
  /\ posted < Len(Schedule)
  /\ LET op == Schedule[posted + 1]
     IN  \/ op = "queryEta" /\ \E id \in TripIds, s, g \in GPS : TripInit(id, s, g)
         \/ op = "handleMoveCommand" /\ \E id \in TripIds : TripMove(id)
         \/ op = "cancelTrip" /\ TripCancel
         \/ op = "onTickTimer" /\ PostTick
  /\ posted' = posted + 1

RunNext ==
  /\ CanPost => posted = Len(Schedule)
  /\ RunHandler \/ RunOther
  /\ UNCHANGED posted

LateStartNext == (Wire /\ UNCHANGED posted) \/ PostNext \/ RunNext

LateStartSpec ==
  /\ AgentInit
  /\ posted = 0
  /\ [][LateStartNext]_<<agentVars, posted>>

=============================================================================
