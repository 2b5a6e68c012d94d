---------------------------- MODULE TripLifecycle ----------------------------
(***************************************************************************)
(* What the trip controller promises to its clients, without lookups,      *)
(* timeouts, Autoware or engagement: a trip is quoted first, the quote     *)
(* names the pickup lane and the destination lane, and from then on the    *)
(* vehicle is sent to exactly these two lanes, in this order, each leg     *)
(* once.  A quotation always ends.  Any trip may be abandoned.             *)
(***************************************************************************)
EXTENDS Naturals

CONSTANTS
  Lanes,
  None

VARIABLES
  phase,  \* where the trip is
  quote,  \* the lanes the client was told, while there is a trip
  goal    \* the lane the vehicle was last sent to, once under way

vars == <<phase, quote, goal>>

Quote == [pickup : Lanes, trip : Lanes]

Phases == {"Free", "Quoting", "Quoted", "Accepted", "ToPickup", "AtPickup",
           "ToDestination", "Arrived"}

Init ==
  /\ phase = "Free"
  /\ quote = None
  /\ goal = None

Step(from, to) ==
  /\ phase = from
  /\ phase' = to

Ask ==
  /\ Step("Free", "Quoting")
  /\ UNCHANGED <<quote, goal>>

Offer(q) ==
  /\ Step("Quoting", "Quoted")
  /\ quote' = q
  /\ UNCHANGED goal

Accept ==
  /\ Step("Quoted", "Accepted")
  /\ UNCHANGED <<quote, goal>>

DriveToPickup ==
  /\ Step("Accepted", "ToPickup")
  /\ goal' = quote.pickup
  /\ UNCHANGED quote

ReachPickup ==
  /\ Step("ToPickup", "AtPickup")
  /\ UNCHANGED <<quote, goal>>

DriveToDestination ==
  /\ Step("AtPickup", "ToDestination")
  /\ goal' = quote.trip
  /\ UNCHANGED quote

ReachDestination ==
  /\ Step("ToDestination", "Arrived")
  /\ UNCHANGED <<quote, goal>>

\* A failed quotation and a cancelled trip look the same from outside.
Abandon ==
  /\ phase # "Free"
  /\ phase' = "Free"
  /\ quote' = None
  /\ goal' = None

Next ==
  \/ Ask
  \/ \E q \in Quote : Offer(q)
  \/ Accept
  \/ DriveToPickup
  \/ ReachPickup
  \/ DriveToDestination
  \/ ReachDestination
  \/ Abandon

EndQuotation == phase = "Quoting" /\ (Abandon \/ \E q \in Quote : Offer(q))

SafetySpec == Init /\ [][Next]_vars

Spec == SafetySpec /\ WF_vars(EndQuotation)

=============================================================================
