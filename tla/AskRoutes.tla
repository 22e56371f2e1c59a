------------------------------- MODULE AskRoutes -------------------------------
(***************************************************************************)
(* The ask broker composed with the routes its events take into crew       *)
(* (wiring/routes/askingRoutes.ts, routeAskStatus) and crew's memory of    *)
(* which dwarf is asking (crew/domain/statusFacts.ts).                     *)
(*                                                                         *)
(* The bus is synchronous and publishes after the commit, so the route of  *)
(* an event runs in the broker's own step, on the rows that step left: the *)
(* step is the conjunction of both.                                        *)
(***************************************************************************)
EXTENDS AskBroker

VARIABLES
  frontOf,         \* the routes' map: the ask a dwarf is asking for, or NoFront
  openAsk          \* crew's facts: the ask whose kind and instant it shows, or NoFront

rvars == <<vars, frontOf, openAsk>>

NoFront == 0

\* openAskOf, in the state a formula is about: the dwarf's front ask.
FrontAsk(d) ==
  IF \E a \in AskIds : IsFront(a) /\ asks[a].dwarf = d
  THEN CHOOSE a \in AskIds : IsFront(a) /\ asks[a].dwarf = d
  ELSE NoFront

-----------------------------------------------------------------------------
RInit == /\ Init
         /\ frontOf = [d \in Dwarves |-> NoFront]
         /\ openAsk = [d \in Dwarves |-> NoFront]

\* startAsking: askOpened keeps the ask a dwarf already shows; a gone dwarf shows none.
Started(d, shown, a) == IF crew'[d] = "present" /\ shown = NoFront THEN a ELSE shown

\* stopAsking: the status follows the turn again.
NotStopped(d, shown) == shown

Stopped(d, shown) == IF crew'[d] = "present" THEN NoFront ELSE shown

\* AskOpened of a dwarf with no front ask makes the new ask the front.
RouteOpened(d, a) ==
  /\ frontOf' = [frontOf EXCEPT ![d] = a]
  /\ openAsk' = [openAsk EXCEPT ![d] = Started(d, @, a)]

\* AskClosed of front asks (one per dwarf): each dwarf stops asking, then its next
\* open ask, read from the rows as they are now, becomes its front.
RouteClosed(ds) ==
  /\ frontOf' = [d \in Dwarves |-> IF d \in ds THEN FrontAsk(d)' ELSE frontOf[d]]
  /\ openAsk' = [d \in Dwarves |->
       IF d \notin ds THEN openAsk[d]
       ELSE IF FrontAsk(d)' = NoFront THEN Stopped(d, openAsk[d])
       ELSE Started(d, Stopped(d, openAsk[d]), FrontAsk(d)')]

\* A boot composes the routes anew: the front asks a stopped Host left are replayed
\* (S1.18).  A rollback build has closed every ask by the end of its boot.
Replay ==
  /\ frontOf' = [d \in Dwarves |-> FrontAsk(d)']
  /\ openAsk' = [d \in Dwarves |-> Started(d, NoFront, FrontAsk(d)')]

-----------------------------------------------------------------------------
\* The asks the step published AskOpened and AskClosed for.  An auto-denied ask is
\* routed nowhere, and a deleted one publishes nothing.
Opened == {a \in AskIds : ~Exists(a) /\ asks'[a].state = "open"}
Closed == {a \in AskIds : Live(a) /\ asks'[a].state \in ClosedStates}
ClosedFronts == {d \in Dwarves : frontOf[d] \in Closed}

NoRoute == UNCHANGED <<frontOf, openAsk>>

HostStops == /\ build' = "down"
             /\ frontOf' = [d \in Dwarves |-> NoFront]
             /\ openAsk' = [d \in Dwarves |-> NoFront]

Route ==
  \/ build' # build /\ HostStops
  \/ build' # build /\ build' # "down" /\ Replay
  \/ /\ build' = build
     /\ \E a \in Opened :
          IF frontOf[asks'[a].dwarf] = NoFront THEN RouteOpened(asks'[a].dwarf, a) ELSE NoRoute
  \/ build' = build /\ Closed # {} /\ RouteClosed(ClosedFronts)
  \/ build' = build /\ Opened = {} /\ Closed = {} /\ NoRoute

RNext == Next /\ Route

RSpec == RInit /\ [][RNext]_rvars

-----------------------------------------------------------------------------
(* Properties *)

\* While the Host runs, a present dwarf is shown asking exactly for the front ask the
\* database gives it: a close, a departure, a second ask and a restart all keep the
\* routes' map, crew's memory and the rows in agreement.
AskingMatchesRows ==
  Up => \A d \in Dwarves : crew[d] = "present" =>
          /\ frontOf[d] = FrontAsk(d)
          /\ openAsk[d] = FrontAsk(d)
=============================================================================
