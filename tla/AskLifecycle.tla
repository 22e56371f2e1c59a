----------------------------- MODULE AskLifecycle -----------------------------
(***************************************************************************)
(* What the asking module promises of one ask, whatever happens around it: *)
(* its state only ever moves along the rows of MACHINE_6                   *)
(* (asking/domain/askMachine.ts), a closed ask is closed for good, and an  *)
(* ask that leaves the database was closed or its dwarf was wiped.         *)
(*                                                                         *)
(* This is the abstract specification; AskBroker implements it.            *)
(***************************************************************************)
CONSTANT AskIds

VARIABLE phase      \* AskIds -> LiveStates \cup ClosedStates \cup {"unborn", "deleted"}

LiveStates == {"open", "answering"}

ClosedStates ==
  {"answered-in-app", "answered-elsewhere", "cancelled", "closed-by-death", "auto-denied"}

\* The pairs of MACHINE_6 that change the state, row by row.
Births == {<<"unborn", "open">>, <<"unborn", "auto-denied">>}          \* S6.01-03, S6.19
Taken == {<<"open", "answering">>}                                     \* S6.06
Settled == {<<"answering", "answered-in-app">>,                        \* S6.08
            <<"answering", "open">>,                                   \* S6.09
            <<"answering", "answered-elsewhere">>}                     \* S6.10
Resolved == {<<"open", "answered-elsewhere">>,                         \* S6.11
             <<"open", "answered-in-app">>,                            \* S6.12
             <<"open", "cancelled">>, <<"answering", "cancelled">>}    \* S6.13, S6.22
Bereaved == {<<s, "closed-by-death">> : s \in LiveStates}              \* S6.14, S6.15, S6.18

\* Outside machine 6: the maintenance sweep and Reset metrics delete closed
\* asks, and Reset metrics deletes those of a departed dwarf in any state.
Deletions == {<<s, "deleted">> : s \in LiveStates \cup ClosedStates}

Machine6 == Births \cup Taken \cup Settled \cup Resolved \cup Bereaved

-----------------------------------------------------------------------------
LInit == phase = [a \in AskIds |-> "unborn"]

\* One step may move several asks: every live ask of a dwarf closes at once.
LNext == /\ phase' \in [AskIds -> LiveStates \cup ClosedStates \cup {"unborn", "deleted"}]
         /\ \A a \in AskIds :
              phase'[a] # phase[a] =>
                 <<phase[a], phase'[a]>> \in Machine6 \cup Deletions

LSpec == LInit /\ [][LNext]_phase
=============================================================================
