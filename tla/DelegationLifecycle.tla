------------------------- MODULE DelegationLifecycle -------------------------
(***************************************************************************)
(* What the delegation module promises of one delegated subtask, whatever  *)
(* its three ends (the parent, the routing and the worker) do: its state   *)
(* only moves along the rows of machine 8 (delegation/domain/              *)
(* delegation.ts), what failed failed for a reason that row allows, and a  *)
(* settled delegation is settled for good.  Reset metrics wipes the        *)
(* settled ones, and one in flight only with its parent's dwarf.           *)
(*                                                                         *)
(* This is the abstract specification; Delegation implements it.           *)
(***************************************************************************)
CONSTANT Delegs

VARIABLE phase      \* Delegs -> Phases

\* The three failures of Jev (jev-unreachable, jev-could-not-choose, no-provider)
\* are one: nothing but the parent's line tells them apart.
Failures == {"gate-closed", "not-routed", "worker-failed", "worker-lost", "parent-gone"}

InFlight == {"attempted", "running", "sending"}     \* sending: running, its handoff begun
Settled == {"succeeded"} \cup Failures
Phases == {"none", "deleted"} \cup InFlight \cup Settled

Admissions == {<<"none", "attempted">>, <<"none", "gate-closed">>}      \* S8.01, S8.02
Routed == {<<"attempted", "running">>,                                  \* S8.03
           <<"attempted", "not-routed">>,                               \* S8.04-06
           <<"attempted", "worker-failed">>,                            \* S8.07
           <<"attempted", "worker-lost">>}                              \* S8.12
Handed == {<<"running", "sending">>, <<"sending", "succeeded">>}        \* S8.08
Lost == {<<s, "worker-lost">> : s \in {"running", "sending"}}           \* S8.09
Orphaned == {<<s, "parent-gone">> : s \in InFlight}                     \* S8.11
Wiped == {<<s, "deleted">> : s \in InFlight \cup Settled}                 \* Reset metrics

Machine8 == Admissions \cup Routed \cup Handed \cup Lost \cup Orphaned \cup Wiped

-----------------------------------------------------------------------------
LInit == phase = [d \in Delegs |-> "none"]

\* One step may move several: a parent's delegations all fail as it leaves.
LNext == /\ phase' \in [Delegs -> Phases]
         /\ \A d \in Delegs : phase'[d] # phase[d] => <<phase[d], phase'[d]>> \in Machine8

LSpec == LInit /\ [][LNext]_phase
=============================================================================
