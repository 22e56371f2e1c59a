-------------------------- MODULE DelegationProofs --------------------------
(***************************************************************************)
(* What holds of delegated subtasks for every set of parents, delegations  *)
(* and calls and whatever the caps: their typing, that a parent that left  *)
(* holds nothing, that no wake-up and no result is lost, and that every    *)
(* step of a delegation is a row of machine 8.                             *)
(***************************************************************************)
EXTENDS Delegation, TLAPS

-----------------------------------------------------------------------------
(* The inductive invariants *)

\* What an attempted row and a failed row carry.
RowShape ==
  \A d \in Delegs : /\ row[d].state = "attempted" => row[d].handoff = "none"
                    /\ row[d].state = "failed" => row[d].failure \in Failures

\* A parent is told present and bound in one step.
PresentIsBound == \A p \in Parents : crew[p] = "present" => token[p] = "bound"

\* The memory of a Host life is gone with it.
DownIsIdle == ~up => \A c \in Calls : call[c] = Idle

Over(d) == row[d].state \in {"succeeded", "failed", "deleted"}

\* An answer under way has its handoff begun, or its delegation was settled meanwhile.
AnswersBegun ==
  \A c \in Calls, d \in Delegs : call[c] = [at |-> "answer", on |-> d] =>
    Over(d) \/ (row[d].state = "running" /\ row[d].handoff = "sending")

ReachedIsOver == \A d \in reached : Over(d)
SucceededIsReached == \A d \in Delegs : row[d].state = "succeeded" => d \in reached

ParentInv == TypeOK /\ PresentIsBound /\ GoneParentHoldsNothing
HandoffInv == TypeOK /\ AnswersBegun /\ ReachedIsOver /\ SucceededIsReached
SleepInv == TypeOK /\ DownIsIdle /\ SleepersHaveNothing

-----------------------------------------------------------------------------
(* Lemmas about the data *)

\* The rows a step writes are rows.
LEMMA RowTypes ==
  ASSUME NEW r \in Rows, NEW f \in Failures
  PROVE  /\ FailedAs(r, f) \in Rows /\ Taken(r) \in Rows
         /\ Begun(r) \in Rows /\ Delivered(r) \in Rows
BY DEF FailedAs, Taken, Begun, Delivered, Rows, Failures

\* What they say of the delegation.
LEMMA RowStates ==
  ASSUME NEW r \in Rows, NEW f \in Failures
  PROVE  /\ FailedAs(r, f).state = "failed" /\ FailedAs(r, f).failure = f
         /\ Taken(r).state = "running" /\ Taken(r).parent = r.parent
         /\ Taken(r).handoff = r.handoff
         /\ Begun(r).state = r.state /\ Begun(r).parent = r.parent
         /\ Begun(r).handoff = "sending"
         /\ Delivered(r).state = "succeeded"
BY DEF FailedAs, Taken, Begun, Delivered, Rows

\* Only a row is in flight or settled.
LEMMA StoredRow ==
  ASSUME TypeOK, NEW d \in Delegs
  PROVE  /\ row[d] \in Rows \/ row[d] = NoRow \/ row[d] = Wiped
         /\ InFlight(d) \/ Settled(d) => row[d] \in Rows
         /\ row[d] \in Rows => InFlight(d) \/ Settled(d)
BY DEF TypeOK, InFlight, Settled, Rows, NoRow, Wiped

\* Waking calls changes only those asleep on one of the tickets, and leaves none of them asleep.
LEMMA AwakeCalls ==
  ASSUME TypeOK, NEW ds \in SUBSET Delegs
  PROVE  /\ Awake(ds) \in [Calls -> CallStates]
         /\ \A c \in Calls : Awake(ds)[c] = call[c] \/ Awake(ds)[c].at = "woken"
         /\ \A c \in Calls, d \in Delegs :
              Awake(ds)[c] = [at |-> "asleep", on |-> d] => Asleep(c, d) /\ d \notin ds
<1>1. ASSUME NEW c \in Calls
      PROVE  /\ Awake(ds)[c] \in CallStates
             /\ Awake(ds)[c] = call[c] \/ Awake(ds)[c].at = "woken"
             /\ \A d \in Delegs :
                  Awake(ds)[c] = [at |-> "asleep", on |-> d] => Asleep(c, d) /\ d \notin ds
  <2>1. CASE \E d \in ds : Asleep(c, d)
    <3>1. PICK d \in ds : Asleep(c, d)
      BY <2>1
    <3>2. Awake(ds)[c] = [at |-> "woken", on |-> d]
      BY <2>1, <3>1 DEF Awake, Asleep
    <3>3. QED
      BY <3>2 DEF CallStates
  <2>2. CASE ~\E d \in ds : Asleep(c, d)
    BY <2>2 DEF Awake, Asleep, TypeOK
  <2>3. QED
    BY <2>1, <2>2
<1>2. QED
  BY <1>1 DEF Awake

\* Where a call stands tells what it carries.
LEMMA CallTypes ==
  ASSUME TypeOK, NEW c \in Calls
  PROVE  /\ call[c] \in CallStates
         /\ call[c].at \in {"bind", "admit"} => call[c].parent \in Parents
         /\ Waiting(c) => call[c].on \in Delegs
         /\ call[c].at = "answer" =>
              call[c].on \in Delegs /\ call[c] = [at |-> "answer", on |-> call[c].on]
BY DEF TypeOK, CallStates, Idle, Waiting

\* The state a call is put in is one.
LEMMA CallStateTypes ==
  /\ Idle \in CallStates
  /\ \A p \in Parents : /\ [at |-> "bind", parent |-> p] \in CallStates
                        /\ [at |-> "admit", parent |-> p] \in CallStates
  /\ \A d \in Delegs : /\ [at |-> "asleep", on |-> d] \in CallStates
                       /\ [at |-> "answer", on |-> d] \in CallStates
BY DEF CallStates, Idle

\* What a departure, a reset and a boot write of the rows and the credentials.
LEMMA SweepTypes ==
  ASSUME TypeOK, NEW gone \in SUBSET Parents, NEW lost \in SUBSET Delegs
  PROVE  /\ OrphanedBy(gone) \in [Delegs -> Rows \cup {NoRow, Wiped}]
         /\ [d \in Delegs |-> Reconciled(d, gone, lost)] \in [Delegs -> Rows \cup {NoRow, Wiped}]
         /\ RevokedFor(gone) \in [Parents -> {"none", "unbound", "bound", "revoked"}]
         /\ Swept(gone) \in [Parents -> {"none", "unbound", "bound", "revoked"}]
<1>1. \A d \in Delegs : row[d] \in Rows \cup {NoRow, Wiped} /\ (InFlight(d) => row[d] \in Rows)
  BY StoredRow DEF TypeOK
<1>2. \A d \in Delegs, f \in Failures : InFlight(d) => FailedAs(row[d], f) \in Rows
  BY <1>1, RowTypes
<1>3. "parent-gone" \in Failures /\ "worker-lost" \in Failures
  BY DEF Failures
<1>4. OrphanedBy(gone) \in [Delegs -> Rows \cup {NoRow, Wiped}]
  BY <1>1, <1>2, <1>3 DEF OrphanedBy
<1>5. \A d \in Delegs : Reconciled(d, gone, lost) \in Rows \cup {NoRow, Wiped}
  BY <1>1, <1>2, <1>3 DEF Reconciled, InFlight
<1>6. RevokedFor(gone) \in [Parents -> {"none", "unbound", "bound", "revoked"}]
  BY DEF RevokedFor, TypeOK
<1>7. QED
  BY <1>4, <1>5, <1>6 DEF Swept, TypeOK

\* The event of a step that took its time is applied to an attempted row only.
LEMMA ApplyTypes ==
  ASSUME TypeOK, NEW d \in Delegs, NEW next,
         row[d].state = "attempted" => next \in Rows,
         Apply(d, next)
  PROVE  /\ row' \in [Delegs -> Rows \cup {NoRow, Wiped}]
         /\ call' \in [Calls -> CallStates]
BY AwakeCalls DEF Apply, TypeOK

-----------------------------------------------------------------------------
(* Typing *)

LEMMA TypingInit == Init => TypeOK
BY DEF Init, TypeOK, CallStates

LEMMA TypingStep == TypeOK /\ [Next]_vars => TypeOK'
<1> SUFFICES ASSUME TypeOK, [Next]_vars
             PROVE  TypeOK'
  OBVIOUS
<1> USE DEF storeVars, memoryVars, history
<1>0. \A d \in Delegs : row[d].state = "attempted" => InFlight(d) /\ row[d] \in Rows
  BY StoredRow DEF InFlight
<1>1. ASSUME NEW p \in Parents, IssueFor(p)
      PROVE  TypeOK'
  BY <1>1 DEF IssueFor, TypeOK
<1>2. ASSUME NEW p \in Parents, StartFails(p)
      PROVE  TypeOK'
  BY <1>2, CallStateTypes DEF StartFails, TypeOK
<1>3. ASSUME NEW p \in Parents, NEW exited \in BOOLEAN, ParentArrives(p, exited)
      PROVE  TypeOK'
  BY <1>3 DEF ParentArrives, TypeOK
<1>4. ASSUME NEW p \in Parents, ParentDeparts(p)
      PROVE  TypeOK'
  BY <1>4, SweepTypes DEF ParentDeparts, TypeOK
<1>5. ASSUME NEW p \in Parents, ParentDepartsUnrouted(p)
      PROVE  TypeOK'
  BY <1>5, CallStateTypes DEF ParentDepartsUnrouted, HostIsGone, TypeOK
<1>6. ASSUME NEW c \in Calls, NEW p \in Parents, DelegateAsked(c, p)
      PROVE  TypeOK'
  BY <1>6, CallStateTypes DEF DelegateAsked, TypeOK
<1>7. ASSUME NEW c \in Calls, ParentRead(c)
      PROVE  TypeOK'
  BY <1>7, CallTypes, CallStateTypes DEF ParentRead, TypeOK
<1>8. ASSUME NEW c \in Calls, LimitRefused(c)
      PROVE  TypeOK'
  BY <1>8, CallStateTypes DEF LimitRefused, TypeOK
<1>9. ASSUME NEW c \in Calls, NEW d \in Delegs, NEW deadline \in BOOLEAN, Read(c, d, deadline)
      PROVE  TypeOK'
  <2>1. row' \in [Delegs -> Rows \cup {NoRow, Wiped}]
    BY <1>9, StoredRow, RowTypes DEF Read, CanAnswer, InFlight, Failures, TypeOK
  <2>2. call' \in [Calls -> CallStates]
    BY <1>9, CallStateTypes DEF Read, TypeOK
  <2>3. QED
    BY <1>9, <2>1, <2>2 DEF Read, TypeOK
<1>10. ASSUME NEW c \in Calls, Rereads(c)
       PROVE  TypeOK'
  BY <1>9, <1>10, CallTypes DEF Rereads, Waiting
<1>11. ASSUME NEW c \in Calls, DeadlinePasses(c)
       PROVE  TypeOK'
  BY <1>9, <1>11, CallTypes DEF DeadlinePasses
<1>12. ASSUME NEW c \in Calls, NEW d \in Delegs, ResultAsked(c, d)
       PROVE  TypeOK'
  BY <1>9, <1>12 DEF ResultAsked
<1>13. ASSUME NEW c \in Calls, NEW d \in Delegs, Admit(c, d)
       PROVE  TypeOK'
  <2>1. call[c].parent \in Parents
    BY <1>13, CallTypes DEF Admit
  <2>2. /\ Attempted(call[c].parent) \in Rows
        /\ FailedAs(Attempted(call[c].parent), "gate-closed") \in Rows
    <3>1. Attempted(call[c].parent) \in Rows
      BY <2>1 DEF Attempted, Rows
    <3>2. QED
      BY <3>1, RowTypes DEF Failures
  <2>3. row' \in [Delegs -> Rows \cup {NoRow, Wiped}]
    BY <1>13, <2>2 DEF Admit, Admitted, TypeOK
  <2>4. call' \in [Calls -> CallStates] /\ job' \in [Delegs -> {"none", "routing", "launching", "arrived"}]
    BY <1>13, CallStateTypes DEF Admit, Admitted, TypeOK
  <2>5. QED
    BY <1>13, <2>3, <2>4 DEF Admit, TypeOK
<1>14. ASSUME NEW c \in Calls, NEW flushed \in BOOLEAN, Flush(c, flushed)
       PROVE  TypeOK'
  <2>1. call[c].on \in Delegs
    BY <1>14, CallTypes DEF Flush
  <2>2. row' \in [Delegs -> Rows \cup {NoRow, Wiped}]
    BY <1>14, <2>1, StoredRow, RowTypes DEF Flush, Delivers, InFlight, Failures, TypeOK
  <2>3. call' \in [Calls -> CallStates]
    BY <1>14, <2>1, AwakeCalls, CallStateTypes DEF Flush, TypeOK
  <2>4. QED
    BY <1>14, <2>1, <2>2, <2>3 DEF Flush, HeldAfterFlush, TypeOK
<1>15. ASSUME NEW d \in Delegs, RouteFails(d) \/ LaunchFails(d)
       PROVE  TypeOK'
  <2>1. \A f \in Failures : row[d].state = "attempted" => FailedAs(row[d], f) \in Rows
    BY <1>0, RowTypes
  <2>2. row' \in [Delegs -> Rows \cup {NoRow, Wiped}] /\ call' \in [Calls -> CallStates]
    BY <1>15, <2>1, ApplyTypes DEF RouteFails, LaunchFails, Failures
  <2>3. QED
    BY <1>15, <2>2 DEF RouteFails, LaunchFails, TypeOK
<1>16. ASSUME NEW d \in Delegs, RoutePicks(d)
       PROVE  TypeOK'
  <2>1. \A f \in Failures : row[d].state = "attempted" => FailedAs(row[d], f) \in Rows
    BY <1>0, RowTypes
  <2>2. row' \in [Delegs -> Rows \cup {NoRow, Wiped}] /\ call' \in [Calls -> CallStates]
    BY <1>16, <2>1, ApplyTypes DEF RoutePicks, Failures, TypeOK
  <2>3. QED
    BY <1>16, <2>2 DEF RoutePicks, TypeOK
<1>17. ASSUME NEW d \in Delegs, WorkerLaunched(d)
       PROVE  TypeOK'
  <2>1. row[d].state = "attempted" => Taken(row[d]) \in Rows
    BY <1>0, RowTypes DEF Failures
  <2>2. row' \in [Delegs -> Rows \cup {NoRow, Wiped}] /\ call' \in [Calls -> CallStates]
    BY <1>17, <2>1, ApplyTypes DEF WorkerLaunched
  <2>3. QED
    BY <1>17, <2>2 DEF WorkerLaunched, TypeOK
<1>18. ASSUME NEW d \in Delegs, NEW exited \in BOOLEAN, WorkerArrives(d, exited)
       PROVE  TypeOK'
  BY <1>18 DEF WorkerArrives, TypeOK
<1>19. ASSUME NEW d \in Delegs, WorkerTurnEnds(d)
       PROVE  TypeOK'
  BY <1>19, AwakeCalls DEF WorkerTurnEnds, TypeOK
<1>20. ASSUME NEW d \in Delegs, WorkerDeparts(d)
       PROVE  TypeOK'
  <2>1. row[d].state = "running" => FailedAs(row[d], "worker-lost") \in Rows
    BY StoredRow, RowTypes DEF InFlight, Failures
  <2>2. row' \in [Delegs -> Rows \cup {NoRow, Wiped}] /\ call' \in [Calls -> CallStates]
    BY <1>20, <2>1, AwakeCalls DEF WorkerDeparts, TypeOK
  <2>3. QED
    BY <1>20, <2>2 DEF WorkerDeparts, TypeOK
<1>21. ASSUME NEW d \in Delegs, WorkerDepartsUnrouted(d)
       PROVE  TypeOK'
  BY <1>21, CallStateTypes DEF WorkerDepartsUnrouted, HostIsGone, TypeOK
<1>22. CASE ToggleDelegation
  BY <1>22 DEF ToggleDelegation, TypeOK
<1>23. CASE Reset
  <2>1. row' \in [Delegs -> Rows \cup {NoRow, Wiped}]
    BY <1>23 DEF Reset, TypeOK
  <2>2. QED
    BY <1>23, <2>1, SweepTypes DEF Reset, TypeOK
<1>24. CASE Crash
  BY <1>24, CallStateTypes DEF Crash, HostIsGone, TypeOK
<1>25. ASSUME NEW gone \in SUBSET {p \in Parents : crew[p] = "present"},
              NEW lost \in SUBSET {d \in Delegs : worker[d] = "present"}, Boot(gone, lost)
       PROVE  TypeOK'
  <2>1. gone \in SUBSET Parents /\ lost \in SUBSET Delegs
    OBVIOUS
  <2>2. QED
    BY <1>25, <2>1, SweepTypes DEF Boot, TypeOK
<1>26. CASE UNCHANGED vars
  BY <1>26 DEF vars, TypeOK
<1>27. QED
  BY <1>1, <1>2, <1>3, <1>4, <1>5, <1>6, <1>7, <1>8, <1>10, <1>11, <1>12, <1>13, <1>14, <1>15,
     <1>16, <1>17, <1>18, <1>19, <1>20, <1>21, <1>22, <1>23, <1>24, <1>25, <1>26 DEF Next

\* Every variable keeps its type: the rows, the credentials, the crew, and the memory of a
\* Host life.
THEOREM TypeCorrect == Spec => []TypeOK
<1>1. QED
  BY TypingInit, TypingStep, PTL DEF Spec

-----------------------------------------------------------------------------
(* What a step does to one row *)

TimedOut == {"not-routed", "worker-failed", "worker-lost"}

\* The ways a row is written: kept, admitted, its routing's and its launch's event, its
\* handoff begun and delivered, the worker lost, the parent gone, and wiped.
Moves(d) ==
  \/ row'[d] = row[d]
  \/ \E c \in Calls : Admit(c, d)
  \/ row[d].state = "attempted" /\ row'[d] = Taken(row[d])
  \/ row[d].state = "attempted" /\ \E f \in TimedOut : row'[d] = FailedAs(row[d], f)
  \/ CanAnswer(d) /\ row'[d] = Begun(row[d])
  \/ /\ row[d].state = "running" /\ row[d].handoff = "sending"
     /\ row'[d] = Delivered(row[d]) /\ d \in reached'
  \/ row[d].state = "running" /\ row'[d] = FailedAs(row[d], "worker-lost")
  \/ InFlight(d) /\ row'[d] = FailedAs(row[d], "parent-gone")
  \/ row[d] \in Rows /\ row'[d] = Wiped

LEMMA RowMoves == TypeOK /\ [Next]_vars => \A d \in Delegs : Moves(d)
<1> SUFFICES ASSUME TypeOK, [Next]_vars, NEW d \in Delegs
             PROVE  Moves(d)
  OBVIOUS
<1> USE DEF storeVars, memoryVars, history
<1>1. CASE row' = row
  BY <1>1 DEF Moves
<1>2. ASSUME NEW p \in Parents, ParentDeparts(p)
      PROVE  Moves(d)
  BY <1>2 DEF ParentDeparts, OrphanedBy, Moves
<1>3. ASSUME NEW c \in Calls, NEW e \in Delegs, NEW deadline \in BOOLEAN, Read(c, e, deadline)
      PROVE  Moves(d)
  BY <1>3 DEF Read, Moves, TypeOK
<1>4. ASSUME NEW c \in Calls, Rereads(c) \/ DeadlinePasses(c)
      PROVE  Moves(d)
  BY <1>3, <1>4, CallTypes DEF Rereads, DeadlinePasses, Waiting
<1>5. ASSUME NEW c \in Calls, NEW e \in Delegs, ResultAsked(c, e)
      PROVE  Moves(d)
  BY <1>3, <1>5 DEF ResultAsked
<1>6. ASSUME NEW c \in Calls, NEW e \in Delegs, Admit(c, e)
      PROVE  Moves(d)
  <2>1. CASE e = d
    BY <1>6, <2>1 DEF Moves
  <2>2. CASE e # d
    BY <1>6, <2>2 DEF Admit, Admitted, Moves, TypeOK
  <2>3. QED
    BY <2>1, <2>2
<1>7. ASSUME NEW c \in Calls, NEW flushed \in BOOLEAN, Flush(c, flushed)
      PROVE  Moves(d)
  BY <1>7 DEF Flush, Delivers, Moves, TypeOK
<1>8. ASSUME NEW e \in Delegs,
             \/ RouteFails(e) \/ RoutePicks(e) \/ LaunchFails(e) \/ WorkerLaunched(e)
      PROVE  Moves(d)
  BY <1>8 DEF RouteFails, RoutePicks, LaunchFails, WorkerLaunched, Apply, TimedOut, Moves, TypeOK
<1>9. ASSUME NEW e \in Delegs, WorkerDeparts(e)
      PROVE  Moves(d)
  BY <1>9 DEF WorkerDeparts, Moves, TypeOK
<1>10. CASE Reset
  BY <1>10, StoredRow DEF Reset, Moves
<1>11. ASSUME NEW gone \in SUBSET {p \in Parents : crew[p] = "present"},
              NEW lost \in SUBSET {e \in Delegs : worker[e] = "present"}, Boot(gone, lost)
       PROVE  Moves(d)
  BY <1>11 DEF Boot, Reconciled, TimedOut, Moves, InFlight
<1>12. ASSUME NEW p \in Parents,
              \/ IssueFor(p) \/ StartFails(p) \/ ParentDepartsUnrouted(p)
              \/ \E exited \in BOOLEAN : ParentArrives(p, exited)
              \/ \E c \in Calls : DelegateAsked(c, p)
       PROVE  row' = row
  BY <1>12 DEF IssueFor, StartFails, ParentDepartsUnrouted, HostIsGone, ParentArrives, DelegateAsked
<1>13. ASSUME NEW c \in Calls, ParentRead(c) \/ LimitRefused(c)
       PROVE  row' = row
  BY <1>13 DEF ParentRead, LimitRefused
<1>14. ASSUME NEW e \in Delegs,
              \/ \E exited \in BOOLEAN : WorkerArrives(e, exited)
              \/ WorkerTurnEnds(e) \/ WorkerDepartsUnrouted(e)
       PROVE  row' = row
  BY <1>14 DEF WorkerArrives, WorkerTurnEnds, WorkerDepartsUnrouted, HostIsGone
<1>15. CASE ToggleDelegation \/ Crash \/ UNCHANGED vars
  BY <1>1, <1>15 DEF ToggleDelegation, Crash, vars
<1>16. QED
  BY <1>1, <1>2, <1>4, <1>5, <1>6, <1>7, <1>8, <1>9, <1>10, <1>11, <1>12, <1>13, <1>14, <1>15
     DEF Next

\* What is over stays over, and what is in flight keeps its parent.
LEMMA OverForGood ==
  ASSUME TypeOK, [Next]_vars, NEW d \in Delegs
  PROVE  /\ Over(d) => Over(d)'
         /\ InFlight(d)' => \/ InFlight(d) /\ row'[d].parent = row[d].parent
                            \/ \E c \in Calls : Admit(c, d)
<1>1. Moves(d)
  BY RowMoves
<1>2. /\ row[d] \in Rows \/ row[d] = NoRow \/ row[d] = Wiped
      /\ InFlight(d) => row[d] \in Rows
  BY StoredRow
<1>3. /\ TimedOut \subseteq Failures
      /\ "worker-lost" \in Failures /\ "parent-gone" \in Failures
  BY DEF TimedOut, Failures
<1>4. /\ CanAnswer(d) => row[d].state = "running"
      /\ row[d].state \in {"attempted", "running"} => InFlight(d)
      /\ NoRow.state = "none" /\ Wiped.state = "deleted"
  BY DEF CanAnswer, InFlight, NoRow, Wiped
<1>5. ASSUME Over(d)
      PROVE  Over(d)'
  <2>1. ~InFlight(d) /\ ~CanAnswer(d) /\ ~\E c \in Calls : Admit(c, d)
    BY <1>4, <1>5 DEF Over, InFlight, Admit
  <2>2. row'[d] = row[d] \/ row'[d] = Wiped
    BY <1>1, <1>4, <2>1 DEF Moves
  <2>3. QED
    BY <1>4, <1>5, <2>2 DEF Over
<1>6. ASSUME InFlight(d)', ~\E c \in Calls : Admit(c, d)
      PROVE  InFlight(d) /\ row'[d].parent = row[d].parent
  <2>1. row'[d].state \in {"attempted", "running"}
    BY <1>6 DEF InFlight
  <2>2. CASE row'[d] = row[d]
    BY <2>1, <2>2 DEF InFlight
  <2>3. CASE InFlight(d) /\ (row'[d] = Taken(row[d]) \/ row'[d] = Begun(row[d]))
    BY <1>2, <1>3, <2>3, RowStates
  <2>4. CASE \/ InFlight(d) /\ \E f \in Failures : row'[d] = FailedAs(row[d], f)
             \/ InFlight(d) /\ row'[d] = Delivered(row[d])
             \/ row'[d] = Wiped
    BY <1>2, <1>3, <1>4, <2>1, <2>4, RowStates
  <2>5. QED
    BY <1>1, <1>3, <1>4, <1>6, <2>2, <2>3, <2>4 DEF Moves
<1>7. QED
  BY <1>5, <1>6

-----------------------------------------------------------------------------
(* A parent that left *)

\* Its credential is revoked and none of its delegations is in flight.
Bare(p) ==
  /\ token[p] = "revoked"
  /\ \A d \in Delegs : row[d] \in Rows /\ row[d].parent = p => ~InFlight(d)

\* Bare parents stay so: no admission passes the gate without a live credential.
LEMMA BareStays ==
  ASSUME TypeOK, [Next]_vars, NEW p \in Parents, Bare(p), token'[p] = "revoked"
  PROVE  Bare(p)'
<1>1. SUFFICES ASSUME NEW d \in Delegs, row'[d].parent = p, InFlight(d)'
               PROVE  FALSE
  BY DEF Bare
<1>2. CASE \E c \in Calls : Admit(c, d)
  <2>1. PICK c \in Calls : Admit(c, d)
    BY <1>2
  <2>2. GateOpen(call[c].parent) /\ row'[d] = Attempted(call[c].parent)
    BY <1>1, <2>1 DEF Admit, Admitted, InFlight, FailedAs, TypeOK
  <2>3. QED
    BY <1>1, <2>2 DEF GateOpen, Attempted, Bare
<1>3. CASE ~\E c \in Calls : Admit(c, d)
  <2>1. InFlight(d) /\ row[d].parent = p
    BY <1>1, <1>3, OverForGood
  <2>2. QED
    BY <2>1, StoredRow DEF Bare
<1>4. QED
  BY <1>2, <1>3

LEMMA ParentStep == ParentInv /\ [Next]_vars => ParentInv'
<1> SUFFICES ASSUME ParentInv, [Next]_vars
             PROVE  ParentInv'
  OBVIOUS
<1> USE DEF storeVars, memoryVars, history
<1>0. /\ TypeOK /\ PresentIsBound /\ TypeOK'
      /\ \A p \in Parents : crew[p] = "gone" /\ p \notin unrouted => Bare(p)
  BY TypingStep DEF ParentInv, GoneParentHoldsNothing, Bare
<1>1. ASSUME PresentIsBound',
             \A p \in Parents : /\ p \in unrouted => p \in unrouted'
                                /\ token[p] = "revoked" => token'[p] = "revoked"
                                /\ crew'[p] = "gone" /\ p \notin unrouted' =>
                                     crew[p] = "gone" \/ Bare(p)'
      PROVE  ParentInv'
  <2>1. ASSUME NEW p \in Parents, crew'[p] = "gone", p \notin unrouted'
        PROVE  Bare(p)'
    BY <1>0, <1>1, <2>1, BareStays DEF Bare
  <2>2. QED
    BY <1>0, <1>1, <2>1 DEF ParentInv, GoneParentHoldsNothing, Bare
<1>2. CASE token' = token /\ crew' = crew /\ unrouted' = unrouted
  BY <1>0, <1>1, <1>2 DEF PresentIsBound
<1>3. ASSUME NEW p \in Parents, IssueFor(p) \/ StartFails(p)
      PROVE  ParentInv'
  BY <1>0, <1>1, <1>3 DEF IssueFor, StartFails, PresentIsBound, TypeOK
<1>4. ASSUME NEW p \in Parents, NEW exited \in BOOLEAN, ParentArrives(p, exited)
      PROVE  ParentInv'
  BY <1>0, <1>1, <1>4 DEF ParentArrives, PresentIsBound, TypeOK
<1>5. ASSUME NEW p \in Parents, ParentDepartsUnrouted(p)
      PROVE  ParentInv'
  BY <1>0, <1>1, <1>5 DEF ParentDepartsUnrouted, PresentIsBound, TypeOK
<1>6. ASSUME NEW p \in Parents, ParentDeparts(p)
      PROVE  ParentInv'
  <2>1. token'[p] = "revoked"
    BY <1>0, <1>6 DEF ParentDeparts, RevokedFor, PresentIsBound
  <2>2. ASSUME NEW d \in Delegs, row'[d] \in Rows, row'[d].parent = p
        PROVE  ~InFlight(d)'
    BY <1>0, <1>6, <2>2, StoredRow, RowStates
       DEF ParentDeparts, OrphanedBy, InFlight, Failures
  <2>3. Bare(p)'
    BY <2>1, <2>2 DEF Bare
  <2>4. QED
    BY <1>0, <1>1, <1>6, <2>3 DEF ParentDeparts, RevokedFor, PresentIsBound, TypeOK
<1>7. ASSUME NEW gone \in SUBSET {p \in Parents : crew[p] = "present"},
             NEW lost \in SUBSET {d \in Delegs : worker[d] = "present"}, Boot(gone, lost)
      PROVE  ParentInv'
  <2>1. ASSUME NEW p \in gone
        PROVE  Bare(p)'
    <3>1. p \in Parents /\ token[p] = "bound"
      BY <1>0 DEF PresentIsBound
    <3>2. token'[p] = "revoked"
      BY <1>7, <3>1 DEF Boot, Swept, RevokedFor
    <3>3. ASSUME NEW d \in Delegs, row'[d] \in Rows, row'[d].parent = p
          PROVE  ~InFlight(d)'
      BY <1>0, <1>7, <3>3, StoredRow, RowStates DEF Boot, Reconciled, InFlight, Failures
    <3>4. QED
      BY <3>2, <3>3 DEF Bare
  <2>2. PresentIsBound'
    BY <1>0, <1>7 DEF Boot, Swept, RevokedFor, PresentIsBound, TypeOK
  <2>3. QED
    BY <1>0, <1>1, <1>7, <2>1, <2>2 DEF Boot, Swept, RevokedFor, TypeOK
<1>8. CASE Reset
  BY <1>0, <1>1, <1>8 DEF Reset, RevokedFor, PresentIsBound, TypeOK
<1>9. ASSUME NEW c \in Calls,
             \/ ParentRead(c) \/ LimitRefused(c) \/ Rereads(c) \/ DeadlinePasses(c)
             \/ \E p \in Parents : DelegateAsked(c, p)
             \/ \E d \in Delegs : Admit(c, d) \/ ResultAsked(c, d)
             \/ \E flushed \in BOOLEAN : Flush(c, flushed)
      PROVE  ParentInv'
  BY <1>2, <1>9 DEF ParentRead, LimitRefused, Rereads, DeadlinePasses, Read, DelegateAsked,
                    Admit, ResultAsked, Flush
<1>10. ASSUME NEW d \in Delegs,
              \/ RouteFails(d) \/ RoutePicks(d) \/ LaunchFails(d) \/ WorkerLaunched(d)
              \/ \E exited \in BOOLEAN : WorkerArrives(d, exited)
              \/ WorkerTurnEnds(d) \/ WorkerDeparts(d) \/ WorkerDepartsUnrouted(d)
       PROVE  ParentInv'
  BY <1>2, <1>10 DEF RouteFails, RoutePicks, LaunchFails, WorkerLaunched, WorkerArrives,
                     WorkerTurnEnds, WorkerDeparts, WorkerDepartsUnrouted
<1>11. CASE ToggleDelegation \/ Crash \/ UNCHANGED vars
  BY <1>2, <1>11 DEF ToggleDelegation, Crash, vars
<1>12. QED
  BY <1>3, <1>4, <1>5, <1>6, <1>7, <1>8, <1>9, <1>10, <1>11 DEF Next

\* A parent that left holds nothing (INV-83, S8.11), its credential revoked and none of its
\* delegations in flight, unless its departure passed the routes by: whatever call of it
\* stood between two of its steps then, however many delegations it had.
THEOREM ParentHoldsNothing == Spec => []GoneParentHoldsNothing
<1>1. Init => ParentInv
  BY TypingInit DEF Init, ParentInv, PresentIsBound, GoneParentHoldsNothing
<1>2. ParentInv => GoneParentHoldsNothing
  BY DEF ParentInv
<1>3. QED
  BY <1>1, <1>2, ParentStep, PTL DEF Spec

-----------------------------------------------------------------------------
(* A result that reached its parent *)

\* A call answers with a result only once the handoff has begun, and its result reaches
\* the parent only by the flush of such an answer.
LEMMA AnswerMoves ==
  ASSUME TypeOK, [Next]_vars, NEW d \in Delegs
  PROVE  \A c \in Calls : call'[c] = [at |-> "answer", on |-> d] =>
           \/ call[c] = [at |-> "answer", on |-> d]
           \/ CanAnswer(d) /\ row'[d] = Begun(row[d])
<1> USE DEF storeVars, memoryVars, history
<1> DEFINE Answering(c) == call[c] = [at |-> "answer", on |-> d]
           Same == \A c \in Calls : Answering(c)' => Answering(c)
           Answered == \A c \in Calls : Answering(c)' =>
                         Answering(c) \/ (CanAnswer(d) /\ row'[d] = Begun(row[d]))
<1>1. SUFFICES Answered
  OBVIOUS
<1>2. ASSUME NEW ds \in SUBSET Delegs, call' = Awake(ds)
      PROVE  Same
  BY <1>2, AwakeCalls
<1>3. ASSUME NEW p \in Parents,
             \/ IssueFor(p) \/ StartFails(p) \/ ParentDeparts(p) \/ ParentDepartsUnrouted(p)
             \/ \E exited \in BOOLEAN : ParentArrives(p, exited)
             \/ \E c \in Calls : DelegateAsked(c, p)
      PROVE  Answered
  BY <1>3 DEF IssueFor, StartFails, ParentDeparts, ParentDepartsUnrouted, HostIsGone,
              ParentArrives, DelegateAsked, Idle, TypeOK
<1>4. ASSUME NEW c \in Calls, ParentRead(c) \/ LimitRefused(c)
      PROVE  Answered
  BY <1>4 DEF ParentRead, LimitRefused, Idle, TypeOK
<1>5. ASSUME NEW c \in Calls, NEW e \in Delegs, Admit(c, e)
      PROVE  Answered
  BY <1>5 DEF Admit, Admitted, Idle, TypeOK
<1>6. ASSUME NEW c \in Calls, NEW e \in Delegs, NEW deadline \in BOOLEAN, Read(c, e, deadline)
      PROVE  Answered
  BY <1>6 DEF Read, Idle, TypeOK
<1>7. ASSUME NEW c \in Calls, Rereads(c) \/ DeadlinePasses(c)
      PROVE  Answered
  BY <1>6, <1>7, CallTypes DEF Rereads, DeadlinePasses, Waiting
<1>8. ASSUME NEW c \in Calls, NEW e \in Delegs, ResultAsked(c, e)
      PROVE  Answered
  BY <1>6, <1>8 DEF ResultAsked
<1>9. ASSUME NEW c \in Calls, NEW flushed \in BOOLEAN, Flush(c, flushed)
       PROVE  Answered
  <2>1. call[c].on \in Delegs /\ call[c] = [at |-> "answer", on |-> call[c].on]
    BY <1>9, CallTypes DEF Flush
  <2>2. PICK ds \in SUBSET Delegs : call' = [Awake(ds) EXCEPT ![c] = Idle]
    BY <1>9, <2>1 DEF Flush
  <2>3. Same
    BY <1>2, <2>2 DEF Idle, TypeOK, Awake
  <2>4. QED
    BY <1>9, <2>1, <2>3 DEF Flush
<1>10. ASSUME NEW e \in Delegs,
              \/ RouteFails(e) \/ RoutePicks(e) \/ LaunchFails(e) \/ WorkerLaunched(e)
              \/ \E exited \in BOOLEAN : WorkerArrives(e, exited)
              \/ WorkerTurnEnds(e) \/ WorkerDeparts(e) \/ WorkerDepartsUnrouted(e)
       PROVE  Answered
  <2>1. CASE call' = Awake({e})
    BY <1>2, <1>10, <2>1
       DEF RouteFails, RoutePicks, LaunchFails, WorkerLaunched, WorkerTurnEnds, WorkerDeparts,
           WorkerArrives, WorkerDepartsUnrouted
  <2>2. CASE call' = call \/ call' = [c \in Calls |-> Idle]
    BY <1>10, <2>2
       DEF RouteFails, RoutePicks, LaunchFails, WorkerLaunched, WorkerTurnEnds, WorkerDeparts,
           WorkerArrives, WorkerDepartsUnrouted, Idle
  <2>3. QED
    BY <1>10, <2>1, <2>2
       DEF RouteFails, RoutePicks, LaunchFails, WorkerLaunched, WorkerTurnEnds, WorkerDeparts,
           WorkerArrives, WorkerDepartsUnrouted, HostIsGone, Apply
<1>11. CASE ToggleDelegation \/ Reset \/ Crash \/ UNCHANGED vars
  BY <1>11 DEF ToggleDelegation, Reset, Crash, HostIsGone, Idle, vars
<1>12. ASSUME NEW gone \in SUBSET {p \in Parents : crew[p] = "present"},
              NEW lost \in SUBSET {e \in Delegs : worker[e] = "present"}, Boot(gone, lost)
       PROVE  Answered
  BY <1>12 DEF Boot
<1>13. QED
  <2> HIDE DEF Answered
  <2> QED
    BY <1>3, <1>4, <1>5, <1>7, <1>8, <1>9, <1>10, <1>11, <1>12
       DEF Next

\* A result reaches its parent only by the flush of an answer.
LEMMA ReachedMoves ==
  ASSUME [Next]_vars
  PROVE  \/ reached' = reached
         \/ \E c \in Calls : Flush(c, TRUE) /\ reached' = reached \cup {call[c].on}
<1> USE DEF storeVars, memoryVars, history
<1>1. ASSUME NEW p \in Parents,
             \/ IssueFor(p) \/ StartFails(p) \/ ParentDeparts(p) \/ ParentDepartsUnrouted(p)
             \/ \E exited \in BOOLEAN : ParentArrives(p, exited)
             \/ \E c \in Calls : DelegateAsked(c, p)
      PROVE  reached' = reached
  BY <1>1 DEF IssueFor, StartFails, ParentDeparts, ParentDepartsUnrouted, ParentArrives,
              DelegateAsked
<1>2. ASSUME NEW c \in Calls,
             \/ ParentRead(c) \/ LimitRefused(c) \/ Rereads(c) \/ DeadlinePasses(c)
             \/ \E d \in Delegs : Admit(c, d) \/ ResultAsked(c, d)
             \/ Flush(c, FALSE)
      PROVE  reached' = reached
  BY <1>2 DEF ParentRead, LimitRefused, Rereads, DeadlinePasses, Read, Admit, ResultAsked, Flush
<1>3. ASSUME NEW c \in Calls, Flush(c, TRUE)
      PROVE  reached' = reached \cup {call[c].on}
  BY <1>3 DEF Flush
<1>4. ASSUME NEW d \in Delegs,
             \/ RouteFails(d) \/ RoutePicks(d) \/ LaunchFails(d) \/ WorkerLaunched(d)
             \/ \E exited \in BOOLEAN : WorkerArrives(d, exited)
             \/ WorkerTurnEnds(d) \/ WorkerDeparts(d) \/ WorkerDepartsUnrouted(d)
      PROVE  reached' = reached
  BY <1>4 DEF RouteFails, RoutePicks, LaunchFails, WorkerLaunched, WorkerArrives,
              WorkerTurnEnds, WorkerDeparts, WorkerDepartsUnrouted
<1>5. CASE ToggleDelegation \/ Reset \/ Crash \/ UNCHANGED vars
  BY <1>5 DEF ToggleDelegation, Reset, Crash, vars
<1>6. ASSUME NEW gone \in SUBSET {p \in Parents : crew[p] = "present"},
             NEW lost \in SUBSET {e \in Delegs : worker[e] = "present"}, Boot(gone, lost)
      PROVE  reached' = reached
  BY <1>6 DEF Boot
<1>7. \A flushed \in BOOLEAN : flushed = TRUE \/ flushed = FALSE
  OBVIOUS
<1>8. QED
  BY <1>1, <1>2, <1>3, <1>4, <1>5, <1>6, <1>7 DEF Next

LEMMA HandoffStep == HandoffInv /\ [Next]_vars => HandoffInv'
<1> SUFFICES ASSUME HandoffInv, [Next]_vars
             PROVE  HandoffInv'
  OBVIOUS
<1>0. TypeOK /\ AnswersBegun /\ ReachedIsOver /\ SucceededIsReached /\ TypeOK'
  BY TypingStep DEF HandoffInv
<1>1. ASSUME NEW d \in Delegs, CanAnswer(d), row'[d] = Begun(row[d])
      PROVE  (row[d].state = "running" /\ row[d].handoff = "sending")'
  BY <1>0, <1>1, StoredRow, RowStates DEF CanAnswer, InFlight, Failures
<1>2. ASSUME NEW d \in Delegs, row[d].state = "running", row[d].handoff = "sending"
      PROVE  (Over(d) \/ (row[d].state = "running" /\ row[d].handoff = "sending"))'
  <2>1. Moves(d) /\ row[d] \in Rows
    BY <1>0, <1>2, RowMoves, StoredRow DEF InFlight
  <2>2. CASE row'[d] = row[d] \/ (CanAnswer(d) /\ row'[d] = Begun(row[d]))
    BY <1>1, <1>2, <2>2
  <2>3. CASE \/ row'[d] = Delivered(row[d]) \/ row'[d] = Wiped
             \/ \E f \in Failures : row'[d] = FailedAs(row[d], f)
    BY <2>1, <2>3, RowStates DEF Over, Wiped, Failures
  <2>4. QED
    BY <1>2, <2>1, <2>2, <2>3 DEF Moves, Admit, NoRow, Failures
<1>3. AnswersBegun'
  BY <1>0, <1>1, <1>2, AnswerMoves, OverForGood DEF AnswersBegun
<1>4. ReachedIsOver'
  <2> SUFFICES ASSUME NEW d \in reached'
               PROVE  Over(d)'
    BY DEF ReachedIsOver
  <2>1. d \in Delegs
    BY <1>0 DEF TypeOK
  <2>2. CASE Over(d)
    BY <1>0, <2>1, <2>2, OverForGood
  <2>3. CASE ~Over(d)
    <3>1. PICK c \in Calls : Flush(c, TRUE) /\ d = call[c].on
      BY <1>0, <2>3, ReachedMoves DEF ReachedIsOver
    <3>2. call[c] = [at |-> "answer", on |-> d]
      BY <1>0, <3>1, CallTypes DEF Flush
    <3>3. row[d].state = "running" /\ row[d].handoff = "sending" /\ row[d] \in Rows
      BY <1>0, <2>1, <2>3, <3>2, StoredRow DEF AnswersBegun, InFlight
    <3>4. row'[d] = Delivered(row[d])
      BY <1>0, <2>1, <3>1, <3>3 DEF Flush, Delivers, TypeOK
    <3>5. QED
      BY <3>3, <3>4, RowStates DEF Over, Failures
  <2>4. QED
    BY <2>2, <2>3
<1>5. SucceededIsReached'
  <2> SUFFICES ASSUME NEW d \in Delegs, row'[d].state = "succeeded"
               PROVE  d \in reached'
    BY DEF SucceededIsReached
  <2>1. CASE row[d].state = "succeeded"
    BY <1>0, <2>1, ReachedMoves DEF SucceededIsReached
  <2>2. CASE row[d].state # "succeeded"
    <3>1. Moves(d) /\ (row[d] \in Rows \/ row[d] = NoRow \/ row[d] = Wiped)
          /\ (InFlight(d) => row[d] \in Rows)
      BY <1>0, RowMoves, StoredRow
    <3>2. ASSUME NEW c \in Calls, Admit(c, d)
          PROVE  FALSE
      <4>1. \/ row'[d] = Attempted(call[c].parent)
            \/ row'[d] = FailedAs(Attempted(call[c].parent), "gate-closed")
        BY <1>0, <3>2 DEF Admit, Admitted, TypeOK
      <4>2. Attempted(call[c].parent) \in Rows /\ Attempted(call[c].parent).state = "attempted"
        BY <1>0, <3>2, CallTypes DEF Admit, Attempted, Rows
      <4>3. QED
        BY <4>1, <4>2, RowStates DEF Failures
    <3>3. /\ CanAnswer(d) => row[d].state = "running"
          /\ row[d].state \in {"attempted", "running"} => InFlight(d)
          /\ TimedOut \subseteq Failures /\ "worker-lost" \in Failures /\ "parent-gone" \in Failures
      BY DEF CanAnswer, InFlight, TimedOut, Failures
    <3>4. ASSUME InFlight(d)
          PROVE  /\ \A f \in Failures : row'[d] # FailedAs(row[d], f)
                 /\ row'[d] # Taken(row[d]) /\ row'[d] # Begun(row[d])
      BY <2>2, <3>1, <3>4, RowStates DEF InFlight, Failures
    <3>5. QED
      BY <2>2, <3>1, <3>2, <3>3, <3>4 DEF Moves, Wiped
  <2>3. QED
    BY <2>1, <2>2
<1>6. QED
  BY <1>0, <1>3, <1>4, <1>5 DEF HandoffInv

\* A delegation succeeded only if its result was written to an open connection of its
\* parent, and once one was, it is over (S8.08, INV-68): whatever answers of it were under
\* way at once, closed or written, and whatever settled it between the answer and its flush.
THEOREM SucceededReached == Spec => []SucceededWasReached
<1>1. Init => HandoffInv
  BY TypingInit DEF Init, HandoffInv, AnswersBegun, ReachedIsOver, SucceededIsReached, Idle, NoRow
<1>2. HandoffInv => SucceededWasReached
  BY DEF HandoffInv, SucceededWasReached, ReachedIsOver, SucceededIsReached, Over, InFlight, TypeOK
<1>3. QED
  BY <1>1, <1>2, HandoffStep, PTL DEF Spec

\* While the Host runs, a result is given up only once it reached the parent.
THEOREM HeldToTheEnd == Spec => HeldUntilReached
<1>1. TypeOK /\ [Next]_vars => [up' => \A d \in held \ held' : d \in reached']_vars
  <2> SUFFICES ASSUME TypeOK, [Next]_vars, up', NEW d \in held, d \notin held'
               PROVE  d \in reached'
    OBVIOUS
  <2> USE DEF storeVars, memoryVars, history
  <2>1. ASSUME NEW p \in Parents,
               \/ IssueFor(p) \/ StartFails(p) \/ ParentDeparts(p) \/ ParentDepartsUnrouted(p)
               \/ \E exited \in BOOLEAN : ParentArrives(p, exited)
               \/ \E c \in Calls : DelegateAsked(c, p)
        PROVE  FALSE
    BY <2>1 DEF IssueFor, StartFails, ParentDeparts, ParentDepartsUnrouted, HostIsGone,
                ParentArrives, DelegateAsked
  <2>2. ASSUME NEW c \in Calls,
               \/ ParentRead(c) \/ LimitRefused(c) \/ Rereads(c) \/ DeadlinePasses(c)
               \/ \E e \in Delegs : Admit(c, e) \/ ResultAsked(c, e)
        PROVE  FALSE
    BY <2>2 DEF ParentRead, LimitRefused, Rereads, DeadlinePasses, Read, Admit, ResultAsked
  <2>3. ASSUME NEW c \in Calls, NEW flushed \in BOOLEAN, Flush(c, flushed)
        PROVE  d \in reached'
    BY <2>3 DEF Flush, HeldAfterFlush, Delivers
  <2>4. ASSUME NEW e \in Delegs,
               \/ RouteFails(e) \/ RoutePicks(e) \/ LaunchFails(e) \/ WorkerLaunched(e)
               \/ \E exited \in BOOLEAN : WorkerArrives(e, exited)
               \/ WorkerTurnEnds(e) \/ WorkerDeparts(e) \/ WorkerDepartsUnrouted(e)
        PROVE  FALSE
    BY <2>4 DEF RouteFails, RoutePicks, LaunchFails, WorkerLaunched, WorkerArrives,
                WorkerTurnEnds, WorkerDeparts, WorkerDepartsUnrouted, HostIsGone
  <2>5. CASE ToggleDelegation \/ Reset \/ Crash \/ UNCHANGED vars
    BY <2>5 DEF ToggleDelegation, Reset, Crash, HostIsGone, vars
  <2>6. ASSUME NEW gone \in SUBSET {p \in Parents : crew[p] = "present"},
               NEW lost \in SUBSET {e \in Delegs : worker[e] = "present"}, Boot(gone, lost)
        PROVE  FALSE
    BY <2>6 DEF Boot
  <2>7. QED
    BY <2>1, <2>2, <2>3, <2>4, <2>5, <2>6 DEF Next
<1>2. QED
  BY <1>1, TypeCorrect, PTL DEF Spec, HeldUntilReached

-----------------------------------------------------------------------------
(* No wake-up is lost *)

\* What a sleeper's delegation may be.
Nothing(d) ==
  \/ row[d].state = "deleted"
  \/ InFlight(d) /\ ~CanAnswer(d)
  \/ row[d].state = "failed" /\ row[d].failure = "parent-gone"

LEMMA SleepStep == SleepInv /\ [Next]_vars => SleepInv'
<1> SUFFICES ASSUME SleepInv, [Next]_vars
             PROVE  SleepInv'
  OBVIOUS
<1> USE DEF storeVars, memoryVars, history
<1>0. /\ TypeOK /\ DownIsIdle /\ TypeOK'
      /\ \A c \in Calls, d \in Delegs : Asleep(c, d) => Nothing(d)
  BY TypingStep DEF SleepInv, SleepersHaveNothing, Nothing
<1>1. ASSUME DownIsIdle',
             \A c \in Calls, d \in Delegs : Asleep(c, d)' =>
               \/ Nothing(d)'
               \/ Asleep(c, d) /\ row'[d] = row[d] /\ (d \in held' => d \in held)
      PROVE  SleepInv'
  <2>1. ASSUME NEW c \in Calls, NEW d \in Delegs, Asleep(c, d)'
        PROVE  Nothing(d)'
    BY <1>0, <1>1, <2>1 DEF Nothing, InFlight, CanAnswer
  <2>2. QED
    BY <1>0, <1>1, <2>1 DEF SleepInv, SleepersHaveNothing, Nothing
\* Only the calls that wait on e are told of it, and only e moves.
<1>2. ASSUME NEW e \in Delegs, up' = up, call' = Awake({e}),
             \A d \in Delegs \ {e} : row'[d] = row[d] /\ (d \in held' => d \in held)
      PROVE  SleepInv'
  <2>1. \A c \in Calls, d \in Delegs : Asleep(c, d)' => Asleep(c, d) /\ d # e
    BY <1>0, <1>2, AwakeCalls DEF Asleep
  <2>2. DownIsIdle'
    BY <1>0, <1>2 DEF DownIsIdle, Awake, Asleep, Idle
  <2>3. QED
    BY <1>1, <1>2, <2>1, <2>2
\* Nothing but some calls changes, none of which falls asleep.
<1>3. ASSUME row' = row, held' \subseteq held,
             \A c \in Calls : call'[c] = call[c] \/ \A d \in Delegs : ~Asleep(c, d)',
             (up' = up /\ (up \/ call' = call)) \/ call' = [c \in Calls |-> Idle]
      PROVE  SleepInv'
  <2>1. DownIsIdle'
    BY <1>0, <1>3 DEF DownIsIdle
  <2>2. QED
    BY <1>1, <1>3, <2>1 DEF Asleep
<1>4. ASSUME NEW p \in Parents, NEW c \in Calls, DelegateAsked(c, p)
      PROVE  SleepInv'
  BY <1>0, <1>3, <1>4 DEF DelegateAsked, Asleep, TypeOK
<1>5. ASSUME NEW p \in Parents, IssueFor(p) \/ \E exited \in BOOLEAN : ParentArrives(p, exited)
      PROVE  SleepInv'
  BY <1>3, <1>5 DEF IssueFor, ParentArrives
<1>6. ASSUME NEW p \in Parents, StartFails(p)
      PROVE  SleepInv'
  BY <1>0, <1>3, <1>6 DEF StartFails, Asleep, Idle
<1>7. ASSUME HostIsGone, row' = row
      PROVE  SleepInv'
  BY <1>3, <1>7 DEF HostIsGone, Asleep, Idle
<1>8. ASSUME NEW p \in Parents, ParentDeparts(p)
      PROVE  SleepInv'
  <2>1. ASSUME NEW d \in Delegs
        PROVE  row'[d] = row[d] \/ Nothing(d)'
    BY <1>0, <1>8, StoredRow, RowStates DEF ParentDeparts, OrphanedBy, Nothing, Failures
  <2>2. DownIsIdle'
    BY <1>0, <1>8 DEF ParentDeparts, DownIsIdle
  <2>3. QED
    BY <1>1, <1>8, <2>1, <2>2 DEF ParentDeparts, Asleep
<1>9. ASSUME NEW c \in Calls, ParentRead(c) \/ LimitRefused(c)
      PROVE  SleepInv'
  <2>1. up
    BY <1>0, <1>9 DEF DownIsIdle, Idle, ParentRead, LimitRefused
  <2>2. row' = row /\ held' = held /\ up' = up
    BY <1>9 DEF ParentRead, LimitRefused
  <2>3. PICK p : call' = [call EXCEPT ![c] = [at |-> "admit", parent |-> p]]
                 \/ call' = [call EXCEPT ![c] = Idle]
    BY <1>9 DEF ParentRead, LimitRefused
  <2>4. \A b \in Calls : call'[b] = call[b] \/ \A d \in Delegs : ~Asleep(b, d)'
    BY <1>0, <2>3 DEF Asleep, Idle, TypeOK
  <2>5. QED
    BY <1>3, <2>1, <2>2, <2>4
<1>10. ASSUME NEW c \in Calls, NEW d \in Delegs, NEW deadline \in BOOLEAN, up, Read(c, d, deadline)
       PROVE  SleepInv'
  <2>1. DownIsIdle'
    BY <1>10 DEF DownIsIdle, Read
  <2>2. CASE CanAnswer(d)
    <3>1. \A b \in Calls : ~Asleep(b, d)
      BY <1>0, <2>2 DEF Nothing, CanAnswer
    <3>2. \A b \in Calls, e \in Delegs : Asleep(b, e)' => Asleep(b, e) /\ e # d
      BY <1>0, <1>10, <2>2, <3>1 DEF Read, Asleep, TypeOK
    <3>3. QED
      BY <1>0, <1>1, <1>10, <2>1, <2>2, <3>2 DEF Read, TypeOK
  <2>3. CASE ~CanAnswer(d)
    <3>1. row' = row /\ held' = held
      BY <1>10, <2>3 DEF Read
    <3>2. ASSUME NEW b \in Calls, NEW e \in Delegs, Asleep(b, e)', ~Asleep(b, e)
          PROVE  e = d /\ InFlight(d)
      BY <1>0, <1>10, <2>3, <3>2 DEF Read, Asleep, Idle, TypeOK
    <3>3. QED
      BY <1>1, <2>1, <2>3, <3>1, <3>2 DEF Nothing, InFlight, CanAnswer
  <2>4. QED
    BY <2>2, <2>3
<1>11. ASSUME NEW c \in Calls, Rereads(c) \/ DeadlinePasses(c)
       PROVE  SleepInv'
  <2>1. up /\ call[c].on \in Delegs
    <3>1. Waiting(c)
      BY <1>11 DEF Rereads, DeadlinePasses, Waiting
    <3>2. up
      BY <1>0, <3>1 DEF DownIsIdle, Idle, Waiting
    <3>3. QED
      BY <1>0, <3>1, <3>2, CallTypes
  <2>2. QED
    BY <1>10, <1>11, <2>1 DEF Rereads, DeadlinePasses
<1>12. ASSUME NEW c \in Calls, NEW d \in Delegs, ResultAsked(c, d)
       PROVE  SleepInv'
  BY <1>10, <1>12 DEF ResultAsked
<1>13. ASSUME NEW c \in Calls, NEW d \in Delegs, Admit(c, d)
       PROVE  SleepInv'
  <2>1. up /\ DownIsIdle'
    BY <1>0, <1>13 DEF DownIsIdle, Idle, Admit
  <2>2. \A b \in Calls : ~Asleep(b, d)
    BY <1>0, <1>13 DEF Nothing, Admit, NoRow, InFlight
  <2>3. ASSUME NEW b \in Calls, NEW e \in Delegs, Asleep(b, e)'
        PROVE  \/ e # d /\ Asleep(b, e)
               \/ e = d /\ row'[d] = Attempted(call[c].parent)
    BY <1>0, <1>13, <2>2, <2>3 DEF Admit, Admitted, Asleep, Idle, TypeOK
  <2>4. \A e \in Delegs \ {d} : row'[e] = row[e] /\ held' = held
    BY <1>0, <1>13 DEF Admit, Admitted, TypeOK
  <2>5. QED
    BY <1>1, <2>1, <2>3, <2>4 DEF Nothing, InFlight, CanAnswer, Attempted
<1>14. ASSUME NEW c \in Calls, NEW flushed \in BOOLEAN, Flush(c, flushed)
       PROVE  SleepInv'
  <2>1. up /\ DownIsIdle'
    BY <1>0, <1>14 DEF DownIsIdle, Idle, Flush
  <2>2. call[c].on \in Delegs
    BY <1>0, <1>14, CallTypes DEF Flush
  <2>3. PICK ds \in SUBSET {call[c].on} :
          /\ call' = [Awake(ds) EXCEPT ![c] = Idle] /\ held' \subseteq held
          /\ \A d \in Delegs \ ds : row'[d] = row[d]
    <3>1. CASE Delivers(call[c].on, flushed)
      BY <1>0, <1>14, <3>1 DEF Flush, HeldAfterFlush, TypeOK
    <3>2. CASE ~Delivers(call[c].on, flushed)
      BY <1>0, <1>14, <3>2 DEF Flush, HeldAfterFlush, TypeOK
    <3>3. QED
      BY <3>1, <3>2
  <2>4. ASSUME NEW b \in Calls, NEW d \in Delegs, Asleep(b, d)'
        PROVE  Asleep(b, d) /\ d \notin ds
    <3>1. b # c /\ Awake(ds)[b] = [at |-> "asleep", on |-> d]
      BY <1>0, <2>2, <2>3, <2>4, AwakeCalls DEF Asleep, Idle
    <3>2. QED
      BY <1>0, <2>2, <3>1, AwakeCalls
  <2>5. QED
    BY <1>1, <2>1, <2>3, <2>4
<1>15. ASSUME NEW d \in Delegs,
              \/ RouteFails(d) \/ RoutePicks(d) \/ LaunchFails(d) \/ WorkerLaunched(d)
       PROVE  SleepInv'
  <2>1. up' = up /\ held' = held
    BY <1>15 DEF RouteFails, RoutePicks, LaunchFails, WorkerLaunched
  <2>2. CASE row' = row /\ call' = call
    BY <1>3, <2>1, <2>2
  <2>3. CASE call' = Awake({d}) /\ \E r : row' = [row EXCEPT ![d] = r]
    BY <1>0, <1>2, <2>1, <2>3 DEF TypeOK
  <2>4. QED
    BY <1>15, <2>2, <2>3 DEF RouteFails, RoutePicks, LaunchFails, WorkerLaunched, Apply
<1>16. ASSUME NEW d \in Delegs, NEW exited \in BOOLEAN, WorkerArrives(d, exited)
       PROVE  SleepInv'
  BY <1>3, <1>16 DEF WorkerArrives
<1>17. ASSUME NEW d \in Delegs, WorkerTurnEnds(d)
       PROVE  SleepInv'
  BY <1>2, <1>17 DEF WorkerTurnEnds
<1>18. ASSUME NEW d \in Delegs, WorkerDeparts(d)
       PROVE  SleepInv'
  <2>1. CASE row' = row /\ call' = call
    BY <1>3, <1>18, <2>1 DEF WorkerDeparts
  <2>2. CASE call' = Awake({d}) /\ \A e \in Delegs \ {d} : row'[e] = row[e]
    BY <1>2, <1>18, <2>2 DEF WorkerDeparts
  <2>3. QED
    BY <1>0, <1>18, <2>1, <2>2 DEF WorkerDeparts, TypeOK
<1>19. CASE Reset
  <2>1. \A d \in Delegs : row'[d] = row[d] \/ Nothing(d)'
    BY <1>19 DEF Reset, Nothing, Wiped
  <2>2. DownIsIdle'
    BY <1>0, <1>19 DEF Reset, DownIsIdle
  <2>3. QED
    BY <1>1, <1>19, <2>1, <2>2 DEF Reset, Asleep
<1>20. ASSUME NEW gone \in SUBSET {p \in Parents : crew[p] = "present"},
              NEW lost \in SUBSET {d \in Delegs : worker[d] = "present"}, Boot(gone, lost)
       PROVE  SleepInv'
  BY <1>0, <1>1, <1>20 DEF Boot, DownIsIdle, Asleep, Idle
<1>21. CASE ToggleDelegation \/ UNCHANGED vars
  BY <1>3, <1>21 DEF ToggleDelegation, vars
<1>22. QED
  BY <1>4, <1>5, <1>6, <1>7, <1>8, <1>9, <1>11, <1>12, <1>13, <1>14, <1>15, <1>16, <1>17, <1>18,
     <1>19, <1>20, <1>21
     DEF Next, ParentDepartsUnrouted, WorkerDepartsUnrouted, Crash

\* A call asleep on a ticket has nothing to answer but `pending`, its own parent's end
\* aside: between its read and its wait, and at every settling, no wake-up is lost.
THEOREM NoWakeUpLost == Spec => []SleepersHaveNothing
<1>1. Init => SleepInv
  BY TypingInit DEF Init, SleepInv, DownIsIdle, SleepersHaveNothing, Asleep, Idle
<1>2. SleepInv => SleepersHaveNothing
  BY DEF SleepInv
<1>3. QED
  BY <1>1, <1>2, SleepStep, PTL DEF Spec

-----------------------------------------------------------------------------
(* Every step of a delegation is a row of machine 8 *)

ShapeOf(r) == /\ r.state = "attempted" => r.handoff = "none"
              /\ r.state = "failed" => r.failure \in Failures

LEMMA ShapeStep == TypeOK /\ RowShape /\ [Next]_vars => RowShape'
<1> SUFFICES ASSUME TypeOK, RowShape, [Next]_vars, NEW d \in Delegs
             PROVE  ShapeOf(row'[d])
  BY DEF RowShape, ShapeOf
<1>1. Moves(d) /\ (InFlight(d) => row[d] \in Rows)
  BY RowMoves, StoredRow
<1>2. /\ CanAnswer(d) => row[d].state = "running"
      /\ row[d].state \in {"attempted", "running"} => InFlight(d)
      /\ TimedOut \subseteq Failures /\ "worker-lost" \in Failures /\ "parent-gone" \in Failures
  BY DEF CanAnswer, InFlight, TimedOut, Failures
<1>3. ASSUME NEW c \in Calls, Admit(c, d)
      PROVE  ShapeOf(row'[d])
  <2>1. /\ call[c].parent \in Parents
        /\ \/ row'[d] = Attempted(call[c].parent)
           \/ row'[d] = FailedAs(Attempted(call[c].parent), "gate-closed")
    BY <1>3, CallTypes DEF Admit, Admitted, TypeOK
  <2>2. /\ Attempted(call[c].parent) \in Rows
        /\ Attempted(call[c].parent).state = "attempted"
        /\ Attempted(call[c].parent).handoff = "none"
    BY <2>1 DEF Attempted, Rows
  <2>3. QED
    BY <2>1, <2>2, RowStates DEF ShapeOf, Failures
<1>4. ASSUME NEW f \in Failures, InFlight(d), row'[d] = FailedAs(row[d], f)
      PROVE  ShapeOf(row'[d])
  BY <1>1, <1>4, RowStates DEF ShapeOf
<1>5. CASE /\ InFlight(d)
           /\ \/ row'[d] = Taken(row[d]) \/ row'[d] = Delivered(row[d])
              \/ CanAnswer(d) /\ row'[d] = Begun(row[d])
  BY <1>1, <1>2, <1>5, RowStates DEF ShapeOf, Failures
<1>6. CASE row'[d] = row[d] \/ row'[d] = Wiped
  BY <1>6 DEF RowShape, ShapeOf, Wiped
<1>7. QED
  BY <1>1, <1>2, <1>3, <1>4, <1>5, <1>6 DEF Moves

\* The step of machine 8 each move of a row is.
LEMMA PhaseStep ==
  ASSUME TypeOK, RowShape, [Next]_vars, NEW d \in Delegs
  PROVE  Phase(d)' = Phase(d) \/ <<Phase(d), Phase(d)'>> \in Lifecycle!Machine8
<1> USE DEF Lifecycle!Machine8, Lifecycle!Admissions, Lifecycle!Routed, Lifecycle!Handed,
            Lifecycle!Lost, Lifecycle!Orphaned, Lifecycle!Wiped, Lifecycle!InFlight,
            Lifecycle!Settled, Lifecycle!Failures
<1>1. /\ Moves(d) /\ ShapeOf(row[d])
      /\ InFlight(d) => row[d] \in Rows
      /\ row[d] \in Rows => InFlight(d) \/ Settled(d)
  BY RowMoves, StoredRow DEF RowShape, ShapeOf
<1>2. /\ CanAnswer(d) => row[d].state = "running"
      /\ row[d].state \in {"attempted", "running"} => InFlight(d)
      /\ TimedOut \subseteq Failures /\ "worker-lost" \in Failures /\ "parent-gone" \in Failures
  BY DEF CanAnswer, InFlight, TimedOut, Failures
\* What each state of a row is in the machine.
<1>3. /\ row[d].state = "attempted" => Phase(d) = "attempted"
      /\ row[d].state = "running" => /\ Phase(d) \in {"running", "sending"}
                                     /\ row[d].handoff = "sending" => Phase(d) = "sending"
      /\ InFlight(d) => Phase(d) \in {"attempted", "running", "sending"}
      /\ Settled(d) => Phase(d) \in Lifecycle!Settled
  BY <1>1 DEF Phase, InFlight, Settled, ShapeOf, Failures
<1>4. /\ row'[d].state = "running" =>
           Phase(d)' = IF row'[d].handoff = "sending" THEN "sending" ELSE "running"
      /\ row'[d].state = "failed" => Phase(d)' = row'[d].failure
      /\ row'[d].state \in {"attempted", "succeeded", "deleted"} => Phase(d)' = row'[d].state
  BY DEF Phase
<1>5. CASE row'[d] = row[d]
  BY <1>5 DEF Phase
<1>6. ASSUME NEW c \in Calls, Admit(c, d)
      PROVE  <<Phase(d), Phase(d)'>> \in Lifecycle!Machine8
  <2>1. /\ call[c].parent \in Parents
        /\ \/ row'[d] = Attempted(call[c].parent)
           \/ row'[d] = FailedAs(Attempted(call[c].parent), "gate-closed")
    BY <1>6, CallTypes DEF Admit, Admitted, TypeOK
  <2>2. /\ Attempted(call[c].parent) \in Rows
        /\ Attempted(call[c].parent).state = "attempted"
    BY <2>1 DEF Attempted, Rows
  <2>3. Phase(d)' \in {"attempted", "gate-closed"}
    BY <1>4, <2>1, <2>2, RowStates DEF Failures
  <2>4. Phase(d) = "none"
    BY <1>6 DEF Admit, NoRow, Phase
  <2>5. QED
    BY <2>3, <2>4
<1>7. CASE row[d].state = "attempted" /\ row'[d] = Taken(row[d])
  BY <1>1, <1>2, <1>3, <1>4, <1>7, RowStates DEF ShapeOf, Failures
<1>8. ASSUME row[d].state = "attempted", NEW f \in TimedOut, row'[d] = FailedAs(row[d], f)
      PROVE  <<Phase(d), Phase(d)'>> \in Lifecycle!Machine8
  BY <1>1, <1>2, <1>3, <1>4, <1>8, RowStates DEF TimedOut
<1>9. CASE CanAnswer(d) /\ row'[d] = Begun(row[d])
  BY <1>1, <1>2, <1>3, <1>4, <1>9, RowStates DEF Failures
<1>10. CASE /\ row[d].state = "running" /\ row[d].handoff = "sending"
            /\ row'[d] = Delivered(row[d])
  BY <1>1, <1>2, <1>3, <1>4, <1>10, RowStates DEF Failures
<1>11. CASE row[d].state = "running" /\ row'[d] = FailedAs(row[d], "worker-lost")
  BY <1>1, <1>2, <1>3, <1>4, <1>11, RowStates
<1>12. CASE InFlight(d) /\ row'[d] = FailedAs(row[d], "parent-gone")
  BY <1>1, <1>2, <1>3, <1>4, <1>12, RowStates
<1>13. CASE row[d] \in Rows /\ row'[d] = Wiped
  BY <1>1, <1>3, <1>4, <1>13 DEF Wiped
<1>14. QED
  BY <1>1, <1>5, <1>6, <1>7, <1>8, <1>9, <1>10, <1>11, <1>12, <1>13 DEF Moves

LEMMA PhaseTypes ==
  TypeOK /\ RowShape => [d \in Delegs |-> Phase(d)] \in [Delegs -> Lifecycle!Phases]
<1> SUFFICES ASSUME TypeOK, RowShape
             PROVE  [d \in Delegs |-> Phase(d)] \in [Delegs -> Lifecycle!Phases]
  OBVIOUS
<1>1. ASSUME NEW d \in Delegs
      PROVE  Phase(d) \in Lifecycle!Phases
  <2>1. row[d] \in Rows \/ row[d] = NoRow \/ row[d] = Wiped
    BY StoredRow
  <2>2. row[d].state \in {"none", "deleted", "attempted", "running", "succeeded", "failed"}
    BY <2>1 DEF Rows, NoRow, Wiped
  <2>3. QED
    BY <2>2 DEF RowShape, Phase, Failures, Lifecycle!Phases, Lifecycle!InFlight,
                Lifecycle!Settled, Lifecycle!Failures
<1>2. QED
  BY <1>1

LEMMA MachineStep ==
  TypeOK /\ RowShape /\ (TypeOK /\ RowShape)' /\ [Next]_vars => Lifecycle!LNext
<1>0. (TypeOK /\ RowShape)' => ([d \in Delegs |-> Phase(d)] \in [Delegs -> Lifecycle!Phases])'
  BY PhaseTypes, PTL
<1> SUFFICES ASSUME TypeOK, RowShape, TypeOK', RowShape', [Next]_vars
             PROVE  Lifecycle!LNext
  OBVIOUS
<1>1. [d \in Delegs |-> Phase(d)]' \in [Delegs -> Lifecycle!Phases]
  BY <1>0
<1>2. ASSUME NEW d \in Delegs
      PROVE  [e \in Delegs |-> Phase(e)]'[d] = Phase(d)' /\ [e \in Delegs |-> Phase(e)][d] = Phase(d)
  OBVIOUS
<1>3. QED
  BY <1>1, <1>2, PhaseStep DEF Lifecycle!LNext

\* The detailed delegations implement machine 8 (delegation/domain/delegation.ts): every
\* step of every one is a row of it, and what is settled stays so.
THEOREM DelegationIsMachine8 == Spec => ImplementsMachine8
<1>1. Init => TypeOK /\ RowShape /\ Lifecycle!LInit
  BY TypingInit DEF Init, RowShape, NoRow, Lifecycle!LInit, Phase
<1>2. TypeOK /\ RowShape /\ [Next]_vars => (TypeOK /\ RowShape)'
  BY TypingStep, ShapeStep
<1>3. TypeOK /\ RowShape /\ (TypeOK /\ RowShape)' /\ [Next]_vars =>
        [Lifecycle!LNext]_([d \in Delegs |-> Phase(d)])
  BY MachineStep
<1>4. QED
  BY <1>1, <1>2, <1>3, PTL DEF Spec, ImplementsMachine8, Lifecycle!LSpec
=============================================================================
