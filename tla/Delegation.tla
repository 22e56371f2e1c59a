----------------------------- MODULE Delegation -----------------------------
(***************************************************************************)
(* Delegated subtasks in the composed Host: the credential of a launch     *)
(* (delegationLifecycle.ts), the parent's tool calls and their wait        *)
(* (delegationEndpoint.ts), the routing and the launch of the worker       *)
(* (subtaskRun.ts, workerLauncher.ts), the handoff of its result           *)
(* (handoff.ts, McpDelegationServer.ts) and its loss (workerLoss.ts), with *)
(* the routes of wiring/delegationWiring.ts, across Host stops.            *)
(*                                                                         *)
(* Every handoff is the answer of a tool call (`viaOf`), so the push into  *)
(* the parent's turn is left out, and so are parents launched with no      *)
(* credential, which cannot call.  The wiring starts a route in the        *)
(* publisher's own call: a departure and its routes are one step unless    *)
(* the Host stops between them.                                            *)
(***************************************************************************)
EXTENDS Naturals, FiniteSets

CONSTANTS
  Parents,         \* the launches that are given a credential, each with the dwarf it becomes
  Delegs,          \* the delegations, each with the worker launched for it
  Calls,           \* the tool calls of the relays that are open at once
  MaxPerParent,    \* MAX_DELEGATIONS_PER_PARENT
  MaxGlobal        \* MAX_DELEGATIONS_GLOBAL

ASSUME DelegationAssumption ==
  /\ IsFiniteSet(Delegs)
  /\ MaxPerParent \in Nat
  /\ MaxGlobal \in Nat

VARIABLES
  \* the database
  row,             \* delegations: each delegation's row
  token,           \* delegation_tokens: the credential of each parent's launch
  crew,            \* each parent: "starting" until it arrives, then "present" or "gone"
  worker,          \* each delegation's worker: "none", "present" or "gone"
  \* the memory of one Host life
  up,
  on,              \* the preference "Subagent delegation", kept in its own file
  job,             \* where SubtaskRunService.run stands for each delegation
  held,            \* the finished results waiting for their handoff
  call,            \* each tool call
  \* history
  known,           \* the delegations whose ticket was answered to the parent
  reached,         \* the delegations whose result was written to an open connection
  unrouted         \* the parents whose departure no route of this module saw with their token

storeVars == <<row, token, crew, worker>>
memoryVars == <<up, on, job, held, call>>
history == <<known, reached, unrouted>>
vars == <<storeVars, memoryVars, history>>

-----------------------------------------------------------------------------
(* Data *)

Failures == {"gate-closed", "not-routed", "worker-failed", "worker-lost", "parent-gone"}

NoRow == [state |-> "none"]
Wiped == [state |-> "deleted"]
Rows == [state : {"attempted", "running", "succeeded", "failed"}, parent : Parents,
         handoff : {"none", "sending", "delivered", "failed"},
         failure : {"none"} \cup Failures]

Attempted(p) == [state |-> "attempted", parent |-> p, handoff |-> "none", failure |-> "none"]

InFlight(d) == row[d].state \in {"attempted", "running"}
Settled(d) == row[d].state \in {"succeeded", "failed"}

\* settleFailed: a handoff still sending failed with it.
FailedAs(r, f) ==
  [r EXCEPT !.state = "failed", !.failure = f,
            !.handoff = IF @ = "sending" THEN "failed" ELSE @]
Taken(r) == [r EXCEPT !.state = "running"]
Begun(r) == [r EXCEPT !.handoff = "sending"]
Delivered(r) == [r EXCEPT !.state = "succeeded", !.handoff = "delivered"]

Idle == [at |-> "idle"]
CallStates ==
  {Idle} \cup [at : {"bind", "admit"}, parent : Parents]
         \cup [at : {"asleep", "woken", "answer"}, on : Delegs]

Waiting(c) == call[c].at \in {"asleep", "woken"}
Asleep(c, d) == call[c] = [at |-> "asleep", on |-> d]

\* The calls once delegationSettled has woken those that wait on a ticket of ds.
Awake(ds) ==
  [c \in Calls |-> IF \E d \in ds : Asleep(c, d) THEN [at |-> "woken", on |-> call[c].on] ELSE call[c]]

-----------------------------------------------------------------------------
(* The credential of a launch *)

\* SessionStarter: issueFor before the driver starts, with the preference on.
IssueFor(p) ==
  /\ up /\ on /\ token[p] = "none"
  /\ token' = [token EXCEPT ![p] = "unbound"]
  /\ UNCHANGED <<row, crew, worker, memoryVars, history>>

\* The start failed: revokeLaunch, and launchClosed ends the calls that wait for the bind.
StartFails(p) ==
  /\ up /\ crew[p] = "starting" /\ token[p] = "unbound"
  /\ token' = [token EXCEPT ![p] = "revoked"]
  /\ call' = [c \in Calls |-> IF call[c] = [at |-> "bind", parent |-> p] THEN Idle ELSE call[c]]
  /\ UNCHANGED <<row, crew, worker, up, on, job, held, history>>

\* The dwarf arrives and DwarfLaunched binds the credential to it.  An exit its driver
\* held until then is delivered first: revokeFor finds no credential of that dwarf.
ParentArrives(p, exited) ==
  /\ up /\ crew[p] = "starting" /\ token[p] = "unbound"
  /\ crew' = [crew EXCEPT ![p] = IF exited THEN "gone" ELSE "present"]
  /\ token' = [token EXCEPT ![p] = "bound"]
  /\ unrouted' = IF exited THEN unrouted \cup {p} ELSE unrouted
  /\ UNCHANGED <<row, worker, memoryVars, known, reached>>

RevokedFor(gone) ==
  [p \in Parents |-> IF p \in gone /\ token[p] = "bound" THEN "revoked" ELSE token[p]]

OrphanedBy(gone) ==
  [d \in Delegs |-> IF InFlight(d) /\ row[d].parent \in gone
                      THEN FailedAs(row[d], "parent-gone") ELSE row[d]]

\* DwarfDeparted of a parent: revokeFor.  It wakes no call.
ParentDeparts(p) ==
  /\ up /\ crew[p] = "present"
  /\ crew' = [crew EXCEPT ![p] = "gone"]
  /\ token' = RevokedFor({p})
  /\ row' = OrphanedBy({p})
  /\ UNCHANGED <<worker, memoryVars, history>>

-----------------------------------------------------------------------------
(* The parent's tool calls *)

ToggleDelegation == /\ up
                    /\ on' = ~on
                    /\ UNCHANGED <<storeVars, up, job, held, call, history>>

\* delegate_subtask of a session the Host started, which may call before it is bound.
DelegateAsked(c, p) ==
  /\ up /\ call[c] = Idle
  /\ crew[p] # "gone" /\ token[p] \in {"unbound", "bound"}
  /\ call' = [call EXCEPT ![c] = [at |-> "bind", parent |-> p]]
  /\ UNCHANGED <<storeVars, up, on, job, held, history>>

\* parentOf, once the row has a parent.  What it answers is used after an await.
ParentRead(c) ==
  /\ call[c].at = "bind"
  /\ LET p == call[c].parent
     IN  /\ token[p] # "unbound"
         /\ call' = [call EXCEPT ![c] = IF token[p] = "bound" THEN [at |-> "admit", parent |-> p]
                                                              ELSE Idle]
  /\ UNCHANGED <<storeVars, up, on, job, held, history>>

\* With a fault: the preference alone, the launch as it was read before the await.
GateOfPreferences(p) == on

\* DelegationGate over gateOf, which reads the credential again.
GateOpen(p) == on /\ token[p] = "bound"

UnderCaps(p) ==
  LET flying == {d \in Delegs : InFlight(d)}
  IN  /\ Cardinality({d \in flying : row[d].parent = p}) < MaxPerParent
      /\ Cardinality(flying) < MaxGlobal

\* delegate: one transaction over what is stored now, then SubtaskDelegated starts
\* the routing and the call waits for the result.
Admitted(c, d) ==
  LET p == call[c].parent
  IN  /\ row' = [row EXCEPT ![d] = IF GateOpen(p) THEN Attempted(p)
                                   ELSE FailedAs(Attempted(p), "gate-closed")]
      /\ IF GateOpen(p)
           THEN /\ job' = [job EXCEPT ![d] = "routing"]
                /\ call' = [call EXCEPT ![c] = [at |-> "asleep", on |-> d]]
           ELSE /\ call' = [call EXCEPT ![c] = Idle]
                /\ UNCHANGED job

Admit(c, d) ==
  /\ call[c].at = "admit" /\ row[d] = NoRow
  /\ GateOpen(call[c].parent) => UnderCaps(call[c].parent)
  /\ Admitted(c, d)
  /\ UNCHANGED <<token, crew, worker, up, on, held, history>>

LimitRefused(c) ==
  /\ call[c].at = "admit"
  /\ GateOpen(call[c].parent) /\ ~UnderCaps(call[c].parent)
  /\ call' = [call EXCEPT ![c] = Idle]
  /\ UNCHANGED <<storeVars, up, on, job, held, history>>

\* `answer` of the handoff: it begins once, and a result not flushed is answered again.
CanAnswer(d) ==
  /\ d \in held
  /\ row[d].state = "running" /\ row[d].handoff \in {"none", "sending"}

\* One read of `result`: the finished result, another wait, or at the deadline
\* `pending`; a delegation that is over is answered as such.
Read(c, d, deadline) ==
  /\ IF CanAnswer(d)
       THEN /\ row' = [row EXCEPT ![d] = Begun(row[d])]
            /\ call' = [call EXCEPT ![c] = [at |-> "answer", on |-> d]]
       ELSE /\ call' = [call EXCEPT ![c] =
                          IF InFlight(d) /\ ~deadline
                            THEN [at |-> "asleep", on |-> d] ELSE Idle]
            /\ UNCHANGED row
  /\ known' = IF ~CanAnswer(d) /\ InFlight(d) /\ deadline THEN known \cup {d} ELSE known
  /\ UNCHANGED <<token, crew, worker, up, on, job, held, reached, unrouted>>

\* subtask_result with a ticket the parent was answered.
ResultAsked(c, d) ==
  /\ up /\ call[c] = Idle /\ d \in known
  /\ row[d] \in Rows
  /\ crew[row[d].parent] = "present" /\ token[row[d].parent] = "bound"
  /\ Read(c, d, FALSE)

Rereads(c) == call[c].at = "woken" /\ Read(c, call[c].on, FALSE)

DeadlinePasses(c) == Waiting(c) /\ Read(c, call[c].on, TRUE)

\* S8.08 needs the flush, and a delegation not settled meanwhile.
Delivers(d, flushed) == flushed /\ row[d].state = "running" /\ row[d].handoff = "sending"

\* With a fault: a result is dropped once it was answered, flushed or not.
HeldAfterAnyFlush(d, taken) == held \ {d}

HeldAfterFlush(d, taken) == IF taken THEN held \ {d} ELSE held

\* responseFlushed: written to an open connection it is delivered (S8.08), unless the
\* delegation was settled meanwhile; not written, nothing changes.
Flush(c, flushed) ==
  /\ call[c].at = "answer"
  /\ LET d == call[c].on
         taken == Delivers(d, flushed)
     IN  /\ row' = IF taken THEN [row EXCEPT ![d] = Delivered(row[d])] ELSE row
         /\ held' = HeldAfterFlush(d, taken)
         /\ call' = [Awake(IF taken THEN {d} ELSE {}) EXCEPT ![c] = Idle]
         /\ reached' = IF flushed THEN reached \cup {d} ELSE reached
  /\ UNCHANGED <<token, crew, worker, up, on, job, known, unrouted>>

-----------------------------------------------------------------------------
(* The routing, the worker and its result *)

\* With a fault: the event is applied to whatever is stored.
ApplyToAny(d, next) ==
  IF row[d] \in Rows THEN row' = [row EXCEPT ![d] = next] /\ call' = Awake({d})
                     ELSE UNCHANGED <<row, call>>

\* apply: the event of a step that took its time, on the row as it is now.
Apply(d, next) ==
  IF row[d].state = "attempted"
    THEN row' = [row EXCEPT ![d] = next] /\ call' = Awake({d})
    ELSE UNCHANGED <<row, call>>

\* Jev's answer names no worker to launch, or no answer came.
RouteFails(d) ==
  /\ job[d] = "routing"
  /\ job' = [job EXCEPT ![d] = "none"]
  /\ Apply(d, FailedAs(row[d], "not-routed"))
  /\ UNCHANGED <<token, crew, worker, up, on, held, history>>

\* Settled while Jev answered, no worker is launched; a parent that left launches none.
RoutePicks(d) ==
  /\ job[d] = "routing"
  /\ IF row[d].state = "attempted" /\ crew[row[d].parent] = "present"
       THEN /\ job' = [job EXCEPT ![d] = "launching"]
            /\ UNCHANGED <<row, call>>
       ELSE /\ job' = [job EXCEPT ![d] = "none"]
            /\ Apply(d, FailedAs(row[d], "worker-failed"))
  /\ UNCHANGED <<token, crew, worker, up, on, held, history>>

\* With a fault: a launch refused at its acceptance settles nothing.
LaunchFailsQuietly(d) ==
  /\ job[d] = "launching"
  /\ job' = [job EXCEPT ![d] = "none"]
  /\ UNCHANGED <<storeVars, up, on, held, call, history>>

LaunchFails(d) ==
  /\ job[d] = "launching"
  /\ job' = [job EXCEPT ![d] = "none"]
  /\ Apply(d, FailedAs(row[d], "worker-failed"))
  /\ UNCHANGED <<token, crew, worker, up, on, held, history>>

\* The worker's dwarf arrives; what its driver held until then (a turn end, an exit) is
\* delivered before the delegation runs, and moves nothing.
WorkerArrives(d, exited) ==
  /\ job[d] = "launching"
  /\ job' = [job EXCEPT ![d] = "arrived"]
  /\ worker' = [worker EXCEPT ![d] = IF exited THEN "gone" ELSE "present"]
  /\ UNCHANGED <<row, token, crew, up, on, held, call, history>>

\* launchWorker answers after an await: S8.03, unless the delegation was settled.
WorkerLaunched(d) ==
  /\ job[d] = "arrived"
  /\ job' = [job EXCEPT ![d] = "none"]
  /\ Apply(d, Taken(row[d]))
  /\ UNCHANGED <<token, crew, worker, up, on, held, history>>

\* With a fault: the result is kept and no waiting call is told.
WorkerTurnEndsQuietly(d) ==
  /\ up /\ worker[d] = "present"
  /\ row[d].state = "running" /\ row[d].handoff = "none" /\ d \notin held
  /\ held' = held \cup {d}
  /\ UNCHANGED <<storeVars, up, on, job, call, history>>

\* The first reliable turn end of a running delegation is its result.
WorkerTurnEnds(d) ==
  /\ up /\ worker[d] = "present"
  /\ row[d].state = "running" /\ row[d].handoff = "none" /\ d \notin held
  /\ held' = held \cup {d}
  /\ call' = Awake({d})
  /\ UNCHANGED <<storeVars, up, on, job, history>>

\* DwarfDeparted of a worker: workerLost, whatever its result.
WorkerDeparts(d) ==
  /\ up /\ worker[d] = "present"
  /\ worker' = [worker EXCEPT ![d] = "gone"]
  /\ IF row[d].state = "running"
       THEN /\ row' = [row EXCEPT ![d] = FailedAs(@, "worker-lost")]
            /\ call' = Awake({d})
       ELSE UNCHANGED <<row, call>>
  /\ UNCHANGED <<token, crew, up, on, job, held, history>>

\* Reset metrics: the settled delegations, and by cascade whatever names a dwarf that
\* left.  A credential whose row is gone reads like a revoked one.
Reset ==
  LET gone == {p \in Parents : crew[p] = "gone"}
  IN  /\ up
      /\ row' = [d \in Delegs |->
                   IF Settled(d) \/ (InFlight(d) /\ row[d].parent \in gone) THEN Wiped ELSE row[d]]
      /\ token' = RevokedFor(gone)
      /\ UNCHANGED <<crew, worker, memoryVars, history>>

-----------------------------------------------------------------------------
(* The Host stops and starts *)

HostIsGone ==
  /\ up' = FALSE
  /\ job' = [d \in Delegs |-> "none"]
  /\ held' = {}
  /\ call' = [c \in Calls |-> Idle]
  /\ UNCHANGED on

Crash == up /\ HostIsGone /\ UNCHANGED <<storeVars, history>>

\* Crew committed a departure, and the Host stopped before its routes ran.
ParentDepartsUnrouted(p) ==
  /\ up /\ crew[p] = "present"
  /\ crew' = [crew EXCEPT ![p] = "gone"]
  /\ unrouted' = unrouted \cup {p}
  /\ HostIsGone
  /\ UNCHANGED <<row, token, worker, known, reached>>

WorkerDepartsUnrouted(d) ==
  /\ up /\ worker[d] = "present"
  /\ worker' = [worker EXCEPT ![d] = "gone"]
  /\ HostIsGone
  /\ UNCHANGED <<row, token, crew, history>>

\* failRoutingOnBoot (S8.12) and reconcileOnBoot (S8.09), after the departures the
\* recovery found went through their routes.
Reconciled(d, gone, lost) ==
  CASE InFlight(d) /\ row[d].parent \in gone -> FailedAs(row[d], "parent-gone")
    [] row[d].state = "attempted" /\ row[d].parent \notin gone -> FailedAs(row[d], "worker-lost")
    [] row[d].state = "running" /\ row[d].parent \notin gone
         /\ (d \in lost \/ worker[d] = "gone") -> FailedAs(row[d], "worker-lost")
    [] OTHER -> row[d]

\* sweepOrphans: a launch that never reached a dwarf.
Swept(gone) ==
  [p \in Parents |-> IF token[p] = "unbound" THEN "revoked" ELSE RevokedFor(gone)[p]]

\* The parents in gone left while the Host was down, and no session of a worker in lost
\* runs any more.
Boot(gone, lost) ==
  /\ ~up
  /\ up' = TRUE
  /\ crew' = [p \in Parents |-> IF p \in gone THEN "gone" ELSE crew[p]]
  /\ worker' = [d \in Delegs |-> IF d \in lost THEN "gone" ELSE worker[d]]
  /\ row' = [d \in Delegs |-> Reconciled(d, gone, lost)]
  /\ token' = Swept(gone)
  /\ UNCHANGED <<on, job, held, call, history>>

-----------------------------------------------------------------------------
Init ==
  /\ row = [d \in Delegs |-> NoRow]
  /\ token = [p \in Parents |-> "none"]
  /\ crew = [p \in Parents |-> "starting"]
  /\ worker = [d \in Delegs |-> "none"]
  /\ up = TRUE /\ on = TRUE
  /\ job = [d \in Delegs |-> "none"]
  /\ held = {}
  /\ call = [c \in Calls |-> Idle]
  /\ known = {} /\ reached = {} /\ unrouted = {}

Next ==
  \/ \E p \in Parents :
       \/ IssueFor(p) \/ StartFails(p) \/ ParentDeparts(p) \/ ParentDepartsUnrouted(p)
       \/ \E exited \in BOOLEAN : ParentArrives(p, exited)
       \/ \E c \in Calls : DelegateAsked(c, p)
  \/ \E c \in Calls :
       \/ ParentRead(c) \/ LimitRefused(c) \/ Rereads(c) \/ DeadlinePasses(c)
       \/ \E d \in Delegs : Admit(c, d) \/ ResultAsked(c, d)
       \/ \E flushed \in BOOLEAN : Flush(c, flushed)
  \/ \E d \in Delegs :
       \/ RouteFails(d) \/ RoutePicks(d) \/ LaunchFails(d) \/ WorkerLaunched(d)
       \/ \E exited \in BOOLEAN : WorkerArrives(d, exited)
       \/ WorkerTurnEnds(d) \/ WorkerDeparts(d) \/ WorkerDepartsUnrouted(d)
  \/ ToggleDelegation \/ Reset \/ Crash
  \/ \E gone \in SUBSET {p \in Parents : crew[p] = "present"},
        lost \in SUBSET {d \in Delegs : worker[d] = "present"} : Boot(gone, lost)

Spec == Init /\ [][Next]_vars

\* The Host's own continuations: Jev and the launch have budgets, the rest are microtasks.
Routing(d) == RouteFails(d) \/ RoutePicks(d)
Launching(d) == LaunchFails(d) \/ \E exited \in BOOLEAN : WorkerArrives(d, exited)
FairSpec ==
  /\ Spec
  /\ \A d \in Delegs : WF_vars(Routing(d)) /\ WF_vars(Launching(d)) /\ WF_vars(WorkerLaunched(d))

-----------------------------------------------------------------------------
(* Properties *)

TypeOK ==
  /\ row \in [Delegs -> Rows \cup {NoRow, Wiped}]
  /\ token \in [Parents -> {"none", "unbound", "bound", "revoked"}]
  /\ crew \in [Parents -> {"starting", "present", "gone"}]
  /\ worker \in [Delegs -> {"none", "present", "gone"}]
  /\ up \in BOOLEAN /\ on \in BOOLEAN
  /\ job \in [Delegs -> {"none", "routing", "launching", "arrived"}]
  /\ held \subseteq Delegs
  /\ call \in [Calls -> CallStates]
  /\ known \subseteq Delegs /\ reached \subseteq Delegs /\ unrouted \subseteq Parents

\* A parent that left holds nothing (INV-83, S8.11): its credential is revoked and none of
\* its delegations is in flight, though a call of it may still stand between the reading
\* of its parent and its admission.  Except a parent whose departure the routes missed.
GoneParentHoldsNothing ==
  \A p \in Parents : crew[p] = "gone" /\ p \notin unrouted =>
    /\ token[p] = "revoked"
    /\ \A d \in Delegs : row[d] \in Rows /\ row[d].parent = p => ~InFlight(d)

\* No wake-up is lost: a call asleep on a ticket has nothing to answer but `pending`, the
\* failure of its own parent's end aside, which is told to nobody.
SleepersHaveNothing ==
  \A c \in Calls, d \in Delegs : Asleep(c, d) /\ row[d].state # "deleted" =>
    \/ InFlight(d) /\ ~CanAnswer(d)
    \/ row[d].state = "failed" /\ row[d].failure = "parent-gone"

\* A delegation succeeded only if its result was written to an open connection of its
\* parent, and once one was, it is not in flight any more (S8.08, INV-68): neither of two
\* calls answered with the same result settles it before it reached the parent.
SucceededWasReached ==
  \A d \in Delegs : /\ row[d].state = "succeeded" => d \in reached
                    /\ d \in reached => ~InFlight(d)

\* While the Host runs, a result is given up only once it reached the parent: an answer
\* whose connection closed leaves it to the parent's next subtask_result.
HeldUntilReached == [][up' => \A d \in held \ held' : d \in reached']_vars

\* The routing, the launch and a Host stop leave no delegation attempted for good.
AttemptsEnd ==
  \A d \in Delegs : row[d].state = "attempted" ~> (row[d].state # "attempted" \/ ~up)

\* Every step of a delegation is a row of machine 8 (DelegationLifecycle).
Phase(d) ==
  CASE row[d].state \in {"none", "deleted", "attempted", "succeeded"} -> row[d].state
    [] row[d].state = "failed" -> row[d].failure
    [] OTHER -> IF row[d].handoff = "sending" THEN "sending" ELSE "running"
Lifecycle == INSTANCE DelegationLifecycle WITH phase <- [d \in Delegs |-> Phase(d)]
ImplementsMachine8 == Lifecycle!LSpec
=============================================================================
