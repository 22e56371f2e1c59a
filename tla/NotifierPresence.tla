---------------------------- MODULE NotifierPresence ----------------------------
(***************************************************************************)
(* The presence of the tray notifier: NotifierSupervisor (attention/       *)
(* application/notifierSupervisor.ts) drives machine 12C (domain/          *)
(* notifierPresence.ts) from the attaches and detaches of the ui clients,  *)
(* from its own wait, and from the results of the starts it asked          *)
(* AppBackgroundNotifierLauncher for, each of which is a process that may  *)
(* attach, exit, or stay silent past the bound of its start.               *)
(*                                                                         *)
(* Every callback is one task of the event loop; a result settles in the   *)
(* task that caused it.  Durations are abstracted: a wait and a bound may  *)
(* end at any moment; only the ages of the counted starts are kept, up to  *)
(* Window.  The launcher's answer 'gave-up' has no sender and is left out. *)
(***************************************************************************)
EXTENDS Integers, Sequences

CONSTANTS
  Apps, RoleOf,  \* the clients of a normal launch, "ui" or "notifier" each
  Trays,         \* bound: the slots of the processes the supervisor starts
  Limit,         \* RESPAWN_ATTEMPT_LIMIT
  Window         \* RESPAWN_WINDOW_MS, in ticks

ASSUME NotifierConstants ==
  /\ Apps \cap Trays = {}
  /\ RoleOf \in [Apps -> {"ui", "notifier"}]
  /\ Limit \in Nat \ {0}
  /\ Window \in Nat \ {0}

VARIABLES
  state,     \* of machine 12C
  attempts,  \* the ages of the counted starts, oldest first
  timer,     \* the supervisor's wait is pending
  attached,  \* the attached ui and notifier clients
  running,   \* the started processes that run and are not attached
  listening, \* the starts whose promise is unsettled
  recent     \* history: the ages of the starts since the last attach taken for a launch

vars == <<state, attempts, timer, attached, running, listening, recent>>

States == {"attached", "waiting", "spawning", "gave-up"}

Clients == Apps \cup Trays

Role(c) == IF c \in Apps THEN RoleOf[c] ELSE "notifier"

\* The starts made less than Window before now.
Kept(starts, age) == IF age < Window THEN Append(starts, age) ELSE starts

InWindow(starts) ==
  LET kept[i \in 0..Len(starts)] == IF i = 0 THEN <<>> ELSE Kept(kept[i - 1], starts[i])
  IN kept[Len(starts)]

-----------------------------------------------------------------------------
(* Machine 12C: the transitions and the effects the supervisor carries out *)

Wait(starts) ==
  /\ state' = "waiting"
  /\ attempts' = starts
  /\ timer' = TRUE

GiveUp(starts) ==
  /\ state' = "gave-up"
  /\ attempts' = starts

\* S12.C04, S12.C05
AfterFailure ==
  IF Len(InWindow(attempts)) >= Limit
  THEN GiveUp(InWindow(attempts)) /\ UNCHANGED timer
  ELSE Wait(InWindow(attempts))

\* settled('spawn-failed'): a failure counts only while a start is under way.
StartFailed ==
  IF state = "spawning" THEN AfterFailure ELSE UNCHANGED <<state, attempts, timer>>

\* S12.C03 keeps the counter for the respawned notifier; any other attach clears it.
Respawned(c) == state = "spawning" /\ Role(c) = "notifier"

ClearedCounter(c) == <<>>

Counter(c) == IF Respawned(c) THEN attempts ELSE <<>>

\* The wait is cancelled in `waiting`, the one state that has one.
TimerAfterAttach == IF state = "waiting" THEN FALSE ELSE timer

Attach(c) ==
  /\ attached' = attached \cup {c}
  /\ state' = "attached"
  /\ attempts' = Counter(c)
  /\ timer' = TimerAfterAttach
  /\ listening' = IF Role(c) = "notifier" THEN {} ELSE listening
  /\ recent' = IF Respawned(c) THEN recent ELSE <<>>

-----------------------------------------------------------------------------
\* Boot step 4: the clients attached before it are taken first.
Init ==
  /\ state = "attached"
  /\ attempts = <<>>
  /\ timer = FALSE
  /\ attached \in SUBSET Apps
  /\ running = {}
  /\ listening = {}
  /\ recent = <<>>

\* A client of an app the person started attaches, or attaches again.
AppAttaches(c) ==
  /\ c \in Apps \ attached
  /\ Attach(c)
  /\ UNCHANGED running

\* A started process attaches as notifier, also after the bound of its start.
TrayAttaches(p) ==
  /\ p \in running
  /\ Attach(p)
  /\ running' = running \ {p}

\* S12.C01: only the last client to leave starts the wait.  A tray process that lost its
\* connection and stays may attach again.
IsLast(c) == attached \ {c} = {}

Detaches(c, stays) ==
  /\ c \in attached
  /\ stays => c \in Trays
  /\ attached' = attached \ {c}
  /\ running' = IF stays THEN running \cup {c} ELSE running
  /\ IF IsLast(c) /\ state = "attached"
     THEN Wait(attempts)
     ELSE UNCHANGED <<state, attempts, timer>>
  /\ UNCHANGED <<listening, recent>>

\* S12.C02, S12.C05: the wait ends, and starts a process unless the budget is spent.
\* A start takes a free slot, or that of a process that is late and followed no longer.
Spent(starts) == Len(starts) >= Limit

RespawnDue(p) ==
  /\ timer
  /\ state = "waiting"
  /\ p \notin attached \cup listening
  /\ timer' = FALSE
  /\ IF Spent(InWindow(attempts))
     THEN /\ GiveUp(InWindow(attempts))
          /\ UNCHANGED <<running, listening, recent>>
     ELSE /\ state' = "spawning"
          /\ attempts' = Append(InWindow(attempts), 0)
          /\ running' = running \cup {p}
          /\ listening' = listening \cup {p}
          /\ recent' = IF Len(recent) > Limit THEN recent ELSE Append(recent, 0)
  /\ UNCHANGED attached

\* The start is refused, or its process exits before it attached.
Exits(p) ==
  /\ p \in running
  /\ running' = running \ {p}
  /\ listening' = listening \ {p}
  /\ IF p \in listening THEN StartFailed ELSE UNCHANGED <<state, attempts, timer>>
  /\ UNCHANGED <<attached, recent>>

\* NOTIFIER_ATTACH_BOUND_MS passes: the start failed, its process runs on.
NoBound(p) == FALSE

Bounded(p) == p \in listening

BoundPasses(p) ==
  /\ Bounded(p)
  /\ listening' = listening \ {p}
  /\ StartFailed
  /\ UNCHANGED <<attached, running, recent>>

\* Time passes: every counted start ages, up to Window.
Aged(starts) == [i \in DOMAIN starts |-> IF starts[i] < Window THEN starts[i] + 1 ELSE Window]

Tick ==
  /\ attempts' = Aged(attempts)
  /\ recent' = InWindow(Aged(recent))
  /\ UNCHANGED <<state, timer, attached, running, listening>>

Next ==
  \/ \E c \in Apps : AppAttaches(c)
  \/ \E p \in Trays : TrayAttaches(p)
  \/ \E c \in Clients, stays \in BOOLEAN : Detaches(c, stays)
  \/ \E p \in Trays : RespawnDue(p)
  \/ \E p \in Trays : Exits(p)
  \/ \E p \in Trays : BoundPasses(p)
  \/ Tick

Spec == Init /\ [][Next]_vars

\* The two timers of the event loop fire: the supervisor's wait and a start's bound.
TimersFire ==
  /\ WF_vars(\E p \in Trays : RespawnDue(p))
  /\ \A p \in Trays : WF_vars(BoundPasses(p))

LiveSpec == Spec /\ TimersFire

-----------------------------------------------------------------------------
(* Properties *)

\* Every variable keeps its type; no more than Limit starts are counted.
TypeOK ==
  /\ state \in States
  /\ attempts \in Seq(0..Window)
  /\ Len(attempts) <= Limit
  /\ timer \in BOOLEAN
  /\ attached \subseteq Clients
  /\ running \subseteq Trays
  /\ listening \subseteq running
  /\ recent \in Seq(0..Window)

\* A wait is pending exactly while the machine waits: no start fires once someone is
\* there or it gave up, and a machine that waits is not left without its wait.
WaitingHasTimer == (state = "waiting") <=> timer

\* While a client is attached nothing is started.
SomeoneIsAttached == attached # {} => state = "attached"

\* A start under way has a result to come.
SpawningHasStart == state = "spawning" => listening # {}

\* Between two attaches taken for a launch no more than Limit starts are made in a Window,
\* however the failures, the waits and the respawned notifiers come.
HeldToBudget == Len(recent) <= Limit

\* A start under way ends.
StartEnds == state = "spawning" ~> state # "spawning"
=============================================================================
