------------------------------- MODULE ResetSaga -------------------------------
(***************************************************************************)
(* Reset metrics: the journaled saga of the Host (preferences/application/ *)
(* resetSaga.ts, adapters/sqlite/SqliteResetJournal.ts), its fan-out to    *)
(* the attached UIs and their acks (transport/methods/resetMetrics.ts),    *)
(* its resume at boot, and UI main's share of it                           *)
(* (ui-main/window/application/uiPreferencesReset.ts).                     *)
(*                                                                         *)
(* The frames of a connection are those of WindowFrames, cut down to the   *)
(* three that matter here: a page of the snapshot stands in the wire where *)
(* it was built, since the reader drops the frames its page covers and     *)
(* buffers the others.                                                     *)
(***************************************************************************)
EXTENDS Integers, Sequences

CONSTANTS
  Uis,             \* the UI mains: one, or more
  MaxResets,       \* bound on the resets begun
  MaxFaults        \* bound on what fails, is lost, is overtaken or stops

ASSUME ResetAssumption ==
  /\ MaxResets \in Nat
  /\ MaxFaults \in Nat

VARIABLES
  journal,         \* app_meta.reset_epoch, and the last completed step of its row
  host,            \* where the Host's life is
  run,             \* the saga being run: the step at work, what is left of it
  unfinished,      \* the saga the Host's memory has to continue
  pending,         \* the ui.resetPreferences waiting for its acks
  ui,              \* each UI: its connection, its reader, the epoch it applied
  faults,
  treated,         \* history: the work done since the last saga began
  recipients       \* history: the UIs of the last fan-out still on that connection

vars == <<journal, host, run, unfinished, pending, ui, faults, treated, recipients>>
uiVars == <<pending, ui, recipients>>

Steps == {"db", "secrets", "external-config", "ui-prefs", "install-moment", "done"}

\* RESET_STEPS, machine 13.
After == [s \in Steps |->
  CASE s = "db" -> "secrets"
    [] s = "secrets" -> "external-config"
    [] s = "external-config" -> "ui-prefs"
    [] s = "ui-prefs" -> "install-moment"
    [] OTHER -> "done"]

Secrets == {"jev-key", "opencode-password"}
Targets == {"claude-hooks", "opencode-plugin"}
Work == {"cleanup"} \cup Secrets \cup Targets \cup {"uis", "moment"}

\* The order the parts of one step are done in.
Rank == [w \in Work |->
  CASE w \in {"jev-key", "claude-hooks"} -> 1
    [] w \in {"opencode-password", "opencode-plugin"} -> 2
    [] OTHER -> 0]

\* work: what completes a step, coming from the last completed one.
PartsOf(from, to) ==
  CASE to = "secrets" -> Secrets \cup (IF from = "db" THEN {"cleanup"} ELSE {})
    [] to = "external-config" -> Targets
    [] to = "ui-prefs" -> {"uis"}
    [] to = "install-moment" -> {"moment"}
    [] OTHER -> {}

NoRun == [at |-> "none", todo |-> {}, bad |-> FALSE]
NoFanOut == [epoch |-> 0, waiting |-> {}]

Running == run.at # "none"
Unfinished == journal.step \in Steps \ {"done"}
Attached == {u \in Uis : ui[u].up}

Fault == faults < MaxFaults /\ faults' = faults + 1

-----------------------------------------------------------------------------
(* Frames to the UIs *)

Resync == [t |-> "resync", epoch |-> 0]
Dropped == [t |-> "dropped", epoch |-> 0]
ResetFrame(e) == [t |-> "reset", epoch |-> e]
Page(e) == [t |-> "page", epoch |-> e]

\* publish: a connection that overflowed drops what is sent to it.
Published(frame) ==
  [u \in Uis |-> IF ui[u].up /\ ~ ui[u].over
                 THEN [ui[u] EXCEPT !.wire = Append(@, frame)] ELSE ui[u]]

\* Every UI left, or acked: the step's promise settles.
Settled(r) == [r EXCEPT !.todo = {}]

\* leave: a UI that acked or detached is waited for no longer.
Stays(u) == UNCHANGED <<pending, run>>

Leaves(u) ==
  IF u \in pending.waiting
  THEN /\ pending' = IF pending.waiting = {u} THEN NoFanOut
                     ELSE [pending EXCEPT !.waiting = @ \ {u}]
       /\ run' = IF pending.waiting = {u} THEN Settled(run) ELSE run
  ELSE UNCHANGED <<pending, run>>

\* The wiring's rule: a saga resumed by the boot asks no UI, none could ack.
AsksAlways == TRUE

AsksTheUis == host = "ready"

-----------------------------------------------------------------------------
(* The saga *)

\* The work of the step after `from` begins; that of ui-prefs is the fan-out.
Enters(from) ==
  LET at == After[from] IN
  IF at = "ui-prefs" /\ AsksTheUis /\ Attached # {}
  THEN /\ run' = [at |-> at, todo |-> {"uis"}, bad |-> FALSE]
       /\ pending' = [epoch |-> journal.epoch, waiting |-> Attached]
       /\ ui' = Published(ResetFrame(journal.epoch))
       /\ recipients' = Attached
  ELSE /\ run' = [at |-> at, todo |-> PartsOf(from, at) \ {"uis"}, bad |-> FALSE]
       /\ UNCHANGED uiVars

\* S13.01: one transaction writes the row at `db` and the epoch; MetricsResetStarted
\* becomes a resync for every UI.
Start ==
  /\ host = "ready" /\ ~ Running /\ ~ unfinished
  /\ journal.epoch < MaxResets
  /\ ~ Unfinished
  /\ journal' = [epoch |-> journal.epoch + 1, step |-> "db"]
  /\ unfinished' = TRUE
  /\ run' = [at |-> "secrets", todo |-> PartsOf("db", "secrets"), bad |-> FALSE]
  /\ ui' = Published(Resync)
  /\ treated' = {}
  /\ recipients' = {}
  /\ UNCHANGED <<host, pending, faults>>

\* A second resetMetrics after a failed step continues the same saga.
Continue ==
  /\ host = "ready" /\ ~ Running /\ unfinished
  /\ Enters(journal.step)
  /\ UNCHANGED <<journal, host, unfinished, faults, treated>>

\* One part of the step's work is done: the cleanup, a secret deleted (or no secret
\* store there), an entry reverted, the install moment written.
Done(w) ==
  /\ w \in run.todo \ {"uis"}
  /\ \A v \in run.todo : Rank[w] <= Rank[v]
  /\ run' = [run EXCEPT !.todo = @ \ {w}]
  /\ treated' = treated \cup {w}
  /\ UNCHANGED <<journal, host, unfinished, uiVars, faults>>

\* revertConfigs: a locked file fails the step once every target was tried.
PassesOver(r, w) == [r EXCEPT !.todo = @ \ {w}]

Locked(r, w) == [r EXCEPT !.todo = @ \ {w}, !.bad = TRUE]

FileIsLocked(w) ==
  /\ Fault
  /\ w \in run.todo \cap Targets
  /\ \A v \in run.todo : Rank[w] <= Rank[v]
  /\ run' = Locked(run, w)
  /\ UNCHANGED <<journal, host, unfinished, uiVars, treated>>

\* S13.07: a part that throws, or a target found locked, fails the step; the journal keeps
\* its step and the memory its saga.
StepFails ==
  /\ Running
  /\ \/ run.todo = {} /\ run.bad /\ UNCHANGED faults
     \/ run.todo \ {"uis"} # {} /\ Fault
  /\ run' = NoRun
  /\ UNCHANGED <<journal, host, unfinished, uiVars, treated>>

\* S13.02 to S13.06: the journal reaches the step, and the next one's work begins.
Advances ==
  /\ Running /\ run.todo = {} /\ ~ run.bad /\ run.at # "done"
  /\ journal' = [journal EXCEPT !.step = run.at]
  /\ Enters(run.at)
  /\ UNCHANGED <<host, unfinished, faults, treated>>

Finishes ==
  /\ run.at = "done"
  /\ journal' = [journal EXCEPT !.step = "done"]
  /\ run' = NoRun
  /\ unfinished' = FALSE
  /\ UNCHANGED <<host, uiVars, faults, treated>>

\* The journal cannot be written: the caller's error, or a boot that fails.
JournalThrows ==
  /\ Running /\ run.todo = {} /\ ~ run.bad
  /\ host = "ready"
  /\ Fault
  /\ run' = NoRun
  /\ UNCHANGED <<journal, host, unfinished, uiVars, treated>>

-----------------------------------------------------------------------------
(* The Host's lives *)

Gone(u) == [up |-> FALSE, mode |-> "off", wants |-> FALSE, over |-> FALSE,
            wire |-> <<>>, acks |-> <<>>, applied |-> ui[u].applied]

\* A stop, wanted or not; a boot whose resume throws is one.
HostStops ==
  /\ host # "down"
  /\ Fault
  /\ host' = "down"
  /\ run' = NoRun
  /\ unfinished' = FALSE
  /\ pending' = NoFanOut
  /\ ui' = [u \in Uis |-> Gone(u)]
  /\ recipients' = {}
  /\ UNCHANGED <<journal, treated>>

\* Boot step 1: the endpoint is bound.
Boots ==
  /\ host = "down"
  /\ host' = "starting"
  /\ UNCHANGED <<journal, run, unfinished, uiVars, faults, treated>>

\* S13.08, boot step 3: the unfinished saga goes on from its journal.
Resumes ==
  /\ host = "starting"
  /\ host' = "resumed"
  /\ IF Unfinished
     THEN unfinished' = TRUE /\ Enters(journal.step)
     ELSE UNCHANGED <<run, unfinished, uiVars>>
  /\ UNCHANGED <<journal, faults, treated>>

\* The boot awaits the resume, however it ends, before the later steps.
AnswersReady ==
  /\ host = "resumed" /\ ~ Running
  /\ host' = "ready"
  /\ UNCHANGED <<journal, run, unfinished, uiVars, faults, treated>>

-----------------------------------------------------------------------------
(* A UI main *)

Connects(u) ==
  /\ host # "down" /\ ~ ui[u].up
  /\ ui' = [ui EXCEPT ![u] = [Gone(u) EXCEPT !.up = TRUE, !.mode = "reading", !.wants = TRUE]]
  /\ UNCHANGED <<journal, host, run, unfinished, pending, faults, treated, recipients>>

Detaches(u) ==
  /\ ui[u].up
  /\ Fault
  /\ ui' = [ui EXCEPT ![u] = Gone(u)]
  /\ recipients' = recipients \ {u}
  /\ Leaves(u)
  /\ UNCHANGED <<journal, host, unfinished, treated>>

\* session.snapshot, its meta section: HOST_NOT_READY before, and read again.
HostReads(u) ==
  /\ host = "ready" /\ ui[u].wants
  /\ ui' = [ui EXCEPT ![u].wants = FALSE, ![u].wire = Append(@, Page(journal.epoch))]
  /\ UNCHANGED <<journal, host, run, unfinished, pending, faults, treated, recipients>>

\* apply: the stores go back to their defaults once for an epoch, the ack goes each time.
Applied(c, e) == [c EXCEPT !.applied = IF e > @ THEN e ELSE @, !.acks = Append(@, e)]

\* What one item of the wire makes of a UI.
Heard(c, item) ==
  CASE item.t = "page" -> IF item.epoch > c.applied
                          THEN Applied([c EXCEPT !.mode = "live"], item.epoch)
                          ELSE [c EXCEPT !.mode = "live"]
    [] item.t = "resync" /\ c.mode = "live" -> [c EXCEPT !.mode = "reading", !.wants = TRUE]
    [] item.t = "reset" /\ c.mode = "live" -> Applied(c, item.epoch)
    [] OTHER -> c

UiTakes(u) ==
  /\ ui[u].wire # <<>>
  /\ ui' = [ui EXCEPT ![u] = Heard([ui[u] EXCEPT !.wire = Tail(@)], Head(ui[u].wire))]
  /\ UNCHANGED <<journal, host, run, unfinished, pending, faults, treated, recipients>>

\* B-M09, refused before `ready`: an ack counts for the reset it names.
AnyAck(e) == pending.epoch # 0

Counts(e) == pending.epoch = e

AckArrives(u) ==
  /\ ui[u].acks # <<>>
  /\ ui' = [ui EXCEPT ![u].acks = Tail(@)]
  /\ IF host = "ready" /\ Counts(Head(ui[u].acks)) THEN Leaves(u) ELSE UNCHANGED <<pending, run>>
  /\ UNCHANGED <<journal, host, unfinished, faults, treated, recipients>>

\* The outbound queue passes its high water: the frames waiting in it, no answer, are dropped.
Overflows(u) ==
  /\ ui[u].up /\ ~ ui[u].over
  /\ Fault
  /\ \E k \in 0..Len(ui[u].wire) :
       ui' = [ui EXCEPT ![u].over = TRUE,
                        ![u].wire = [i \in DOMAIN @ |->
                                       IF i > k /\ @[i].t # "page" THEN Dropped ELSE @[i]]]
  /\ UNCHANGED <<journal, host, run, unfinished, pending, treated, recipients>>

\* Once it drained, one resync stands for what was dropped.
Drains(u) ==
  /\ ui[u].over
  /\ ui' = [ui EXCEPT ![u].over = FALSE, ![u].wire = Append(@, Resync)]
  /\ UNCHANGED <<journal, host, run, unfinished, pending, faults, treated, recipients>>

\* refresh: another handler of UI main joins a live reader.
HandlerJoins(u) ==
  /\ ui[u].mode = "live"
  /\ Fault
  /\ ui' = [ui EXCEPT ![u].mode = "reading", ![u].wants = TRUE]
  /\ UNCHANGED <<journal, host, run, unfinished, pending, treated, recipients>>

-----------------------------------------------------------------------------
Init ==
  /\ journal = [epoch |-> 0, step |-> "none"]
  /\ host = "down"
  /\ run = NoRun
  /\ unfinished = FALSE
  /\ pending = NoFanOut
  /\ ui = [u \in Uis |-> [up |-> FALSE, mode |-> "off", wants |-> FALSE, over |-> FALSE,
                          wire |-> <<>>, acks |-> <<>>, applied |-> 0]]
  /\ faults = 0
  /\ treated = {}
  /\ recipients = {}

SagaSteps == (\E w \in Work : Done(w)) \/ StepFails \/ Advances \/ Finishes

Next ==
  \/ Start \/ Continue
  \/ \E w \in Work : Done(w)
  \/ \E w \in Targets : FileIsLocked(w)
  \/ StepFails \/ Advances \/ Finishes \/ JournalThrows
  \/ HostStops \/ Boots \/ Resumes \/ AnswersReady
  \/ \E u \in Uis : \/ Connects(u) \/ Detaches(u)
                    \/ HostReads(u) \/ UiTakes(u) \/ AckArrives(u)
                    \/ Overflows(u) \/ Drains(u) \/ HandlerJoins(u)

Spec == Init /\ [][Next]_vars

\* The Host, the sockets and UI main run unasked.
Fairness ==
  /\ WF_vars(SagaSteps)
  /\ WF_vars(Resumes)
  /\ WF_vars(AnswersReady)
  /\ \A u \in Uis :
       /\ WF_vars(HostReads(u)) /\ WF_vars(UiTakes(u))
       /\ WF_vars(AckArrives(u)) /\ WF_vars(Drains(u))

FairSpec == Spec /\ Fairness

-----------------------------------------------------------------------------
(* Properties *)

Frames == [t: {"resync", "dropped", "reset", "page"}, epoch: Nat]
Ui == [up: BOOLEAN, mode: {"off", "reading", "live"}, wants: BOOLEAN, over: BOOLEAN,
       wire: Seq(Frames), acks: Seq(Nat), applied: Nat]

\* Every variable keeps its type.
TypeOK ==
  /\ journal \in [epoch: Nat, step: Steps \cup {"none"}]
  /\ host \in {"down", "starting", "resumed", "ready"}
  /\ run \in [at: Steps \cup {"none"}, todo: SUBSET Work, bad: BOOLEAN]
  /\ unfinished \in BOOLEAN
  /\ pending \in [epoch: Nat, waiting: SUBSET Uis]
  /\ ui \in [Uis -> Ui]
  /\ faults \in Nat
  /\ treated \subseteq Work
  /\ recipients \subseteq Uis

\* The work the journal says was done when it says `step`.
Owed(step) ==
  CASE step = "secrets" -> {"cleanup"} \cup Secrets
    [] step \in {"external-config", "ui-prefs"} -> {"cleanup"} \cup Secrets \cup Targets
    [] step \in {"install-moment", "done"} -> Work \ {"uis"}
    [] OTHER -> {}

\* ADR-023 item 4: what the journal says is done was done for this very reset, whatever
\* failed, was tried again, or was cut short by a stop of the Host.
JournalIsEarned == Owed(journal.step) \subseteq treated

\* 07 S13.05: past `ui-prefs`, every UI that was asked and has not left since has gone
\* back to its defaults for this reset.
AskedUisFollowed ==
  journal.step \in {"ui-prefs", "install-moment", "done"} =>
    \A u \in recipients : ui[u].applied >= journal.epoch

\* S13.07: while the Host serves, it remembers a saga just when the journal has one left
\* to finish, so a resetMetrics continues that one and begins none beside it.
MemoryFollowsJournal == host = "ready" => (unfinished <=> Unfinished)

\* The boot is not held up by the saga it resumes: no UI could ack before `ready`.
BootEnds == host = "resumed" ~> host # "resumed"

\* A UI that has applied the reset, was asked for its ack, and will never be told again.
Overlooked(u) ==
  /\ u \in pending.waiting
  /\ ui[u].applied >= pending.epoch
  /\ \A i \in DOMAIN ui[u].wire : ui[u].wire[i] # ResetFrame(pending.epoch)
  /\ pending.epoch \notin {ui[u].acks[i] : i \in DOMAIN ui[u].acks}

\* A saga under way ends, done or failed, unless a UI it waits for was overlooked.
SettlesUnlessOverlooked ==
  Running ~> (~ Running \/ \E u \in Uis : Overlooked(u))
=============================================================================
