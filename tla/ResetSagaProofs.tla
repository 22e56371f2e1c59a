---------------------------- MODULE ResetSagaProofs ----------------------------
(***************************************************************************)
(* What holds of Reset metrics for any number of UI mains, of resets and   *)
(* of faults: its typing, that the journal says nothing of a reset that    *)
(* was not done for it, that the memory and the journal agree while the    *)
(* Host serves, and that the UIs it asked have followed.                   *)
(***************************************************************************)
EXTENDS ResetSaga, TLAPS

-----------------------------------------------------------------------------
(* The inductive invariants *)

\* The step at work is the one after the journal's, in a saga the memory has.
RunFollowsJournal ==
  Running => Unfinished /\ unfinished /\ run.at = After[journal.step]

\* A part of the step at work is still to do, or done for this reset, or failed.
WorkIsTracked ==
  Running /\ ~ run.bad =>
    PartsOf(journal.step, run.at) \ {"uis"} \subseteq run.todo \cup treated

\* Acks are waited for by the ui-prefs step alone, for the reset of the journal.
WaitsAtUiPrefs ==
  pending.waiting # {} =>
    Running /\ run.at = "ui-prefs" /\ run.todo = {"uis"} /\ pending.epoch = journal.epoch

\* No saga runs before the boot resumes one.
IdleAtStart == host \in {"down", "starting"} => ~ Running

\* What the memory remembers the journal has, and the other way once the boot looked.
MemoryIsJournaled ==
  /\ unfinished => Unfinished
  /\ host \in {"resumed", "ready"} => (Unfinished => unfinished)

SagaInv ==
  /\ TypeOK
  /\ RunFollowsJournal /\ WorkIsTracked /\ JournalIsEarned
  /\ WaitsAtUiPrefs /\ IdleAtStart /\ MemoryIsJournaled

\* A UI acknowledges only an epoch it applied.
AcksAreApplied ==
  \A u \in Uis : \A i \in DOMAIN ui[u].acks : ui[u].acks[i] <= ui[u].applied

\* A UI that was asked and is waited for no longer has followed.
HeardHaveFollowed ==
  \A u \in recipients \ pending.waiting : ui[u].applied >= journal.epoch

FollowInv == SagaInv /\ AcksAreApplied /\ HeardHaveFollowed

-----------------------------------------------------------------------------
(* Lemmas about the data *)

\* The order of the steps.
LEMMA StepOrder ==
  /\ After["db"] = "secrets" /\ After["secrets"] = "external-config"
  /\ After["external-config"] = "ui-prefs" /\ After["ui-prefs"] = "install-moment"
  /\ After["install-moment"] = "done" /\ After["done"] = "done"
  /\ \A s \in Steps : After[s] \in Steps
BY DEF After, Steps

\* What a step leaves the journal to claim is what it claimed, and the parts of the step.
LEMMA OwedGrows ==
  ASSUME NEW s \in Steps \ {"done"}
  PROVE  Owed(After[s]) \subseteq Owed(s) \cup (PartsOf(s, After[s]) \ {"uis"})
<1>1. CASE s = "db"
  BY <1>1, StepOrder DEF Owed, PartsOf, Secrets, Targets
<1>2. CASE s = "secrets"
  BY <1>2, StepOrder DEF Owed, PartsOf, Secrets, Targets
<1>3. CASE s = "external-config"
  BY <1>3, StepOrder DEF Owed, PartsOf, Secrets, Targets
<1>4. CASE s = "ui-prefs"
  BY <1>4, StepOrder DEF Owed, PartsOf, Work, Secrets, Targets
<1>5. CASE s = "install-moment"
  BY <1>5, StepOrder DEF Owed, PartsOf, Work, Secrets, Targets
<1> QED BY <1>1, <1>2, <1>3, <1>4, <1>5 DEF Steps

\* The parts of a step are work.
LEMMA PartsAreWork ==
  ASSUME NEW from \in Steps, NEW to \in Steps
  PROVE  PartsOf(from, to) \subseteq Work
BY DEF PartsOf, Work, Secrets, Targets, Steps

\* Publishing a frame to the UIs leaves what they applied and acknowledged.
LEMMA PublishedUis ==
  ASSUME TypeOK, NEW frame \in Frames
  PROVE  /\ Published(frame) \in [Uis -> Ui]
         /\ \A u \in Uis : /\ Published(frame)[u].applied = ui[u].applied
                           /\ Published(frame)[u].acks = ui[u].acks
<1>1. ASSUME NEW u \in Uis
      PROVE  /\ [ui[u] EXCEPT !.wire = Append(@, frame)] \in Ui
             /\ [ui[u] EXCEPT !.wire = Append(@, frame)].applied = ui[u].applied
             /\ [ui[u] EXCEPT !.wire = Append(@, frame)].acks = ui[u].acks
  <2>1. ui[u] \in Ui
    BY DEF TypeOK
  <2>2. Append(ui[u].wire, frame) \in Seq(Frames)
    BY <2>1 DEF Ui
  <2> QED BY <2>1, <2>2 DEF Ui
<1> QED BY <1>1 DEF Published, TypeOK

\* A UI that is gone keeps what it applied.
LEMMA GoneUi ==
  ASSUME TypeOK, NEW u \in Uis
  PROVE  /\ Gone(u) \in Ui
         /\ Gone(u).applied = ui[u].applied /\ Gone(u).acks = <<>>
BY DEF Gone, TypeOK, Ui

\* What an item makes of a UI: it applied as much or more, and acknowledges what it applied.
LEMMA HeardUi ==
  ASSUME NEW c \in Ui, NEW item \in Frames
  PROVE  /\ Heard(c, item) \in Ui
         /\ Heard(c, item).applied >= c.applied
         /\ \/ Heard(c, item).acks = c.acks
            \/ /\ Heard(c, item).acks = Append(c.acks, item.epoch)
               /\ Heard(c, item).applied >= item.epoch
<1>1. ASSUME NEW b \in Ui, NEW n \in Nat
      PROVE  /\ Applied(b, n) \in Ui
             /\ Applied(b, n).applied >= b.applied /\ Applied(b, n).applied >= n
             /\ Applied(b, n).acks = Append(b.acks, n)
  <2>1. /\ b.applied \in Nat /\ b.acks \in Seq(Nat)
        /\ Append(b.acks, n) \in Seq(Nat)
    BY <1>1 DEF Ui
  <2> DEFINE top == IF n > b.applied THEN n ELSE b.applied
             more == Append(b.acks, n)
  <2>2. top \in Nat /\ top >= b.applied /\ top >= n /\ more \in Seq(Nat)
    BY <1>1, <2>1
  <2>3. Applied(b, n) = [b EXCEPT !.applied = top, !.acks = more]
    BY DEF Applied
  <2> HIDE DEF top, more
  <2>4. /\ Applied(b, n) \in Ui
        /\ Applied(b, n).applied = top /\ Applied(b, n).acks = more
    BY <1>1, <2>2, <2>3 DEF Ui
  <2> QED BY <2>2, <2>4 DEF more
<1>2. [c EXCEPT !.mode = "live"] \in Ui
      /\ [c EXCEPT !.mode = "reading", !.wants = TRUE] \in Ui
  BY DEF Ui
<1>3. /\ item.epoch \in Nat /\ c.applied \in Nat
      /\ [c EXCEPT !.mode = "live"].applied = c.applied
      /\ [c EXCEPT !.mode = "live"].acks = c.acks
      /\ [c EXCEPT !.mode = "reading", !.wants = TRUE].applied = c.applied
      /\ [c EXCEPT !.mode = "reading", !.wants = TRUE].acks = c.acks
  BY DEF Ui, Frames
<1>4. CASE item.t = "page" /\ item.epoch > c.applied
  <2>1. Heard(c, item) = Applied([c EXCEPT !.mode = "live"], item.epoch)
    BY <1>4 DEF Heard
  <2> QED BY <2>1, <1>1, <1>2, <1>3
<1>5. CASE item.t = "page" /\ ~ (item.epoch > c.applied)
  <2>1. Heard(c, item) = [c EXCEPT !.mode = "live"]
    BY <1>5 DEF Heard
  <2> QED BY <2>1, <1>2, <1>3
<1>6. CASE item.t = "resync" /\ c.mode = "live"
  <2>1. Heard(c, item) = [c EXCEPT !.mode = "reading", !.wants = TRUE]
    BY <1>6 DEF Heard
  <2> QED BY <2>1, <1>2, <1>3
<1>7. CASE item.t = "reset" /\ c.mode = "live"
  <2>1. Heard(c, item) = Applied(c, item.epoch)
    BY <1>7 DEF Heard
  <2> QED BY <2>1, <1>1, <1>3
<1>8. CASE item.t # "page" /\ ~ (item.t \in {"resync", "reset"} /\ c.mode = "live")
  <2>1. Heard(c, item) = c
    BY <1>8 DEF Heard
  <2> QED BY <2>1, <1>3
<1> QED BY <1>4, <1>5, <1>6, <1>7, <1>8

-----------------------------------------------------------------------------
(* Lemmas about the steps *)

\* Entering the step after `from`: its parts are to do, and acks are waited for at most at ui-prefs.
LEMMA EntersStep ==
  ASSUME TypeOK, NEW from \in Steps \ {"done"}, Enters(from)
  PROVE  /\ run' \in [at: Steps, todo: SUBSET Work, bad: {FALSE}]
         /\ run'.at = After[from]
         /\ PartsOf(from, run'.at) \ {"uis"} \subseteq run'.todo
         /\ \/ UNCHANGED uiVars
            \/ /\ run'.at = "ui-prefs" /\ run'.todo = {"uis"}
               /\ pending' = [epoch |-> journal.epoch, waiting |-> Attached]
               /\ recipients' = Attached
               /\ ui' = Published(ResetFrame(journal.epoch))
<1> DEFINE at == After[from]
<1>1. at \in Steps
  BY StepOrder
<1>2. PartsOf(from, at) \subseteq Work
  BY <1>1, PartsAreWork
<1> HIDE DEF at
<1>3. CASE at = "ui-prefs" /\ AsksTheUis /\ Attached # {}
  <2>1. /\ run' = [at |-> at, todo |-> {"uis"}, bad |-> FALSE]
        /\ pending' = [epoch |-> journal.epoch, waiting |-> Attached]
        /\ recipients' = Attached
        /\ ui' = Published(ResetFrame(journal.epoch))
    BY <1>3 DEF Enters, at
  <2>2. PartsOf(from, at) = {"uis"}
    BY <1>3 DEF PartsOf
  <2> QED BY <2>1, <2>2, <1>1, <1>3 DEF at, Work
<1>4. CASE ~ (at = "ui-prefs" /\ AsksTheUis /\ Attached # {})
  <2>1. /\ run' = [at |-> at, todo |-> PartsOf(from, at) \ {"uis"}, bad |-> FALSE]
        /\ UNCHANGED uiVars
    BY <1>4 DEF Enters, at
  <2> QED BY <2>1, <1>1, <1>2 DEF at
<1> QED BY <1>3, <1>4

\* Leaving what is waited for.
LEMMA LeavesPending ==
  ASSUME TypeOK, NEW u \in Uis, Leaves(u)
  PROVE  /\ pending' \in [epoch: Nat, waiting: SUBSET Uis]
         /\ run' \in [at: Steps \cup {"none"}, todo: SUBSET Work, bad: BOOLEAN]
         /\ pending'.waiting = pending.waiting \ {u}
         /\ pending'.waiting # {} => pending' = [pending EXCEPT !.waiting = @ \ {u}]
         /\ run'.at = run.at /\ run'.bad = run.bad
         /\ run' = run \/ (u \in pending.waiting /\ run'.todo = {} /\ pending'.waiting = {})
<1>1. CASE u \notin pending.waiting
  BY <1>1 DEF Leaves, TypeOK
<1>2. CASE u \in pending.waiting /\ pending.waiting = {u}
  <2>1. pending' = NoFanOut /\ run' = Settled(run)
    BY <1>2 DEF Leaves
  <2> QED BY <1>2, <2>1 DEF NoFanOut, Settled, TypeOK
<1>3. CASE u \in pending.waiting /\ pending.waiting # {u}
  <2>1. pending' = [pending EXCEPT !.waiting = @ \ {u}] /\ run' = run
    BY <1>3 DEF Leaves
  <2> QED BY <1>3, <2>1 DEF TypeOK
<1> QED BY <1>1, <1>2, <1>3

\* No UI main and no frame leaves the types.
LEMMA UiTypes ==
  ASSUME TypeOK, NEW u \in Uis,
         \/ Connects(u) \/ HostReads(u) \/ UiTakes(u) \/ AckArrives(u)
         \/ Overflows(u) \/ Drains(u) \/ HandlerJoins(u) \/ Detaches(u)
  PROVE  ui' \in [Uis -> Ui]
<1>1. ui[u] \in Ui /\ ui \in [Uis -> Ui] /\ journal.epoch \in Nat
  BY DEF TypeOK
<1>2. CASE Connects(u)
  <2>1. [Gone(u) EXCEPT !.up = TRUE, !.mode = "reading", !.wants = TRUE] \in Ui
    BY GoneUi DEF Ui
  <2> QED BY <1>1, <1>2, <2>1 DEF Connects
<1>3. CASE HostReads(u)
  <2>1. Append(ui[u].wire, Page(journal.epoch)) \in Seq(Frames)
    BY <1>1 DEF Ui, Page, Frames
  <2>2. [ui[u] EXCEPT !.wants = FALSE, !.wire = Append(ui[u].wire, Page(journal.epoch))] \in Ui
    BY <1>1, <2>1 DEF Ui
  <2>3. ui' = [ui EXCEPT ![u] = [ui[u] EXCEPT !.wants = FALSE,
                                   !.wire = Append(ui[u].wire, Page(journal.epoch))]]
    BY <1>1, <1>3 DEF HostReads
  <2> QED BY <1>1, <2>2, <2>3
<1>4. CASE UiTakes(u)
  <2>1. /\ ui[u].wire \in Seq(Frames) /\ ui[u].wire # <<>>
    BY <1>1, <1>4 DEF UiTakes, Ui
  <2>2. Head(ui[u].wire) \in Frames /\ Tail(ui[u].wire) \in Seq(Frames)
    BY <2>1
  <2>3. [ui[u] EXCEPT !.wire = Tail(ui[u].wire)] \in Ui
    BY <1>1, <2>2 DEF Ui
  <2> DEFINE next == Heard([ui[u] EXCEPT !.wire = Tail(ui[u].wire)], Head(ui[u].wire))
  <2>4. next \in Ui
    BY <2>2, <2>3, HeardUi
  <2>5. ui' = [ui EXCEPT ![u] = next]
    BY <1>1, <1>4 DEF UiTakes
  <2> HIDE DEF next
  <2> QED BY <1>1, <2>4, <2>5
<1>5. CASE AckArrives(u)
  <2>1. Tail(ui[u].acks) \in Seq(Nat)
    BY <1>1, <1>5 DEF AckArrives, Ui
  <2>2. [ui[u] EXCEPT !.acks = Tail(ui[u].acks)] \in Ui
    BY <1>1, <2>1 DEF Ui
  <2> QED BY <1>1, <1>5, <2>2 DEF AckArrives
<1>6. CASE Overflows(u)
  <2>1. PICK k \in 0..Len(ui[u].wire) :
          ui' = [ui EXCEPT ![u].over = TRUE,
                           ![u].wire = [i \in DOMAIN @ |->
                                          IF i > k /\ @[i].t # "page" THEN Dropped ELSE @[i]]]
    BY <1>6 DEF Overflows
  <2> DEFINE kept == [i \in DOMAIN ui[u].wire |->
                        IF i > k /\ ui[u].wire[i].t # "page" THEN Dropped ELSE ui[u].wire[i]]
  <2>2. ui[u].wire \in Seq(Frames) /\ Dropped \in Frames
    BY <1>1 DEF Ui, Dropped, Frames
  <2>3. kept \in Seq(Frames)
    BY <2>2
  <2> HIDE DEF kept
  <2>4. [ui[u] EXCEPT !.over = TRUE, !.wire = kept] \in Ui
    BY <1>1, <2>3 DEF Ui
  <2>5. ui' = [ui EXCEPT ![u] = [ui[u] EXCEPT !.over = TRUE, !.wire = kept]]
    BY <1>1, <2>1 DEF kept
  <2> QED BY <1>1, <2>4, <2>5
<1>7. CASE Drains(u)
  <2>1. Append(ui[u].wire, Resync) \in Seq(Frames)
    BY <1>1 DEF Ui, Resync, Frames
  <2>2. [ui[u] EXCEPT !.over = FALSE, !.wire = Append(ui[u].wire, Resync)] \in Ui
    BY <1>1, <2>1 DEF Ui
  <2>3. ui' = [ui EXCEPT ![u] = [ui[u] EXCEPT !.over = FALSE,
                                   !.wire = Append(ui[u].wire, Resync)]]
    BY <1>1, <1>7 DEF Drains
  <2> QED BY <1>1, <2>2, <2>3
<1>8. CASE HandlerJoins(u)
  <2>1. [ui[u] EXCEPT !.mode = "reading", !.wants = TRUE] \in Ui
    BY <1>1 DEF Ui
  <2>2. ui' = [ui EXCEPT ![u] = [ui[u] EXCEPT !.mode = "reading", !.wants = TRUE]]
    BY <1>1, <1>8 DEF HandlerJoins
  <2> QED BY <1>1, <2>1, <2>2
<1>9. CASE Detaches(u)
  BY <1>1, <1>9, GoneUi DEF Detaches
<1> QED BY <1>2, <1>3, <1>4, <1>5, <1>6, <1>7, <1>8, <1>9

-----------------------------------------------------------------------------
(* Types *)

\* A step that enters the work after `from` keeps the types.
LEMMA EntersTypes ==
  ASSUME TypeOK, NEW from \in Steps \ {"done"}, Enters(from),
         journal' \in [epoch: Nat, step: Steps],
         host' \in {"down", "starting", "resumed", "ready"},
         unfinished' \in BOOLEAN, UNCHANGED <<faults, treated>>
  PROVE  TypeOK'
<1>1. ResetFrame(journal.epoch) \in Frames
  BY DEF TypeOK, ResetFrame, Frames
<1>2. Published(ResetFrame(journal.epoch)) \in [Uis -> Ui]
  BY <1>1, PublishedUis
<1>3. run' \in [at: Steps \cup {"none"}, todo: SUBSET Work, bad: BOOLEAN]
  BY EntersStep
<1>4. CASE UNCHANGED uiVars
  BY <1>3, <1>4 DEF TypeOK, uiVars
<1>5. CASE /\ pending' = [epoch |-> journal.epoch, waiting |-> Attached]
           /\ recipients' = Attached
           /\ ui' = Published(ResetFrame(journal.epoch))
  BY <1>2, <1>3, <1>5 DEF TypeOK, Attached
<1> QED BY <1>4, <1>5, EntersStep

LEMMA FaultCounts == ASSUME TypeOK, Fault PROVE faults' \in Nat
BY DEF Fault, TypeOK

LEMMA TypeStep ==
  ASSUME TypeOK, unfinished => Unfinished, [Next]_vars
  PROVE  TypeOK'
<1>1. CASE Start
  <2>1. ui' \in [Uis -> Ui]
    <3>1. Resync \in Frames
      BY DEF Resync, Frames
    <3> QED BY <1>1, <3>1, PublishedUis DEF Start
  <2>2. PartsOf("db", "secrets") \subseteq Work
    BY PartsAreWork DEF Steps
  <2>3. /\ journal' = [epoch |-> journal.epoch + 1, step |-> "db"]
        /\ run' = [at |-> "secrets", todo |-> PartsOf("db", "secrets"), bad |-> FALSE]
        /\ unfinished' = TRUE /\ treated' = {} /\ recipients' = {}
        /\ UNCHANGED <<host, pending, faults>>
    BY <1>1 DEF Start
  <2> QED BY <2>1, <2>2, <2>3 DEF TypeOK, Steps
<1>2. CASE Continue
  BY <1>2, EntersTypes DEF Continue, Unfinished, TypeOK
<1>3. CASE \E w \in Work : Done(w)
  BY <1>3 DEF Done, TypeOK, uiVars
<1>4. CASE \E w \in Targets : FileIsLocked(w)
  <2>1. PICK w \in Targets : FileIsLocked(w)
    BY <1>4
  <2>2. run' = [run EXCEPT !.todo = run.todo \ {w}, !.bad = TRUE] /\ faults' \in Nat
    BY <2>1, FaultCounts DEF FileIsLocked, Locked
  <2>3. run' \in [at: Steps \cup {"none"}, todo: SUBSET Work, bad: BOOLEAN]
    BY <2>2 DEF TypeOK
  <2> QED BY <2>1, <2>2, <2>3 DEF FileIsLocked, TypeOK, uiVars
<1>5. CASE StepFails
  BY <1>5, FaultCounts DEF StepFails, NoRun, TypeOK, uiVars
<1>6. CASE Advances
  <2>1. /\ run.at \in Steps \ {"done"} /\ Enters(run.at)
        /\ journal' = [journal EXCEPT !.step = run.at]
        /\ UNCHANGED <<host, unfinished, faults, treated>>
    BY <1>6 DEF Advances, Running, TypeOK
  <2>2. journal' \in [epoch: Nat, step: Steps]
    BY <2>1 DEF TypeOK
  <2> QED BY <2>1, <2>2, EntersTypes DEF TypeOK
<1>7. CASE Finishes
  BY <1>7 DEF Finishes, NoRun, TypeOK, uiVars, Steps
<1>8. CASE JournalThrows
  BY <1>8, FaultCounts DEF JournalThrows, NoRun, TypeOK, uiVars
<1>9. CASE HostStops
  BY <1>9, GoneUi, FaultCounts DEF HostStops, NoRun, NoFanOut, TypeOK
<1>10. CASE Boots
  BY <1>10 DEF Boots, TypeOK, uiVars
<1>11. CASE Resumes
  <2>1. CASE Unfinished
    BY <1>11, <2>1, EntersTypes DEF Resumes, Unfinished, TypeOK
  <2>2. CASE ~ Unfinished
    BY <1>11, <2>2 DEF Resumes, TypeOK, uiVars
  <2> QED BY <2>1, <2>2
<1>12. CASE AnswersReady
  BY <1>12 DEF AnswersReady, TypeOK, uiVars
<1>13. ASSUME NEW u \in Uis, Connects(u) \/ HostReads(u) \/ UiTakes(u) \/ Drains(u)
       PROVE  TypeOK'
  BY <1>13, UiTypes DEF Connects, HostReads, UiTakes, Drains, TypeOK
<1>14. ASSUME NEW u \in Uis, Overflows(u) \/ HandlerJoins(u)
       PROVE  TypeOK'
  BY <1>14, UiTypes, FaultCounts DEF Overflows, HandlerJoins, TypeOK
<1>15. ASSUME NEW u \in Uis, Detaches(u)
       PROVE  TypeOK'
  BY <1>15, UiTypes, FaultCounts, LeavesPending DEF Detaches, TypeOK
<1>16. ASSUME NEW u \in Uis, AckArrives(u)
       PROVE  TypeOK'
  <2>1. ui' \in [Uis -> Ui]
    BY <1>16, UiTypes
  <2>2. CASE Leaves(u)
    BY <1>16, <2>1, <2>2, LeavesPending DEF AckArrives, TypeOK
  <2>3. CASE UNCHANGED <<pending, run>>
    BY <1>16, <2>1, <2>3 DEF AckArrives, TypeOK
  <2> QED BY <1>16, <2>2, <2>3 DEF AckArrives
<1>17. CASE UNCHANGED vars
  BY <1>17 DEF vars, TypeOK
<1> QED BY <1>1, <1>2, <1>3, <1>4, <1>5, <1>6, <1>7, <1>8, <1>9, <1>10, <1>11, <1>12, <1>13,
           <1>14, <1>15, <1>16, <1>17 DEF Next

-----------------------------------------------------------------------------
(* The journal and the memory *)

\* Entering the step after `from`, which the journal has just reached, keeps the invariant.
LEMMA EntersInv ==
  ASSUME SagaInv, TypeOK', NEW from \in Steps \ {"done"}, Enters(from),
         journal'.step = from, journal'.epoch = journal.epoch,
         pending.waiting = {}, unfinished', UNCHANGED treated,
         Owed(from) \subseteq treated, host' \in {"resumed", "ready"}
  PROVE  SagaInv'
<1>1. /\ run'.at = After[from] /\ run'.at \in Steps
      /\ PartsOf(from, run'.at) \ {"uis"} \subseteq run'.todo
      /\ \/ UNCHANGED uiVars
         \/ /\ run'.at = "ui-prefs" /\ run'.todo = {"uis"}
            /\ pending' = [epoch |-> journal.epoch, waiting |-> Attached]
  BY EntersStep, StepOrder DEF SagaInv
<1>2. Unfinished'
  BY DEF Unfinished
<1>3. Running'
  BY <1>1 DEF Running, Steps
<1>4. RunFollowsJournal' /\ WorkIsTracked' /\ JournalIsEarned'
  BY <1>1, <1>2, <1>3 DEF RunFollowsJournal, WorkIsTracked, JournalIsEarned
<1>5. WaitsAtUiPrefs'
  BY <1>1, <1>3 DEF WaitsAtUiPrefs, uiVars
<1>6. IdleAtStart' /\ MemoryIsJournaled'
  BY <1>2 DEF IdleAtStart, MemoryIsJournaled
<1> QED BY <1>4, <1>5, <1>6 DEF SagaInv

\* So does a step of a UI, waited for or not.
LEMMA LeavesInv ==
  ASSUME SagaInv, TypeOK', NEW u \in Uis, Leaves(u) \/ UNCHANGED <<pending, run>>,
         UNCHANGED <<journal, host, unfinished, treated>>
  PROVE  SagaInv'
<1>1. CASE UNCHANGED <<pending, run>>
  BY <1>1 DEF SagaInv, RunFollowsJournal, WorkIsTracked, JournalIsEarned, WaitsAtUiPrefs,
              IdleAtStart, MemoryIsJournaled, Running, Unfinished
<1>2. CASE Leaves(u)
  <2>1. /\ pending'.waiting = pending.waiting \ {u}
        /\ pending'.waiting # {} => pending'.epoch = pending.epoch
        /\ run'.at = run.at /\ run'.bad = run.bad
        /\ run' = run \/ (u \in pending.waiting /\ run'.todo = {} /\ pending'.waiting = {})
    BY <1>2, LeavesPending DEF SagaInv, TypeOK
  <2>2. RunFollowsJournal' /\ JournalIsEarned' /\ IdleAtStart' /\ MemoryIsJournaled'
    BY <2>1 DEF SagaInv, RunFollowsJournal, JournalIsEarned, IdleAtStart, MemoryIsJournaled,
                Running, Unfinished
  <2>3. WorkIsTracked'
    <3>1. CASE run' = run
      BY <3>1 DEF SagaInv, WorkIsTracked, Running
    <3>2. CASE u \in pending.waiting /\ run'.todo = {}
      <4>1. run'.at = "ui-prefs"
        BY <2>1, <3>2 DEF SagaInv, WaitsAtUiPrefs
      <4> QED BY <4>1 DEF WorkIsTracked, PartsOf
    <3> QED BY <2>1, <3>1, <3>2
  <2>4. WaitsAtUiPrefs'
    BY <2>1 DEF SagaInv, WaitsAtUiPrefs, Running
  <2> QED BY <2>2, <2>3, <2>4 DEF SagaInv
<1> QED BY <1>1, <1>2

\* Every step keeps the invariant.
LEMMA SagaStep == ASSUME SagaInv, [Next]_vars PROVE SagaInv'
<1>0. TypeOK'
  BY TypeStep DEF SagaInv, MemoryIsJournaled
<1>1. CASE Start
  <2>1. /\ journal' = [epoch |-> journal.epoch + 1, step |-> "db"] /\ unfinished' = TRUE
        /\ run' = [at |-> "secrets", todo |-> PartsOf("db", "secrets"), bad |-> FALSE]
        /\ UNCHANGED <<host, pending>> /\ host = "ready" /\ ~ Running
    BY <1>1 DEF Start
  <2>2. Unfinished'
    BY <2>1 DEF Unfinished, Steps
  <2>3. RunFollowsJournal' /\ WorkIsTracked'
    BY <2>1, <2>2, StepOrder DEF RunFollowsJournal, WorkIsTracked
  <2>4. JournalIsEarned'
    BY <2>1 DEF JournalIsEarned, Owed
  <2>5. WaitsAtUiPrefs'
    BY <2>1 DEF SagaInv, WaitsAtUiPrefs
  <2>6. IdleAtStart' /\ MemoryIsJournaled'
    BY <2>1, <2>2 DEF IdleAtStart, MemoryIsJournaled
  <2> QED BY <1>0, <2>3, <2>4, <2>5, <2>6 DEF SagaInv
<1>2. CASE Continue
  <2>1. journal.step \in Steps \ {"done"} /\ pending.waiting = {}
    BY <1>2 DEF Continue, SagaInv, MemoryIsJournaled, Unfinished, WaitsAtUiPrefs
  <2> QED BY <1>0, <1>2, <2>1, EntersInv DEF Continue, SagaInv, JournalIsEarned
<1>3. CASE \E w \in Work : Done(w)
  <2>1. PICK w \in Work : Done(w)
    BY <1>3
  <2>2. /\ w \in run.todo /\ w # "uis" /\ run'.at = run.at /\ run'.bad = run.bad
        /\ run'.todo = run.todo \ {w} /\ treated' = treated \cup {w}
        /\ UNCHANGED <<journal, host, unfinished, pending>>
    BY <2>1 DEF Done, uiVars, SagaInv, TypeOK
  <2>3. RunFollowsJournal' /\ WorkIsTracked' /\ JournalIsEarned' /\ IdleAtStart'
        /\ MemoryIsJournaled'
    BY <2>2 DEF SagaInv, RunFollowsJournal, WorkIsTracked, JournalIsEarned, IdleAtStart,
                MemoryIsJournaled, Running, Unfinished
  <2>4. WaitsAtUiPrefs'
    BY <2>2 DEF SagaInv, WaitsAtUiPrefs
  <2> QED BY <1>0, <2>3, <2>4 DEF SagaInv
<1>4. CASE \E w \in Targets : FileIsLocked(w)
  <2>1. PICK w \in Targets : FileIsLocked(w)
    BY <1>4
  <2>2. /\ w \in run.todo /\ w # "uis" /\ run'.at = run.at /\ run'.bad
        /\ UNCHANGED <<journal, host, unfinished, pending, treated>>
    BY <2>1 DEF FileIsLocked, Locked, uiVars, SagaInv, TypeOK, Targets
  <2>3. RunFollowsJournal' /\ WorkIsTracked' /\ JournalIsEarned' /\ IdleAtStart'
        /\ MemoryIsJournaled'
    BY <2>2 DEF SagaInv, RunFollowsJournal, WorkIsTracked, JournalIsEarned, IdleAtStart,
                MemoryIsJournaled, Running, Unfinished
  <2>4. WaitsAtUiPrefs'
    BY <2>2 DEF SagaInv, WaitsAtUiPrefs
  <2> QED BY <1>0, <2>3, <2>4 DEF SagaInv
<1>5. CASE StepFails \/ JournalThrows
  <2>1. /\ run' = NoRun /\ pending.waiting = {}
        /\ UNCHANGED <<journal, host, unfinished, pending, treated>>
    BY <1>5 DEF StepFails, JournalThrows, uiVars, SagaInv, WaitsAtUiPrefs
  <2> QED BY <1>0, <2>1 DEF SagaInv, RunFollowsJournal, WorkIsTracked, JournalIsEarned,
             WaitsAtUiPrefs, IdleAtStart, MemoryIsJournaled, Running, Unfinished, NoRun
<1>6. CASE Advances
  <2>1. /\ run.at \in Steps \ {"done"} /\ Enters(run.at) /\ Running
        /\ run.todo = {} /\ ~ run.bad
        /\ journal'.step = run.at /\ journal'.epoch = journal.epoch
        /\ UNCHANGED <<host, unfinished, treated>>
    BY <1>6 DEF Advances, Running, SagaInv, TypeOK
  <2>2. /\ journal.step \in Steps \ {"done"} /\ unfinished /\ run.at = After[journal.step]
        /\ pending.waiting = {}
    BY <2>1 DEF SagaInv, RunFollowsJournal, WaitsAtUiPrefs, Unfinished
  <2>3. Owed(run.at) \subseteq treated
    BY <2>1, <2>2, OwedGrows DEF SagaInv, WorkIsTracked, JournalIsEarned
  <2>4. host \in {"resumed", "ready"}
    BY <2>1 DEF SagaInv, IdleAtStart, TypeOK
  <2> QED BY <1>0, <2>1, <2>2, <2>3, <2>4, EntersInv
<1>7. CASE Finishes
  <2>1. /\ run.at = "done" /\ journal'.step = "done" /\ run' = NoRun /\ unfinished' = FALSE
        /\ UNCHANGED <<host, pending, treated>>
    BY <1>7 DEF Finishes, uiVars, SagaInv, TypeOK
  <2>2. journal.step \in Steps \ {"done"} /\ After[journal.step] = "done"
    BY <2>1 DEF SagaInv, RunFollowsJournal, Running, Unfinished
  <2>3. journal.step = "install-moment" /\ pending.waiting = {}
    BY <2>1, <2>2, StepOrder DEF Steps, SagaInv, WaitsAtUiPrefs
  <2>4. JournalIsEarned'
    BY <2>1, <2>3 DEF SagaInv, JournalIsEarned, Owed
  <2> QED BY <1>0, <2>1, <2>3, <2>4 DEF SagaInv, RunFollowsJournal, WorkIsTracked,
             WaitsAtUiPrefs, IdleAtStart, MemoryIsJournaled, Running, Unfinished, NoRun
<1>8. CASE HostStops
  <2>1. /\ host' = "down" /\ run' = NoRun /\ unfinished' = FALSE /\ pending' = NoFanOut
        /\ UNCHANGED <<journal, treated>>
    BY <1>8 DEF HostStops
  <2> QED BY <1>0, <2>1 DEF SagaInv, RunFollowsJournal, WorkIsTracked, JournalIsEarned,
             WaitsAtUiPrefs, IdleAtStart, MemoryIsJournaled, Running, Unfinished, NoRun, NoFanOut
<1>9. CASE Boots
  <2>1. /\ host = "down" /\ host' = "starting"
        /\ UNCHANGED <<journal, run, unfinished, pending, treated>>
    BY <1>9 DEF Boots, uiVars
  <2> QED BY <1>0, <2>1 DEF SagaInv, RunFollowsJournal, WorkIsTracked, JournalIsEarned,
             WaitsAtUiPrefs, IdleAtStart, MemoryIsJournaled, Running, Unfinished
<1>10. CASE Resumes
  <2>1. ~ Running /\ pending.waiting = {} /\ host' = "resumed" /\ UNCHANGED <<journal, treated>>
    BY <1>10 DEF Resumes, SagaInv, IdleAtStart, WaitsAtUiPrefs
  <2>2. CASE Unfinished
    BY <1>0, <1>10, <2>1, <2>2, EntersInv DEF Resumes, Unfinished, SagaInv, JournalIsEarned
  <2>3. CASE ~ Unfinished
    BY <1>0, <1>10, <2>1, <2>3 DEF Resumes, uiVars, SagaInv, RunFollowsJournal, WorkIsTracked,
       JournalIsEarned, WaitsAtUiPrefs, IdleAtStart, MemoryIsJournaled, Running, Unfinished
  <2> QED BY <2>2, <2>3
<1>11. CASE AnswersReady
  <2>1. /\ host = "resumed" /\ host' = "ready"
        /\ UNCHANGED <<journal, run, unfinished, pending, treated>>
    BY <1>11 DEF AnswersReady, uiVars
  <2> QED BY <1>0, <2>1 DEF SagaInv, RunFollowsJournal, WorkIsTracked, JournalIsEarned,
             WaitsAtUiPrefs, IdleAtStart, MemoryIsJournaled, Running, Unfinished
<1>12. ASSUME NEW u \in Uis,
              \/ Connects(u) \/ Detaches(u) \/ HostReads(u) \/ UiTakes(u) \/ AckArrives(u)
              \/ Overflows(u) \/ Drains(u) \/ HandlerJoins(u)
       PROVE  SagaInv'
  <2>1. /\ Leaves(u) \/ UNCHANGED <<pending, run>>
        /\ UNCHANGED <<journal, host, unfinished, treated>>
    BY <1>12 DEF Connects, Detaches, HostReads, UiTakes, AckArrives, Overflows, Drains,
                 HandlerJoins
  <2> QED BY <1>0, <2>1, LeavesInv
<1>13. CASE UNCHANGED vars
  BY <1>0, <1>13 DEF vars, SagaInv, RunFollowsJournal, WorkIsTracked, JournalIsEarned,
     WaitsAtUiPrefs, IdleAtStart, MemoryIsJournaled, Running, Unfinished
<1> QED BY <1>1, <1>2, <1>3, <1>4, <1>5, <1>6, <1>7, <1>8, <1>9, <1>10, <1>11, <1>12, <1>13
           DEF Next

LEMMA SagaInit == Init => SagaInv
<1> SUFFICES ASSUME Init PROVE SagaInv
  OBVIOUS
<1>1. [up |-> FALSE, mode |-> "off", wants |-> FALSE, over |-> FALSE,
       wire |-> <<>>, acks |-> <<>>, applied |-> 0] \in Ui
  BY DEF Ui
<1>2. TypeOK
  BY <1>1 DEF Init, TypeOK, NoRun, NoFanOut
<1>3. ~ Running /\ ~ Unfinished /\ pending.waiting = {}
  BY DEF Init, Running, Unfinished, NoRun, NoFanOut, Steps
<1> QED BY <1>2, <1>3 DEF Init, SagaInv, RunFollowsJournal, WorkIsTracked, JournalIsEarned,
           WaitsAtUiPrefs, IdleAtStart, MemoryIsJournaled, Owed

LEMMA SagaHolds == Spec => []SagaInv
<1>1. SagaInv /\ [Next]_vars => SagaInv'
  BY SagaStep
<1> QED BY <1>1, SagaInit, PTL DEF Spec

\* Every variable keeps its type.
THEOREM TypeCorrect == Spec => []TypeOK
<1>1. SagaInv => TypeOK
  BY DEF SagaInv
<1> QED BY <1>1, SagaHolds, PTL

\* ADR-023 item 4: whatever failed, was tried again or was cut short by a stop, what the
\* journal says is done was done for this very reset.
THEOREM JournalEarned == Spec => []JournalIsEarned
<1>1. SagaInv => JournalIsEarned
  BY DEF SagaInv
<1> QED BY <1>1, SagaHolds, PTL

\* S13.07: while the Host serves, its memory has a saga to continue just when the journal
\* has one: a resetMetrics continues that one and begins none beside it.
THEOREM MemoryOfTheSaga == Spec => []MemoryFollowsJournal
<1>1. SagaInv => MemoryFollowsJournal
  BY DEF SagaInv, MemoryIsJournaled, MemoryFollowsJournal
<1> QED BY <1>1, SagaHolds, PTL

-----------------------------------------------------------------------------
(* The UIs that were asked *)

\* A step by which no UI acknowledges more, and none that was asked stops being waited for.
LEMMA NothingFollows ==
  ASSUME FollowInv, TypeOK',
         \A v \in Uis : /\ ui'[v].applied >= ui[v].applied
                        /\ ui'[v].acks = ui[v].acks \/ ui'[v].acks = <<>>,
         recipients' \ pending'.waiting \subseteq recipients \ pending.waiting,
         journal'.epoch = journal.epoch \/ recipients' = {}
  PROVE  AcksAreApplied' /\ HeardHaveFollowed'
<1>1. \A v \in Uis : ui[v].applied \in Nat /\ ui'[v].applied \in Nat /\ ui[v].acks \in Seq(Nat)
  BY DEF FollowInv, SagaInv, TypeOK, Ui
<1>2. AcksAreApplied'
  <2>1. SUFFICES ASSUME NEW v \in Uis, NEW i \in DOMAIN ui'[v].acks
                 PROVE  ui'[v].acks[i] <= ui'[v].applied
    BY DEF AcksAreApplied
  <2>2. ui'[v].acks = ui[v].acks
    BY <2>1
  <2>3. ui[v].acks[i] <= ui[v].applied /\ ui[v].acks[i] \in Nat
    BY <1>1, <2>1, <2>2 DEF FollowInv, AcksAreApplied
  <2> QED BY <1>1, <2>2, <2>3
<1>3. HeardHaveFollowed'
  <2>1. SUFFICES ASSUME NEW v \in recipients' \ pending'.waiting
                 PROVE  ui'[v].applied >= journal'.epoch
    BY DEF HeardHaveFollowed
  <2>2. v \in Uis /\ ui[v].applied >= journal.epoch /\ journal.epoch \in Nat
        /\ journal'.epoch = journal.epoch
    BY DEF FollowInv, SagaInv, HeardHaveFollowed, TypeOK
  <2> QED BY <1>1, <2>2
<1> QED BY <1>2, <1>3

LEMMA FollowStep == ASSUME FollowInv, [Next]_vars PROVE FollowInv'
<1>0. SagaInv' /\ TypeOK' /\ TypeOK
  BY SagaStep DEF FollowInv, SagaInv
<1> SUFFICES AcksAreApplied' /\ HeardHaveFollowed'
  BY <1>0 DEF FollowInv
<1>a. \A v \in Uis : /\ ui[v] \in Ui /\ ui[v].applied \in Nat /\ ui[v].acks \in Seq(Nat)
                     /\ ui[v].applied >= ui[v].applied
  BY <1>0 DEF TypeOK, Ui
<1>b. ASSUME UNCHANGED uiVars, journal'.epoch = journal.epoch
      PROVE  AcksAreApplied' /\ HeardHaveFollowed'
  BY <1>0, <1>a, <1>b, NothingFollows DEF uiVars
<1>c. ASSUME NEW from \in Steps \ {"done"}, Enters(from), journal'.epoch = journal.epoch
      PROVE  AcksAreApplied' /\ HeardHaveFollowed'
  <2>1. CASE UNCHANGED uiVars
    BY <1>b, <1>c, <2>1
  <2>2. CASE /\ pending' = [epoch |-> journal.epoch, waiting |-> Attached]
             /\ recipients' = Attached
             /\ ui' = Published(ResetFrame(journal.epoch))
    <3>1. ResetFrame(journal.epoch) \in Frames
      BY <1>0 DEF TypeOK, ResetFrame, Frames
    <3>2. \A v \in Uis : ui'[v].applied = ui[v].applied /\ ui'[v].acks = ui[v].acks
      BY <1>0, <2>2, <3>1, PublishedUis
    <3> QED BY <1>0, <1>a, <1>c, <2>2, <3>2, NothingFollows
  <2> QED BY <1>0, <1>c, <2>1, <2>2, EntersStep
<1>1. CASE Start
  <2>1. /\ ui' = Published(Resync) /\ recipients' = {} /\ Resync \in Frames
    BY <1>1 DEF Start, Resync, Frames
  <2>2. \A v \in Uis : ui'[v].applied = ui[v].applied /\ ui'[v].acks = ui[v].acks
    BY <1>0, <2>1, PublishedUis
  <2> QED BY <1>0, <1>a, <2>1, <2>2, NothingFollows
<1>2. CASE Continue
  <2>1. journal.step \in Steps \ {"done"}
    BY <1>2 DEF Continue, FollowInv, SagaInv, MemoryIsJournaled, Unfinished
  <2> QED BY <1>2, <1>c, <2>1 DEF Continue
<1>3. CASE (\E w \in Work : Done(w)) \/ (\E w \in Targets : FileIsLocked(w)) \/ StepFails
           \/ JournalThrows \/ Finishes \/ Boots \/ AnswersReady
  <2>1. UNCHANGED uiVars /\ journal'.epoch = journal.epoch
    BY <1>0, <1>3 DEF Done, FileIsLocked, StepFails, JournalThrows, Finishes, Boots,
                      AnswersReady, TypeOK
  <2> QED BY <1>b, <2>1
<1>4. CASE Advances
  <2>1. run.at \in Steps \ {"done"} /\ Enters(run.at) /\ journal'.epoch = journal.epoch
    BY <1>0, <1>4 DEF Advances, Running, TypeOK
  <2> QED BY <1>c, <2>1
<1>5. CASE HostStops
  <2>1. /\ ui' = [v \in Uis |-> Gone(v)] /\ recipients' = {}
    BY <1>5 DEF HostStops
  <2>2. \A v \in Uis : ui'[v].applied = ui[v].applied /\ ui'[v].acks = <<>>
    BY <1>0, <2>1, GoneUi
  <2> QED BY <1>0, <1>a, <2>1, <2>2, NothingFollows
<1>6. CASE Resumes
  <2>1. CASE Unfinished
    BY <1>6, <1>c, <2>1 DEF Resumes, Unfinished
  <2>2. CASE ~ Unfinished
    BY <1>6, <1>b, <2>2 DEF Resumes
  <2> QED BY <2>1, <2>2
<1>7. ASSUME NEW u \in Uis,
             \/ Connects(u) \/ HostReads(u) \/ Overflows(u) \/ Drains(u) \/ HandlerJoins(u)
      PROVE  AcksAreApplied' /\ HeardHaveFollowed'
  <2>1. /\ UNCHANGED <<journal, pending, recipients>>
        /\ \A v \in Uis \ {u} : ui'[v] = ui[v]
    BY <1>0, <1>7 DEF Connects, HostReads, Overflows, Drains, HandlerJoins, TypeOK
  <2>2. ui'[u].applied = ui[u].applied /\ (ui'[u].acks = ui[u].acks \/ ui'[u].acks = <<>>)
    <3>1. CASE Connects(u)
      BY <1>0, <3>1, GoneUi DEF Connects, TypeOK, Ui
    <3>2. CASE HostReads(u) \/ Overflows(u) \/ Drains(u) \/ HandlerJoins(u)
      BY <1>0, <3>2 DEF HostReads, Overflows, Drains, HandlerJoins, TypeOK, Ui
    <3> QED BY <1>7, <3>1, <3>2
  <2> QED BY <1>0, <1>a, <2>1, <2>2, NothingFollows
<1>8. ASSUME NEW u \in Uis, Detaches(u)
      PROVE  AcksAreApplied' /\ HeardHaveFollowed'
  <2>1. /\ ui' = [ui EXCEPT ![u] = Gone(u)] /\ recipients' = recipients \ {u} /\ Leaves(u)
        /\ UNCHANGED journal
    BY <1>8 DEF Detaches
  <2>2. pending'.waiting = pending.waiting \ {u}
    BY <1>0, <2>1, LeavesPending
  <2>3. \A v \in Uis : ui'[v].applied = ui[v].applied
                       /\ (ui'[v].acks = ui[v].acks \/ ui'[v].acks = <<>>)
    BY <1>0, <2>1, GoneUi DEF TypeOK
  <2> QED BY <1>0, <1>a, <2>1, <2>2, <2>3, NothingFollows
<1>9. ASSUME NEW u \in Uis, UiTakes(u)
      PROVE  AcksAreApplied' /\ HeardHaveFollowed'
  <2> DEFINE before == [ui[u] EXCEPT !.wire = Tail(ui[u].wire)]
             item == Head(ui[u].wire)
             after == Heard(before, item)
  <2>1. /\ ui[u].wire \in Seq(Frames) /\ ui[u].wire # <<>>
    BY <1>a, <1>9 DEF UiTakes, Ui
  <2>2. item \in Frames /\ Tail(ui[u].wire) \in Seq(Frames) /\ item.epoch \in Nat
    <3>1. item \in Frames /\ Tail(ui[u].wire) \in Seq(Frames)
      BY <2>1
    <3> QED BY <3>1 DEF Frames
  <2>3. before \in Ui /\ before.applied = ui[u].applied /\ before.acks = ui[u].acks
    BY <1>a, <2>2 DEF Ui
  <2>4. ui' = [ui EXCEPT ![u] = after] /\ UNCHANGED <<journal, pending, recipients>>
    BY <1>9 DEF UiTakes
  <2> HIDE DEF before, item
  <2>5. /\ after \in Ui /\ after.applied >= ui[u].applied
        /\ \/ after.acks = ui[u].acks
           \/ after.acks = Append(ui[u].acks, item.epoch) /\ after.applied >= item.epoch
    BY <2>2, <2>3, HeardUi
  <2> HIDE DEF after
  <2>6. /\ ui'[u] = after /\ \A v \in Uis \ {u} : ui'[v] = ui[v]
    BY <1>0, <2>4 DEF TypeOK
  <2>7. CASE after.acks = ui[u].acks
    BY <1>0, <1>a, <2>4, <2>5, <2>6, <2>7, NothingFollows
  <2>8. CASE after.acks = Append(ui[u].acks, item.epoch) /\ after.applied >= item.epoch
    <3>1. after.applied \in Nat
      BY <2>5 DEF Ui
    <3>2. \A i \in DOMAIN after.acks : after.acks[i] <= after.applied
      <4>1. SUFFICES ASSUME NEW i \in DOMAIN after.acks PROVE after.acks[i] <= after.applied
        OBVIOUS
      <4>2. CASE i \in DOMAIN ui[u].acks
        <5>1. after.acks[i] = ui[u].acks[i] /\ ui[u].acks[i] \in Nat
          BY <1>a, <2>2, <2>8, <4>2
        <5>2. ui[u].acks[i] <= ui[u].applied
          BY <4>2 DEF FollowInv, AcksAreApplied
        <5> QED BY <1>a, <2>5, <3>1, <5>1, <5>2
      <4>3. CASE i \notin DOMAIN ui[u].acks
        <5>1. after.acks[i] = item.epoch
          BY <1>a, <2>2, <2>8, <4>1, <4>3
        <5> QED BY <2>2, <2>8, <3>1, <5>1
      <4> QED BY <4>2, <4>3
    <3>3. AcksAreApplied'
      BY <2>6, <3>2 DEF FollowInv, AcksAreApplied
    <3>4. HeardHaveFollowed'
      <4>1. journal.epoch \in Nat /\ recipients \subseteq Uis
        BY <1>0 DEF TypeOK
      <4> QED BY <1>a, <2>4, <2>5, <2>6, <3>1, <4>1 DEF FollowInv, HeardHaveFollowed
    <3> QED BY <3>3, <3>4
  <2> QED BY <2>5, <2>7, <2>8
<1>10. ASSUME NEW u \in Uis, AckArrives(u)
       PROVE  AcksAreApplied' /\ HeardHaveFollowed'
  <2>1. /\ ui[u].acks # <<>> /\ ui' = [ui EXCEPT ![u].acks = Tail(@)]
        /\ UNCHANGED <<journal, recipients>>
    BY <1>10 DEF AckArrives
  <2>2. /\ Head(ui[u].acks) \in Nat /\ Tail(ui[u].acks) \in Seq(Nat)
        /\ \A i \in DOMAIN Tail(ui[u].acks) :
             i + 1 \in DOMAIN ui[u].acks /\ Tail(ui[u].acks)[i] = ui[u].acks[i + 1]
        /\ 1 \in DOMAIN ui[u].acks /\ Head(ui[u].acks) = ui[u].acks[1]
    BY <1>a, <2>1
  <2>3. /\ ui'[u].applied = ui[u].applied /\ ui'[u].acks = Tail(ui[u].acks)
        /\ \A v \in Uis \ {u} : ui'[v] = ui[v]
    BY <1>0, <1>a, <2>1 DEF TypeOK, Ui
  <2>4. AcksAreApplied'
    <3>1. \A i \in DOMAIN ui'[u].acks : ui'[u].acks[i] <= ui'[u].applied
      BY <2>2, <2>3 DEF FollowInv, AcksAreApplied
    <3>2. \A v \in Uis \ {u} : \A i \in DOMAIN ui'[v].acks : ui'[v].acks[i] <= ui'[v].applied
      BY <2>3 DEF FollowInv, AcksAreApplied
    <3> QED BY <3>1, <3>2 DEF AcksAreApplied
  <2>5. \A v \in Uis : ui'[v].applied = ui[v].applied
    BY <2>3
  <2>6. CASE UNCHANGED pending
    BY <1>0, <2>1, <2>4, <2>5, <2>6 DEF FollowInv, HeardHaveFollowed, TypeOK
  <2>7. CASE Counts(Head(ui[u].acks)) /\ Leaves(u) /\ u \in pending.waiting
    <3>1. pending'.waiting = pending.waiting \ {u}
      BY <1>0, <2>7, LeavesPending
    <3>2. Head(ui[u].acks) = journal.epoch
      BY <2>7 DEF Counts, FollowInv, SagaInv, WaitsAtUiPrefs
    <3>3. ui[u].applied >= journal.epoch
      BY <1>a, <2>2, <3>2 DEF FollowInv, AcksAreApplied
    <3> QED BY <1>0, <2>1, <2>4, <2>5, <3>1, <3>3 DEF FollowInv, HeardHaveFollowed, TypeOK
  <2> QED BY <1>10, <2>4, <2>6, <2>7 DEF AckArrives, Leaves
<1>11. CASE UNCHANGED vars
  BY <1>b, <1>11 DEF vars, uiVars
<1> QED BY <1>1, <1>2, <1>3, <1>4, <1>5, <1>6, <1>7, <1>8, <1>9, <1>10, <1>11 DEF Next

\* 07 S13.05: past `ui-prefs`, every UI that was asked and has not left since has gone back
\* to its defaults for this reset, however late, often or stale the acks are.
THEOREM AskedFollowed == Spec => []AskedUisFollowed
<1>1. Init => FollowInv
  BY SagaInit DEF Init, FollowInv, AcksAreApplied, HeardHaveFollowed, NoFanOut
<1>2. FollowInv /\ [Next]_vars => FollowInv'
  BY FollowStep
<1>3. FollowInv => AskedUisFollowed
  <2> SUFFICES ASSUME FollowInv, journal.step \in {"ui-prefs", "install-moment", "done"}
               PROVE  \A u \in recipients : ui[u].applied >= journal.epoch
    BY DEF AskedUisFollowed
  <2>1. pending.waiting = {}
    <3>1. CASE pending.waiting # {}
      <4>1. Running /\ run.at = "ui-prefs" /\ run.at = After[journal.step]
        BY <3>1 DEF FollowInv, SagaInv, WaitsAtUiPrefs, RunFollowsJournal
      <4> QED BY <4>1, StepOrder
    <3> QED BY <3>1
  <2> QED BY <2>1 DEF FollowInv, HeardHaveFollowed
<1> QED BY <1>1, <1>2, <1>3, PTL DEF Spec
=============================================================================
