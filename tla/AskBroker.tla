------------------------------ MODULE AskBroker ------------------------------
(***************************************************************************)
(* The asking module of the Host: the ask broker's answer, open and step   *)
(* paths (asking/application/askBroker.ts), the machine of one ask         *)
(* (asking/domain/askMachine.ts), the rows it keeps                        *)
(* (asking/adapters/SqliteAskRepository.ts and the "Answers:" record in    *)
(* conversation/application/answerRecords.ts), and what a Host stop,       *)
(* a dwarf's departure and a Reset metrics do to them.                     *)
(*                                                                         *)
(* A submit is three steps: transaction 1 (Submit), the hand-over to the   *)
(* provider's channel outside any transaction, bounded at 30 s             *)
(* (ChannelAnswers or HandOverTimesOut), and transaction 2 (Settle).       *)
(* Anything else may run between them.                                     *)
(***************************************************************************)
EXTENDS Integers, FiniteSets, AskEmission

CONSTANTS
  Dwarves,         \* the dwarves that report requests
  Owned,           \* those the app launched; the others are only observed
  ProviderReqs,    \* the provider's request ids
  Requests,        \* the requestIds of the person's submits
  Reports,         \* the AskInputs a session may report
  Sessions,        \* the AskSessions a report may come from
  MaxAsks,         \* bound on the asks ever written
  MaxStep,         \* bound on the question step the person may reach
  MaxTime,         \* bound on the wall clock, in ticks
  Window,          \* KEYSTROKE_ATTRIBUTION_WINDOW_MS, in ticks
  Builds,          \* the builds a later boot may run: "cut2", "rollback"
  CanCrash, CanReset, TxCanFail, ClockStepsBack   \* which faults may happen

ASSUME ConstantsAssumption ==
  /\ Owned \subseteq Dwarves
  /\ MaxAsks \in Nat /\ MaxStep \in Nat /\ MaxTime \in Nat /\ Window \in Nat
  /\ Reports \subseteq AskInputs
  /\ Builds \subseteq {"cut2", "rollback"}

VARIABLES
  \* the database
  asks,            \* the asks table: AskIds -> AskRow \cup {NoAsk}
  answers,         \* ask_answers: Requests -> AnswerRow \cup {NoAnswer}
  records,         \* each ask's "Answers:" record: RecordRow \cup {NoRecord}
  crew,            \* each dwarf's row: "present", "departed" or "deleted"
  born,            \* how many asks were ever written: the next ask's id follows it
  \* the memory of one Host life
  flight,          \* inFlight: Requests -> Flight \cup {NoFlight}
  held,            \* asks resolved elsewhere while their answer is in flight
  injections,      \* when a decision went to the keystroke channel, or NoTime
  reconciling,     \* records the boot reconcile of the conversation watches
  build,           \* the build this Host life runs, or "down"
  \* the environment
  now,             \* the wall clock
  told             \* history: the verdicts each submit was answered with

dbVars == <<asks, answers, records, crew, born>>
memVars == <<flight, held, injections, reconciling, build>>
vars == <<dbVars, memVars, now, told>>

-----------------------------------------------------------------------------
(* Data *)

AskIds == 1..MaxAsks

Times == 0..MaxTime

NoTime == -1

LiveStates == {"open", "answering"}

ClosedStates ==
  {"answered-in-app", "answered-elsewhere", "cancelled", "closed-by-death", "auto-denied"}

AskRow == [dwarf: Dwarves, req: ProviderReqs, kind: Kinds, channel: Channels,
           state: LiveStates \cup ClosedStates, step: 0..MaxStep, openedAt: Times]

NoAsk == [state |-> "none"]

\* A settled outcome; the refusal reasons other than ask-closed are treated alike.
Outcomes == {"accepted", "refused", "ask-closed"}

\* What a channel may answer; not-open means it no longer holds the request.
ChannelResults == Outcomes \cup {"not-open"}

AnswerRow == [ask: AskIds, outcome: Outcomes \cup {"pending"}, at: Times]

NoAnswer == [outcome |-> "none"]

\* The ask's one record and its delivery; every row that answers it links it, so
\* recordOf finds it exactly while it is stored.
RecordRow == [dwarf: Dwarves, delivery: {"sending", "delivered", "failed"}]

NoRecord == [delivery |-> "none"]

Flight == [ask: AskIds, result: ChannelResults \cup {"calling"}]

NoFlight == [result |-> "none"]

Up == build # "down"

Exists(a) == asks[a].state # "none"

Live(a) == asks[a].state \in LiveStates

InFlight(r) == flight[r].result # "none"

InFlightFor(r, a) == InFlight(r) /\ flight[r].ask = a

Answered(r) == answers[r].outcome # "none"

SameDwarf(a, b) == Exists(a) /\ Exists(b) /\ asks[a].dwarf = asks[b].dwarf

\* ORDER BY opened_at, id: the order of the live asks in every query.
Before(a, b) ==
  \/ asks[a].openedAt < asks[b].openedAt
  \/ asks[a].openedAt = asks[b].openedAt /\ a < b

\* frontAsk over openFor: the dwarf's first live ask in that order.
IsFront(a) ==
  /\ Live(a)
  /\ \A b \in AskIds \ {a} : SameDwarf(a, b) /\ Live(b) => Before(a, b)

WithState(row, state) == [row EXCEPT !.state = state]

-----------------------------------------------------------------------------
(* The machine of one ask, for the steps that depend on more than its state *)

\* channelResult: the state an ask ends in and the outcome the submit gets.  The
\* three before it are its wrong readings: a late acceptance told, a closed ask
\* moved, a request the channel lost left as it was.
LateResult(state, result, isHeld) ==
  [state |-> IF state \in ClosedStates THEN state
             ELSE IF result = "accepted" THEN "answered-in-app" ELSE "answered-elsewhere",
   outcome |-> IF result = "accepted" THEN "accepted" ELSE "ask-closed"]

ReopeningResult(state, result, isHeld) ==
  IF result = "refused" /\ ~isHeld THEN [state |-> "open", outcome |-> "refused"]
  ELSE [state |-> "answered-in-app", outcome |-> "accepted"]

StuckResult(state, result, isHeld) ==
  IF state \in ClosedStates THEN [state |-> state, outcome |-> "ask-closed"]
  ELSE IF result = "accepted" THEN [state |-> "answered-in-app", outcome |-> "accepted"]
  ELSE [state |-> "answering", outcome |-> "refused"]

ChannelResult(state, result, isHeld) ==
  IF state \in ClosedStates THEN [state |-> state, outcome |-> "ask-closed"]
  ELSE IF result = "accepted" THEN [state |-> "answered-in-app", outcome |-> "accepted"]
  ELSE IF result = "refused" /\ ~isHeld THEN [state |-> "open", outcome |-> "refused"]
  ELSE [state |-> "answered-elsewhere", outcome |-> "ask-closed"]

\* settle: the record's delivery that goes with an outcome.
DeliveryStuck(outcome) == IF outcome = "accepted" THEN "delivered" ELSE "sending"

Delivery(outcome) == IF outcome = "accepted" THEN "delivered" ELSE "failed"

\* answeredInAppBy: a resolution at most Window after the injection is DwarfAI's.
InjectedEver(a) == injections[a] # NoTime

AnsweredInAppBy(a) ==
  /\ injections[a] # NoTime
  /\ now - injections[a] \in 0..Window

\* resolveExternally: the state an external resolution moves a live ask to.
ResolvedState(a, by) ==
  IF by = "cancelled" THEN "cancelled"
  ELSE IF asks[a].state = "answering" THEN "answering"
  ELSE IF AnsweredInAppBy(a) THEN "answered-in-app"
  ELSE "answered-elsewhere"

-----------------------------------------------------------------------------
Init ==
  /\ asks = [a \in AskIds |-> NoAsk]
  /\ answers = [r \in Requests |-> NoAnswer]
  /\ records = [a \in AskIds |-> NoRecord]
  /\ crew = [d \in Dwarves |-> "present"]
  /\ born = 0
  /\ flight = [r \in Requests |-> NoFlight]
  /\ held = {}
  /\ injections = [a \in AskIds |-> NoTime]
  /\ reconciling = {}
  /\ build = "cut2"
  /\ now = 0
  /\ told = [r \in Requests |-> {}]

-----------------------------------------------------------------------------
(* Reports: AskOpenPath.open *)

\* A new row, once per (dwarf, provider request); the id is the next uuidv7.  An
\* auto-denied request is born closed.  A request reported after its dwarf left
\* still opens: the broker does not read the dwarf's presence.
Open(d, p, input, session) ==
  LET emission == ResolveEmission(input, session)
      a == born + 1
  IN
  /\ Up
  /\ crew[d] # "deleted"
  /\ born < MaxAsks
  /\ emission # "not-an-ask"
  /\ \A b \in AskIds : Exists(b) => ~(asks[b].dwarf = d /\ asks[b].req = p)
  /\ born' = a
  /\ asks' = [asks EXCEPT ![a] =
       [dwarf |-> d, req |-> p, kind |-> input.kind,
        channel |-> IF emission = "channel-none" THEN "none" ELSE input.channel,
        state |-> IF emission = "auto-denied" THEN "auto-denied" ELSE "open",
        step |-> 0, openedAt |-> now]]
  /\ UNCHANGED <<answers, records, crew, memVars, now, told>>

-----------------------------------------------------------------------------
(* The person: AskStepPath.setStep and AskAnswerPaths.answer *)

SetStep(a, s) ==
  /\ Up
  /\ asks[a].state = "open"
  /\ IsFront(a)
  /\ s # asks[a].step
  /\ asks' = [asks EXCEPT ![a].step = s]
  /\ UNCHANGED <<answers, records, crew, born, memVars, now, told>>

\* A submit that does not look at the front ask, or at its own row.
WinsBehindFront(a, r) ==
  /\ ~InFlight(r) /\ ~Answered(r)
  /\ asks[a].state = "open" /\ asks[a].channel # "none"

WinsAgain(a, r) ==
  /\ ~InFlight(r)
  /\ asks[a].state = "open" /\ asks[a].channel # "none" /\ IsFront(a)

\* critical: the submit wins.  The UNIQUE index asks_one_answering aborts a second
\* answering ask of the dwarf; every other submit is answered not-open and writes
\* nothing, so it is no step.
Wins(a, r) ==
  /\ ~InFlight(r) /\ ~Answered(r)
  /\ asks[a].state = "open"
  /\ asks[a].channel # "none"
  /\ IsFront(a)
  /\ \A b \in AskIds : SameDwarf(a, b) => asks[b].state # "answering"

\* Transaction 1, then the hand-over starts.
Submit(a, r) ==
  /\ build = "cut2"
  /\ Wins(a, r)
  /\ asks' = [asks EXCEPT ![a].state = "answering"]
  /\ answers' = [answers EXCEPT ![r] = [ask |-> a, outcome |-> "pending", at |-> now]]
  /\ records' = [records EXCEPT ![a] =
                    [dwarf |-> asks[a].dwarf, delivery |-> "sending"]]
  /\ flight' = [flight EXCEPT ![r] = [ask |-> a, result |-> "calling"]]
  /\ injections' = IF asks[a].kind = "permission" /\ asks[a].channel = "hook-keystroke"
                   THEN [injections EXCEPT ![a] = now]
                   ELSE injections
  /\ UNCHANGED <<crew, born, held, reconciling, build, now, told>>

\* The same requestId again, settled: the stored outcome, whatever happened since.
SubmitAgain(a, r) ==
  /\ build = "cut2"
  /\ ~InFlight(r)
  /\ Answered(r) /\ answers[r].ask = a /\ answers[r].outcome # "pending"
  /\ told' = [told EXCEPT ![r] = @ \cup {<<a, answers[r].outcome>>}]
  /\ UNCHANGED <<dbVars, memVars, now>>

-----------------------------------------------------------------------------
(* The hand-over *)

\* The channel's call returns; a channel that throws or is not composed refuses.
ChannelAnswers(r, result) ==
  /\ flight[r].result = "calling"
  /\ flight' = [flight EXCEPT ![r].result = result]
  /\ UNCHANGED <<dbVars, held, injections, reconciling, build, now, told>>

\* ANSWER_HANDOVER_TIMEOUT_MS: channel-unavailable; the late answer is ignored.
HandOverTimesOut(r) == ChannelAnswers(r, "refused")

\* Transaction 2 commits: the result on the ask as it now stands.
Settle(r) ==
  LET a == flight[r].ask
      settled == ChannelResult(asks[a].state, flight[r].result, a \in held)
  IN
  /\ InFlight(r) /\ flight[r].result # "calling"
  /\ Exists(a)
  /\ asks' = [asks EXCEPT ![a].state = settled.state]
  /\ answers' = [answers EXCEPT ![r].outcome = settled.outcome]
  /\ records' = [records EXCEPT ![a].delivery = Delivery(settled.outcome)]
  /\ injections' = IF asks[a].state = "answering" /\ settled.state # "open"
                   THEN [injections EXCEPT ![a] = NoTime]
                   ELSE injections
  /\ held' = held \ {a}
  /\ flight' = [flight EXCEPT ![r] = NoFlight]
  /\ told' = [told EXCEPT ![r] = @ \cup {<<a, settled.outcome>>}]
  /\ UNCHANGED <<crew, born, reconciling, build, now>>

\* Transaction 2 throws and keeps nothing: a write fails, or the ask and its
\* pending row were deleted meanwhile.  The submit's promise rejects.
SettleThrows(r) ==
  /\ InFlight(r) /\ flight[r].result # "calling"
  /\ TxCanFail \/ ~Exists(flight[r].ask)
  /\ flight' = [flight EXCEPT ![r] = NoFlight]
  /\ UNCHANGED <<dbVars, held, injections, reconciling, build, now, told>>

-----------------------------------------------------------------------------
(* What happens to an ask outside the app *)

\* resolveExternally: the provider resolved or withdrew the request.  elsewhere is
\* held while an answer is in flight; anything else closes the ask now.
ResolveExternally(a, by) ==
  LET state == ResolvedState(a, by)
  IN
  /\ Up
  /\ Live(a)
  /\ IF state = "answering"
     THEN /\ held' = held \cup {a}
          /\ UNCHANGED <<asks, injections>>
     ELSE /\ asks' = [asks EXCEPT ![a].state = state]
          /\ injections' = [injections EXCEPT ![a] = NoTime]
          /\ UNCHANGED held
  /\ UNCHANGED <<answers, records, crew, born, flight, reconciling, build, now, told>>

\* closeDwarfAsks: the asks a departure closes.
LiveOf(d) == {a \in AskIds : Live(a) /\ asks[a].dwarf = d}

\* DwarfDeparted routed to closeForDwarf: every live ask of the dwarf, at once.
Depart(d) ==
  LET closing == LiveOf(d)
  IN
  /\ Up
  /\ crew[d] = "present"
  /\ crew' = [crew EXCEPT ![d] = "departed"]
  /\ asks' = [a \in AskIds |-> IF a \in closing
                                THEN WithState(asks[a], "closed-by-death") ELSE asks[a]]
  /\ injections' = [a \in AskIds |-> IF a \in closing THEN NoTime ELSE injections[a]]
  /\ held' = held \ closing
  /\ UNCHANGED <<answers, records, born, flight, reconciling, build, now, told>>

-----------------------------------------------------------------------------
(* Maintenance *)

\* Deleting asks takes their ask_answers rows with them (ON DELETE CASCADE).
Delete(gone) ==
  /\ asks' = [a \in AskIds |-> IF a \in gone THEN NoAsk ELSE asks[a]]
  /\ answers' = [r \in Requests |->
       IF Answered(r) /\ answers[r].ask \in gone THEN NoAnswer ELSE answers[r]]

\* MessageLog.trim: a stored record may be trimmed away, one still sending never.
TrimRecord(a) ==
  /\ Up
  /\ records[a].delivery \in {"delivered", "failed"}
  /\ records' = [records EXCEPT ![a] = NoRecord]
  /\ UNCHANGED <<asks, answers, crew, born, memVars, now, told>>

\* sweepClosedAsks: seven days after it closed, so long after its 30 s hand-over.
Sweep(a) ==
  /\ Up
  /\ asks[a].state \in ClosedStates
  /\ \A r \in Requests : ~InFlightFor(r, a)
  /\ Delete({a})
  /\ UNCHANGED <<records, crew, born, memVars, now, told>>

\* DELETE_MESSAGES: a record still sending is kept, unless its dwarf is wiped.
KeptNever(a, wiped) == FALSE

KeptByReset(a, wiped) == records[a].delivery = "sending" /\ records[a].dwarf \notin wiped

\* Reset metrics, its one db transaction: the departed dwarves with all their rows,
\* every message but those still sending, and the closed asks.
Reset ==
  LET departed == {d \in Dwarves : crew[d] = "departed"}
      gone == {a \in AskIds : \/ asks[a].state \in ClosedStates
                              \/ Exists(a) /\ asks[a].dwarf \in departed}
  IN
  /\ CanReset /\ Up
  /\ crew' = [d \in Dwarves |-> IF d \in departed THEN "deleted" ELSE crew[d]]
  /\ records' = [a \in AskIds |-> IF KeptByReset(a, departed) THEN records[a] ELSE NoRecord]
  /\ Delete(gone)
  /\ UNCHANGED <<born, memVars, now, told>>

-----------------------------------------------------------------------------
(* A Host stop, clean or not, and the next boot *)

Crash ==
  /\ CanCrash /\ Up
  /\ build' = "down"
  /\ flight' = [r \in Requests |-> NoFlight]
  /\ held' = {}
  /\ injections' = [a \in AskIds |-> NoTime]
  /\ reconciling' = {}
  /\ UNCHANGED <<dbVars, now, told>>

\* settleLeftoverAsks: the asks the boot of a build closes.
Leftover(a, b) == b = "rollback" /\ Live(a)

\* The boot starts the reconcile of the sending rows of the launched dwarves
\* (recoverAfterHostStart).  Only a rollback build settles the asks left live
\* (settleLeftoverAsks with NO_REQUEST_HELD); a normal build leaves them.
Boot(b) ==
  /\ ~Up
  /\ build' = b
  /\ reconciling' = {a \in AskIds : /\ records[a].delivery = "sending"
                                    /\ records[a].dwarf \in Owned
                                    /\ crew[records[a].dwarf] = "present"}
  /\ asks' = [a \in AskIds |-> IF Leftover(a, b)
                                THEN WithState(asks[a], "answered-elsewhere") ELSE asks[a]]
  /\ UNCHANGED <<answers, records, crew, born, flight, held, injections, now, told>>

\* reconcileSendingRows: evidence of the record in what the session replays.
ReconcileFinds(a) ==
  /\ a \in reconciling
  /\ reconciling' = reconciling \ {a}
  /\ records' = IF records[a].delivery = "sending"
                THEN [records EXCEPT ![a].delivery = "delivered"] ELSE records
  /\ UNCHANGED <<asks, answers, crew, born, flight, held, injections, build, now, told>>

\* The window ends: a row with no evidence is host-interrupted.  A row deleted
\* meanwhile throws and leaves the rows after it as they are.
ReconcileEnds(interrupted) ==
  LET sending == {a \in reconciling : records[a].delivery = "sending"} IN
  /\ reconciling # {}
  /\ interrupted \subseteq sending
  /\ sending = reconciling => interrupted = sending
  /\ records' = [a \in AskIds |-> IF a \in interrupted
                     THEN [records[a] EXCEPT !.delivery = "failed"] ELSE records[a]]
  /\ reconciling' = {}
  /\ UNCHANGED <<asks, answers, crew, born, flight, held, injections, build, now, told>>

-----------------------------------------------------------------------------
(* The wall clock: Date.now() may step back *)

Tick == /\ now < MaxTime
        /\ now' = now + 1
        /\ UNCHANGED <<dbVars, memVars, told>>

StepBack == /\ ClockStepsBack
            /\ now > 0
            /\ now' = now - 1
            /\ UNCHANGED <<dbVars, memVars, told>>

-----------------------------------------------------------------------------
Next ==
  \/ \E d \in Dwarves, p \in ProviderReqs, input \in Reports, session \in Sessions :
       Open(d, p, input, session)
  \/ \E a \in AskIds, s \in 0..MaxStep : SetStep(a, s)
  \/ \E a \in AskIds, r \in Requests : Submit(a, r)
  \/ \E a \in AskIds, r \in Requests : SubmitAgain(a, r)
  \/ \E r \in Requests, result \in ChannelResults : ChannelAnswers(r, result)
  \/ \E r \in Requests : HandOverTimesOut(r)
  \/ \E r \in Requests : Settle(r)
  \/ \E r \in Requests : SettleThrows(r)
  \/ \E a \in AskIds, by \in {"elsewhere", "cancelled"} : ResolveExternally(a, by)
  \/ \E d \in Dwarves : Depart(d)
  \/ \E a \in AskIds : TrimRecord(a)
  \/ \E a \in AskIds : Sweep(a)
  \/ Reset
  \/ Crash
  \/ \E b \in Builds : Boot(b)
  \/ \E a \in AskIds : ReconcileFinds(a)
  \/ \E interrupted \in SUBSET AskIds : ReconcileEnds(interrupted)
  \/ Tick
  \/ StepBack

Spec == Init /\ [][Next]_vars

\* The scheduler fires the 30 s bound, a settled promise runs its continuation, the
\* reconcile window ends, and a stopped Host is started again.
Fairness ==
  /\ \A r \in Requests : WF_vars(HandOverTimesOut(r))
  /\ \A r \in Requests : WF_vars(Settle(r) \/ SettleThrows(r))
  /\ WF_vars(\E interrupted \in SUBSET AskIds : ReconcileEnds(interrupted))
  /\ \A b \in Builds : WF_vars(Boot(b))

FairSpec == Spec /\ Fairness

-----------------------------------------------------------------------------
(* Properties *)

\* Every variable keeps its type: the rows the schema of 0001-initial.sql stores
\* and the memory of AskAnswerPaths.
TypeOK ==
  /\ asks \in [AskIds -> AskRow \cup {NoAsk}]
  /\ answers \in [Requests -> AnswerRow \cup {NoAnswer}]
  /\ records \in [AskIds -> RecordRow \cup {NoRecord}]
  /\ crew \in [Dwarves -> {"present", "departed", "deleted"}]
  /\ born \in 0..MaxAsks
  /\ flight \in [Requests -> Flight \cup {NoFlight}]
  /\ held \subseteq AskIds
  /\ injections \in [AskIds -> Times \cup {NoTime}]
  /\ reconciling \subseteq AskIds
  /\ build \in {"cut2", "rollback", "down"}
  /\ now \in Times
  /\ told \in [Requests -> SUBSET (AskIds \X Outcomes)]

\* One card per dwarf (askMachine.ts frontAsk): the ask whose answer is in flight is
\* its dwarf's front ask, so no other ask of the dwarf shows a card meanwhile.
AnsweringIsFront == \A a \in AskIds : asks[a].state = "answering" => IsFront(a)

\* Record before acting: while a hand-over is in flight and its ask is stored, its
\* pending row and its sending record are stored too, and the ask is answering or
\* was withdrawn or bereaved meanwhile; never reopened, never taken by a second submit.
HandOverRecorded ==
  \A r \in Requests : InFlight(r) =>
    LET a == flight[r].ask IN
    Exists(a) =>
      /\ answers[r].outcome = "pending" /\ answers[r].ask = a
      /\ records[a].delivery = "sending"
      /\ asks[a].state \in {"answering", "cancelled", "closed-by-death"}
      /\ \A s \in Requests \ {r} : ~InFlightFor(s, a)

\* INV-79: a requestId is answered one verdict for its ask, however often it is
\* repeated, across Host stops too.
OneVerdict ==
  \A r \in Requests : \A v, w \in told[r] : v[1] = w[1] => v = w

\* INV-72: a submit told accepted closed its ask in the app, and is the only one.
AcceptedOnce ==
  \A r \in Requests, a \in AskIds : <<a, "accepted">> \in told[r] =>
    /\ asks[a].state \in {"answered-in-app", "none"}
    /\ \A s \in Requests \ {r} : <<a, "accepted">> \notin told[s]

\* ADR-010 item 10: an open ask becomes answered in the app only when a refused
\* answer of it was handed over within the attribution window.
AttributionProven ==
  [][\A a \in AskIds :
       asks[a].state = "open" /\ asks'[a].state = "answered-in-app" =>
         \E r \in Requests : /\ answers[r].outcome = "refused"
                             /\ answers[r].ask = a
                             /\ now - answers[r].at \in 0..Window]_vars

\* In a Host life that lasts, an ask whose answer is on its way is settled: it
\* reopens or closes.
AnsweringEnds ==
  \A a \in AskIds :
    (asks[a].state = "answering" /\ \E r \in Requests : InFlightFor(r, a))
      ~> (asks[a].state # "answering" \/ ~Up)

\* The records nothing promises a verdict: their ask was deleted under the answer,
\* or their dwarf left.
LeftBehind(a) == ~Exists(a) \/ crew[records[a].dwarf] # "present"

\* In a Host life that lasts, a record left sending, by this life or by an earlier
\* one, gets its check mark or its cross.
SendingEnds ==
  \A a \in AskIds :
    (records[a].delivery = "sending" /\ ~LeftBehind(a))
      ~> (records[a].delivery # "sending" \/ ~Up \/ LeftBehind(a))

\* The module implements the life of an ask AskLifecycle states: ids not yet given
\* are unborn, ids whose row is gone are deleted.
Lifecycle == INSTANCE AskLifecycle WITH
  phase <- [a \in AskIds |-> IF Exists(a) THEN asks[a].state
                             ELSE IF a > born THEN "unborn" ELSE "deleted"]

ImplementsLifecycle == Lifecycle!LSpec
=============================================================================
