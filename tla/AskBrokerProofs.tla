---------------------------- MODULE AskBrokerProofs ----------------------------
(***************************************************************************)
(* What holds of the ask broker for every set of dwarves, provider         *)
(* requests, submits, reports and sessions and for every bound: its        *)
(* typing, the one card of a dwarf, the record kept before a hand-over,    *)
(* that every step of an ask is a row of machine 6, the one verdict of a   *)
(* submit, and what a closing is attributed to.                            *)
(***************************************************************************)
EXTENDS AskRoutes, TLAPS, WellFoundedInduction

-----------------------------------------------------------------------------
(* The inductive invariants *)

\* Ids are given in order: a stored ask, its record and a hand-over of it carry an
\* id already given.
IdsGiven ==
  /\ \A a \in AskIds : Exists(a) => a <= born
  /\ \A a \in AskIds : records[a].delivery # "none" => a <= born
  /\ \A r \in Requests : InFlight(r) => flight[r].ask <= born
  /\ \A a \in reconciling : a <= born

\* While the clock never steps back, ids and openings have one order.
ClockOrder ==
  \A a \in AskIds : Exists(a) =>
    /\ asks[a].openedAt <= now
    /\ \A b \in AskIds : Exists(b) /\ a < b => asks[a].openedAt <= asks[b].openedAt

\* The memory of a Host life is gone with it.
DownIsEmpty == ~Up => \A r \in Requests : ~InFlight(r)

\* A record belongs to its ask's dwarf, and is sending only once its ask was taken.
RecordOfAsk ==
  \A a \in AskIds : Exists(a) =>
    /\ records[a].delivery # "none" => records[a].dwarf = asks[a].dwarf
    /\ asks[a].state = "open" => records[a].delivery # "sending"

\* The boot reconcile watches no record a hand-over of this life will settle.
ReconciledApart ==
  \A a \in reconciling : /\ asks[a].state # "open"
                         /\ \A r \in Requests : ~InFlightFor(r, a)

CardInv == TypeOK /\ IdsGiven /\ ClockOrder /\ AnsweringIsFront

RecordInv ==
  /\ IdsGiven
  /\ DownIsEmpty
  /\ RecordOfAsk
  /\ ReconciledApart
  /\ HandOverRecorded

HandOverInv == TypeOK /\ RecordInv

-----------------------------------------------------------------------------
(* Lemmas about the data *)

\* A stored ask is a row, and no row is NoAsk.
LEMMA StoredAsk ==
  ASSUME TypeOK, NEW a \in AskIds
  PROVE  Exists(a) <=> asks[a] \in AskRow
BY DEF TypeOK, Exists, AskRow, NoAsk, LiveStates, ClosedStates

\* A live ask is stored; the two kinds of states are disjoint.
LEMMA LiveIsStored ==
  ASSUME NEW a \in AskIds
  PROVE  /\ Live(a) => Exists(a)
         /\ asks[a].state \in ClosedStates => Exists(a) /\ ~Live(a)
BY DEF Live, Exists, LiveStates, ClosedStates

\* channelResult ends in a stored state and with a settled outcome; an ask that was
\* closed stays as it closed, and no result leaves an ask answering.
LEMMA ChannelResultType ==
  ASSUME NEW state \in LiveStates \cup ClosedStates, NEW result \in ChannelResults,
         NEW isHeld
  PROVE  /\ ChannelResult(state, result, isHeld).state \in LiveStates \cup ClosedStates
         /\ ChannelResult(state, result, isHeld).outcome \in Outcomes
         /\ ChannelResult(state, result, isHeld).state # "answering"
         /\ state \in ClosedStates => ChannelResult(state, result, isHeld).state = state
<1>1. CASE state \in ClosedStates
  <2>1. ChannelResult(state, result, isHeld) = [state |-> state, outcome |-> "ask-closed"]
    BY <1>1 DEF ChannelResult
  <2>2. QED
    BY <1>1, <2>1 DEF ClosedStates, Outcomes
<1>2. CASE state \notin ClosedStates
  <2>1. ChannelResult(state, result, isHeld) \in
          {[state |-> "answered-in-app", outcome |-> "accepted"],
           [state |-> "open", outcome |-> "refused"],
           [state |-> "answered-elsewhere", outcome |-> "ask-closed"]}
    BY <1>2 DEF ChannelResult
  <2>2. QED
    BY <1>2, <2>1 DEF ClosedStates, LiveStates, Outcomes
<1>3. QED
  BY <1>1, <1>2

\* resolveExternally ends in a state of the machine: answering only if it was.
LEMMA ResolvedStateType ==
  ASSUME NEW a \in AskIds, NEW by \in {"elsewhere", "cancelled"}
  PROVE  /\ ResolvedState(a, by) \in
              {"cancelled", "answering", "answered-in-app", "answered-elsewhere"}
         /\ ResolvedState(a, by) = "answering" => asks[a].state = "answering"
BY DEF ResolvedState

-----------------------------------------------------------------------------
(* Type correctness *)

LEMMA InitType == ASSUME ConstantsAssumption, Init PROVE TypeOK
BY DEF Init, ConstantsAssumption, TypeOK, AskIds, Times, NoTime

LEMMA OpenType ==
  ASSUME ConstantsAssumption, TypeOK,
         NEW d \in Dwarves, NEW p \in ProviderReqs, NEW input \in Reports,
         NEW session \in Sessions, Open(d, p, input, session)
  PROVE  TypeOK'
<1> DEFINE emission == ResolveEmission(input, session)
           a == born + 1
           row == [dwarf |-> d, req |-> p, kind |-> input.kind,
                   channel |-> IF emission = "channel-none" THEN "none" ELSE input.channel,
                   state |-> IF emission = "auto-denied" THEN "auto-denied" ELSE "open",
                   step |-> 0, openedAt |-> now]
<1>1. a \in AskIds /\ born' \in 0..MaxAsks
  BY DEF Open, AskIds, TypeOK, ConstantsAssumption
<1>2. input.kind \in Kinds /\ input.channel \in Channels /\ "none" \in Channels
  BY DEF ConstantsAssumption, AskInputs, Channels
<1>3. row \in AskRow
  BY <1>2 DEF AskRow, TypeOK, ConstantsAssumption, LiveStates, ClosedStates
<1>4. asks' = [asks EXCEPT ![a] = row]
  BY DEF Open
<1>5. asks' \in [AskIds -> AskRow \cup {NoAsk}]
  BY <1>1, <1>3, <1>4 DEF TypeOK
<1> HIDE DEF emission, a, row
<1>6. QED
  BY <1>1, <1>5 DEF Open, TypeOK, memVars

LEMMA SubmitType ==
  ASSUME ConstantsAssumption, TypeOK, NEW a \in AskIds, NEW r \in Requests, Submit(a, r)
  PROVE  TypeOK'
<1>1. Exists(a) /\ asks[a] \in AskRow
  BY StoredAsk DEF Submit, Wins, Exists
<1>2. asks' \in [AskIds -> AskRow \cup {NoAsk}]
  BY <1>1 DEF Submit, TypeOK, AskRow, LiveStates
<1>3. answers' \in [Requests -> AnswerRow \cup {NoAnswer}]
  BY DEF Submit, TypeOK, AnswerRow
<1>4. records' \in [AskIds -> RecordRow \cup {NoRecord}]
  BY <1>1 DEF Submit, TypeOK, RecordRow, AskRow
<1>5. flight' \in [Requests -> Flight \cup {NoFlight}]
  BY DEF Submit, TypeOK, Flight
<1>6. injections' \in [AskIds -> Times \cup {NoTime}]
  BY DEF Submit, TypeOK
<1>7. QED
  BY <1>2, <1>3, <1>4, <1>5, <1>6 DEF Submit, TypeOK

\* A hand-over that settles has a result, and its ask is stored.
LEMMA SettledAsk ==
  ASSUME TypeOK, NEW r \in Requests, Settle(r)
  PROVE  /\ flight[r].ask \in AskIds
         /\ flight[r].result \in ChannelResults
         /\ asks[flight[r].ask] \in AskRow
<1>1. flight[r].ask \in AskIds /\ flight[r].result \in ChannelResults
  BY DEF Settle, TypeOK, Flight, NoFlight, InFlight
<1>2. QED
  BY <1>1, StoredAsk DEF Settle

LEMMA SettleType ==
  ASSUME ConstantsAssumption, TypeOK, HandOverRecorded, NEW r \in Requests, Settle(r)
  PROVE  TypeOK'
<1> DEFINE a == flight[r].ask
           settled == ChannelResult(asks[a].state, flight[r].result, a \in held)
<1>1. a \in AskIds /\ flight[r].result \in ChannelResults
  BY SettledAsk
<1>2. asks[a] \in AskRow
  BY SettledAsk
<1>3. settled.state \in LiveStates \cup ClosedStates /\ settled.outcome \in Outcomes
  <2>1. asks[a].state \in LiveStates \cup ClosedStates
    BY <1>2 DEF AskRow
  <2>2. QED
    BY <1>1, <2>1, ChannelResultType
<1>4. answers[r].outcome = "pending" /\ records[a].delivery = "sending"
  BY DEF Settle, HandOverRecorded
<1>5. answers[r] \in AnswerRow /\ records[a] \in RecordRow
  BY <1>1, <1>4 DEF TypeOK, NoAnswer, NoRecord
<1>6. /\ asks' = [asks EXCEPT ![a].state = settled.state]
      /\ answers' = [answers EXCEPT ![r].outcome = settled.outcome]
      /\ records' = [records EXCEPT ![a].delivery = Delivery(settled.outcome)]
      /\ told' = [told EXCEPT ![r] = @ \cup {<<a, settled.outcome>>}]
  BY DEF Settle
<1>7. injections' \in [AskIds -> Times \cup {NoTime}]
  BY <1>1 DEF Settle, TypeOK
<1> HIDE DEF settled
<1>8. asks' \in [AskIds -> AskRow \cup {NoAsk}]
  BY <1>1, <1>2, <1>3, <1>6 DEF TypeOK, AskRow
<1>9. answers' \in [Requests -> AnswerRow \cup {NoAnswer}]
  BY <1>3, <1>5, <1>6 DEF TypeOK, AnswerRow
<1>10. records' \in [AskIds -> RecordRow \cup {NoRecord}]
  BY <1>1, <1>5, <1>6 DEF TypeOK, RecordRow, Delivery
<1>11. told' \in [Requests -> SUBSET (AskIds \X Outcomes)]
  BY <1>1, <1>3, <1>6 DEF TypeOK
<1>12. QED
  BY <1>7, <1>8, <1>9, <1>10, <1>11 DEF Settle, TypeOK

LEMMA ResolveType ==
  ASSUME ConstantsAssumption, TypeOK, NEW a \in AskIds,
         NEW by \in {"elsewhere", "cancelled"}, ResolveExternally(a, by)
  PROVE  TypeOK'
<1>1. asks[a] \in AskRow
  BY StoredAsk, LiveIsStored DEF ResolveExternally
<1>2. ResolvedState(a, by) \in LiveStates \cup ClosedStates
  BY ResolvedStateType DEF LiveStates, ClosedStates
<1>3. asks' \in [AskIds -> AskRow \cup {NoAsk}]
  BY <1>1, <1>2 DEF ResolveExternally, TypeOK, AskRow
<1>4. QED
  BY <1>3 DEF ResolveExternally, TypeOK

LEMMA DepartType ==
  ASSUME ConstantsAssumption, TypeOK, NEW d \in Dwarves, Depart(d)
  PROVE  TypeOK'
<1>1. \A a \in AskIds : Live(a) => WithState(asks[a], "closed-by-death") \in AskRow
  BY StoredAsk, LiveIsStored DEF WithState, AskRow, ClosedStates
<1>2. asks' \in [AskIds -> AskRow \cup {NoAsk}]
  BY <1>1 DEF Depart, LiveOf, TypeOK
<1>3. QED
  BY <1>2 DEF Depart, LiveOf, TypeOK

LEMMA DeleteType ==
  ASSUME TypeOK, NEW gone, Delete(gone)
  PROVE  /\ asks' \in [AskIds -> AskRow \cup {NoAsk}]
         /\ answers' \in [Requests -> AnswerRow \cup {NoAnswer}]
BY DEF Delete, TypeOK

LEMMA BootType ==
  ASSUME ConstantsAssumption, TypeOK, NEW b \in Builds, Boot(b)
  PROVE  TypeOK'
<1>1. \A a \in AskIds : Live(a) => WithState(asks[a], "answered-elsewhere") \in AskRow
  BY StoredAsk, LiveIsStored DEF WithState, AskRow, ClosedStates
<1>2. asks' \in [AskIds -> AskRow \cup {NoAsk}]
  BY <1>1 DEF Boot, Leftover, TypeOK
<1>3. QED
  BY <1>2 DEF Boot, TypeOK, ConstantsAssumption

LEMMA ReconcileEndsType ==
  ASSUME TypeOK, NEW interrupted \in SUBSET AskIds, ReconcileEnds(interrupted)
  PROVE  TypeOK'
<1>1. \A a \in interrupted : records[a] \in RecordRow
  BY DEF ReconcileEnds, TypeOK, NoRecord
<1>2. records' \in [AskIds -> RecordRow \cup {NoRecord}]
  BY <1>1 DEF ReconcileEnds, TypeOK, RecordRow
<1>3. QED
  BY <1>2 DEF ReconcileEnds, TypeOK

\* Every step keeps the types; only the settle of a hand-over needs its record.
LEMMA NextType ==
  ASSUME ConstantsAssumption, TypeOK, HandOverRecorded, [Next]_vars
  PROVE  TypeOK'
<1>1. ASSUME NEW d \in Dwarves, NEW p \in ProviderReqs, NEW input \in Reports,
             NEW session \in Sessions, Open(d, p, input, session)
      PROVE  TypeOK'
  BY <1>1, OpenType
<1>2. ASSUME NEW a \in AskIds, NEW s \in 0..MaxStep, SetStep(a, s)
      PROVE  TypeOK'
  <2>1. asks[a] \in AskRow
    BY <1>2, StoredAsk DEF SetStep, Exists
  <2>2. QED
    BY <1>2, <2>1 DEF SetStep, TypeOK, memVars, AskRow
<1>3. ASSUME NEW a \in AskIds, NEW r \in Requests, Submit(a, r)
      PROVE  TypeOK'
  BY <1>3, SubmitType
<1>4. ASSUME NEW a \in AskIds, NEW r \in Requests, SubmitAgain(a, r)
      PROVE  TypeOK'
  BY <1>4 DEF SubmitAgain, TypeOK, dbVars, memVars, AnswerRow, NoAnswer, Answered
<1>5. ASSUME NEW r \in Requests, NEW result \in ChannelResults, ChannelAnswers(r, result)
      PROVE  TypeOK'
  BY <1>5 DEF ChannelAnswers, TypeOK, dbVars, Flight, NoFlight
<1>6. ASSUME NEW r \in Requests, HandOverTimesOut(r)
      PROVE  TypeOK'
  BY <1>5, <1>6 DEF HandOverTimesOut, ChannelResults, Outcomes
<1>7. ASSUME NEW r \in Requests, Settle(r)
      PROVE  TypeOK'
  BY <1>7, SettleType
<1>8. ASSUME NEW r \in Requests, SettleThrows(r)
      PROVE  TypeOK'
  BY <1>8 DEF SettleThrows, TypeOK, dbVars
<1>9. ASSUME NEW a \in AskIds, NEW by \in {"elsewhere", "cancelled"}, ResolveExternally(a, by)
      PROVE  TypeOK'
  BY <1>9, ResolveType
<1>10. ASSUME NEW d \in Dwarves, Depart(d)
       PROVE  TypeOK'
  BY <1>10, DepartType
<1>11. ASSUME NEW a \in AskIds, TrimRecord(a)
       PROVE  TypeOK'
  BY <1>11 DEF TrimRecord, TypeOK, memVars
<1>12. ASSUME NEW a \in AskIds, Sweep(a)
       PROVE  TypeOK'
  BY <1>12, DeleteType DEF Sweep, TypeOK, memVars
<1>13. ASSUME Reset
       PROVE  TypeOK'
  BY <1>13, DeleteType DEF Reset, TypeOK, memVars
<1>14. ASSUME Crash
       PROVE  TypeOK'
  BY <1>14 DEF Crash, TypeOK, dbVars
<1>15. ASSUME NEW b \in Builds, Boot(b)
       PROVE  TypeOK'
  BY <1>15, BootType
<1>16. ASSUME NEW a \in AskIds, ReconcileFinds(a)
       PROVE  TypeOK'
  BY <1>16 DEF ReconcileFinds, TypeOK, RecordRow, NoRecord
<1>17. ASSUME NEW interrupted \in SUBSET AskIds, ReconcileEnds(interrupted)
       PROVE  TypeOK'
  BY <1>17, ReconcileEndsType
<1>18. ASSUME Tick \/ StepBack
       PROVE  TypeOK'
  BY <1>18 DEF Tick, StepBack, TypeOK, dbVars, memVars, Times, ConstantsAssumption
<1>19. ASSUME UNCHANGED vars
       PROVE  TypeOK'
  BY <1>19 DEF TypeOK, vars, dbVars, memVars
<1>20. QED
  BY <1>1, <1>2, <1>3, <1>4, <1>5, <1>6, <1>7, <1>8, <1>9, <1>10, <1>11, <1>12, <1>13,
     <1>14, <1>15, <1>16, <1>17, <1>18, <1>19 DEF Next
-----------------------------------------------------------------------------
(* Record before acting *)

LEMMA InitRecord == ASSUME ConstantsAssumption, Init PROVE RecordInv
BY DEF Init, ConstantsAssumption, RecordInv, IdsGiven, DownIsEmpty, RecordOfAsk,
       ReconciledApart, HandOverRecorded, Exists, InFlight, Up, AskIds,
       NoAsk, NoRecord, NoFlight

\* A new ask disturbs no other: its id was not given yet.
LEMMA OpenRecord ==
  ASSUME ConstantsAssumption, HandOverInv,
         NEW d \in Dwarves, NEW p \in ProviderReqs, NEW input \in Reports,
         NEW session \in Sessions, Open(d, p, input, session)
  PROVE  RecordInv'
<1> USE DEF HandOverInv, RecordInv, IdsGiven, Exists, InFlight, InFlightFor, memVars
<1>1. born + 1 \in AskIds /\ born' = born + 1 /\ born \in Nat
  BY DEF Open, TypeOK, AskIds, ConstantsAssumption
<1>2. \A b \in AskIds \ {born + 1} : asks'[b] = asks[b]
  BY DEF Open, TypeOK
<1>3. UNCHANGED <<answers, records, flight, reconciling, build>>
  BY DEF Open
<1>4. /\ ~Exists(born + 1) /\ records[born + 1].delivery = "none"
      /\ \A r \in Requests : ~InFlightFor(r, born + 1)
      /\ born + 1 \notin reconciling
  BY <1>1
<1>5. IdsGiven'
  BY <1>1, <1>2, <1>3, <1>4 DEF TypeOK, AskIds, Flight, NoFlight
<1>6. DownIsEmpty'
  BY <1>3 DEF DownIsEmpty, Up
<1>7. RecordOfAsk'
  BY <1>1, <1>2, <1>3, <1>4 DEF RecordOfAsk
<1>8. ReconciledApart'
  BY <1>2, <1>3, <1>4 DEF ReconciledApart, TypeOK
<1>9. HandOverRecorded'
  <2>1. ASSUME NEW r \in Requests, InFlight(r)'
        PROVE  flight'[r] = flight[r] /\ flight[r].ask \in AskIds \ {born + 1}
    BY <1>3, <1>4, <2>1 DEF TypeOK, Flight, NoFlight
  <2>2. QED
    BY <1>2, <1>3, <2>1 DEF HandOverRecorded
<1>10. QED
  BY <1>5, <1>6, <1>7, <1>8, <1>9

\* The submit that wins writes its pending row and its record in the same step.
LEMMA SubmitRecord ==
  ASSUME ConstantsAssumption, HandOverInv, NEW a \in AskIds, NEW r \in Requests, Submit(a, r)
  PROVE  RecordInv'
<1> USE DEF HandOverInv, RecordInv, IdsGiven, Exists, InFlight, InFlightFor, Submit, Wins, TypeOK
<1>1. IdsGiven'
  BY DEF AskIds
<1>2. DownIsEmpty'
  BY DEF DownIsEmpty, Up
<1>3. RecordOfAsk'
  BY DEF RecordOfAsk, AskRow
<1>4. ReconciledApart'
  BY DEF ReconciledApart
<1>5. HandOverRecorded'
  BY DEF HandOverRecorded, Flight, NoFlight
<1>6. QED
  BY <1>1, <1>2, <1>3, <1>4, <1>5

\* The settle takes the hand-over out of flight with its row, its record and its ask.
LEMMA SettleRecord ==
  ASSUME ConstantsAssumption, HandOverInv, NEW r \in Requests, Settle(r)
  PROVE  RecordInv'
<1> USE DEF HandOverInv, RecordInv, IdsGiven, Exists, InFlight, InFlightFor
<1> DEFINE a == flight[r].ask
           settled == ChannelResult(asks[a].state, flight[r].result, a \in held)
           delivered == Delivery(settled.outcome)
<1>1. a \in AskIds /\ Exists(a) /\ InFlightFor(r, a) /\ records[a].delivery = "sending"
  BY DEF Settle, TypeOK, Flight, NoFlight, HandOverRecorded
<1>2. asks[a] \in AskRow /\ records[a] \in RecordRow
  BY <1>1, StoredAsk DEF TypeOK, NoRecord
<1>3. /\ asks' = [asks EXCEPT ![a].state = settled.state]
      /\ records' = [records EXCEPT ![a].delivery = delivered]
      /\ delivered \in {"delivered", "failed"}
  BY DEF Settle, Delivery
<1>4. /\ flight' = [flight EXCEPT ![r] = NoFlight]
      /\ \A s \in Requests \ {r} : answers'[s] = answers[s]
      /\ UNCHANGED <<born, reconciling, build>>
  BY DEF Settle, TypeOK
<1> HIDE DEF delivered, settled
<1>5. \A b \in AskIds \ {a} : asks'[b] = asks[b] /\ records'[b] = records[b]
  BY <1>3 DEF TypeOK
<1>6. /\ asks'[a].dwarf = asks[a].dwarf
      /\ records'[a].dwarf = records[a].dwarf
      /\ records'[a].delivery = delivered
  BY <1>1, <1>2, <1>3 DEF TypeOK, AskRow, RecordRow
<1>7. \A s \in Requests : InFlight(s)' =>
        s # r /\ flight'[s] = flight[s] /\ flight[s].ask \in AskIds \ {a}
  BY <1>1, <1>4 DEF HandOverRecorded, TypeOK, Flight, NoFlight
<1>8. IdsGiven'
  BY <1>1, <1>4, <1>5, <1>7
<1>9. DownIsEmpty'
  BY <1>1, <1>4 DEF DownIsEmpty, Up, TypeOK
<1>10. RecordOfAsk'
  BY <1>1, <1>2, <1>3, <1>5, <1>6 DEF RecordOfAsk, RecordRow
<1>11. ReconciledApart'
  BY <1>1, <1>4, <1>5, <1>7 DEF ReconciledApart, TypeOK
<1>12. HandOverRecorded'
  BY <1>4, <1>5, <1>7 DEF HandOverRecorded
<1>13. QED
  BY <1>8, <1>9, <1>10, <1>11, <1>12

\* An external resolution closes an open ask, or cancels an answering one.
LEMMA ResolveRecord ==
  ASSUME ConstantsAssumption, HandOverInv, NEW a \in AskIds,
         NEW by \in {"elsewhere", "cancelled"}, ResolveExternally(a, by)
  PROVE  RecordInv'
<1> USE DEF HandOverInv, RecordInv, IdsGiven, Exists, InFlight, InFlightFor
<1>1. \/ UNCHANGED asks
      \/ /\ asks[a] \in AskRow
         /\ \E state \in ClosedStates :
              /\ asks' = [asks EXCEPT ![a].state = state]
              /\ asks[a].state = "answering" => state = "cancelled"
  <2>1. asks[a] \in AskRow
    BY StoredAsk, LiveIsStored DEF ResolveExternally
  <2>2. CASE ResolvedState(a, by) = "answering"
    BY <2>2 DEF ResolveExternally
  <2>3. CASE ResolvedState(a, by) # "answering"
    <3>1. asks' = [asks EXCEPT ![a].state = ResolvedState(a, by)]
      BY <2>3 DEF ResolveExternally
    <3>2. ResolvedState(a, by) \in ClosedStates
      BY <2>3, ResolvedStateType DEF ClosedStates
    <3>3. asks[a].state = "answering" => ResolvedState(a, by) = "cancelled"
      BY <2>3 DEF ResolvedState
    <3>4. QED
      BY <2>1, <3>1, <3>2, <3>3
  <2>4. QED
    BY <2>2, <2>3
<1>2. UNCHANGED <<answers, records, born, flight, reconciling, build>>
  BY DEF ResolveExternally
<1>3. IdsGiven' /\ DownIsEmpty'
  BY <1>1, <1>2 DEF TypeOK, DownIsEmpty, Up, AskRow, ClosedStates, LiveStates
<1>4. RecordOfAsk'
  BY <1>1, <1>2 DEF RecordOfAsk, TypeOK, AskRow, ClosedStates, LiveStates
<1>5. ReconciledApart'
  BY <1>1, <1>2 DEF ReconciledApart, TypeOK, ClosedStates, AskRow
<1>6. HandOverRecorded'
  <2>1. CASE UNCHANGED asks
    BY <1>2, <2>1 DEF HandOverRecorded
  <2>2. CASE asks # asks'
    <3>1. PICK state \in ClosedStates :
            /\ asks' = [asks EXCEPT ![a].state = state]
            /\ asks[a].state = "answering" => state = "cancelled"
      BY <1>1, <2>2
    <3>2. asks[a].state \in LiveStates
      BY DEF ResolveExternally, Live
    <3>3. QED
      BY <1>2, <3>1, <3>2 DEF HandOverRecorded, TypeOK, Flight, NoFlight, LiveStates
  <2>3. QED
    BY <2>1, <2>2
<1>7. QED
  BY <1>3, <1>4, <1>5, <1>6

\* The boot reconcile watches records whose hand-over died with the last Host life.
LEMMA BootRecord ==
  ASSUME ConstantsAssumption, HandOverInv, NEW b \in Builds, Boot(b)
  PROVE  RecordInv'
<1> USE DEF HandOverInv, RecordInv, IdsGiven, Exists, InFlight, InFlightFor, Boot, Leftover
<1>1. \A r \in Requests : ~InFlight(r)'
  BY DEF DownIsEmpty, Up
<1>2. IdsGiven' /\ RecordOfAsk'
  BY DEF RecordOfAsk, TypeOK, WithState, AskRow, Live, LiveStates
<1>3. ReconciledApart'
  BY <1>1 DEF ReconciledApart, RecordOfAsk, TypeOK, WithState, AskRow, NoAsk, NoRecord
<1>4. DownIsEmpty' /\ HandOverRecorded'
  BY <1>1 DEF DownIsEmpty, HandOverRecorded
<1>5. QED
  BY <1>2, <1>3, <1>4

\* A step of the maintenance or the conversation reconcile: rows are deleted with
\* what refers to them, and a sending record of a stored ask is kept.
LEMMA DeleteRecord ==
  ASSUME ConstantsAssumption, HandOverInv,
         (\E a \in AskIds : TrimRecord(a) \/ Sweep(a)) \/ Reset
  PROVE  RecordInv'
<1> USE DEF HandOverInv, RecordInv, IdsGiven, Exists, InFlight, InFlightFor, Delete
<1>1. UNCHANGED <<born, flight, reconciling, build>>
  BY DEF TrimRecord, Sweep, Reset, memVars
<1>2. \A a \in AskIds :
        /\ Exists(a)' => asks'[a] = asks[a]
        /\ records'[a] = records[a] \/ records'[a] = NoRecord
  <2>1. CASE \E b \in AskIds : TrimRecord(b) \/ Sweep(b)
    BY <2>1 DEF TrimRecord, Sweep, TypeOK, NoAsk
  <2>2. CASE Reset
    BY <2>2 DEF Reset, TypeOK, NoAsk
  <2>3. QED
    BY <2>1, <2>2
<1>3. \A a \in AskIds : Exists(a)' /\ records[a].delivery = "sending" =>
        records'[a] = records[a]
  <2>1. CASE \E b \in AskIds : TrimRecord(b) \/ Sweep(b)
    BY <2>1 DEF TrimRecord, Sweep, TypeOK
  <2>2. CASE Reset
    BY <2>2 DEF Reset, KeptByReset, RecordOfAsk, NoAsk, TypeOK
  <2>3. QED
    BY <2>1, <2>2
<1>4. \A r \in Requests, a \in AskIds : Exists(a)' /\ answers[r].ask = a => answers'[r] = answers[r]
  BY DEF TrimRecord, Sweep, Reset, NoAsk, TypeOK
<1>5. IdsGiven' /\ DownIsEmpty'
  BY <1>1, <1>2 DEF DownIsEmpty, Up, NoRecord
<1>6. RecordOfAsk' /\ ReconciledApart'
  <2>1. \A a \in AskIds : asks'[a].state = "open" => Exists(a)'
    OBVIOUS
  <2>2. QED
    BY <1>1, <1>2, <2>1 DEF RecordOfAsk, ReconciledApart, NoRecord, TypeOK
<1>7. HandOverRecorded'
  BY <1>1, <1>2, <1>3, <1>4 DEF HandOverRecorded, TypeOK, Flight, NoFlight
<1>8. QED
  BY <1>5, <1>6, <1>7

\* Every step keeps the record of a hand-over until its settle.
LEMMA NextRecord ==
  ASSUME ConstantsAssumption, HandOverInv, [Next]_vars
  PROVE  RecordInv'
<1> USE DEF HandOverInv, RecordInv, IdsGiven, DownIsEmpty, RecordOfAsk, ReconciledApart,
            HandOverRecorded, Exists, InFlight, InFlightFor, Up
<1>1. ASSUME NEW d \in Dwarves, NEW p \in ProviderReqs, NEW input \in Reports,
             NEW session \in Sessions, Open(d, p, input, session)
      PROVE  RecordInv'
  BY <1>1, OpenRecord
<1>2. ASSUME NEW a \in AskIds, NEW s \in 0..MaxStep, SetStep(a, s)
      PROVE  RecordInv'
  BY <1>2, StoredAsk DEF SetStep, TypeOK, memVars, AskRow
<1>3. ASSUME NEW a \in AskIds, NEW r \in Requests, Submit(a, r)
      PROVE  RecordInv'
  BY <1>3, SubmitRecord
<1>4. ASSUME NEW a \in AskIds, NEW r \in Requests, SubmitAgain(a, r)
      PROVE  RecordInv'
  BY <1>4 DEF SubmitAgain, dbVars, memVars
<1>5. ASSUME NEW r \in Requests, NEW result \in ChannelResults, ChannelAnswers(r, result)
      PROVE  RecordInv'
  BY <1>5 DEF ChannelAnswers, TypeOK, dbVars, Flight, NoFlight
<1>6. ASSUME NEW r \in Requests, HandOverTimesOut(r)
      PROVE  RecordInv'
  BY <1>5, <1>6 DEF HandOverTimesOut, ChannelResults, Outcomes
<1>7. ASSUME NEW r \in Requests, Settle(r)
      PROVE  RecordInv'
  BY <1>7, SettleRecord
<1>8. ASSUME NEW r \in Requests, SettleThrows(r)
      PROVE  RecordInv'
  BY <1>8 DEF SettleThrows, TypeOK, dbVars, NoFlight
<1>9. ASSUME NEW a \in AskIds, NEW by \in {"elsewhere", "cancelled"}, ResolveExternally(a, by)
      PROVE  RecordInv'
  BY <1>9, ResolveRecord
<1>10. ASSUME NEW d \in Dwarves, Depart(d)
       PROVE  RecordInv'
  <2>1. \A a \in AskIds : \/ asks'[a] = asks[a]
                          \/ /\ Exists(a) /\ Exists(a)'
                             /\ asks'[a].dwarf = asks[a].dwarf
                             /\ asks[a].state \in LiveStates
                             /\ asks'[a].state = "closed-by-death"
    BY <1>10, StoredAsk, LiveIsStored DEF Depart, LiveOf, TypeOK, WithState, AskRow, Live
  <2>2. UNCHANGED <<answers, records, born, flight, reconciling, build>>
    BY <1>10 DEF Depart
  <2>3. IdsGiven' /\ DownIsEmpty' /\ RecordOfAsk' /\ ReconciledApart'
    BY <2>1, <2>2 DEF TypeOK
  <2>4. HandOverRecorded'
    BY <2>1, <2>2 DEF TypeOK, Flight, NoFlight, LiveStates
  <2>5. QED
    BY <2>3, <2>4
<1>11. ASSUME (\E a \in AskIds : TrimRecord(a) \/ Sweep(a)) \/ Reset
       PROVE  RecordInv'
  BY <1>11, DeleteRecord
<1>12. ASSUME Crash
       PROVE  RecordInv'
  BY <1>12 DEF Crash, dbVars, NoFlight
<1>13. ASSUME NEW b \in Builds, Boot(b)
       PROVE  RecordInv'
  BY <1>13, BootRecord
<1>14. ASSUME NEW a \in AskIds, ReconcileFinds(a)
       PROVE  RecordInv'
  <2>1. /\ records[a].dwarf = records'[a].dwarf
        /\ records'[a].delivery \in {records[a].delivery, "delivered"}
        /\ records[a].delivery = "none" => records'[a].delivery = "none"
        /\ \A b \in AskIds \ {a} : records'[b] = records[b]
        /\ a \in AskIds
    <3>1. CASE records[a].delivery = "sending"
      <4>1. records[a] \in RecordRow
        BY <3>1 DEF TypeOK, NoRecord
      <4>2. QED
        BY <1>14, <3>1, <4>1 DEF ReconcileFinds, TypeOK, RecordRow
    <3>2. CASE records[a].delivery # "sending"
      BY <1>14, <3>2 DEF ReconcileFinds, TypeOK
    <3>3. QED
      BY <3>1, <3>2
  <2>2. /\ UNCHANGED <<asks, answers, born, flight, build>>
        /\ a \in reconciling /\ reconciling' \subseteq reconciling
    BY <1>14 DEF ReconcileFinds
  <2>3. IdsGiven' /\ DownIsEmpty' /\ RecordOfAsk' /\ ReconciledApart'
    BY <2>1, <2>2
  <2>4. HandOverRecorded'
    BY <2>1, <2>2 DEF TypeOK, Flight, NoFlight
  <2>5. QED
    BY <2>3, <2>4
<1>15. ASSUME NEW interrupted \in SUBSET AskIds, ReconcileEnds(interrupted)
       PROVE  RecordInv'
  <2>1. \A a \in AskIds :
          \/ records'[a] = records[a]
          \/ /\ a \in reconciling /\ records[a].delivery = "sending"
             /\ records'[a].dwarf = records[a].dwarf
             /\ records'[a].delivery = "failed"
    <3>1. ASSUME NEW a \in interrupted
          PROVE  a \in reconciling /\ records[a] \in RecordRow /\ records[a].delivery = "sending"
      BY <1>15, <3>1 DEF ReconcileEnds, TypeOK, NoRecord
    <3>2. records' = [a \in AskIds |-> IF a \in interrupted
                        THEN [records[a] EXCEPT !.delivery = "failed"] ELSE records[a]]
      BY <1>15 DEF ReconcileEnds
    <3>3. QED
      BY <3>1, <3>2 DEF RecordRow
  <2>2. UNCHANGED <<asks, answers, born, flight, build>> /\ reconciling' = {}
    BY <1>15 DEF ReconcileEnds
  <2>3. IdsGiven' /\ DownIsEmpty' /\ RecordOfAsk' /\ ReconciledApart'
    BY <2>1, <2>2
  <2>4. HandOverRecorded'
    BY <2>1, <2>2 DEF TypeOK, Flight, NoFlight
  <2>5. QED
    BY <2>3, <2>4
<1>16. ASSUME Tick \/ StepBack \/ UNCHANGED vars
       PROVE  RecordInv'
  BY <1>16 DEF Tick, StepBack, vars, dbVars, memVars
<1>17. QED
  BY <1>1, <1>2, <1>3, <1>4, <1>5, <1>6, <1>7, <1>8, <1>9, <1>10, <1>11, <1>12, <1>13,
     <1>14, <1>15, <1>16 DEF Next

LEMMA SpecHandOver == Spec => []HandOverInv
<1>1. Init => HandOverInv
  BY ConstantsAssumption, InitType, InitRecord DEF HandOverInv
<1>2. HandOverInv /\ [Next]_vars => HandOverInv'
  BY ConstantsAssumption, NextType, NextRecord DEF HandOverInv, RecordInv
<1>3. QED
  BY <1>1, <1>2, PTL DEF Spec

\* Every reachable state is well typed.
THEOREM TypeCorrect == Spec => []TypeOK
<1>1. HandOverInv => TypeOK
  BY DEF HandOverInv
<1>2. QED
  BY <1>1, SpecHandOver, PTL

\* Record before acting (09 S8.2): a hand-over in flight has its pending row and its
\* sending record stored, is the only one of its ask, and its ask was not reopened.
THEOREM HandOverIsRecorded == Spec => []HandOverRecorded
<1>1. HandOverInv => HandOverRecorded
  BY DEF HandOverInv, RecordInv
<1>2. QED
  BY <1>1, SpecHandOver, PTL

-----------------------------------------------------------------------------
(* One card per dwarf *)

LEMMA InitCard == ASSUME ConstantsAssumption, Init PROVE CardInv
BY InitType DEF CardInv, Init, ConstantsAssumption, IdsGiven, ClockOrder, AnsweringIsFront,
       Exists, InFlight, AskIds, NoAsk, NoRecord, NoFlight

\* A step that writes no new ask, gives no ask the answering state or a live state it
\* had not, and moves no clock back keeps the order and the front ask.
LEMMA CardFrame ==
  ASSUME TypeOK, TypeOK', ClockOrder, AnsweringIsFront, now' >= now,
         \A a \in AskIds : Exists(a)' =>
           /\ Exists(a)
           /\ asks'[a].dwarf = asks[a].dwarf /\ asks'[a].openedAt = asks[a].openedAt
           /\ Live(a)' => Live(a)
           /\ asks'[a].state = "answering" => asks[a].state = "answering"
  PROVE  ClockOrder' /\ AnsweringIsFront'
<1>1. \A a \in AskIds : Exists(a)' => asks[a].openedAt \in Nat
  BY StoredAsk DEF TypeOK, AskRow, Times
<1>2. now \in Nat /\ now' \in Nat
  BY DEF TypeOK, Times
<1>3. ClockOrder'
  BY <1>1, <1>2 DEF ClockOrder
<1>4. AnsweringIsFront'
  <2>1. ASSUME NEW a \in AskIds, asks'[a].state = "answering"
        PROVE  IsFront(a)'
    <3>1. Exists(a)' /\ Live(a)' /\ IsFront(a)
      BY <2>1 DEF AnsweringIsFront, Exists, Live, LiveStates
    <3>2. ASSUME NEW b \in AskIds \ {a}, SameDwarf(a, b)', Live(b)'
          PROVE  Before(a, b)'
      BY <3>1, <3>2 DEF IsFront, SameDwarf, Before
    <3>3. QED
      BY <3>1, <3>2 DEF IsFront
  <2>2. QED
    BY <2>1 DEF AnsweringIsFront
<1>5. QED
  BY <1>3, <1>4

\* A new ask comes after every stored one, by its id and by its opening.
LEMMA OpenCard ==
  ASSUME ConstantsAssumption, CardInv, TypeOK',
         NEW d \in Dwarves, NEW p \in ProviderReqs, NEW input \in Reports,
         NEW session \in Sessions, Open(d, p, input, session)
  PROVE  ClockOrder' /\ AnsweringIsFront'
<1> USE DEF CardInv
<1>1. /\ born + 1 \in AskIds /\ now' = now /\ now \in Nat
      /\ \A b \in AskIds \ {born + 1} : asks'[b] = asks[b]
      /\ \A b \in AskIds : Exists(b) => b < born + 1
  BY DEF Open, TypeOK, AskIds, ConstantsAssumption, IdsGiven, Times
<1>2. asks'[born + 1].openedAt = now /\ asks'[born + 1].state \in {"open", "auto-denied"}
  BY <1>1 DEF Open, TypeOK
<1>3. \A b \in AskIds : Exists(b) => asks[b].openedAt \in Nat
  BY StoredAsk DEF AskRow, Times
<1>4. ClockOrder'
  BY <1>1, <1>2, <1>3 DEF ClockOrder, Exists, AskIds
<1>5. AnsweringIsFront'
  <2>1. ASSUME NEW a \in AskIds, asks'[a].state = "answering"
        PROVE  IsFront(a)'
    <3>1. /\ a # born + 1 /\ asks'[a] = asks[a] /\ asks[a].state = "answering"
          /\ Exists(a) /\ Live(a) /\ IsFront(a)
      BY <1>1, <1>2, <2>1 DEF AnsweringIsFront, Exists, Live, LiveStates
    <3>2. ASSUME NEW b \in AskIds \ {a}, SameDwarf(a, b)', Live(b)'
          PROVE  Before(a, b)'
      <4>1. CASE b = born + 1
        BY <1>1, <1>2, <1>3, <3>1, <4>1 DEF ClockOrder, Before, AskIds
      <4>2. CASE b # born + 1
        BY <1>1, <3>1, <3>2, <4>2 DEF IsFront, SameDwarf, Live, Exists, Before
      <4>3. QED
        BY <4>1, <4>2
    <3>3. QED
      BY <3>1, <3>2 DEF IsFront, Live
  <2>2. QED
    BY <2>1 DEF AnsweringIsFront
<1>6. QED
  BY <1>4, <1>5

\* A submit wins only for the front ask, and moves no other.
LEMMA SubmitCard ==
  ASSUME CardInv, TypeOK', NEW a \in AskIds, NEW r \in Requests, Submit(a, r)
  PROVE  ClockOrder' /\ AnsweringIsFront'
<1> USE DEF CardInv
<1>1. /\ asks[a] \in AskRow /\ IsFront(a) /\ now' = now
      /\ asks' = [asks EXCEPT ![a].state = "answering"]
  BY StoredAsk DEF Submit, Wins, Exists
<1>2. \A b \in AskIds : /\ Exists(b)' <=> Exists(b)
                        /\ Live(b)' <=> Live(b)
                        /\ Exists(b) => /\ asks'[b].dwarf = asks[b].dwarf
                                        /\ asks'[b].openedAt = asks[b].openedAt
  BY <1>1 DEF TypeOK, AskRow, Exists, Live, LiveStates, IsFront
<1>3. ClockOrder'
  BY <1>1, <1>2 DEF ClockOrder
<1>4. \A b \in AskIds : IsFront(b) => IsFront(b)'
  BY <1>2 DEF IsFront, SameDwarf, Before
<1>5. \A b \in AskIds : asks'[b].state = "answering" => b = a \/ asks[b].state = "answering"
  BY <1>1 DEF TypeOK
<1>6. QED
  BY <1>1, <1>3, <1>4, <1>5 DEF AnsweringIsFront

\* While the clock never steps back, every step keeps the order and the front ask.
LEMMA NextCard ==
  ASSUME ConstantsAssumption, ~ClockStepsBack, CardInv, TypeOK', [Next]_vars
  PROVE  ClockOrder' /\ AnsweringIsFront'
<1> DEFINE Frame == /\ now' >= now
                    /\ \A a \in AskIds : Exists(a)' =>
                         /\ Exists(a)
                         /\ asks'[a].dwarf = asks[a].dwarf
                         /\ asks'[a].openedAt = asks[a].openedAt
                         /\ Live(a)' => Live(a)
                         /\ asks'[a].state = "answering" => asks[a].state = "answering"
<1> USE DEF CardInv
<1>1. now \in Nat
  BY DEF TypeOK, Times
<1>2. ASSUME NEW d \in Dwarves, NEW p \in ProviderReqs, NEW input \in Reports,
             NEW session \in Sessions, Open(d, p, input, session)
      PROVE  ClockOrder' /\ AnsweringIsFront'
  BY <1>2, OpenCard
<1>3. ASSUME NEW a \in AskIds, NEW r \in Requests, Submit(a, r)
      PROVE  ClockOrder' /\ AnsweringIsFront'
  BY <1>3, SubmitCard
<1>4. ASSUME NEW a \in AskIds, NEW s \in 0..MaxStep, SetStep(a, s)
      PROVE  Frame
  BY <1>1, <1>4, StoredAsk DEF SetStep, TypeOK, AskRow, Exists, Live
<1>5. ASSUME NEW r \in Requests, Settle(r)
      PROVE  Frame
  <2> DEFINE a == flight[r].ask
             settled == ChannelResult(asks[a].state, flight[r].result, a \in held)
  <2>1. a \in AskIds /\ flight[r].result \in ChannelResults /\ asks[a] \in AskRow
    BY <1>5, SettledAsk
  <2>2. asks[a].state \in LiveStates \cup ClosedStates
    BY <2>1 DEF AskRow
  <2>3. /\ settled.state # "answering"
        /\ asks[a].state \in ClosedStates => settled.state = asks[a].state
    BY <2>1, <2>2, ChannelResultType
  <2>4. asks' = [asks EXCEPT ![a].state = settled.state] /\ now' = now
    BY <1>5 DEF Settle
  <2> HIDE DEF settled
  <2>5. QED
    BY <1>1, <2>1, <2>2, <2>3, <2>4 DEF TypeOK, AskRow, Exists, Live, LiveStates
<1>6. ASSUME NEW a \in AskIds, NEW by \in {"elsewhere", "cancelled"}, ResolveExternally(a, by)
      PROVE  Frame
  <2>1. asks[a] \in AskRow /\ Live(a) /\ Exists(a) /\ now' = now
    BY <1>6, StoredAsk, LiveIsStored DEF ResolveExternally
  <2>2. UNCHANGED asks \/ asks' = [asks EXCEPT ![a].state = ResolvedState(a, by)]
    BY <1>6 DEF ResolveExternally
  <2>3. ResolvedState(a, by) = "answering" => asks[a].state = "answering"
    BY ResolvedStateType
  <2>4. asks'[a].dwarf = asks[a].dwarf /\ asks'[a].openedAt = asks[a].openedAt
    BY <2>1, <2>2 DEF TypeOK, AskRow
  <2>5. asks'[a].state = "answering" => asks[a].state = "answering"
    BY <2>1, <2>2, <2>3 DEF TypeOK, AskRow
  <2>6. \A b \in AskIds \ {a} : asks'[b] = asks[b]
    BY <2>2 DEF TypeOK
  <2>7. QED
    BY <1>1, <2>1, <2>4, <2>5, <2>6 DEF Exists, Live
<1>7. ASSUME NEW d \in Dwarves, Depart(d)
      PROVE  Frame
  BY <1>1, <1>7, StoredAsk, LiveIsStored DEF Depart, LiveOf, TypeOK, WithState, AskRow, Exists, Live
<1>8. ASSUME NEW b \in Builds, Boot(b)
      PROVE  Frame
  BY <1>1, <1>8, StoredAsk, LiveIsStored DEF Boot, Leftover, TypeOK, WithState, AskRow, Exists, Live
<1>9. ASSUME (\E a \in AskIds : Sweep(a)) \/ Reset
      PROVE  Frame
  BY <1>1, <1>9 DEF Sweep, Reset, Delete, TypeOK, NoAsk, Exists, Live
<1>10. ASSUME Tick \/ UNCHANGED <<asks, now>>
       PROVE  Frame
  BY <1>1, <1>10 DEF Tick, dbVars, Exists, Live
<1>11. ASSUME Frame
       PROVE  ClockOrder' /\ AnsweringIsFront'
  BY <1>11, CardFrame
<1> HIDE DEF Frame
<1>12. ASSUME \/ \E a \in AskIds, r \in Requests : SubmitAgain(a, r)
              \/ \E r \in Requests, result \in ChannelResults : ChannelAnswers(r, result)
              \/ \E r \in Requests : HandOverTimesOut(r) \/ SettleThrows(r)
              \/ \E a \in AskIds : TrimRecord(a) \/ ReconcileFinds(a)
              \/ \E interrupted \in SUBSET AskIds : ReconcileEnds(interrupted)
              \/ Crash \/ UNCHANGED vars
       PROVE  UNCHANGED <<asks, now>>
  BY <1>12 DEF SubmitAgain, ChannelAnswers, HandOverTimesOut, SettleThrows, TrimRecord,
     ReconcileFinds, ReconcileEnds, Crash, vars, dbVars
<1>13. ~StepBack
  BY DEF StepBack
<1>14. QED
  BY <1>2, <1>3, <1>4, <1>5, <1>6, <1>7, <1>8, <1>9, <1>10, <1>11, <1>12, <1>13 DEF Next

\* While the clock never steps back, the order and the front ask hold of every state.
LEMMA SpecCard ==
  ASSUME ~ClockStepsBack
  PROVE  Spec => []CardInv
<1>1. Init => CardInv
  BY ConstantsAssumption, InitCard
<1>2. HandOverInv /\ HandOverInv' /\ CardInv /\ [Next]_vars => CardInv'
  BY ConstantsAssumption, NextCard DEF CardInv, HandOverInv, RecordInv
<1>3. QED
  BY <1>1, <1>2, SpecHandOver, PTL DEF Spec

\* One card per dwarf: whatever is submitted, withdrawn, settled late or lost with a
\* Host, an ask whose answer is in flight is its dwarf's front ask, for a wall clock
\* that does not step back.
THEOREM OneCardPerDwarf ==
  ASSUME ~ClockStepsBack
  PROVE  Spec => []AnsweringIsFront
<1>1. CardInv => AnsweringIsFront
  BY DEF CardInv
<1>2. QED
  BY <1>1, SpecCard, PTL

-----------------------------------------------------------------------------
(* The broker implements the life of an ask *)

\* The phase that AskBroker's refinement mapping gives an ask.
PhaseOf(a) == IF Exists(a) THEN asks[a].state ELSE IF a > born THEN "unborn" ELSE "deleted"

\* The states of one step's ask, and the rows of machine 6 between them.
LEMMA MachineRows ==
  /\ {<<"unborn", "open">>, <<"unborn", "auto-denied">>, <<"open", "answering">>,
      <<"answering", "answered-in-app">>, <<"answering", "open">>,
      <<"answering", "answered-elsewhere">>, <<"open", "answered-elsewhere">>,
      <<"open", "answered-in-app">>, <<"open", "cancelled">>,
      <<"answering", "cancelled">>, <<"open", "closed-by-death">>,
      <<"answering", "closed-by-death">>} \subseteq Lifecycle!Machine6
  /\ \A state \in LiveStates \cup ClosedStates : <<state, "deleted">> \in Lifecycle!Deletions
BY DEF Lifecycle!Machine6, Lifecycle!Births, Lifecycle!Taken, Lifecycle!Settled,
       Lifecycle!Resolved, Lifecycle!Bereaved, Lifecycle!Deletions,
       Lifecycle!LiveStates, Lifecycle!ClosedStates, LiveStates, ClosedStates

\* Every step of the broker moves each ask along a row of machine 6, or deletes it.
LEMMA NextPhase ==
  ASSUME ConstantsAssumption, TypeOK, IdsGiven, [Next]_vars, NEW a \in AskIds,
         PhaseOf(a)' # PhaseOf(a)
  PROVE  <<PhaseOf(a), PhaseOf(a)'>> \in Lifecycle!Machine6 \cup Lifecycle!Deletions
<1> USE DEF IdsGiven, PhaseOf, Exists
<1>1. Exists(a) => asks[a] \in AskRow
  BY StoredAsk
<1>2. born \in Nat
  BY DEF TypeOK, ConstantsAssumption
<1>3. ASSUME NEW d \in Dwarves, NEW p \in ProviderReqs, NEW input \in Reports,
             NEW session \in Sessions, Open(d, p, input, session)
      PROVE  PhaseOf(a) = "unborn" /\ PhaseOf(a)' \in {"open", "auto-denied"}
  <2>1. /\ born' = born + 1
        /\ asks'[born + 1].state \in {"open", "auto-denied"}
        /\ \A b \in AskIds \ {born + 1} : asks'[b] = asks[b]
    <3>1. born + 1 \in AskIds
      BY <1>3 DEF Open, AskIds, TypeOK, ConstantsAssumption
    <3>2. QED
      BY <1>3, <3>1 DEF Open, TypeOK
  <2>2. QED
    BY <1>2, <2>1 DEF AskIds
<1>4. ASSUME NEW b \in AskIds, NEW s \in 0..MaxStep, SetStep(b, s)
      PROVE  FALSE
  BY <1>1, <1>4 DEF SetStep, TypeOK, AskRow
<1>5. ASSUME NEW b \in AskIds, NEW r \in Requests, Submit(b, r)
      PROVE  PhaseOf(a) = "open" /\ PhaseOf(a)' = "answering"
  <2>1. asks[b].state = "open" /\ asks' = [asks EXCEPT ![b].state = "answering"] /\ born' = born
    BY <1>5 DEF Submit, Wins
  <2>2. a = b
    BY <2>1 DEF TypeOK
  <2>3. QED
    BY <1>1, <2>1, <2>2 DEF TypeOK, AskRow
<1>6. ASSUME NEW r \in Requests, Settle(r)
      PROVE  /\ PhaseOf(a) \in LiveStates
             /\ PhaseOf(a)' \in {"answered-in-app", "open", "answered-elsewhere"}
  <2> DEFINE b == flight[r].ask
             settled == ChannelResult(asks[b].state, flight[r].result, b \in held)
  <2>1. b \in AskIds /\ flight[r].result \in ChannelResults /\ asks[b] \in AskRow
    BY <1>6, SettledAsk
  <2>2. asks' = [asks EXCEPT ![b].state = settled.state] /\ born' = born
    BY <1>6 DEF Settle
  <2>3. asks[b].state \in ClosedStates => settled.state = asks[b].state
    BY DEF ChannelResult
  <2>4. asks[b].state \notin ClosedStates =>
          settled.state \in {"answered-in-app", "open", "answered-elsewhere"}
    BY DEF ChannelResult
  <2> HIDE DEF settled
  <2>5. a = b
    BY <2>1, <2>2 DEF TypeOK
  <2>6. /\ asks[b].state \in LiveStates \cup ClosedStates
        /\ asks'[b].state = settled.state
    BY <2>1, <2>2 DEF TypeOK, AskRow
  <2>7. asks[b].state \notin ClosedStates
    BY <2>2, <2>3, <2>5, <2>6 DEF ClosedStates
  <2>8. QED
    BY <2>4, <2>5, <2>6, <2>7 DEF LiveStates, ClosedStates
<1>7. ASSUME NEW b \in AskIds, NEW by \in {"elsewhere", "cancelled"}, ResolveExternally(b, by)
      PROVE  \/ /\ PhaseOf(a) = "open"
                /\ PhaseOf(a)' \in {"cancelled", "answered-in-app", "answered-elsewhere"}
             \/ PhaseOf(a) = "answering" /\ PhaseOf(a)' = "cancelled"
  <2>1. asks[b].state \in LiveStates /\ born' = born
    BY <1>7 DEF ResolveExternally, Live
  <2>2. /\ asks' = [asks EXCEPT ![b].state = ResolvedState(b, by)]
        /\ ResolvedState(b, by) # "answering"
    BY <1>7 DEF ResolveExternally
  <2>3. a = b
    BY <2>1, <2>2 DEF TypeOK
  <2>4. asks[b] \in AskRow
    BY <1>1, <2>1, <2>3 DEF LiveStates
  <2>5. asks'[b].state = ResolvedState(b, by)
    BY <2>2, <2>4 DEF TypeOK, AskRow
  <2>6. asks[b].state = "answering" => ResolvedState(b, by) = "cancelled"
    BY <2>2 DEF ResolvedState
  <2>7. QED
    BY <2>1, <2>2, <2>3, <2>5, <2>6, ResolvedStateType DEF LiveStates
<1>8. ASSUME NEW d \in Dwarves, Depart(d)
      PROVE  PhaseOf(a) \in LiveStates /\ PhaseOf(a)' = "closed-by-death"
  <2>1. \/ asks'[a] = asks[a]
        \/ asks[a].state \in LiveStates /\ asks'[a] = WithState(asks[a], "closed-by-death")
    BY <1>8 DEF Depart, LiveOf, Live
  <2>2. born' = born
    BY <1>8 DEF Depart
  <2>3. QED
    BY <1>1, <2>1, <2>2 DEF WithState, AskRow, LiveStates
<1>9. ASSUME (\E b \in AskIds : Sweep(b)) \/ Reset
      PROVE  PhaseOf(a) \in LiveStates \cup ClosedStates /\ PhaseOf(a)' = "deleted"
  <2>1. (asks'[a] = asks[a] \/ asks'[a] = NoAsk) /\ born' = born
    BY <1>9 DEF Sweep, Reset, Delete
  <2>2. QED
    BY <1>1, <1>2, <2>1 DEF NoAsk, AskRow, AskIds
<1>10. ASSUME NEW b \in Builds, Boot(b)
       PROVE  PhaseOf(a) \in LiveStates /\ PhaseOf(a)' = "answered-elsewhere"
  <2>1. \/ asks'[a] = asks[a]
        \/ asks[a].state \in LiveStates /\ asks'[a] = WithState(asks[a], "answered-elsewhere")
    BY <1>10 DEF Boot, Leftover, Live
  <2>2. born' = born
    BY <1>10 DEF Boot
  <2>3. QED
    BY <1>1, <2>1, <2>2 DEF WithState, AskRow, LiveStates
<1>11. ASSUME \/ \E b \in AskIds, r \in Requests : SubmitAgain(b, r)
              \/ \E r \in Requests, result \in ChannelResults : ChannelAnswers(r, result)
              \/ \E r \in Requests : HandOverTimesOut(r) \/ SettleThrows(r)
              \/ \E b \in AskIds : TrimRecord(b) \/ ReconcileFinds(b)
              \/ \E interrupted \in SUBSET AskIds : ReconcileEnds(interrupted)
              \/ Crash \/ Tick \/ StepBack \/ UNCHANGED vars
       PROVE  FALSE
  <2>1. UNCHANGED <<asks, born>>
    BY <1>11 DEF SubmitAgain, ChannelAnswers, HandOverTimesOut, SettleThrows, TrimRecord,
       ReconcileFinds, ReconcileEnds, Crash, Tick, StepBack, vars, dbVars
  <2>2. QED
    BY <2>1
<1>12. \/ PhaseOf(a) = "unborn" /\ PhaseOf(a)' \in {"open", "auto-denied"}
       \/ PhaseOf(a) = "open" /\ PhaseOf(a)' = "answering"
       \/ /\ PhaseOf(a) \in LiveStates
          /\ PhaseOf(a)' \in {"answered-in-app", "open", "answered-elsewhere"}
       \/ /\ PhaseOf(a) = "open"
          /\ PhaseOf(a)' \in {"cancelled", "answered-in-app", "answered-elsewhere"}
       \/ PhaseOf(a) = "answering" /\ PhaseOf(a)' = "cancelled"
       \/ PhaseOf(a) \in LiveStates /\ PhaseOf(a)' = "closed-by-death"
       \/ PhaseOf(a) \in LiveStates /\ PhaseOf(a)' = "answered-elsewhere"
       \/ PhaseOf(a) \in LiveStates \cup ClosedStates /\ PhaseOf(a)' = "deleted"
  <2> HIDE DEF PhaseOf, IdsGiven, Exists
  <2>1. QED
    BY <1>3, <1>4, <1>5, <1>6, <1>7, <1>8, <1>9, <1>10, <1>11 DEF Next
<1>13. QED
  <2> DEFINE p == PhaseOf(a)
             q == PhaseOf(a)'
  <2>1. p # q
    OBVIOUS
  <2> HIDE DEF p, q
  <2>2. QED
    BY <1>12, <2>1, MachineRows DEF LiveStates, p, q

\* AskBroker implements AskLifecycle: whatever interleaves, an ask that closed never
\* reopens, none closes without a row of machine 6, and a deleted id is never reused.
THEOREM BrokerImplementsLifecycle == Spec => ImplementsLifecycle
<1> DEFINE phase == [a \in AskIds |-> PhaseOf(a)]
<1>1. Init => Lifecycle!LInit
  BY DEF Init, Lifecycle!LInit, Exists, NoAsk, AskIds
<1>2. HandOverInv /\ HandOverInv' /\ [Next]_vars => [Lifecycle!LNext]_phase
  <2> SUFFICES ASSUME HandOverInv, HandOverInv', [Next]_vars
               PROVE  Lifecycle!LNext
    OBVIOUS
  <2>1. \A a \in AskIds : PhaseOf(a)' # PhaseOf(a) =>
          <<PhaseOf(a), PhaseOf(a)'>> \in Lifecycle!Machine6 \cup Lifecycle!Deletions
    BY ConstantsAssumption, NextPhase DEF HandOverInv, RecordInv
  <2>2. \A a \in AskIds :
          PhaseOf(a)' \in LiveStates \cup ClosedStates \cup {"unborn", "deleted"}
    <3>1. ASSUME NEW a \in AskIds
          PROVE  asks'[a].state \in LiveStates \cup ClosedStates \cup {"none"}
      BY DEF HandOverInv, TypeOK, AskRow, NoAsk
    <3>2. QED
      BY <3>1 DEF PhaseOf, Exists
  <2>3. QED
    BY <2>1, <2>2 DEF Lifecycle!LNext, PhaseOf, Lifecycle!LiveStates, Lifecycle!ClosedStates,
                      LiveStates, ClosedStates
<1>3. QED
  BY <1>1, <1>2, SpecHandOver, PTL
     DEF Spec, ImplementsLifecycle, Lifecycle!LSpec, PhaseOf

-----------------------------------------------------------------------------
(* The verdict of a submit *)

\* A stored answer is of a stored ask.
AnswersStored == \A r \in Requests : Answered(r) => Exists(answers[r].ask)

\* What a submit was told is the stored outcome, for as long as its ask is stored.
ToldIsStored ==
  \A r \in Requests : \A v \in told[r] :
    /\ v[1] <= born
    /\ Exists(v[1]) => answers[r].ask = v[1] /\ answers[r].outcome = v[2]

\* An accepted answer closed its ask in the app, and is the only one.
AcceptedCloses ==
  \A r \in Requests : answers[r].outcome = "accepted" =>
    /\ asks[answers[r].ask].state = "answered-in-app"
    /\ \A s \in Requests : answers[s].outcome = "accepted" /\ answers[s].ask = answers[r].ask =>
         s = r

VerdictInv == AnswersStored /\ ToldIsStored /\ AcceptedCloses /\ OneVerdict /\ AcceptedOnce

\* An ask answered in the app stays so until it is deleted, and no id is born again.
LEMMA AsksStay ==
  ASSUME ConstantsAssumption, HandOverInv, HandOverInv', [Next]_vars
  PROVE  /\ \A a \in AskIds : /\ asks[a].state = "answered-in-app" =>
                                    asks'[a].state \in {"answered-in-app", "none"}
                              /\ Exists(a)' => Exists(a) \/ a > born
         /\ born <= born'
<1>1. born <= born'
  <2>1. born \in Nat
    BY DEF HandOverInv, TypeOK, ConstantsAssumption
  <2>2. born' = born \/ born' = born + 1
    BY DEF Next, Open, SetStep, Submit, SubmitAgain, ChannelAnswers, HandOverTimesOut, Settle,
           SettleThrows, ResolveExternally, Depart, TrimRecord, Sweep, Reset, Crash, Boot,
           ReconcileFinds, ReconcileEnds, Tick, StepBack, vars, dbVars
  <2> QED BY <2>1, <2>2
<1>2. ASSUME NEW a \in AskIds
      PROVE  /\ asks[a].state = "answered-in-app" =>
                  asks'[a].state \in {"answered-in-app", "none"}
             /\ Exists(a)' => Exists(a) \/ a > born
  <2>1. PhaseOf(a)' = PhaseOf(a)
        \/ <<PhaseOf(a), PhaseOf(a)'>> \in Lifecycle!Machine6 \cup Lifecycle!Deletions
    BY NextPhase DEF HandOverInv, RecordInv
  <2>2. \A p, q : <<p, q>> \in Lifecycle!Machine6 \cup Lifecycle!Deletions =>
          p # "deleted" /\ (p = "answered-in-app" => q = "deleted")
    BY DEF Lifecycle!Machine6, Lifecycle!Births, Lifecycle!Taken, Lifecycle!Settled,
           Lifecycle!Resolved, Lifecycle!Bereaved, Lifecycle!Deletions,
           Lifecycle!LiveStates, Lifecycle!ClosedStates
  <2>3. Exists(a)' => asks'[a].state \in LiveStates \cup ClosedStates
    BY StoredAsk DEF HandOverInv, TypeOK, AskRow, NoAsk, Exists
  <2>4. PhaseOf(a) = "answered-in-app" => PhaseOf(a)' \in {"answered-in-app", "deleted"}
    BY <2>1, <2>2
  <2>5. PhaseOf(a) = "deleted" => PhaseOf(a)' = "deleted"
    BY <2>1, <2>2
  <2>6. Exists(a)' => PhaseOf(a)' # "deleted" /\ PhaseOf(a)' = asks'[a].state
    BY <2>3 DEF PhaseOf, LiveStates, ClosedStates
  <2>7. asks[a].state = "answered-in-app" => PhaseOf(a) = "answered-in-app"
    BY DEF PhaseOf, Exists
  <2> QED BY <2>4, <2>5, <2>6, <2>7 DEF PhaseOf, Exists
<1> QED BY <1>1, <1>2

\* The ask is stored after the step.
StaysStored(a) == asks'[a].state # "none"

\* A step that tells nothing, settles nothing, and deletes answers only with their asks.
LEMMA NothingTold ==
  ASSUME ConstantsAssumption, HandOverInv, HandOverInv', VerdictInv, [Next]_vars, told' = told,
         \A r \in Requests :
           \/ answers'[r] = answers[r] /\ (Answered(r) => StaysStored(answers[r].ask))
           \/ answers'[r] = NoAnswer /\ (Answered(r) => ~ StaysStored(answers[r].ask))
           \/ ~ Answered(r) /\ answers'[r].outcome = "pending" /\ StaysStored(answers'[r].ask)
  PROVE  VerdictInv'
<1>0. /\ \A r \in Requests : answers[r] \in AnswerRow \cup {NoAnswer}
      /\ \A r \in Requests : \A v \in told[r] : v[1] \in AskIds /\ v[2] \in Outcomes
      /\ \A r \in Requests : told[r] \subseteq AskIds \X Outcomes
      /\ born \in Nat /\ born <= born' /\ \A a \in AskIds : a \in Nat
      /\ NoAnswer.outcome = "none" /\ "none" \notin Outcomes /\ "pending" \notin Outcomes
      /\ "accepted" \in Outcomes
  BY AsksStay DEF HandOverInv, TypeOK, ConstantsAssumption, AskIds, NoAnswer, Outcomes
<1>b. born' \in Nat
  BY DEF HandOverInv, TypeOK, ConstantsAssumption
<1>1. \A r \in Requests : answers'[r].outcome \in Outcomes => answers'[r] = answers[r]
  BY <1>0
<1>2. AnswersStored'
  BY <1>0 DEF AnswersStored, Answered, Exists, StaysStored, NoAnswer
<1>3. ToldIsStored'
  <2> SUFFICES ASSUME NEW r \in Requests, NEW v \in told[r]
               PROVE  /\ v[1] <= born'
                      /\ Exists(v[1])' => answers'[r].ask = v[1] /\ answers'[r].outcome = v[2]
    BY DEF ToldIsStored
  <2>1. v[1] <= born /\ v[1] \in AskIds /\ v[2] \in Outcomes
    BY <1>0 DEF VerdictInv, ToldIsStored
  <2>2. v[1] <= born'
    BY <1>0, <2>1, <1>b
  <2>3. ASSUME Exists(v[1])' PROVE answers'[r].ask = v[1] /\ answers'[r].outcome = v[2]
    <3>1. Exists(v[1])
      BY <1>0, <2>1, <2>3, AsksStay
    <3>2. answers[r].ask = v[1] /\ answers[r].outcome = v[2]
      BY <3>1 DEF VerdictInv, ToldIsStored
    <3>3. Answered(r)
      BY <1>0, <2>1, <3>2 DEF Answered
    <3>4. StaysStored(answers[r].ask)
      BY <2>3, <3>2 DEF Exists, StaysStored
    <3>5. answers'[r] = answers[r]
      BY <3>3, <3>4
    <3> QED BY <3>2, <3>5
  <2> QED BY <2>2, <2>3
<1>4. AcceptedCloses'
  <2>1. ASSUME NEW r \in Requests, answers'[r].outcome = "accepted"
        PROVE  asks'[answers'[r].ask].state = "answered-in-app"
    <3>1. answers'[r] = answers[r] /\ answers[r] \in AnswerRow
      BY <1>0, <1>1, <2>1
    <3>2. asks[answers[r].ask].state = "answered-in-app" /\ answers[r].ask \in AskIds
      BY <2>1, <3>1 DEF VerdictInv, AcceptedCloses, AnswerRow
    <3>3. StaysStored(answers[r].ask)
      BY <1>0, <1>2, <2>1, <3>1 DEF AnswersStored, Answered, Exists, StaysStored
    <3>4. asks'[answers[r].ask].state \in {"answered-in-app", "none"}
      BY <3>2, AsksStay
    <3> QED BY <3>1, <3>3, <3>4 DEF StaysStored
  <2>2. ASSUME NEW r \in Requests, answers'[r].outcome = "accepted",
               NEW s \in Requests, answers'[s].outcome = "accepted",
               answers'[s].ask = answers'[r].ask
        PROVE  s = r
    BY <1>0, <1>1, <2>2 DEF VerdictInv, AcceptedCloses
  <2> QED BY <2>1, <2>2 DEF AcceptedCloses
<1>5. OneVerdict'
  BY DEF VerdictInv, OneVerdict
<1>6. AcceptedOnce'
  <2>1. ASSUME NEW r \in Requests, NEW a \in AskIds, <<a, "accepted">> \in told[r]
        PROVE  asks'[a].state \in {"answered-in-app", "none"}
    <3>1. asks[a].state \in {"answered-in-app", "none"} /\ a <= born
      BY <2>1 DEF VerdictInv, AcceptedOnce, ToldIsStored
    <3> QED BY <1>0, <3>1, AsksStay DEF Exists
  <2> QED BY <2>1 DEF VerdictInv, AcceptedOnce
<1> QED BY <1>2, <1>3, <1>4, <1>5, <1>6 DEF VerdictInv

\* Transaction 2 tells its submit the first verdict of its ask.
LEMMA SettleTells ==
  ASSUME ConstantsAssumption, HandOverInv, HandOverInv', VerdictInv, NEW r \in Requests, Settle(r)
  PROVE  VerdictInv'
<1> DEFINE a == flight[r].ask
           settled == ChannelResult(asks[a].state, flight[r].result, a \in held)
           o == settled.outcome
<1>1. /\ a \in AskIds /\ flight[r].result \in ChannelResults /\ asks[a] \in AskRow /\ Exists(a)
      /\ InFlight(r)
  BY SettledAsk DEF Settle, HandOverInv
<1>2. /\ answers[r].outcome = "pending" /\ answers[r].ask = a /\ a <= born
      /\ asks[a].state \notin {"answered-in-app", "none"}
  BY <1>1 DEF HandOverInv, RecordInv, HandOverRecorded, IdsGiven
<1>3. answers[r] \in AnswerRow
  BY <1>2 DEF HandOverInv, TypeOK, NoAnswer
<1>4. /\ asks' = [asks EXCEPT ![a].state = settled.state]
      /\ answers' = [answers EXCEPT ![r].outcome = o]
      /\ told' = [told EXCEPT ![r] = @ \cup {<<a, o>>}]
      /\ born' = born
  BY DEF Settle
<1>5. /\ settled.state \in LiveStates \cup ClosedStates /\ o \in Outcomes
      /\ o = "accepted" => settled.state = "answered-in-app"
  <2>1. asks[a].state \in LiveStates \cup ClosedStates
    BY <1>1 DEF AskRow
  <2>2. o = "accepted" => settled.state = "answered-in-app"
    BY <2>1 DEF ChannelResult
  <2> QED BY <1>1, <2>1, <2>2, ChannelResultType
<1> HIDE DEF settled, a
<1>6. /\ asks'[a].state = settled.state /\ \A b \in AskIds \ {a} : asks'[b] = asks[b]
      /\ answers'[r].outcome = o /\ answers'[r].ask = a
      /\ \A s \in Requests \ {r} : answers'[s] = answers[s] /\ told'[s] = told[s]
      /\ told'[r] = told[r] \cup {<<a, o>>}
  BY <1>1, <1>2, <1>3, <1>4 DEF HandOverInv, TypeOK, AskRow, AnswerRow
<1>7. StaysStored(a) /\ \A b \in AskIds : StaysStored(b) <=> Exists(b)
  BY <1>1, <1>5, <1>6 DEF Exists, StaysStored, LiveStates, ClosedStates
<1>8. \A s \in Requests : /\ told[s] \subseteq AskIds \X Outcomes
                          /\ answers[s] \in AnswerRow \cup {NoAnswer}
  BY DEF HandOverInv, TypeOK
<1>9. \A v \in told[r] : v[1] # a
  BY <1>1, <1>2, <1>8 DEF VerdictInv, ToldIsStored, Outcomes
<1>10. \A s \in Requests : <<a, "accepted">> \notin told[s]
  BY <1>1, <1>2 DEF VerdictInv, AcceptedOnce
<1>11. \A s \in Requests : answers[s].outcome = "accepted" => answers[s].ask # a
  BY <1>2 DEF VerdictInv, AcceptedCloses
<1>12. AnswersStored'
  <2>1. ASSUME NEW s \in Requests \ {r}, answers[s].outcome # "none"
        PROVE  StaysStored(answers[s].ask)
    BY <1>7, <1>8, <2>1 DEF VerdictInv, AnswersStored, Answered, AnswerRow, NoAnswer
  <2> QED BY <1>6, <1>7, <2>1 DEF AnswersStored, Answered, Exists, StaysStored
<1>13. ToldIsStored'
  <2>1. ASSUME NEW s \in Requests, NEW v \in told[s]
        PROVE  /\ v[1] <= born'
               /\ Exists(v[1])' => answers'[s].ask = v[1] /\ answers'[s].outcome = v[2]
    BY <1>4, <1>6, <1>7, <1>8, <1>9 DEF VerdictInv, ToldIsStored, Exists, StaysStored
  <2> QED BY <1>2, <1>4, <1>6, <2>1 DEF ToldIsStored
<1>14. AcceptedCloses'
  <2>1. \A s \in Requests \ {r} : answers[s].outcome = "accepted" =>
          asks'[answers[s].ask] = asks[answers[s].ask]
    BY <1>6, <1>8, <1>11 DEF AnswerRow, NoAnswer
  <2> QED BY <1>5, <1>6, <1>11, <2>1 DEF VerdictInv, AcceptedCloses
<1>15. OneVerdict'
  BY <1>6, <1>9 DEF VerdictInv, OneVerdict
<1>16. AcceptedOnce'
  <2>1. ASSUME NEW s \in Requests, NEW b \in AskIds, <<b, "accepted">> \in told'[s]
        PROVE  /\ asks'[b].state \in {"answered-in-app", "none"}
               /\ \A t \in Requests \ {s} : <<b, "accepted">> \notin told'[t]
    <3>1. CASE b = a
      <4>1. s = r /\ o = "accepted"
        BY <1>6, <1>10, <2>1, <3>1
      <4> QED BY <1>5, <1>6, <1>10, <3>1, <4>1
    <3>2. CASE b # a
      <4>1. \A t \in Requests : <<b, "accepted">> \in told'[t] => <<b, "accepted">> \in told[t]
        BY <1>6, <3>2
      <4> QED BY <1>6, <2>1, <3>2, <4>1 DEF VerdictInv, AcceptedOnce
    <3> QED BY <3>1, <3>2
  <2> QED BY <2>1 DEF AcceptedOnce
<1> QED BY <1>12, <1>13, <1>14, <1>15, <1>16 DEF VerdictInv

\* The same submit again is told the stored outcome.
LEMMA SubmitAgainTells ==
  ASSUME ConstantsAssumption, HandOverInv, VerdictInv, NEW a \in AskIds, NEW r \in Requests,
         SubmitAgain(a, r)
  PROVE  VerdictInv'
<1> DEFINE o == answers[r].outcome
<1>1. /\ UNCHANGED <<asks, answers, born>> /\ Answered(r) /\ answers[r].ask = a /\ o # "pending"
      /\ told' = [told EXCEPT ![r] = @ \cup {<<a, o>>}]
  BY DEF SubmitAgain, dbVars
<1>2. /\ told'[r] = told[r] \cup {<<a, o>>}
      /\ \A s \in Requests \ {r} : told'[s] = told[s]
      /\ \A s \in Requests : told[s] \subseteq AskIds \X Outcomes
  BY <1>1 DEF HandOverInv, TypeOK
<1>3. Exists(a) /\ a <= born
  BY <1>1 DEF VerdictInv, AnswersStored, HandOverInv, RecordInv, IdsGiven
<1> HIDE DEF o
<1>4. ToldIsStored'
  BY <1>1, <1>2, <1>3 DEF VerdictInv, ToldIsStored, Exists, o
<1>5. OneVerdict'
  <2>1. \A v \in told[r] : v[1] = a => v = <<a, o>>
    BY <1>2, <1>3 DEF VerdictInv, ToldIsStored, o
  <2> QED BY <1>2, <2>1 DEF VerdictInv, OneVerdict
<1>6. AcceptedOnce'
  <2>1. ASSUME o = "accepted" PROVE \A s \in Requests \ {r} : <<a, "accepted">> \notin told[s]
    BY <1>1, <1>3, <2>1 DEF VerdictInv, ToldIsStored, AcceptedCloses, o
  <2>2. o = "accepted" => asks[a].state = "answered-in-app"
    BY <1>1 DEF VerdictInv, AcceptedCloses, o
  <2>3. ASSUME NEW s \in Requests, NEW b \in AskIds, <<b, "accepted">> \in told'[s]
        PROVE  /\ asks'[b].state \in {"answered-in-app", "none"}
               /\ \A t \in Requests \ {s} : <<b, "accepted">> \notin told'[t]
    BY <1>1, <1>2, <2>1, <2>2, <2>3 DEF VerdictInv, AcceptedOnce
  <2> QED BY <2>3 DEF AcceptedOnce
<1> QED BY <1>1, <1>4, <1>5, <1>6
  DEF VerdictInv, AnswersStored, AcceptedCloses, Answered, Exists

\* Every step keeps the verdicts.
LEMMA NextVerdict ==
  ASSUME ConstantsAssumption, HandOverInv, HandOverInv', VerdictInv, [Next]_vars
  PROVE  VerdictInv'
<1> DEFINE Told == \A r \in Requests :
             \/ answers'[r] = answers[r] /\ (Answered(r) => StaysStored(answers[r].ask))
             \/ answers'[r] = NoAnswer /\ (Answered(r) => ~ StaysStored(answers[r].ask))
             \/ ~ Answered(r) /\ answers'[r].outcome = "pending" /\ StaysStored(answers'[r].ask)
<1>0. /\ asks \in [AskIds -> AskRow \cup {NoAsk}]
      /\ \A r \in Requests : Answered(r) => answers[r] \in AnswerRow /\ answers[r].ask \in AskIds
                                            /\ Exists(answers[r].ask)
  BY DEF HandOverInv, TypeOK, VerdictInv, AnswersStored, Answered, AnswerRow, NoAnswer
<1>1. ASSUME told' = told, answers' = answers, \A a \in AskIds : Exists(a) => Exists(a)'
      PROVE  VerdictInv'
  <2>1. Told
    BY <1>0, <1>1 DEF Exists, StaysStored
  <2> QED BY <1>1, <2>1, NothingTold
<1>2. ASSUME told' = told, NEW gone, Delete(gone) PROVE VerdictInv'
  <2>1. Told
    <3>1. \A b \in AskIds : asks'[b] = IF b \in gone THEN NoAsk ELSE asks[b]
      BY <1>2 DEF Delete
    <3>2. \A r \in Requests :
            answers'[r] = IF Answered(r) /\ answers[r].ask \in gone THEN NoAnswer ELSE answers[r]
      BY <1>2 DEF Delete
    <3> QED BY <1>0, <3>1, <3>2 DEF Exists, StaysStored, NoAsk
  <2> QED BY <1>2, <2>1, NothingTold
<1>3. ASSUME NEW a \in AskIds, NEW r \in Requests, Submit(a, r) PROVE VerdictInv'
  <2>1. /\ told' = told /\ ~ Answered(r) /\ Exists(a)
        /\ answers' = [answers EXCEPT ![r] = [ask |-> a, outcome |-> "pending", at |-> now]]
        /\ asks' = [asks EXCEPT ![a].state = "answering"]
    BY <1>3 DEF Submit, Wins, Exists
  <2>2. \A b \in AskIds : Exists(b) => Exists(b)'
    BY <1>0, <2>1, StoredAsk DEF Exists, AskRow, HandOverInv
  <2>3. /\ answers'[r].outcome = "pending" /\ answers'[r].ask = a
        /\ \A s \in Requests \ {r} : answers'[s] = answers[s]
    BY <2>1 DEF HandOverInv, TypeOK
  <2>4. StaysStored(answers'[r].ask)
    BY <2>2, <2>3, <2>1 DEF Exists, StaysStored
  <2>5. ASSUME NEW s \in Requests \ {r}, Answered(s) PROVE StaysStored(answers[s].ask)
    BY <1>0, <2>2, <2>5 DEF Exists, StaysStored
  <2>6. Told
    BY <2>1, <2>3, <2>4, <2>5
  <2> QED BY <2>1, <2>6, NothingTold
<1>4. ASSUME NEW d \in Dwarves, NEW p \in ProviderReqs, NEW input \in Reports,
             NEW session \in Sessions, Open(d, p, input, session)
      PROVE  VerdictInv'
  <2>1. told' = told /\ answers' = answers /\ born + 1 \in AskIds
    BY <1>4 DEF Open, AskIds, HandOverInv, TypeOK, ConstantsAssumption
  <2>2. \A a \in AskIds : asks'[a] = asks[a] \/ Exists(a)'
    BY <1>0, <1>4, <2>1 DEF Open, Exists
  <2> QED BY <1>1, <2>1, <2>2 DEF Exists
<1>5. ASSUME NEW a \in AskIds, NEW s \in 0..MaxStep, SetStep(a, s) PROVE VerdictInv'
  <2>1. \A b \in AskIds : Exists(b) => Exists(b)'
    BY <1>0, <1>5, StoredAsk DEF SetStep, Exists, AskRow, HandOverInv
  <2> QED BY <1>1, <1>5, <2>1 DEF SetStep
<1>6. ASSUME NEW a \in AskIds, NEW by \in {"elsewhere", "cancelled"}, ResolveExternally(a, by)
      PROVE  VerdictInv'
  <2>1. asks' = asks \/ asks' = [asks EXCEPT ![a].state = ResolvedState(a, by)]
    BY <1>6 DEF ResolveExternally
  <2>2. \A b \in AskIds : Exists(b) => Exists(b)'
    BY <1>0, <2>1, ResolvedStateType, StoredAsk DEF Exists, AskRow, HandOverInv
  <2> QED BY <1>1, <1>6, <2>2 DEF ResolveExternally
<1>7. ASSUME NEW d \in Dwarves, Depart(d) PROVE VerdictInv'
  <2>1. \A b \in AskIds :
          \/ asks'[b] = asks[b]
          \/ Live(b) /\ asks'[b] = WithState(asks[b], "closed-by-death")
    BY <1>7 DEF Depart, LiveOf
  <2>2. \A b \in AskIds : Exists(b) => Exists(b)'
    BY <1>0, <2>1, StoredAsk DEF Exists, AskRow, WithState, HandOverInv
  <2> QED BY <1>1, <1>7, <2>2 DEF Depart
<1>8. ASSUME NEW b \in Builds, Boot(b) PROVE VerdictInv'
  <2>1. \A a \in AskIds :
          \/ asks'[a] = asks[a]
          \/ Live(a) /\ asks'[a] = WithState(asks[a], "answered-elsewhere")
    BY <1>8 DEF Boot, Leftover
  <2>2. \A a \in AskIds : Exists(a) => Exists(a)'
    BY <1>0, <2>1, StoredAsk DEF Exists, AskRow, WithState, HandOverInv
  <2> QED BY <1>1, <1>8, <2>2 DEF Boot
<1>9. ASSUME (\E a \in AskIds : Sweep(a)) \/ Reset PROVE VerdictInv'
  BY <1>2, <1>9 DEF Sweep, Reset
<1>10. ASSUME UNCHANGED <<asks, answers, told>> PROVE VerdictInv'
  BY <1>1, <1>10 DEF Exists
<1>11. ASSUME \/ \E r \in Requests, result \in ChannelResults : ChannelAnswers(r, result)
              \/ \E r \in Requests : HandOverTimesOut(r) \/ SettleThrows(r)
              \/ \E a \in AskIds : TrimRecord(a) \/ ReconcileFinds(a)
              \/ \E interrupted \in SUBSET AskIds : ReconcileEnds(interrupted)
              \/ Crash \/ Tick \/ StepBack \/ UNCHANGED vars
       PROVE  UNCHANGED <<asks, answers, told>>
  BY <1>11 DEF ChannelAnswers, HandOverTimesOut, SettleThrows, TrimRecord,
     ReconcileFinds, ReconcileEnds, Crash, Tick, StepBack, vars, dbVars
<1>12. ASSUME NEW r \in Requests, Settle(r) PROVE VerdictInv'
  BY <1>12, SettleTells
<1>13. ASSUME NEW a \in AskIds, NEW r \in Requests, SubmitAgain(a, r) PROVE VerdictInv'
  BY <1>13, SubmitAgainTells
<1> QED
  BY <1>3, <1>4, <1>5, <1>6, <1>7, <1>8, <1>9, <1>10, <1>11, <1>12, <1>13 DEF Next

\* The verdicts hold of every state.
LEMMA SpecVerdict == Spec => []VerdictInv
<1>1. Init => VerdictInv
  BY DEF Init, VerdictInv, AnswersStored, Answered, NoAnswer, ToldIsStored, AcceptedCloses,
         OneVerdict, AcceptedOnce
<1>2. HandOverInv /\ HandOverInv' /\ VerdictInv /\ [Next]_vars => VerdictInv'
  BY ConstantsAssumption, NextVerdict
<1> QED BY <1>1, <1>2, SpecHandOver, PTL DEF Spec

\* A requestId is told one verdict for its ask, however often it is sent, across Host
\* stops, resets and the reuse of the id for another ask (INV-79).
THEOREM OneVerdictEach == Spec => []OneVerdict
<1>1. VerdictInv => OneVerdict
  BY DEF VerdictInv
<1> QED BY <1>1, SpecVerdict, PTL

\* At most one submit of an ask is told that it was accepted, and that ask was answered
\* in the app (INV-72).
THEOREM AcceptedByOne == Spec => []AcceptedOnce
<1>1. VerdictInv => AcceptedOnce
  BY DEF VerdictInv
<1> QED BY <1>1, SpecVerdict, PTL

-----------------------------------------------------------------------------
(* The attribution of a closing outside the app *)

\* While the injection of an ask is kept, it is the time of the one answer in flight,
\* or of the refused answer that reopened the ask.
Attributed(a) ==
  injections[a] # NoTime =>
    /\ a <= born
    /\ Exists(a) =>
         /\ asks[a].kind = "permission" /\ asks[a].channel = "hook-keystroke"
         /\ asks[a].state = "open" =>
              \E r \in Requests : /\ answers[r].outcome = "refused" /\ answers[r].ask = a
                                  /\ answers[r].at = injections[a]
         /\ \A r \in Requests : InFlightFor(r, a) => answers[r].at = injections[a]

AttributedAll == \A a \in AskIds : Attributed(a)

\* A step that leaves the injection of the ask, its answers and what was asked alone,
\* and neither reopens it nor hands an answer of it over.
LeftAlone(a) ==
  /\ injections'[a] = injections[a]
  /\ Exists(a) /\ StaysStored(a) =>
       /\ asks'[a].kind = asks[a].kind /\ asks'[a].channel = asks[a].channel
       /\ asks'[a].state = "open" => asks[a].state = "open"
       /\ \A r \in Requests : answers[r].ask = a /\ Answered(r) => answers'[r] = answers[r]
       /\ \A r \in Requests : \/ InFlightFor(r, a)
                              \/ flight'[r] = NoFlight
                               \/ flight'[r].ask # a

\* A submit is in flight, or nothing is kept for it.
LEMMA InFlightOrNot ==
  ASSUME TypeOK PROVE \A r \in Requests : InFlight(r) \/ flight[r] = NoFlight
BY DEF TypeOK, Flight, InFlight, NoFlight, ChannelResults, Outcomes

\* Such a step keeps the attribution of the ask, and so does one that drops the injection.
LEMMA LeftAttributed ==
  ASSUME ConstantsAssumption, HandOverInv, HandOverInv', [Next]_vars, NEW a \in AskIds,
         Attributed(a), injections'[a] = NoTime \/ LeftAlone(a)
  PROVE  Attributed(a)'
<1> SUFFICES ASSUME injections'[a] # NoTime
             PROVE  /\ a <= born'
                    /\ Exists(a)' =>
                         /\ asks'[a].kind = "permission" /\ asks'[a].channel = "hook-keystroke"
                         /\ asks'[a].state = "open" =>
                              \E r \in Requests :
                                /\ answers'[r].outcome = "refused" /\ answers'[r].ask = a
                                /\ answers'[r].at = injections'[a]
                         /\ \A r \in Requests :
                              InFlightFor(r, a)' => answers'[r].at = injections'[a]
  BY DEF Attributed
<1>1. LeftAlone(a) /\ injections[a] # NoTime /\ a <= born
  BY DEF LeftAlone, Attributed
<1>2. a <= born'
  BY <1>1, AsksStay DEF HandOverInv, TypeOK, AskIds, ConstantsAssumption
<1>3. ASSUME Exists(a)' PROVE Exists(a) /\ StaysStored(a)
  <2>1. Exists(a) \/ a > born
    BY <1>3, AsksStay
  <2>2. a \in Nat /\ born \in Nat
    BY DEF HandOverInv, TypeOK, AskIds, ConstantsAssumption
  <2> QED BY <1>1, <1>3, <2>1, <2>2 DEF Exists, StaysStored
<1>4. ASSUME Exists(a)', asks'[a].state = "open"
      PROVE  \E r \in Requests : /\ answers'[r].outcome = "refused" /\ answers'[r].ask = a
                                 /\ answers'[r].at = injections'[a]
  <2>1. PICK r \in Requests : /\ answers[r].outcome = "refused" /\ answers[r].ask = a
                              /\ answers[r].at = injections[a]
    BY <1>1, <1>3, <1>4 DEF LeftAlone, Attributed
  <2>2. answers'[r] = answers[r]
    BY <1>1, <1>3, <1>4, <2>1 DEF LeftAlone, Answered
  <2> QED BY <1>1, <2>1, <2>2 DEF LeftAlone
<1>5. ASSUME Exists(a)', NEW r \in Requests, InFlightFor(r, a)'
      PROVE  answers'[r].at = injections'[a]
  <2>1. InFlightFor(r, a)
    BY <1>1, <1>3, <1>5 DEF LeftAlone, InFlightFor, InFlight, NoFlight
  <2>2. answers[r].outcome = "pending" /\ answers[r].ask = a
    BY <1>3, <1>5, <2>1 DEF HandOverInv, RecordInv, HandOverRecorded, InFlightFor
  <2>3. answers'[r] = answers[r]
    BY <1>1, <1>3, <1>5, <2>2 DEF LeftAlone, Answered
  <2> QED BY <1>1, <1>3, <1>5, <2>1, <2>3 DEF LeftAlone, Attributed
<1> QED BY <1>1, <1>2, <1>3, <1>4, <1>5 DEF LeftAlone, Attributed

\* A winning submit notes the injection of the answer it hands over.
LEMMA SubmitAttributed ==
  ASSUME ConstantsAssumption, HandOverInv, HandOverInv', AttributedAll, [Next]_vars,
         NEW b \in AskIds, NEW r \in Requests, Submit(b, r)
  PROVE  AttributedAll'
<1>1. /\ asks[b].state = "open" /\ Exists(b) /\ asks[b] \in AskRow /\ ~ InFlight(r) /\ ~ Answered(r)
      /\ asks' = [asks EXCEPT ![b].state = "answering"]
      /\ answers' = [answers EXCEPT ![r] = [ask |-> b, outcome |-> "pending", at |-> now]]
      /\ flight' = [flight EXCEPT ![r] = [ask |-> b, result |-> "calling"]]
  BY StoredAsk DEF Submit, Wins, Exists, HandOverInv
<1>2. /\ asks'[b].state = "answering"
      /\ asks'[b].kind = asks[b].kind /\ asks'[b].channel = asks[b].channel
      /\ answers'[r].at = now /\ flight'[r].ask = b
      /\ \A a \in AskIds \ {b} : asks'[a] = asks[a] /\ injections'[a] = injections[a]
      /\ \A s \in Requests \ {r} : answers'[s] = answers[s] /\ flight'[s] = flight[s]
  <2>1. asks'[b] = [asks[b] EXCEPT !.state = "answering"]
    BY <1>1 DEF HandOverInv, TypeOK
  <2>2. \A a \in AskIds \ {b} : injections'[a] = injections[a]
    BY DEF Submit, HandOverInv, TypeOK
  <2> QED BY <1>1, <2>1, <2>2 DEF HandOverInv, TypeOK, AskRow
<1>3. \A s \in Requests : ~ InFlightFor(s, b)
  BY <1>1 DEF HandOverInv, RecordInv, HandOverRecorded, InFlightFor
<1>4. b <= born /\ born' = born
  BY <1>1 DEF HandOverInv, RecordInv, IdsGiven, Submit
<1>5. Attributed(b)'
  <2>1. CASE asks[b].kind = "permission" /\ asks[b].channel = "hook-keystroke"
    <3>1. injections'[b] = now
      BY <2>1 DEF Submit, HandOverInv, TypeOK
    <3>2. \A s \in Requests : InFlightFor(s, b)' => s = r
      BY <1>2, <1>3 DEF InFlightFor, InFlight
    <3> QED BY <1>2, <1>4, <2>1, <3>1, <3>2 DEF Attributed
  <2>2. CASE ~ (asks[b].kind = "permission" /\ asks[b].channel = "hook-keystroke")
    <3>1. injections'[b] = injections[b]
      BY <2>2 DEF Submit
    <3>2. injections[b] = NoTime
      BY <1>1, <2>2 DEF AttributedAll, Attributed
    <3> QED BY <3>1, <3>2 DEF Attributed
  <2> QED BY <2>1, <2>2
<1>6. ASSUME NEW a \in AskIds \ {b} PROVE Attributed(a)'
  <2>1. LeftAlone(a)
    <3>1. \A s \in Requests : answers[s].ask = a /\ Answered(s) => answers'[s] = answers[s]
      BY <1>1, <1>2
    <3>2. flight'[r].ask # a /\ \A s \in Requests \ {r} : flight'[s] = flight[s]
      BY <1>2
    <3>3. \A s \in Requests \ {r} : InFlightFor(s, a) \/ flight[s] = NoFlight \/ flight[s].ask # a
      <4>1. \A s \in Requests : InFlight(s) \/ flight[s] = NoFlight
        BY InFlightOrNot DEF HandOverInv
      <4> QED BY <4>1 DEF InFlightFor
    <3> QED BY <1>2, <3>1, <3>2, <3>3 DEF LeftAlone
  <2> QED BY <2>1, LeftAttributed DEF AttributedAll
<1> QED BY <1>5, <1>6 DEF AttributedAll

\* An ask that reopens was refused its answer in flight.
LEMMA SettleAttributed ==
  ASSUME ConstantsAssumption, HandOverInv, HandOverInv', AttributedAll, [Next]_vars,
         NEW r \in Requests, Settle(r)
  PROVE  AttributedAll'
<1>b. PICK b \in AskIds : b = flight[r].ask
  BY SettledAsk DEF HandOverInv
<1> DEFINE settled == ChannelResult(asks[b].state, flight[r].result, b \in held)
<1>1. /\ b \in AskIds /\ asks[b] \in AskRow /\ Exists(b) /\ InFlightFor(r, b)
      /\ answers[r].outcome = "pending" /\ answers[r].ask = b
      /\ \A s \in Requests \ {r} : ~ InFlightFor(s, b)
  BY <1>b, SettledAsk DEF Settle, HandOverInv, RecordInv, HandOverRecorded, InFlightFor
<1>2. answers[r] \in AnswerRow
  BY <1>1 DEF HandOverInv, TypeOK, NoAnswer
<1>3. /\ asks' = [asks EXCEPT ![b].state = settled.state]
      /\ answers' = [answers EXCEPT ![r].outcome = settled.outcome]
      /\ flight' = [flight EXCEPT ![r] = NoFlight] /\ born' = born
      /\ injections' = [injections EXCEPT ![b] = NoTime] \/ injections' = injections
  BY <1>b DEF Settle
<1>4. settled.state = "open" => settled.outcome = "refused"
  BY DEF ChannelResult, ClosedStates
<1> HIDE DEF settled
<1>5. /\ asks'[b].state = settled.state
      /\ asks'[b].kind = asks[b].kind /\ asks'[b].channel = asks[b].channel
      /\ answers'[r].outcome = settled.outcome /\ answers'[r].ask = b
      /\ answers'[r].at = answers[r].at /\ flight'[r] = NoFlight
      /\ injections'[b] = NoTime \/ injections'[b] = injections[b]
      /\ \A a \in AskIds \ {b} : asks'[a] = asks[a] /\ injections'[a] = injections[a]
      /\ \A s \in Requests \ {r} : answers'[s] = answers[s] /\ flight'[s] = flight[s]
  <2>1. asks'[b] = [asks[b] EXCEPT !.state = settled.state]
    BY <1>1, <1>3 DEF HandOverInv, TypeOK
  <2>2. answers'[r] = [answers[r] EXCEPT !.outcome = settled.outcome]
    BY <1>3 DEF HandOverInv, TypeOK
  <2>3. /\ injections'[b] = NoTime \/ injections'[b] = injections[b]
        /\ \A a \in AskIds \ {b} : injections'[a] = injections[a]
    BY <1>1, <1>3 DEF HandOverInv, TypeOK
  <2> QED BY <1>1, <1>2, <1>3, <2>1, <2>2, <2>3 DEF HandOverInv, TypeOK, AskRow, AnswerRow
<1>6. Attributed(b)'
  <2>1. CASE injections'[b] = NoTime
    BY <2>1 DEF Attributed
  <2>2. CASE injections'[b] # NoTime
    <3>1. injections'[b] = injections[b] /\ answers[r].at = injections[b] /\ b <= born
          /\ asks[b].kind = "permission" /\ asks[b].channel = "hook-keystroke"
      BY <1>1, <1>5, <2>2 DEF AttributedAll, Attributed
    <3>2. \A s \in Requests : ~ InFlightFor(s, b)'
      BY <1>1, <1>5 DEF InFlightFor, InFlight, NoFlight
    <3>3. asks'[b].state = "open" =>
            /\ answers'[r].outcome = "refused" /\ answers'[r].ask = b
            /\ answers'[r].at = injections'[b]
      BY <1>4, <1>5, <3>1
    <3> QED BY <1>3, <1>5, <3>1, <3>2, <3>3 DEF Attributed
  <2> QED BY <2>1, <2>2
<1>7. ASSUME NEW a \in AskIds \ {b} PROVE Attributed(a)'
  <2>1. LeftAlone(a)
    <3>1. \A s \in Requests : answers[s].ask = a /\ Answered(s) => answers'[s] = answers[s]
      BY <1>1, <1>5
    <3>2. \A s \in Requests \ {r} : InFlightFor(s, a) \/ flight[s] = NoFlight \/ flight[s].ask # a
      <4>1. \A s \in Requests : InFlight(s) \/ flight[s] = NoFlight
        BY InFlightOrNot DEF HandOverInv
      <4> QED BY <4>1 DEF InFlightFor
    <3> QED BY <1>5, <3>1, <3>2 DEF LeftAlone
  <2> QED BY <2>1, LeftAttributed DEF AttributedAll
<1> QED BY <1>6, <1>7 DEF AttributedAll

\* Every step keeps the attributions.
LEMMA NextAttributed ==
  ASSUME ConstantsAssumption, HandOverInv, HandOverInv', AttributedAll, [Next]_vars
  PROVE  AttributedAll'
<1>0. /\ \A a \in AskIds : Exists(a) => asks[a] \in AskRow
      /\ \A r \in Requests : InFlight(r) \/ flight[r] = NoFlight
  BY StoredAsk, InFlightOrNot DEF HandOverInv
<1>f. ASSUME \A r \in Requests : flight'[r] = flight[r] \/ flight'[r] = NoFlight
                                 \/ (InFlight(r) /\ flight'[r].ask = flight[r].ask),
             NEW a \in AskIds
      PROVE  \A r \in Requests : \/ InFlightFor(r, a)
                                 \/ flight'[r] = NoFlight
                                 \/ flight'[r].ask # a
  BY <1>0, <1>f DEF InFlightFor
<1>1. ASSUME \A r \in Requests : flight'[r] = flight[r] \/ flight'[r] = NoFlight
                                 \/ (InFlight(r) /\ flight'[r].ask = flight[r].ask),
             \A r \in Requests : \/ answers'[r] = answers[r]
                                 \/ ~ StaysStored(answers[r].ask),
             \A a \in AskIds : injections'[a] = NoTime \/ injections'[a] = injections[a],
             \A a \in AskIds : Exists(a) /\ StaysStored(a) /\ injections'[a] # NoTime =>
               /\ asks'[a].kind = asks[a].kind /\ asks'[a].channel = asks[a].channel
               /\ asks'[a].state = "open" => asks[a].state = "open"
      PROVE  AttributedAll'
  <2> SUFFICES ASSUME NEW a \in AskIds PROVE Attributed(a)'
    BY DEF AttributedAll
  <2>1. injections'[a] = NoTime \/ LeftAlone(a)
    BY <1>1, <1>f DEF LeftAlone
  <2> QED BY <2>1, LeftAttributed DEF AttributedAll
<1>2. ASSUME UNCHANGED <<asks, answers, flight, injections>> PROVE AttributedAll'
  BY <1>1, <1>2
<1>3. ASSUME NEW a \in AskIds, NEW r \in Requests, Submit(a, r) PROVE AttributedAll'
  BY <1>3, SubmitAttributed
<1>4. ASSUME NEW r \in Requests, Settle(r) PROVE AttributedAll'
  BY <1>4, SettleAttributed
<1>5. ASSUME NEW d \in Dwarves, NEW p \in ProviderReqs, NEW input \in Reports,
             NEW session \in Sessions, Open(d, p, input, session)
      PROVE  AttributedAll'
  <2>1. UNCHANGED <<answers, flight, injections>>
    BY <1>5 DEF Open, memVars
  <2>2. ~ Exists(born + 1) /\ \A a \in AskIds \ {born + 1} : asks'[a] = asks[a]
    <3>1. born \in Nat
      BY DEF HandOverInv, TypeOK, ConstantsAssumption
    <3>2. ~ Exists(born + 1)
      BY <1>5, <3>1 DEF Open, HandOverInv, RecordInv, IdsGiven, AskIds, ConstantsAssumption
    <3> QED BY <1>5, <3>2 DEF Open, HandOverInv, TypeOK
  <2> QED BY <1>1, <2>1, <2>2
<1>6. ASSUME NEW a \in AskIds, NEW s \in 0..MaxStep, SetStep(a, s) PROVE AttributedAll'
  <2>1. UNCHANGED <<answers, flight, injections>>
    BY <1>6 DEF SetStep, memVars
  <2>2. \A b \in AskIds : Exists(b) =>
          asks'[b].kind = asks[b].kind /\ asks'[b].channel = asks[b].channel
          /\ asks'[b].state = asks[b].state
    BY <1>0, <1>6 DEF SetStep, AskRow, HandOverInv, TypeOK
  <2> QED BY <1>1, <2>1, <2>2
<1>7. ASSUME NEW a \in AskIds, NEW by \in {"elsewhere", "cancelled"}, ResolveExternally(a, by)
      PROVE  AttributedAll'
  <2>1. UNCHANGED <<answers, flight>>
    BY <1>7 DEF ResolveExternally
  <2>2. \/ UNCHANGED <<asks, injections>>
        \/ /\ asks' = [asks EXCEPT ![a].state = ResolvedState(a, by)]
           /\ injections' = [injections EXCEPT ![a] = NoTime]
    BY <1>7 DEF ResolveExternally
  <2>3. \A b \in AskIds : \/ asks'[b] = asks[b] /\ injections'[b] = injections[b]
                          \/ injections'[b] = NoTime
    BY <2>2 DEF HandOverInv, TypeOK
  <2> QED BY <1>1, <2>1, <2>3
<1>8. ASSUME NEW d \in Dwarves, Depart(d) PROVE AttributedAll'
  <2>1. UNCHANGED <<answers, flight>>
    BY <1>8 DEF Depart
  <2>2. \A b \in AskIds : \/ asks'[b] = asks[b] /\ injections'[b] = injections[b]
                          \/ injections'[b] = NoTime
    BY <1>8 DEF Depart
  <2> QED BY <1>1, <2>1, <2>2
<1>9. ASSUME NEW b \in Builds, Boot(b) PROVE AttributedAll'
  <2>1. UNCHANGED <<answers, flight, injections>>
    BY <1>9 DEF Boot
  <2>2. \A a \in AskIds : \/ asks'[a] = asks[a]
                          \/ Exists(a) /\ asks'[a] = [asks[a] EXCEPT !.state = "answered-elsewhere"]
    BY <1>9 DEF Boot, Leftover, WithState, Live, LiveStates, Exists
  <2>3. \A a \in AskIds : Exists(a) =>
          /\ asks'[a].kind = asks[a].kind /\ asks'[a].channel = asks[a].channel
          /\ asks'[a].state = "open" => asks[a].state = "open"
    BY <1>0, <2>2 DEF AskRow
  <2> QED BY <1>1, <2>1, <2>3
<1>10. ASSUME NEW gone, Delete(gone), UNCHANGED <<flight, injections>> PROVE AttributedAll'
  <2>1. \A a \in AskIds : asks'[a] = asks[a] \/ ~ StaysStored(a)
    BY <1>10 DEF Delete, StaysStored, NoAsk
  <2>2. \A r \in Requests : answers'[r] = answers[r] \/ ~ StaysStored(answers[r].ask)
    <3>1. \A r \in Requests : Answered(r) => answers[r].ask \in AskIds
      BY DEF HandOverInv, TypeOK, AnswerRow, NoAnswer, Answered
    <3> QED BY <1>10, <3>1 DEF Delete, StaysStored, NoAsk
  <2> QED BY <1>1, <1>10, <2>1, <2>2
<1>11. ASSUME (\E a \in AskIds : Sweep(a)) \/ Reset PROVE AttributedAll'
  BY <1>10, <1>11 DEF Sweep, Reset, memVars
<1>12. ASSUME Crash \/ \E r \in Requests : SettleThrows(r) PROVE AttributedAll'
  <2>1. UNCHANGED <<asks, answers>>
    BY <1>12 DEF Crash, SettleThrows, dbVars
  <2>2. \A r \in Requests : flight'[r] = flight[r] \/ flight'[r] = NoFlight
    BY <1>12 DEF Crash, SettleThrows, HandOverInv, TypeOK
  <2>3. \A a \in AskIds : injections'[a] = NoTime \/ injections'[a] = injections[a]
    BY <1>12 DEF Crash, SettleThrows
  <2> QED BY <1>1, <2>1, <2>2, <2>3
<1>13. ASSUME NEW r \in Requests, NEW result, ChannelAnswers(r, result) PROVE AttributedAll'
  <2>1. UNCHANGED <<asks, answers, injections>>
    BY <1>13 DEF ChannelAnswers, dbVars
  <2>2. /\ InFlight(r) /\ flight' = [flight EXCEPT ![r].result = result]
        /\ flight[r] \in Flight
    BY <1>0, <1>13 DEF ChannelAnswers, InFlight, HandOverInv, TypeOK, NoFlight
  <2>3. flight'[r].ask = flight[r].ask /\ \A s \in Requests \ {r} : flight'[s] = flight[s]
    <3>1. flight'[r] = [flight[r] EXCEPT !.result = result]
      BY <2>2 DEF HandOverInv, TypeOK
    <3> QED BY <2>2, <3>1 DEF HandOverInv, TypeOK, Flight
  <2>4. \A s \in Requests : flight'[s] = flight[s] \/ flight'[s] = NoFlight
                            \/ (InFlight(s) /\ flight'[s].ask = flight[s].ask)
    BY <2>2, <2>3
  <2> QED BY <1>1, <2>1, <2>4
<1>14. ASSUME \/ \E a \in AskIds, r \in Requests : SubmitAgain(a, r)
              \/ \E a \in AskIds : TrimRecord(a) \/ ReconcileFinds(a)
              \/ \E interrupted \in SUBSET AskIds : ReconcileEnds(interrupted)
              \/ Tick \/ StepBack \/ UNCHANGED vars
       PROVE  UNCHANGED <<asks, answers, flight, injections>>
  BY <1>14 DEF SubmitAgain, TrimRecord, ReconcileFinds, ReconcileEnds, Tick, StepBack, vars,
     dbVars, memVars
<1>15. ASSUME NEW r \in Requests, HandOverTimesOut(r) PROVE AttributedAll'
  BY <1>13, <1>15 DEF HandOverTimesOut
<1> QED
  BY <1>2, <1>3, <1>4, <1>5, <1>6, <1>7, <1>8, <1>9, <1>11, <1>12, <1>13, <1>14, <1>15 DEF Next

\* The attributions hold of every state.
LEMMA SpecAttributed == Spec => []AttributedAll
<1>1. Init => AttributedAll
  BY DEF Init, AttributedAll, Attributed
<1>2. HandOverInv /\ HandOverInv' /\ AttributedAll /\ [Next]_vars => AttributedAll'
  BY ConstantsAssumption, NextAttributed
<1> QED BY <1>1, <1>2, SpecHandOver, PTL DEF Spec

\* An open ask becomes answered in the app only through a resolution in the window of
\* the injection of a refused answer of it (ADR-010 item 10).
THEOREM AttributionIsProven == Spec => AttributionProven
<1> DEFINE Proven ==
      \A a \in AskIds :
        asks[a].state = "open" /\ asks'[a].state = "answered-in-app" =>
          \E r \in Requests : /\ answers[r].outcome = "refused"
                              /\ answers[r].ask = a
                              /\ now - answers[r].at \in 0..Window
<1>1. HandOverInv /\ AttributedAll /\ [Next]_vars => [Proven]_vars
  <2> SUFFICES ASSUME HandOverInv, AttributedAll, Next, NEW a \in AskIds,
                      asks[a].state = "open", asks'[a].state = "answered-in-app"
               PROVE  \E r \in Requests : /\ answers[r].outcome = "refused"
                                          /\ answers[r].ask = a
                                          /\ now - answers[r].at \in 0..Window
    OBVIOUS
  <2>1. Exists(a)
    BY DEF Exists
  <2>2. PICK by \in {"elsewhere", "cancelled"} : ResolveExternally(a, by)
    <3>0. ASSUME NEW b \in AskIds \ {a}, NEW by \in {"elsewhere", "cancelled"},
                 ResolveExternally(b, by)
          PROVE  FALSE
      <4>1. asks'[a] = asks[a]
        BY <3>0 DEF ResolveExternally, HandOverInv, TypeOK
      <4> QED BY <4>1
    <3>1. ASSUME NEW d \in Dwarves, NEW p \in ProviderReqs, NEW input \in Reports,
                 NEW session \in Sessions, Open(d, p, input, session)
          PROVE  FALSE
      <4>1. a <= born /\ born \in Nat
        BY <2>1 DEF HandOverInv, RecordInv, IdsGiven, TypeOK, ConstantsAssumption
      <4>2. asks'[a] = asks[a]
        BY <3>1, <4>1 DEF Open, HandOverInv, TypeOK, AskIds
      <4> QED BY <4>2
    <3>2. ASSUME NEW b \in AskIds, NEW s \in 0..MaxStep, SetStep(b, s) PROVE FALSE
      BY <2>1, <3>2, StoredAsk DEF SetStep, HandOverInv, TypeOK, AskRow
    <3>3. ASSUME NEW b \in AskIds, NEW r \in Requests, Submit(b, r) PROVE FALSE
      BY <2>1, <3>3, StoredAsk DEF Submit, HandOverInv, TypeOK, AskRow
    <3>4. ASSUME NEW r \in Requests, Settle(r) PROVE FALSE
      <4>1. flight[r].ask # a
        BY <2>1, <3>4 DEF Settle, HandOverInv, RecordInv, HandOverRecorded
      <4>2. asks'[a] = asks[a]
        BY <3>4, <4>1 DEF Settle, HandOverInv, TypeOK
      <4> QED BY <4>2
    <3>5. ASSUME NEW d \in Dwarves, Depart(d) PROVE FALSE
      BY <2>1, <3>5, StoredAsk DEF Depart, WithState, HandOverInv, AskRow
    <3>6. ASSUME NEW b \in Builds, Boot(b) PROVE FALSE
      BY <2>1, <3>6, StoredAsk DEF Boot, WithState, HandOverInv, AskRow
    <3>7. ASSUME (\E b \in AskIds : Sweep(b)) \/ Reset PROVE FALSE
      BY <3>7 DEF Sweep, Reset, Delete, NoAsk
    <3>8. ASSUME UNCHANGED asks PROVE FALSE
      BY <3>8
    <3>9. ASSUME \/ \E r \in Requests, result \in ChannelResults : ChannelAnswers(r, result)
                 \/ \E r \in Requests : HandOverTimesOut(r) \/ SettleThrows(r)
                 \/ \E b \in AskIds, r \in Requests : SubmitAgain(b, r)
                 \/ \E b \in AskIds : TrimRecord(b) \/ ReconcileFinds(b)
                 \/ \E interrupted \in SUBSET AskIds : ReconcileEnds(interrupted)
                 \/ Crash \/ Tick \/ StepBack
          PROVE  UNCHANGED asks
      BY <3>9 DEF ChannelAnswers, HandOverTimesOut, SettleThrows, SubmitAgain, TrimRecord,
         ReconcileFinds, ReconcileEnds, Crash, Tick, StepBack, dbVars
    <3> QED
      BY <3>0, <3>1, <3>2, <3>3, <3>4, <3>5, <3>6, <3>7, <3>8, <3>9 DEF Next
  <2>3. ResolvedState(a, by) = "answered-in-app"
    <3>1. asks' # asks
      OBVIOUS
    <3>2. asks' = [asks EXCEPT ![a].state = ResolvedState(a, by)]
      BY <2>2, <3>1 DEF ResolveExternally
    <3>3. asks[a] \in AskRow /\ asks'[a] = [asks[a] EXCEPT !.state = ResolvedState(a, by)]
      BY <2>1, <3>2, StoredAsk DEF HandOverInv, TypeOK
    <3> QED BY <3>3 DEF AskRow
  <2>4. injections[a] # NoTime /\ now - injections[a] \in 0..Window
    BY <2>3 DEF ResolvedState, AnsweredInAppBy
  <2> QED BY <2>1, <2>4 DEF AttributedAll, Attributed
<1> QED BY <1>1, SpecHandOver, SpecAttributed, PTL DEF Spec, AttributionProven
-----------------------------------------------------------------------------
(* The routes of the asks into crew *)

\* What a step other than a report leaves of the asks: no new row, the fields of the
\* kept ones, and no live ask of a present dwarf deleted.
KeepsAsks ==
  /\ \A a \in AskIds : Exists(a)' =>
       /\ Exists(a)
       /\ asks'[a].dwarf = asks[a].dwarf /\ asks'[a].openedAt = asks[a].openedAt
       /\ Live(a)' => Live(a)
  /\ \A a \in AskIds : Live(a) /\ ~Exists(a)' => crew[asks[a].dwarf] # "present"
  /\ \A d \in Dwarves : crew'[d] = "present" => crew[d] = "present"

\* What a report does to them: one new row, after every other.
AddsAsk ==
  /\ born + 1 \in AskIds
  /\ \A a \in AskIds : Exists(a) => a <= born
  /\ \A a \in AskIds \ {born + 1} : asks'[a] = asks[a]
  /\ asks'[born + 1].state \in {"open", "auto-denied"}
  /\ asks'[born + 1].dwarf \in Dwarves /\ asks'[born + 1].openedAt = now
  /\ crew' = crew

\* Every step but the report keeps the asks.
LEMMA StepOfAsks ==
  ASSUME ConstantsAssumption, HandOverInv, [Next]_vars
  PROVE  KeepsAsks \/ AddsAsk
<1> USE DEF HandOverInv
<1>1. /\ \A a \in AskIds : Exists(a) => asks[a] \in AskRow
      /\ \A a \in AskIds : Live(a) => Exists(a)
      /\ \A a \in AskIds : asks[a].state \in ClosedStates => ~Live(a)
  BY StoredAsk, LiveIsStored
<1>2. ASSUME NEW d \in Dwarves, NEW p \in ProviderReqs, NEW input \in Reports,
             NEW session \in Sessions, Open(d, p, input, session)
      PROVE  AddsAsk
  <2>1. born + 1 \in AskIds /\ born \in Nat
    BY <1>2 DEF Open, AskIds, TypeOK, ConstantsAssumption
  <2>2. \A a \in AskIds : Exists(a) => a <= born
    BY DEF RecordInv, IdsGiven
  <2> QED BY <1>2, <2>1, <2>2 DEF Open, AddsAsk, TypeOK
<1>3. ASSUME UNCHANGED crew,
             \A a \in AskIds : \/ asks'[a] = asks[a]
                               \/ /\ Exists(a) /\ Exists(a)'
                                  /\ asks'[a].dwarf = asks[a].dwarf
                                  /\ asks'[a].openedAt = asks[a].openedAt
                                  /\ Live(a)' => Live(a)
      PROVE  KeepsAsks
  BY <1>1, <1>3 DEF KeepsAsks, Exists, Live
<1>4. ASSUME NEW a \in AskIds, NEW s \in 0..MaxStep, SetStep(a, s) PROVE KeepsAsks
  <2>1. /\ UNCHANGED crew /\ asks[a] \in AskRow
        /\ asks' = [asks EXCEPT ![a] = [asks[a] EXCEPT !.step = s]]
    BY <1>1, <1>4 DEF SetStep, Exists, TypeOK
  <2>2. /\ Exists(a) /\ Exists(a)' /\ asks'[a].dwarf = asks[a].dwarf
        /\ asks'[a].openedAt = asks[a].openedAt /\ (Live(a)' => Live(a))
    BY <1>4, <2>1 DEF SetStep, TypeOK, AskRow, Exists, Live
  <2>3. \A b \in AskIds \ {a} : asks'[b] = asks[b]
    BY <2>1 DEF TypeOK
  <2> QED BY <1>3, <2>1, <2>2, <2>3
<1>5. ASSUME UNCHANGED crew, NEW a \in AskIds, NEW state \in LiveStates \cup ClosedStates,
             Exists(a), asks' = [asks EXCEPT ![a].state = state],
             state \in LiveStates => Live(a)
      PROVE  KeepsAsks
  <2>1. asks[a] \in AskRow /\ asks'[a] = [asks[a] EXCEPT !.state = state]
    BY <1>1, <1>5 DEF TypeOK
  <2>2. /\ asks'[a].state = state /\ asks'[a].dwarf = asks[a].dwarf
        /\ asks'[a].openedAt = asks[a].openedAt
    BY <2>1 DEF AskRow
  <2>3. \A b \in AskIds \ {a} : asks'[b] = asks[b]
    BY <1>5 DEF TypeOK
  <2>4. Exists(a)' /\ (Live(a)' => Live(a))
    BY <1>5, <2>2 DEF Exists, Live, LiveStates, ClosedStates
  <2> QED BY <1>3, <1>5, <2>2, <2>3, <2>4
<1>6. ASSUME NEW a \in AskIds, NEW r \in Requests, Submit(a, r) PROVE KeepsAsks
  <2>1. /\ UNCHANGED crew /\ Live(a) /\ asks' = [asks EXCEPT ![a].state = "answering"]
    BY <1>6 DEF Submit, Wins, Live, LiveStates
  <2> QED BY <1>1, <1>5, <2>1 DEF LiveStates
<1>7. ASSUME NEW r \in Requests, Settle(r) PROVE KeepsAsks
  <2>1. PICK a \in AskIds, state \in LiveStates \cup ClosedStates :
          /\ Exists(a) /\ asks' = [asks EXCEPT ![a].state = state] /\ UNCHANGED crew
          /\ asks[a].state \in ClosedStates => state = asks[a].state
    <3> DEFINE a == flight[r].ask
               settled == ChannelResult(asks[a].state, flight[r].result, a \in held)
    <3>1. /\ a \in AskIds /\ flight[r].result \in ChannelResults
          /\ asks[a].state \in LiveStates \cup ClosedStates
      BY <1>7, SettledAsk DEF AskRow
    <3>2. /\ settled.state \in LiveStates \cup ClosedStates
          /\ asks[a].state \in ClosedStates => settled.state = asks[a].state
      BY <3>1, ChannelResultType
    <3>3. /\ Exists(a) /\ asks' = [asks EXCEPT ![a].state = settled.state] /\ UNCHANGED crew
      BY <1>7 DEF Settle
    <3> QED BY <3>1, <3>2, <3>3
  <2>2. state \in LiveStates => Live(a)
    BY <1>1, <2>1 DEF AskRow, Live, LiveStates, ClosedStates
  <2> QED BY <1>5, <2>1, <2>2
<1>8. ASSUME NEW a \in AskIds, NEW by \in {"elsewhere", "cancelled"}, ResolveExternally(a, by)
      PROVE  KeepsAsks
  <2>1. /\ Live(a) /\ UNCHANGED crew
        /\ UNCHANGED asks \/ asks' = [asks EXCEPT ![a].state = ResolvedState(a, by)]
    BY <1>8 DEF ResolveExternally
  <2>2. ResolvedState(a, by) \in LiveStates \cup ClosedStates
    BY ResolvedStateType DEF LiveStates, ClosedStates
  <2> QED BY <1>1, <1>3, <1>5, <2>1, <2>2
<1>9. ASSUME NEW d \in Dwarves, Depart(d) PROVE KeepsAsks
  <2>1. /\ \A e \in Dwarves : crew'[e] = "present" => crew[e] = "present"
        /\ \A a \in AskIds : \/ asks'[a] = asks[a]
                             \/ Live(a) /\ asks'[a] = [asks[a] EXCEPT !.state = "closed-by-death"]
    BY <1>9 DEF Depart, LiveOf, WithState, TypeOK
  <2>2. \A a \in AskIds : Exists(a) => /\ Exists(a)' /\ (Live(a)' => Live(a))
                                       /\ asks'[a].dwarf = asks[a].dwarf
                                       /\ asks'[a].openedAt = asks[a].openedAt
    <3> SUFFICES ASSUME NEW a \in AskIds, Exists(a)
                 PROVE  /\ Exists(a)' /\ (Live(a)' => Live(a))
                        /\ asks'[a].dwarf = asks[a].dwarf
                        /\ asks'[a].openedAt = asks[a].openedAt
      OBVIOUS
    <3>1. CASE asks'[a] = asks[a]
      BY <3>1 DEF Exists, Live
    <3>2. CASE Live(a) /\ asks'[a] = [asks[a] EXCEPT !.state = "closed-by-death"]
      BY <1>1, <3>2 DEF AskRow, Exists
    <3> QED BY <2>1, <3>1, <3>2
  <2>3. \A a \in AskIds : Exists(a)' => Exists(a)
    BY <1>1, <2>1 DEF Exists
  <2> QED BY <1>1, <2>1, <2>2, <2>3 DEF KeepsAsks
<1>10. ASSUME NEW b \in Builds, Boot(b) PROVE KeepsAsks
  <2>1. /\ UNCHANGED crew
        /\ \A a \in AskIds : \/ asks'[a] = asks[a]
                             \/ Live(a) /\ asks'[a] = [asks[a] EXCEPT !.state = "answered-elsewhere"]
    BY <1>10 DEF Boot, Leftover, WithState
  <2>2. \A a \in AskIds : \/ asks'[a] = asks[a]
                          \/ /\ Exists(a) /\ Exists(a)' /\ Live(a)
                             /\ asks'[a].dwarf = asks[a].dwarf
                             /\ asks'[a].openedAt = asks[a].openedAt
    BY <1>1, <2>1 DEF AskRow, Exists
  <2> QED BY <1>3, <2>1, <2>2
<1>11. ASSUME NEW a \in AskIds, Sweep(a) PROVE KeepsAsks
  <2>1. /\ UNCHANGED crew /\ asks[a].state \in ClosedStates
        /\ \A b \in AskIds : asks'[b] = asks[b] \/ (b = a /\ asks'[b] = NoAsk)
    BY <1>11 DEF Sweep, Delete
  <2> QED BY <1>1, <2>1 DEF KeepsAsks, Exists, Live, NoAsk
<1>12. ASSUME Reset PROVE KeepsAsks
  <2>1. \A d \in Dwarves : crew'[d] = "present" => crew[d] = "present"
    BY <1>12 DEF Reset
  <2>2. \A a \in AskIds : \/ asks'[a] = asks[a]
                          \/ /\ asks'[a] = NoAsk
                             /\ ~Live(a) \/ crew[asks[a].dwarf] = "departed"
    BY <1>1, <1>12 DEF Reset, Delete
  <2> QED BY <1>1, <2>1, <2>2 DEF KeepsAsks, Exists, Live, NoAsk
<1>13. ASSUME \/ \E a \in AskIds, r \in Requests : SubmitAgain(a, r)
              \/ \E r \in Requests, result \in ChannelResults : ChannelAnswers(r, result)
              \/ \E r \in Requests : HandOverTimesOut(r) \/ SettleThrows(r)
              \/ \E a \in AskIds : TrimRecord(a) \/ ReconcileFinds(a)
              \/ \E interrupted \in SUBSET AskIds : ReconcileEnds(interrupted)
              \/ Crash \/ Tick \/ StepBack \/ UNCHANGED vars
       PROVE  KeepsAsks
  <2>1. UNCHANGED <<asks, crew>>
    BY <1>13 DEF SubmitAgain, ChannelAnswers, HandOverTimesOut, SettleThrows, TrimRecord,
       ReconcileFinds, ReconcileEnds, Crash, Tick, StepBack, vars, dbVars
  <2> QED BY <1>3, <2>1
<1> HIDE DEF HandOverInv
<1> QED
  BY <1>2, <1>4, <1>6, <1>7, <1>8, <1>9, <1>10, <1>11, <1>12, <1>13 DEF Next

\* The dwarf has no live ask.
NoLiveAsk(d) == \A a \in AskIds : Live(a) => asks[a].dwarf # d

\* The ask is the dwarf's front ask.
FrontOf(d, a) == a \in AskIds /\ IsFront(a) /\ asks[a].dwarf = d

\* A dwarf's front ask is its one first live ask, and a dwarf with a live ask has one.
FrontFacts ==
  \A d \in Dwarves :
    /\ \A a : FrontOf(d, a) <=> FrontAsk(d) = a /\ a # NoFront
    /\ FrontAsk(d) = NoFront <=> NoLiveAsk(d)
    /\ FrontAsk(d) \in AskIds \cup {NoFront}

LEMMA FrontOfRows == TypeOK /\ ClockOrder => FrontFacts
<1> SUFFICES ASSUME TypeOK, ClockOrder, NEW d \in Dwarves
             PROVE  /\ \A a : FrontOf(d, a) <=> FrontAsk(d) = a /\ a # NoFront
                    /\ FrontAsk(d) = NoFront <=> NoLiveAsk(d)
                    /\ FrontAsk(d) \in AskIds \cup {NoFront}
  BY DEF FrontFacts
<1>1. \A a \in AskIds : Live(a) => Exists(a) /\ asks[a].openedAt \in Nat
  BY StoredAsk, LiveIsStored DEF AskRow, Times
<1>2. \A a, b \in AskIds : Live(a) /\ Live(b) /\ a < b => Before(a, b) /\ ~Before(b, a)
  BY <1>1 DEF ClockOrder, Before, AskIds
<1>3. ASSUME NEW a, NEW b, FrontOf(d, a), FrontOf(d, b) PROVE a = b
  <2>1. SUFFICES ASSUME a # b PROVE FALSE
    OBVIOUS
  <2>2. /\ a \in AskIds /\ b \in AskIds /\ Live(a) /\ Live(b)
        /\ Before(a, b) /\ Before(b, a)
    BY <1>1, <1>3, <2>1 DEF FrontOf, IsFront, SameDwarf
  <2>3. a < b \/ b < a
    BY <2>1, <2>2 DEF AskIds
  <2> QED BY <1>2, <2>2, <2>3
<1>4. ASSUME NEW a \in AskIds, Live(a), asks[a].dwarf = d PROVE \E b : FrontOf(d, b)
  <2> DEFINE L == {b \in AskIds : Live(b) /\ asks[b].dwarf = d}
  <2>1. L # {} /\ L \subseteq Nat
    BY <1>4 DEF AskIds
  <2>2. PICK b \in L : \A c \in L : ~(<<c, b>> \in OpToRel(<, Nat))
    <3>1. IsWellFoundedOn(OpToRel(<, Nat), Nat)
      BY NatLessThanWellFounded
    <3> HIDE DEF L
    <3> QED BY <2>1, <3>1, WFMin, Zenon
  <2>3. \A c \in L \ {b} : b < c
    <3> HIDE DEF L
    <3>1. \A c \in L : b \in Nat /\ c \in Nat /\ ~(c < b)
      BY <2>1, <2>2 DEF OpToRel
    <3> QED BY <3>1
  <2>4. FrontOf(d, b)
    BY <1>1, <1>2, <2>3 DEF FrontOf, IsFront, SameDwarf
  <2> QED BY <2>4
<1>5. \/ FrontAsk(d) = NoFront /\ (\A a : ~FrontOf(d, a))
      \/ FrontOf(d, FrontAsk(d))
  <2> DEFINE P(a) == IsFront(a) /\ asks[a].dwarf = d
  <2>1. CASE \E a \in AskIds : P(a)
    <3>1. FrontAsk(d) = CHOOSE a \in AskIds : P(a)
      BY <2>1 DEF FrontAsk
    <3> QED BY <2>1, <3>1 DEF FrontOf
  <2>2. CASE ~ \E a \in AskIds : P(a)
    BY <2>2 DEF FrontAsk, FrontOf
  <2> QED BY <2>1, <2>2
<1>6. \A a : FrontOf(d, a) => a # NoFront /\ ~NoLiveAsk(d)
  BY DEF FrontOf, AskIds, NoFront, NoLiveAsk, IsFront
<1>7. ~NoLiveAsk(d) => \E b : FrontOf(d, b)
  BY <1>4 DEF NoLiveAsk
<1> QED BY <1>3, <1>5, <1>6, <1>7 DEF FrontOf

\* The routes' map and crew's memory, of a dwarf the formula is about.
RouteAgrees(d) == crew[d] = "present" => frontOf[d] = FrontAsk(d) /\ openAsk[d] = FrontAsk(d)

RouteInv ==
  /\ frontOf \in [Dwarves -> AskIds \cup {NoFront}]
  /\ openAsk \in [Dwarves -> AskIds \cup {NoFront}]
  /\ AskingMatchesRows

\* A report: the new ask is its dwarf's front only if the dwarf had none.
LEMMA AddedFront ==
  ASSUME TypeOK, ClockOrder, FrontFacts, FrontFacts', AddsAsk, born \in Nat, now \in Nat
  PROVE  \A d \in Dwarves :
           FrontAsk(d)' = IF /\ asks'[born + 1].state = "open"
                             /\ asks'[born + 1].dwarf = d /\ FrontAsk(d) = NoFront
                          THEN born + 1 ELSE FrontAsk(d)
<1> SUFFICES ASSUME NEW d \in Dwarves
             PROVE  FrontAsk(d)' = IF /\ asks'[born + 1].state = "open"
                                      /\ asks'[born + 1].dwarf = d /\ FrontAsk(d) = NoFront
                                   THEN born + 1 ELSE FrontAsk(d)
  OBVIOUS
<1>n. PICK n \in AskIds : n = born + 1
  BY DEF AddsAsk
<1>1. /\ \A a \in AskIds \ {n} : (Live(a)' <=> Live(a)) /\ (Exists(a)' <=> Exists(a))
      /\ ~Live(n) /\ ~Exists(n)
      /\ \A a \in AskIds : Live(a) => Exists(a) /\ a <= born
      /\ Live(n)' <=> asks'[n].state = "open"
  <2>1. \A a \in AskIds \ {n} : (Live(a)' <=> Live(a)) /\ (Exists(a)' <=> Exists(a))
    BY <1>n DEF AddsAsk, Live, Exists
  <2>2. \A a \in AskIds : Live(a) => Exists(a) /\ a <= born
    BY <1>n, LiveIsStored DEF AddsAsk
  <2>3. ~Exists(n) /\ ~Live(n)
    BY <1>n, <2>2 DEF AddsAsk
  <2>4. Live(n)' <=> asks'[n].state = "open"
    BY <1>n DEF AddsAsk, Live, LiveStates
  <2> QED BY <2>1, <2>2, <2>3, <2>4
<1>2. \A a \in AskIds : Live(a) => asks[a].openedAt \in Nat /\ asks[a].openedAt <= now
  BY <1>1, StoredAsk DEF ClockOrder, AskRow, Times
<1>3. ASSUME NEW f, FrontOf(d, f) PROVE FrontOf(d, f)'
  <2>1. f \in AskIds /\ f # n /\ Live(f) /\ Exists(f) /\ asks'[f] = asks[f]
        /\ asks[f].dwarf = d
    BY <1>n, <1>1, <1>3 DEF FrontOf, IsFront, AddsAsk
  <2>2. ASSUME NEW b \in AskIds \ {f}, SameDwarf(f, b)', Live(b)' PROVE Before(f, b)'
    <3>1. CASE b = n
      BY <1>n, <1>1, <1>2, <2>1, <3>1 DEF Before, AddsAsk, AskIds
    <3>2. CASE b # n
      <4>1. asks'[b] = asks[b] /\ SameDwarf(f, b) /\ Live(b)
        BY <1>n, <1>1, <2>1, <2>2, <3>2 DEF SameDwarf, AddsAsk
      <4> QED BY <1>3, <2>1, <4>1 DEF FrontOf, IsFront, Before
    <3> QED BY <3>1, <3>2
  <2> QED BY <1>1, <2>1, <2>2 DEF FrontOf, IsFront
<1>4. CASE FrontAsk(d) # NoFront
  BY <1>3, <1>4 DEF FrontFacts
<1>5. CASE FrontAsk(d) = NoFront
  <2>1. NoLiveAsk(d)
    BY <1>5 DEF FrontFacts
  <2>2. CASE asks'[n].state = "open" /\ asks'[n].dwarf = d
    <3>1. ASSUME NEW b \in AskIds \ {n}, SameDwarf(n, b)', Live(b)' PROVE FALSE
      BY <1>n, <1>1, <2>1, <2>2, <3>1 DEF SameDwarf, NoLiveAsk, AddsAsk
    <3>2. FrontOf(d, n)'
      BY <1>n, <1>1, <2>2, <3>1 DEF FrontOf, IsFront, AddsAsk
    <3> QED BY <1>n, <1>5, <2>2, <3>2 DEF FrontFacts
  <2>3. CASE ~(asks'[n].state = "open" /\ asks'[n].dwarf = d)
    <3>1. NoLiveAsk(d)'
      BY <1>n, <1>1, <2>1, <2>3 DEF NoLiveAsk, AddsAsk
    <3> QED BY <1>n, <1>5, <2>3, <3>1 DEF FrontFacts
  <2> QED BY <2>2, <2>3
<1> QED BY <1>n, <1>4, <1>5

\* Any other step: a dwarf that is present after it has the front ask it had, unless
\* that ask closed.
LEMMA KeptFront ==
  ASSUME FrontFacts, FrontFacts', TypeOK, TypeOK', KeepsAsks, NEW d \in Dwarves,
         crew'[d] = "present", FrontAsk(d) \notin Closed
  PROVE  FrontAsk(d)' = FrontAsk(d)
<1>1. \A a \in AskIds : Live(a)' => Live(a) /\ Exists(a) /\ Exists(a)' /\ asks'[a].dwarf = asks[a].dwarf
                                    /\ asks'[a].openedAt = asks[a].openedAt
  BY DEF KeepsAsks, Live, LiveStates, Exists
<1>2. CASE FrontAsk(d) = NoFront
  <2>1. NoLiveAsk(d)
    BY <1>2 DEF FrontFacts
  <2>2. NoLiveAsk(d)'
    BY <1>1, <2>1 DEF NoLiveAsk
  <2> QED BY <1>2, <2>2 DEF FrontFacts
<1>3. CASE FrontAsk(d) # NoFront
  <2>f. PICK f : f = FrontAsk(d)
    OBVIOUS
  <2>1. f \in AskIds /\ FrontOf(d, f) /\ Live(f) /\ asks[f].dwarf = d
    BY <1>3, <2>f DEF FrontFacts, FrontOf, IsFront
  <2>2. Exists(f)' /\ asks'[f].state \notin ClosedStates
    BY <2>f, <2>1 DEF KeepsAsks, Closed
  <2>3. asks'[f].state \in LiveStates \cup ClosedStates
    BY <2>1, <2>2 DEF TypeOK, AskRow, NoAsk, Exists
  <2>4. Live(f)' /\ asks'[f].dwarf = d
    BY <1>1, <2>1, <2>2, <2>3 DEF Live
  <2>5. ASSUME NEW b \in AskIds \ {f}, SameDwarf(f, b)', Live(b)' PROVE Before(f, b)'
    <3>1. SameDwarf(f, b) /\ Live(b)
      BY <1>1, <2>1, <2>4, <2>5 DEF SameDwarf
    <3>2. Before(f, b)
      BY <2>1, <3>1 DEF FrontOf, IsFront
    <3> QED BY <1>1, <2>1, <2>4, <2>5, <3>2 DEF Before
  <2>6. FrontOf(d, f)'
    BY <2>1, <2>4, <2>5 DEF FrontOf, IsFront
  <2> QED BY <1>3, <2>f, <2>6 DEF FrontFacts
<1> QED BY <1>2, <1>3

\* Every step of the composition keeps the routes' map and crew's memory with the rows.
LEMMA NextRoute ==
  ASSUME ConstantsAssumption, HandOverInv, HandOverInv', CardInv, CardInv', RouteInv, RNext
  PROVE  RouteInv'
<1>1. FrontFacts
  BY FrontOfRows DEF CardInv
<1>2. FrontFacts'
  <2>1. (TypeOK /\ ClockOrder => FrontFacts)'
    BY FrontOfRows, PTL
  <2> QED BY <2>1 DEF CardInv
<1>3. /\ TypeOK /\ TypeOK' /\ ClockOrder /\ born \in Nat /\ now \in Nat
      /\ \A d \in Dwarves : FrontAsk(d)' \in AskIds \cup {NoFront}
  BY <1>2 DEF CardInv, TypeOK, FrontFacts, Times, ConstantsAssumption
<1>4. NoFront \in AskIds \cup {NoFront}
  OBVIOUS
<1> HIDE DEF NoFront
<1>5. CASE build' # build /\ HostStops
  BY <1>4, <1>5 DEF HostStops, RouteInv, AskingMatchesRows, Up
<1>6. CASE Replay
  BY <1>3, <1>4, <1>6 DEF Replay, RouteInv, AskingMatchesRows, Started
<1>7. CASE build' = build /\ ~Replay
  <2>1. /\ \/ \E a \in Opened :
               IF frontOf[asks'[a].dwarf] = NoFront THEN RouteOpened(asks'[a].dwarf, a) ELSE NoRoute
           \/ Closed # {} /\ RouteClosed(ClosedFronts)
           \/ Opened = {} /\ Closed = {} /\ NoRoute
        /\ Next /\ (Up' <=> Up)
    BY <1>7 DEF RNext, Route, Up
  <2>2. CASE KeepsAsks
    <3>1. Opened = {}
      BY <2>2 DEF Opened, KeepsAsks, Exists
    <3>2. ASSUME NEW d \in Dwarves
          PROVE  /\ frontOf'[d] \in {frontOf[d], FrontAsk(d)'}
                 /\ crew'[d] = "present" => 
                      \/ frontOf[d] \notin Closed /\ frontOf'[d] = frontOf[d] /\ openAsk'[d] = openAsk[d]
                      \/ frontOf'[d] = FrontAsk(d)' /\ openAsk'[d] = FrontAsk(d)'
                 /\ openAsk'[d] \in {openAsk[d], FrontAsk(d)', NoFront}
      BY <2>1, <3>1 DEF RouteClosed, ClosedFronts, NoRoute, Started, Stopped
    <3>3. /\ frontOf' \in [Dwarves -> AskIds \cup {NoFront}]
          /\ openAsk' \in [Dwarves -> AskIds \cup {NoFront}]
      BY <1>3, <2>1, <3>1 DEF RouteInv, RouteClosed, NoRoute, Started, Stopped
    <3>4. ASSUME Up, NEW d \in Dwarves, crew'[d] = "present"
          PROVE  frontOf'[d] = FrontAsk(d)' /\ openAsk'[d] = FrontAsk(d)'
      <4>1. crew[d] = "present"
        BY <2>2, <3>4 DEF KeepsAsks
      <4>2. frontOf[d] = FrontAsk(d) /\ openAsk[d] = FrontAsk(d)
        BY <3>4, <4>1 DEF RouteInv, AskingMatchesRows
      <4>3. FrontAsk(d) \notin Closed => FrontAsk(d)' = FrontAsk(d)
        BY <1>1, <1>2, <1>3, <2>2, <3>4, KeptFront
      <4> QED BY <3>2, <3>4, <4>2, <4>3
    <3> QED BY <2>1, <3>3, <3>4 DEF RouteInv, AskingMatchesRows
  <2>3. CASE AddsAsk
    <3>a. PICK a \in AskIds : a = born + 1
      BY <2>3 DEF AddsAsk
    <3>1. /\ Closed = {}
          /\ Opened = IF asks'[a].state = "open" THEN {a} ELSE {}
      <4>1. ~Exists(a) /\ ~Live(a)
        BY <1>3, <2>3, <3>a, LiveIsStored DEF AddsAsk
      <4>2. \A b \in AskIds \ {a} : asks'[b] = asks[b]
        BY <2>3, <3>a DEF AddsAsk
      <4>3. \A b \in AskIds \ {a} : b \notin Opened /\ b \notin Closed
        BY <4>2, LiveIsStored DEF Opened, Closed, Exists
      <4> QED BY <4>1, <4>3 DEF Opened, Closed
    <3>2. \A d \in Dwarves : FrontAsk(d)' = IF /\ asks'[a].state = "open"
                                               /\ asks'[a].dwarf = d /\ FrontAsk(d) = NoFront
                                            THEN a ELSE FrontAsk(d)
      BY <1>1, <1>2, <1>3, <2>3, <3>a, AddedFront
    <3>3. asks'[a].dwarf \in Dwarves /\ crew' = crew
      BY <2>3, <3>a DEF AddsAsk
    <3>4. CASE asks'[a].state # "open" \/ frontOf[asks'[a].dwarf] # NoFront
      <4>1. NoRoute
        BY <2>1, <3>1, <3>4
      <4> QED BY <2>1, <3>2, <3>3, <3>4, <4>1 DEF NoRoute, RouteInv, AskingMatchesRows
    <3>5. CASE asks'[a].state = "open" /\ frontOf[asks'[a].dwarf] = NoFront
      <4>1. RouteOpened(asks'[a].dwarf, a)
        BY <2>1, <3>1, <3>5
      <4>2. /\ frontOf'[asks'[a].dwarf] = a
            /\ openAsk'[asks'[a].dwarf] = Started(asks'[a].dwarf, openAsk[asks'[a].dwarf], a)
            /\ \A d \in Dwarves \ {asks'[a].dwarf} : frontOf'[d] = frontOf[d] /\ openAsk'[d] = openAsk[d]
        BY <3>3, <4>1 DEF RouteOpened, RouteInv
      <4>3. /\ frontOf' \in [Dwarves -> AskIds \cup {NoFront}]
            /\ openAsk' \in [Dwarves -> AskIds \cup {NoFront}]
        BY <3>3, <4>1 DEF RouteOpened, RouteInv, Started
      <4>4. ASSUME Up, NEW d \in Dwarves, crew'[d] = "present"
            PROVE  frontOf'[d] = FrontAsk(d)' /\ openAsk'[d] = FrontAsk(d)'
        BY <3>2, <3>3, <3>5, <4>2, <4>4 DEF RouteInv, AskingMatchesRows, Started
      <4> QED BY <2>1, <4>3, <4>4 DEF RouteInv, AskingMatchesRows
    <3> QED BY <3>4, <3>5
  <2> QED BY <2>1, <2>2, <2>3, StepOfAsks
<1> QED BY <1>5, <1>6, <1>7 DEF RNext, Route

\* The initial rows hold no ask.
LEMMA InitRoute == ASSUME ConstantsAssumption, RInit PROVE RouteInv
<1>1. \A d \in Dwarves : FrontAsk(d) = NoFront
  BY DEF RInit, Init, FrontAsk, IsFront, Live, LiveStates, NoAsk
<1> QED BY <1>1 DEF RInit, RouteInv, AskingMatchesRows

\* While the Host runs, a present dwarf is shown asking exactly for the front ask the
\* rows give it, through closes, departures, second asks and restarts, for a wall clock
\* that does not step back.
THEOREM AskingAgreesWithRows ==
  ASSUME ~ClockStepsBack
  PROVE  RSpec => []AskingMatchesRows
<1>1. RSpec => Spec
  <2>1. RInit => Init
    BY DEF RInit
  <2>2. [RNext]_rvars => [Next]_vars
    BY DEF RNext, rvars
  <2> QED BY <2>1, <2>2, PTL DEF RSpec, Spec
<1>2. RInit => RouteInv
  BY ConstantsAssumption, InitRoute
<1>3. HandOverInv /\ HandOverInv' /\ CardInv /\ CardInv' /\ RouteInv /\ [RNext]_rvars => RouteInv'
  <2>1. RouteInv /\ UNCHANGED rvars => RouteInv'
    <3> SUFFICES ASSUME RouteInv, UNCHANGED rvars PROVE RouteInv'
      OBVIOUS
    <3>1. UNCHANGED <<frontOf, openAsk, build, crew, asks>>
      BY DEF rvars, vars, dbVars, memVars
    <3>2. \A d \in Dwarves : FrontAsk(d)' = FrontAsk(d)
      BY <3>1 DEF FrontAsk, IsFront, Live, SameDwarf, Exists, Before
    <3> QED BY <3>1, <3>2 DEF RouteInv, AskingMatchesRows, Up
  <2> QED BY <2>1, ConstantsAssumption, NextRoute
<1>4. RouteInv => AskingMatchesRows
  BY DEF RouteInv
<1> QED BY <1>1, <1>2, <1>3, <1>4, SpecHandOver, SpecCard, PTL DEF RSpec
=============================================================================
