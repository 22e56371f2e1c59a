------------------------- MODULE AttentionPolicyProofs -------------------------
(***************************************************************************)
(* What AttentionPolicy promises for every number of dwarves, mines, keys  *)
(* and ui connections: a key is announced at most once, however often its  *)
(* fact is reported, whatever the gate, the resets and the Host lives do;  *)
(* what stands was given to the tray;                                      *)
(* and, while no reset happens, no fact waits behind an open gate and only *)
(* a fact that is open stands.                                             *)
(***************************************************************************)
EXTENDS AttentionPolicy, TLAPS

\* An ask was reported before it was announced.
AnnouncedWasReported == \A k \in AskKeys : announced[k] > 0 => facts[k] # "unborn"

\* The ledger holds an announced key as long as its fact may be reported again: an ask that
\* ended is not, and its row may go.
LedgerKnows ==
  \A k \in Keys : announced[k] > 0 =>
    k \notin Undecided \/ (k \in AskKeys /\ facts[k] = "ended")

\* A fact that waits is open and its key is not claimed, so that a claim never meets a row.
WaitingIsUnclaimed == \A k \in gated : facts[k] = "open" /\ k \in Undecided

\* An open fact is one of a dwarf that is present: a reset keeps the row of an open ask.
OpenIsPresent == \A k \in Keys : facts[k] = "open" => DwarfOf[k] \notin departed

LedgerInv == AnnouncedWasReported /\ LedgerKnows /\ WaitingIsUnclaimed /\ OpenIsPresent

\* What stands is the claimed key of an open fact the routes still remember.
StandingInv == \A k \in standing : facts[k] = "open" /\ k \in handed /\ Claimed(k)

USE DEF Keys

-----------------------------------------------------------------------------
(* What a decision does, whoever asks for it *)

\* The gate has three answers.
LEMMA GateAnswers ==
  \A k, on, rs : Gate(k, on, rs) \in {"suppressed", "gated", "emitted"}
  BY DEF Gate

\* A decision of known keys keeps the types of what it writes.
LEMMA DecideType ==
  ASSUME TypeOK, NEW ks \in SUBSET handed', NEW on, NEW rs, Decide(ks, on, rs),
         handed \subseteq handed', handed' \subseteq Keys
  PROVE  /\ ledger' \in [Keys -> {"none", "emitted", "suppressed", "withdrawn"}]
         /\ gated' \subseteq handed'
         /\ standing' \subseteq Keys
         /\ sent' \subseteq Keys
         /\ announced' \in [Keys -> Nat]
  BY GateAnswers DEF Decide, TypeOK

\* Facts that end keep the types of what FactsEnd writes.
LEMMA FactsEndType ==
  ASSUME TypeOK, NEW ks, FactsEnd(ks)
  PROVE  /\ facts' \in [Keys -> {"unborn", "open", "ended"}]
         /\ ledger' \in [Keys -> {"none", "emitted", "suppressed", "withdrawn"}]
         /\ handed' \subseteq Keys
         /\ gated' \subseteq handed'
         /\ standing' \subseteq Keys
         /\ sent' \subseteq Keys
  BY DEF FactsEnd, Ending, WithdrawsNow, TypeOK

\* The report of a client that sent none has the type of a report.
LEMMA NoReportType == NoReport \in Reports
  BY AttentionConstants DEF NoReport, Reports

-----------------------------------------------------------------------------
(* Types *)

\* Every step keeps the types.
LEMMA TypeStep == TypeOK /\ [Next]_vars => TypeOK'
<1> SUFFICES ASSUME TypeOK, [Next]_vars PROVE TypeOK'
  OBVIOUS
<1>1. ASSUME NEW k \in Keys, HandsOver(k)
      PROVE  /\ facts' \in [Keys -> {"unborn", "open", "ended"}]
             /\ ledger' \in [Keys -> {"none", "emitted", "suppressed", "withdrawn"}]
             /\ handed' \subseteq Keys
             /\ gated' \subseteq handed' /\ standing' \subseteq Keys /\ sent' \subseteq Keys
             /\ announced' \in [Keys -> Nat]
  <2> DEFINE ks == {k} \cap Undecided
  <2>1. handed' = handed \cup {k} /\ Decide(ks, notificationsOn, reports)
    BY <1>1 DEF HandsOver, OnFact
  <2>2. handed \subseteq handed' /\ handed' \subseteq Keys /\ ks \in SUBSET handed'
    BY <2>1 DEF TypeOK
  <2>3. facts' \in [Keys -> {"unborn", "open", "ended"}]
    BY <1>1 DEF HandsOver, TypeOK
  <2> HIDE DEF ks
  <2> QED
    BY <2>1, <2>2, <2>3, DecideType
<1>16. ASSUME NEW k \in Keys, AskReported(k) PROVE TypeOK'
  <2>1. HandsOver(k) /\ UNCHANGED <<departed, logged, notificationsOn, up, reports, notifier>>
    BY <1>16 DEF AskReported
  <2> QED
    BY <1>1, <2>1 DEF TypeOK
<1>17. ASSUME NEW k \in Keys, TurnReported(k) PROVE TypeOK'
  <2>1. /\ HandsOver(k) /\ k \in TurnKeys /\ logged' = logged \cup {k}
        /\ UNCHANGED <<departed, notificationsOn, up, reports, notifier>>
    BY <1>17 DEF TurnReported
  <2> QED
    BY <1>1, <2>1 DEF TypeOK
<1>18. ASSUME NEW k \in Keys, TurnTrimmed(k) PROVE TypeOK'
  BY <1>18 DEF TurnTrimmed, TypeOK, memVars
<1>2. ASSUME NEW k \in Keys, AskCloses(k) PROVE TypeOK'
  BY <1>2, FactsEndType DEF AskCloses, TypeOK, FactsEnd
<1>3. ASSUME NEW d \in Dwarves, TurnStarts(d) PROVE TypeOK'
  BY <1>3, FactsEndType DEF TurnStarts, TypeOK, FactsEnd
<1>4. ASSUME NEW d \in Dwarves, Depart(d) PROVE TypeOK'
  BY <1>4, FactsEndType DEF Depart, TypeOK, FactsEnd
<1>5. ASSUME NEW on, NEW rs, Decide(Rechecked, on, rs), handed' = handed
      PROVE  /\ ledger' \in [Keys -> {"none", "emitted", "suppressed", "withdrawn"}]
             /\ gated' \subseteq handed' /\ standing' \subseteq Keys /\ sent' \subseteq Keys
             /\ announced' \in [Keys -> Nat]
  <2>1. Rechecked \in SUBSET handed' /\ handed \subseteq handed' /\ handed' \subseteq Keys
    BY <1>5 DEF Rechecked, TypeOK
  <2> QED
    BY <1>5, <2>1, DecideType
<1>6. ASSUME NEW c \in Clients, NEW report \in Reports, Present(c, report) PROVE TypeOK'
  BY <1>6, <1>5 DEF Present, TypeOK
<1>7. ASSUME NEW c \in Clients, Detach(c) PROVE TypeOK'
  BY <1>7, <1>5, NoReportType DEF Detach, TypeOK
<1>8. ASSUME NEW on \in BOOLEAN, SetNotifications(on) PROVE TypeOK'
  BY <1>8, <1>5 DEF SetNotifications, TypeOK
<1>9. CASE NotifierAttaches
  BY <1>9 DEF NotifierAttaches, SendsAgain, TypeOK
<1>10. ASSUME NEW kept \in SUBSET Keys, NotifierDetaches(kept) PROVE TypeOK'
  BY <1>10 DEF NotifierDetaches, TypeOK
<1>11. CASE Reset
  BY <1>11 DEF Reset, TypeOK, memVars
<1>12. ASSUME NEW k \in Keys, AskSwept(k) PROVE TypeOK'
  BY <1>12 DEF AskSwept, TypeOK, memVars
<1>13. CASE Crash
  BY <1>13, NoReportType DEF Crash, TypeOK
<1>14. CASE Boot
  BY <1>14 DEF Boot, TypeOK
<1>15. CASE UNCHANGED vars
  BY <1>15 DEF vars, memVars, TypeOK
<1> QED
  BY <1>2, <1>3, <1>4, <1>6, <1>7, <1>8, <1>9, <1>10, <1>11, <1>12, <1>13, <1>14, <1>15,
     <1>16, <1>17, <1>18 DEF Next

\* The initial states have their types.
LEMMA AttentionInit == Init => TypeOK
<1> SUFFICES ASSUME Init PROVE TypeOK
  OBVIOUS
<1>1. notificationsOn \in BOOLEAN /\ up \in BOOLEAN /\ notifier \in BOOLEAN
  BY Zenon DEF Init
<1>2. reports \in [Clients -> Reports]
  BY NoReportType, Zenon DEF Init
<1> QED
  BY <1>1, <1>2 DEF Init, TypeOK

\* Every reachable state has its types.
THEOREM AttentionTypeCorrect == Spec => []TypeOK
  BY AttentionInit, TypeStep, PTL DEF Spec

-----------------------------------------------------------------------------
(* A key is announced at most once *)

\* A decision leaves a key as it was, or makes it wait, or claims it and announces it once
\* at most.
LEMMA DecideClaims ==
  ASSUME TypeOK, NEW ks, NEW on, NEW rs, Decide(ks, on, rs), NEW k \in Keys
  PROVE  \/ /\ announced'[k] = announced[k] /\ ledger'[k] = ledger[k]
            /\ (k \in gated' => k \in gated \/ k \in ks)
         \/ /\ k \in ks /\ k \notin gated' /\ ledger'[k] # "none"
            /\ (announced'[k] = announced[k] \/ announced'[k] = announced[k] + 1)
<1>1. ledger'[k] = IF k \in ks /\ Gate(k, on, rs) # "gated" THEN Gate(k, on, rs) ELSE ledger[k]
  BY DEF Decide
<1>2. announced'[k] = IF k \in ks /\ Gate(k, on, rs) = "emitted" THEN announced[k] + 1
                      ELSE announced[k]
  BY DEF Decide
<1>3. k \in gated' <=> (k \in gated /\ k \notin ks) \/ (k \in ks /\ Gate(k, on, rs) = "gated")
  BY DEF Decide
<1>4. Gate(k, on, rs) \in {"suppressed", "gated", "emitted"}
  BY GateAnswers
<1> QED
  BY <1>1, <1>2, <1>3, <1>4

\* A fact that ends waits no longer.
LEMMA FactsEndWaiting ==
  ASSUME TypeOK, NEW ks, FactsEnd(ks), NEW k \in gated'
  PROVE  k \in gated /\ k \notin ks
  BY DEF FactsEnd, Ending, WithdrawsNow, TypeOK

AnnouncedInv == TypeOK /\ LedgerInv /\ AnnouncedOnce

\* A decision of open facts that are not decided yet keeps the invariant, whichever facts
\* are reported with it.
LEMMA DecideAnnounces ==
  ASSUME AnnouncedInv, NEW ks \in SUBSET Keys, NEW on, NEW rs, Decide(ks, on, rs),
         \A k \in Keys : facts'[k] = facts[k]
                         \/ (/\ facts'[k] = "open" /\ DwarfOf[k] \notin departed
                             /\ k \in AskKeys => facts[k] # "ended"),
         \A k \in ks : /\ k \in Undecided /\ facts'[k] = "open"
                       /\ k \in AskKeys => facts[k] # "ended",
         departed' = departed
  PROVE  LedgerInv' /\ AnnouncedOnce'
<1>1. /\ AnnouncedWasReported /\ LedgerKnows /\ WaitingIsUnclaimed /\ OpenIsPresent
      /\ AnnouncedOnce /\ TypeOK /\ announced \in [Keys -> Nat] /\ gated \subseteq Keys
  BY DEF AnnouncedInv, LedgerInv, TypeOK
<1>2. ASSUME NEW k \in Keys
      PROVE  \/ /\ announced'[k] = announced[k] /\ ledger'[k] = ledger[k]
                /\ (k \in gated' => k \in gated \/ k \in ks)
             \/ /\ k \in ks /\ k \notin gated' /\ ledger'[k] # "none"
                /\ (announced'[k] = announced[k] \/ announced'[k] = announced[k] + 1)
  BY <1>1, DecideClaims
<1>3. \A k \in ks : announced[k] = 0
  BY <1>1 DEF LedgerKnows
<1>4. gated' \subseteq Keys
  BY <1>1 DEF Decide
<1>5. LedgerKnows'
  BY <1>1, <1>2 DEF LedgerKnows, Undecided
<1>6. WaitingIsUnclaimed'
  BY <1>1, <1>2, <1>4 DEF WaitingIsUnclaimed, Undecided
<1>7. AnnouncedWasReported'
  BY <1>1, <1>2 DEF AnnouncedWasReported
<1>8. OpenIsPresent'
  BY <1>1 DEF OpenIsPresent
<1>9. AnnouncedOnce'
  BY <1>1, <1>2, <1>3 DEF AnnouncedOnce
<1> QED
  BY <1>5, <1>6, <1>7, <1>8, <1>9 DEF LedgerInv

\* A recheck of the facts that wait keeps the invariant.
LEMMA RecheckAnnounces ==
  ASSUME AnnouncedInv, NEW on, NEW rs, Decide(Rechecked, on, rs), UNCHANGED <<facts, departed>>
  PROVE  LedgerInv' /\ AnnouncedOnce'
<1>1. Rechecked \in SUBSET Keys
  BY DEF AnnouncedInv, TypeOK, Rechecked
<1>2. \A k \in Rechecked : /\ k \in Undecided /\ facts'[k] = "open"
                           /\ k \in AskKeys => facts[k] # "ended"
  BY DEF AnnouncedInv, LedgerInv, WaitingIsUnclaimed, Rechecked
<1>3. \A k \in Keys : facts'[k] = facts[k]
  OBVIOUS
<1> QED
  BY <1>1, <1>2, <1>3, DecideAnnounces

\* A fact handed over, for the first time or again, keeps the invariant.
LEMMA HandsOverAnnounces ==
  ASSUME AnnouncedInv, NEW k \in Keys, HandsOver(k), k \in AskKeys => facts[k] # "ended",
         departed' = departed
  PROVE  LedgerInv' /\ AnnouncedOnce'
<1> DEFINE ks == {k} \cap Undecided
<1>1. Decide(ks, notificationsOn, reports) /\ ks \in SUBSET Keys
  BY DEF HandsOver, OnFact
<1>2. /\ facts \in [Keys -> {"unborn", "open", "ended"}]
      /\ facts' = [facts EXCEPT ![k] = "open"] /\ DwarfOf[k] \notin departed
  BY DEF HandsOver, AnnouncedInv, TypeOK
<1>3. \A j \in Keys : facts'[j] = facts[j]
                      \/ (/\ facts'[j] = "open" /\ DwarfOf[j] \notin departed
                          /\ j \in AskKeys => facts[j] # "ended")
  BY <1>2
<1>4. \A j \in ks : /\ j \in Undecided /\ facts'[j] = "open"
                    /\ j \in AskKeys => facts[j] # "ended"
  BY <1>2
<1> HIDE DEF ks
<1> QED
  BY <1>1, <1>3, <1>4, DecideAnnounces

\* Facts that end keep the invariant.
LEMMA EndAnnounces ==
  ASSUME AnnouncedInv, NEW ks \in SUBSET Keys, FactsEnd(ks),
         \A k \in Keys : facts'[k] = "open" => DwarfOf[k] \notin departed'
  PROVE  LedgerInv' /\ AnnouncedOnce'
<1>1. /\ AnnouncedWasReported /\ LedgerKnows /\ WaitingIsUnclaimed /\ AnnouncedOnce
      /\ TypeOK /\ gated \subseteq Keys
  BY DEF AnnouncedInv, LedgerInv, TypeOK
<1>2. \A k \in gated' : k \in gated /\ k \notin ks
  BY <1>1, FactsEndWaiting
<1>3. /\ \A k \in Keys : facts'[k] = IF k \in ks THEN "ended" ELSE facts[k]
      /\ announced' = announced
  BY DEF FactsEnd
<1>4. \A k \in Keys : ledger'[k] = ledger[k] \/ (Claimed(k) /\ ledger'[k] = "withdrawn")
  BY DEF FactsEnd
<1>5. \A k \in Keys : k \in Undecided' <=> k \in Undecided
  BY <1>4 DEF Undecided, Claimed
<1>6. LedgerKnows'
  BY <1>1, <1>3, <1>5 DEF LedgerKnows
<1>7. WaitingIsUnclaimed'
  BY <1>1, <1>2, <1>3, <1>5 DEF WaitingIsUnclaimed
<1>8. AnnouncedWasReported'
  BY <1>1, <1>3 DEF AnnouncedWasReported
<1>9. OpenIsPresent' /\ AnnouncedOnce'
  BY <1>1, <1>3 DEF OpenIsPresent, AnnouncedOnce
<1> QED
  BY <1>6, <1>7, <1>8, <1>9 DEF LedgerInv

\* Every step keeps the invariant.
LEMMA AnnouncedStep == AnnouncedInv /\ [Next]_vars => AnnouncedInv'
<1> SUFFICES ASSUME AnnouncedInv, [Next]_vars PROVE LedgerInv' /\ AnnouncedOnce'
  BY TypeStep DEF AnnouncedInv
<1>0. /\ TypeOK /\ AnnouncedOnce
      /\ AnnouncedWasReported /\ LedgerKnows /\ WaitingIsUnclaimed /\ OpenIsPresent
  BY DEF AnnouncedInv, LedgerInv
<1>1. ASSUME NEW k \in Keys, AskReported(k) PROVE LedgerInv' /\ AnnouncedOnce'
  BY <1>1, HandsOverAnnounces DEF AskReported
<1>2. ASSUME NEW k \in Keys, TurnReported(k) PROVE LedgerInv' /\ AnnouncedOnce'
  <2>1. k \notin AskKeys
    BY <1>2, AttentionConstants DEF TurnReported
  <2> QED
    BY <1>2, <2>1, HandsOverAnnounces DEF TurnReported
<1>3. ASSUME NEW ks \in SUBSET Keys, FactsEnd(ks), departed' = departed
      PROVE  LedgerInv' /\ AnnouncedOnce'
  <2>1. \A k \in Keys : facts'[k] = "open" => DwarfOf[k] \notin departed'
    BY <1>0, <1>3 DEF FactsEnd, OpenIsPresent
  <2> QED
    BY <1>3, <2>1, EndAnnounces
<1>4. ASSUME NEW k \in Keys, AskCloses(k) PROVE LedgerInv' /\ AnnouncedOnce'
  BY <1>3, <1>4 DEF AskCloses
<1>5. ASSUME NEW d \in Dwarves, TurnStarts(d) PROVE LedgerInv' /\ AnnouncedOnce'
  BY <1>3, <1>5 DEF TurnStarts, OpenTurns
<1>6. ASSUME NEW d \in Dwarves, Depart(d) PROVE LedgerInv' /\ AnnouncedOnce'
  <2> DEFINE ks == {k \in Keys : facts[k] = "open" /\ DwarfOf[k] = d}
  <2>1. FactsEnd(ks) /\ departed' = departed \cup {d} /\ ks \in SUBSET Keys
    BY <1>6 DEF Depart
  <2>2. \A k \in Keys : facts'[k] = IF k \in ks THEN "ended" ELSE facts[k]
    BY <2>1 DEF FactsEnd
  <2>3. \A k \in Keys : facts'[k] = "open" => DwarfOf[k] \notin departed'
    BY <1>0, <2>1, <2>2 DEF OpenIsPresent
  <2> HIDE DEF ks
  <2> QED
    BY <2>1, <2>3, EndAnnounces
<1>7. ASSUME NEW c \in Clients, NEW report \in Reports, Present(c, report)
      PROVE  LedgerInv' /\ AnnouncedOnce'
  BY <1>7, RecheckAnnounces DEF Present
<1>8. ASSUME NEW c \in Clients, Detach(c) PROVE LedgerInv' /\ AnnouncedOnce'
  BY <1>8, RecheckAnnounces DEF Detach
<1>9. ASSUME NEW on \in BOOLEAN, SetNotifications(on) PROVE LedgerInv' /\ AnnouncedOnce'
  BY <1>9, RecheckAnnounces DEF SetNotifications
<1>10. ASSUME UNCHANGED <<facts, departed, ledger, announced>>, gated' \subseteq gated
       PROVE  LedgerInv' /\ AnnouncedOnce'
  BY <1>0, <1>10 DEF LedgerInv, AnnouncedWasReported, LedgerKnows, WaitingIsUnclaimed,
                     OpenIsPresent, Undecided, AnnouncedOnce
<1>11. ASSUME NEW k \in Keys, TurnTrimmed(k) PROVE LedgerInv' /\ AnnouncedOnce'
  BY <1>10, <1>11 DEF TurnTrimmed, memVars
<1>12. CASE NotifierAttaches
  BY <1>10, <1>12 DEF NotifierAttaches
<1>13. ASSUME NEW kept \in SUBSET Keys, NotifierDetaches(kept)
       PROVE  LedgerInv' /\ AnnouncedOnce'
  BY <1>10, <1>13 DEF NotifierDetaches
<1>14. CASE Reset
  <2>1. /\ UNCHANGED <<facts, departed, gated>>
        /\ \A k \in Keys : ledger'[k] = IF Survives(k) THEN ledger[k] ELSE "none"
        /\ \A k \in Keys : announced'[k] = IF k \in TurnKeys THEN 0 ELSE announced[k]
    BY <1>14 DEF Reset, memVars
  <2>2. ASSUME NEW k \in AskKeys, facts[k] = "open" PROVE Survives(k)
    BY <1>0, <2>2 DEF OpenIsPresent, Survives
  <2>3. ASSUME NEW k \in Keys, announced'[k] > 0, k \in Undecided'
        PROVE  k \in AskKeys /\ facts'[k] = "ended"
    <3>1. k \in AskKeys /\ announced[k] > 0 /\ facts[k] # "unborn"
      BY <1>0, <2>1, <2>3 DEF AnnouncedWasReported
    <3>2. CASE facts[k] = "open"
      <4>1. ledger[k] = "none"
        BY <2>1, <2>2, <2>3, <3>1, <3>2 DEF Undecided
      <4> QED
        BY <1>0, <3>1, <3>2, <4>1 DEF LedgerKnows, Undecided
    <3> QED
      BY <1>0, <2>1, <3>1, <3>2 DEF TypeOK
  <2>4. LedgerKnows'
    BY <2>3 DEF LedgerKnows
  <2>5. WaitingIsUnclaimed'
    BY <1>0, <2>1 DEF WaitingIsUnclaimed, Undecided
  <2>6. AnnouncedWasReported' /\ AnnouncedOnce'
    BY <1>0, <2>1 DEF AnnouncedWasReported, AnnouncedOnce
  <2>7. OpenIsPresent'
    BY <1>0, <2>1 DEF OpenIsPresent
  <2> QED
    BY <2>4, <2>5, <2>6, <2>7 DEF LedgerInv
<1>15. ASSUME NEW k \in Keys, AskSwept(k) PROVE LedgerInv' /\ AnnouncedOnce'
  <2>1. /\ k \in AskKeys /\ facts[k] = "ended"
        /\ UNCHANGED <<facts, departed, gated, announced>>
        /\ \A j \in Keys : ledger'[j] = IF j = k THEN "none" ELSE ledger[j]
    BY <1>0, <1>15 DEF AskSwept, memVars, TypeOK
  <2>2. LedgerKnows'
    BY <1>0, <2>1 DEF LedgerKnows, Undecided
  <2>3. WaitingIsUnclaimed'
    BY <1>0, <2>1 DEF WaitingIsUnclaimed, Undecided
  <2>4. AnnouncedWasReported' /\ OpenIsPresent' /\ AnnouncedOnce'
    BY <1>0, <2>1 DEF AnnouncedWasReported, OpenIsPresent, AnnouncedOnce
  <2> QED
    BY <2>2, <2>3, <2>4 DEF LedgerInv
<1>16. CASE Crash
  BY <1>10, <1>16 DEF Crash
<1>17. CASE Boot
  BY <1>10, <1>17 DEF Boot
<1>18. CASE UNCHANGED vars
  BY <1>10, <1>18 DEF vars, memVars
<1> QED
  BY <1>1, <1>2, <1>4, <1>5, <1>6, <1>7, <1>8, <1>9, <1>11, <1>12, <1>13, <1>14, <1>15,
     <1>16, <1>17, <1>18 DEF Next

\* INV-100 for every instance, with facts reported again, sweeps, crashes and resets: no
\* key is announced twice, a turn's as long as no reset deleted its row.
THEOREM NoKeyIsAnnouncedTwice == Spec => []AnnouncedOnce
<1>1. Init => TypeOK
  BY AttentionInit
<1>2. Init => LedgerInv /\ AnnouncedOnce
  BY DEF Init, LedgerInv, AnnouncedWasReported, LedgerKnows, WaitingIsUnclaimed, OpenIsPresent,
         AnnouncedOnce
<1>3. AnnouncedInv => AnnouncedOnce
  BY DEF AnnouncedInv
<1> QED
  BY <1>1, <1>2, <1>3, AnnouncedStep, PTL DEF Spec, AnnouncedInv

-----------------------------------------------------------------------------
(* What stands is sent *)

SentInv == TypeOK /\ StandingIsSent

\* Every step keeps what stands given to the attached tray process.
LEMMA SentStep == SentInv /\ [Next]_vars => SentInv'
<1> SUFFICES ASSUME SentInv, [Next]_vars PROVE StandingIsSent'
  BY TypeStep DEF SentInv
<1>0. StandingIsSent
  BY DEF SentInv
<1>1. ASSUME NEW ks, NEW on, NEW rs, Decide(ks, on, rs), notifier' = notifier
      PROVE  StandingIsSent'
  BY <1>0, <1>1 DEF Decide, StandingIsSent
<1>2. ASSUME NEW ks, FactsEnd(ks) PROVE StandingIsSent'
  BY <1>0, <1>2 DEF FactsEnd, StandingIsSent
<1>3. ASSUME UNCHANGED <<standing, notifier, sent>> PROVE StandingIsSent'
  BY <1>0, <1>3 DEF StandingIsSent
<1>4. ASSUME NEW k \in Keys, AskReported(k) PROVE StandingIsSent'
  BY <1>1, <1>4 DEF AskReported, HandsOver, OnFact
<1>18. ASSUME NEW k \in Keys, TurnReported(k) PROVE StandingIsSent'
  BY <1>1, <1>18 DEF TurnReported, HandsOver, OnFact
<1>19. ASSUME NEW k \in Keys, TurnTrimmed(k) PROVE StandingIsSent'
  BY <1>3, <1>19 DEF TurnTrimmed, memVars
<1>5. ASSUME NEW k \in Keys, AskCloses(k) PROVE StandingIsSent'
  BY <1>2, <1>5 DEF AskCloses
<1>6. ASSUME NEW d \in Dwarves, TurnStarts(d) PROVE StandingIsSent'
  BY <1>2, <1>6 DEF TurnStarts
<1>7. ASSUME NEW d \in Dwarves, Depart(d) PROVE StandingIsSent'
  BY <1>2, <1>7 DEF Depart
<1>8. ASSUME NEW c \in Clients, NEW report \in Reports, Present(c, report)
      PROVE  StandingIsSent'
  BY <1>1, <1>8 DEF Present
<1>9. ASSUME NEW c \in Clients, Detach(c) PROVE StandingIsSent'
  BY <1>1, <1>9 DEF Detach
<1>10. ASSUME NEW on \in BOOLEAN, SetNotifications(on) PROVE StandingIsSent'
  BY <1>1, <1>10 DEF SetNotifications
<1>11. CASE NotifierAttaches
  BY <1>11 DEF NotifierAttaches, SendsAgain, StandingIsSent
<1>12. ASSUME NEW kept \in SUBSET Keys, NotifierDetaches(kept) PROVE StandingIsSent'
  BY <1>12 DEF NotifierDetaches, StandingIsSent
<1>13. CASE Reset
  BY <1>3, <1>13 DEF Reset, memVars
<1>14. ASSUME NEW k \in Keys, AskSwept(k) PROVE StandingIsSent'
  BY <1>3, <1>14 DEF AskSwept, memVars
<1>15. CASE Crash
  BY <1>15 DEF Crash, StandingIsSent
<1>16. CASE Boot
  BY <1>3, <1>16 DEF Boot
<1>17. CASE UNCHANGED vars
  BY <1>3, <1>17 DEF vars, memVars
<1> QED
  BY <1>4, <1>5, <1>6, <1>7, <1>8, <1>9, <1>10, <1>11, <1>12, <1>13, <1>14, <1>15, <1>16,
     <1>17, <1>18, <1>19 DEF Next

\* S12.C03 for every instance: an attached notifier was given every notification that stands,
\* whichever of the two came first and across Host lives.
THEOREM WhatStandsIsSent == Spec => []StandingIsSent
<1>1. Init => StandingIsSent
  BY DEF Init, StandingIsSent
<1>2. SentInv => StandingIsSent
  BY DEF SentInv
<1> QED
  BY <1>1, <1>2, AttentionInit, SentStep, PTL DEF Spec, SentInv

-----------------------------------------------------------------------------
(* No fact waits behind an open gate, while no reset changes the preference *)

WaitInv == TypeOK /\ NoneWaitsBehindOpenGate

\* A decision leaves waiting, of the keys it is asked for, those the gate holds back.
LEMMA DecideWaits ==
  ASSUME NEW ks, NEW on, NEW rs, Decide(ks, on, rs), NEW k \in gated'
  PROVE  \/ k \in gated /\ k \notin ks
         \/ Gate(k, on, rs) = "gated"
  BY DEF Decide

\* Every step but a reset keeps it.
LEMMA WaitStep == ~CanReset /\ WaitInv /\ [Next]_vars => WaitInv'
<1> SUFFICES ASSUME ~CanReset, WaitInv, [Next]_vars PROVE NoneWaitsBehindOpenGate'
  BY TypeStep DEF WaitInv
<1>0. TypeOK /\ NoneWaitsBehindOpenGate
  BY DEF WaitInv
<1>1. ASSUME NEW k \in Keys, AskReported(k) \/ TurnReported(k)
      PROVE  NoneWaitsBehindOpenGate'
  <2>1. /\ Decide({k} \cap Undecided, notificationsOn, reports)
        /\ UNCHANGED <<notificationsOn, reports>>
    BY <1>1 DEF AskReported, TurnReported, HandsOver, OnFact
  <2> QED
    BY <1>0, <2>1, DecideWaits DEF NoneWaitsBehindOpenGate, Gate, Attached, OnScreen
<1>2. ASSUME NEW ks, FactsEnd(ks) PROVE NoneWaitsBehindOpenGate'
  <2>1. \A k \in gated' : k \in gated
    BY <1>0, <1>2, FactsEndWaiting
  <2>2. UNCHANGED <<notificationsOn, reports>>
    BY <1>2 DEF FactsEnd
  <2> QED
    BY <1>0, <2>1, <2>2 DEF NoneWaitsBehindOpenGate, Gate, Attached, OnScreen
<1>3. ASSUME Decide(Rechecked, notificationsOn', reports') PROVE NoneWaitsBehindOpenGate'
  <2>1. \A k \in gated' : Gate(k, notificationsOn', reports') = "gated"
    BY <1>3, DecideWaits DEF Rechecked
  <2> QED
    BY <2>1 DEF NoneWaitsBehindOpenGate, Gate, Attached, OnScreen
<1>4. ASSUME UNCHANGED <<notificationsOn, reports, gated>> PROVE NoneWaitsBehindOpenGate'
  BY <1>0, <1>4 DEF NoneWaitsBehindOpenGate, Gate, Attached, OnScreen
<1>5. ASSUME NEW k \in Keys, AskCloses(k) PROVE NoneWaitsBehindOpenGate'
  BY <1>2, <1>5 DEF AskCloses
<1>6. ASSUME NEW d \in Dwarves, TurnStarts(d) PROVE NoneWaitsBehindOpenGate'
  BY <1>2, <1>6 DEF TurnStarts
<1>7. ASSUME NEW d \in Dwarves, Depart(d) PROVE NoneWaitsBehindOpenGate'
  BY <1>2, <1>7 DEF Depart
<1>8. ASSUME NEW c \in Clients, NEW report \in Reports, Present(c, report)
      PROVE  NoneWaitsBehindOpenGate'
  BY <1>3, <1>8 DEF Present
<1>9. ASSUME NEW c \in Clients, Detach(c) PROVE NoneWaitsBehindOpenGate'
  BY <1>3, <1>9 DEF Detach
<1>10. ASSUME NEW on \in BOOLEAN, SetNotifications(on) PROVE NoneWaitsBehindOpenGate'
  BY <1>3, <1>10 DEF SetNotifications
<1>11. CASE NotifierAttaches
  BY <1>4, <1>11 DEF NotifierAttaches
<1>12. ASSUME NEW kept \in SUBSET Keys, NotifierDetaches(kept)
       PROVE  NoneWaitsBehindOpenGate'
  BY <1>4, <1>12 DEF NotifierDetaches
<1>13. CASE Reset
  BY <1>13 DEF Reset
<1>14. ASSUME NEW k \in Keys, AskSwept(k) PROVE NoneWaitsBehindOpenGate'
  BY <1>4, <1>14 DEF AskSwept, memVars
<1>15. CASE Crash
  BY <1>15 DEF Crash, NoneWaitsBehindOpenGate
<1>16. CASE Boot
  BY <1>4, <1>16 DEF Boot
<1>17. CASE UNCHANGED vars
  BY <1>4, <1>17 DEF vars, memVars
<1>18. ASSUME NEW k \in Keys, TurnTrimmed(k) PROVE NoneWaitsBehindOpenGate'
  BY <1>4, <1>18 DEF TurnTrimmed, memVars
<1> QED
  BY <1>1, <1>5, <1>6, <1>7, <1>8, <1>9, <1>10, <1>11, <1>12, <1>13, <1>14, <1>15, <1>16,
     <1>17, <1>18 DEF Next

\* S17.03 for every instance without resets: whatever opened the gate decided every fact
\* that waited for it.
THEOREM NoFactWaitsBehindOpenGate ==
  ASSUME ~CanReset
  PROVE  Spec => []NoneWaitsBehindOpenGate
<1>1. Init => NoneWaitsBehindOpenGate
  BY DEF Init, NoneWaitsBehindOpenGate
<1>2. WaitInv => NoneWaitsBehindOpenGate
  BY DEF WaitInv
<1>3. WaitInv /\ [Next]_vars => WaitInv'
  BY WaitStep
<1> QED
  BY <1>1, <1>2, <1>3, AttentionInit, PTL DEF Spec, WaitInv

-----------------------------------------------------------------------------
(* Only an open fact stands, while no reset deletes a claimed key *)

OpenInv == AnnouncedInv /\ StandingInv

\* What stands after a decision stood before it or is claimed by it.
LEMMA DecideStands ==
  ASSUME TypeOK, NEW ks \in SUBSET Keys, NEW on, NEW rs, Decide(ks, on, rs),
         NEW k \in standing'
  PROVE  /\ k \in standing \/ k \in ks
         /\ k \in standing /\ Claimed(k) => Claimed(k)'
         /\ k \notin standing => Claimed(k)'
<1>1. k \in Keys
  BY DEF Decide, TypeOK
<1>2. ledger'[k] = IF k \in ks /\ Gate(k, on, rs) # "gated" THEN Gate(k, on, rs) ELSE ledger[k]
  BY <1>1 DEF Decide
<1>3. k \in standing \/ (k \in ks /\ Gate(k, on, rs) = "emitted")
  BY DEF Decide
<1>4. Gate(k, on, rs) \in {"suppressed", "gated", "emitted"}
  BY GateAnswers
<1> QED
  BY <1>2, <1>3, <1>4 DEF Claimed

\* What stands after facts ended stood before, is of none of them, and keeps its key.
LEMMA FactsEndStands ==
  ASSUME OpenInv, NEW ks, FactsEnd(ks), NEW k \in standing'
  PROVE  facts'[k] = "open" /\ k \in handed' /\ Claimed(k)'
<1>1. TypeOK /\ StandingInv
  BY DEF OpenInv, AnnouncedInv
<1>2. k \in Keys /\ k \in standing /\ facts[k] = "open" /\ k \in handed /\ Claimed(k)
  BY <1>1 DEF FactsEnd, StandingInv, TypeOK
<1>3. k \notin ks
  BY <1>2 DEF FactsEnd, Ending, WithdrawsNow
<1> QED
  BY <1>2, <1>3 DEF FactsEnd, Ending, Claimed

\* Every step but a reset keeps the invariant.
LEMMA OpenStep == ~CanReset /\ OpenInv /\ [Next]_vars => OpenInv'
<1> SUFFICES ASSUME ~CanReset, OpenInv, [Next]_vars PROVE StandingInv'
  BY AnnouncedStep DEF OpenInv
<1>0. TypeOK /\ StandingInv /\ WaitingIsUnclaimed
  BY DEF OpenInv, AnnouncedInv, LedgerInv
<1>1. ASSUME NEW k \in Keys, AskReported(k) \/ TurnReported(k) PROVE StandingInv'
  <2> DEFINE ks == {k} \cap Undecided
  <2>1. /\ facts' = [facts EXCEPT ![k] = "open"]
        /\ handed' = handed \cup {k}
        /\ Decide(ks, notificationsOn, reports)
    BY <1>1 DEF AskReported, TurnReported, HandsOver, OnFact
  <2>4. ks \in SUBSET Keys /\ \A j \in ks : j = k
    OBVIOUS
  <2> HIDE DEF ks
  <2>2. ASSUME NEW j \in standing'
        PROVE  /\ j \in standing \/ j = k
               /\ j \in standing /\ Claimed(j) => Claimed(j)'
               /\ j \notin standing => Claimed(j)'
    BY <1>0, <2>1, <2>4, DecideStands
  <2>3. standing \subseteq Keys /\ facts \in [Keys -> {"unborn", "open", "ended"}]
    BY <1>0 DEF TypeOK
  <2> QED
    BY <1>0, <2>1, <2>2, <2>3 DEF StandingInv
<1>2. ASSUME NEW ks, FactsEnd(ks) PROVE StandingInv'
  BY <1>2, FactsEndStands DEF StandingInv
<1>3. ASSUME NEW on, NEW rs, Decide(Rechecked, on, rs), UNCHANGED <<facts, handed>>
      PROVE  StandingInv'
  <2>1. gated \in SUBSET Keys /\ gated \subseteq handed
    BY <1>0 DEF TypeOK
  <2>2. ASSUME NEW j \in standing'
        PROVE  /\ j \in standing \/ j \in gated
               /\ j \in standing /\ Claimed(j) => Claimed(j)'
               /\ j \notin standing => Claimed(j)'
    BY <1>0, <1>3, <2>1, DecideStands DEF Rechecked
  <2> QED
    BY <1>0, <1>3, <2>1, <2>2 DEF StandingInv, WaitingIsUnclaimed
<1>4. ASSUME UNCHANGED <<facts, handed, ledger>>, standing' = standing PROVE StandingInv'
  BY <1>0, <1>4 DEF StandingInv, Claimed
<1>5. ASSUME NEW k \in Keys, AskCloses(k) PROVE StandingInv'
  BY <1>2, <1>5 DEF AskCloses
<1>6. ASSUME NEW d \in Dwarves, TurnStarts(d) PROVE StandingInv'
  BY <1>2, <1>6 DEF TurnStarts
<1>7. ASSUME NEW d \in Dwarves, Depart(d) PROVE StandingInv'
  BY <1>2, <1>7 DEF Depart
<1>8. ASSUME NEW c \in Clients, NEW report \in Reports, Present(c, report)
      PROVE  StandingInv'
  BY <1>3, <1>8 DEF Present
<1>9. ASSUME NEW c \in Clients, Detach(c) PROVE StandingInv'
  BY <1>3, <1>9 DEF Detach
<1>10. ASSUME NEW on \in BOOLEAN, SetNotifications(on) PROVE StandingInv'
  BY <1>3, <1>10 DEF SetNotifications
<1>11. CASE NotifierAttaches
  BY <1>4, <1>11 DEF NotifierAttaches
<1>12. ASSUME NEW kept \in SUBSET Keys, NotifierDetaches(kept) PROVE StandingInv'
  BY <1>4, <1>12 DEF NotifierDetaches
<1>13. CASE Reset
  BY <1>13 DEF Reset
<1>14. ASSUME NEW k \in Keys, AskSwept(k) PROVE StandingInv'
  <2>1. /\ facts[k] = "ended" /\ ledger' = [ledger EXCEPT ![k] = "none"]
        /\ UNCHANGED <<facts, handed, standing>>
    BY <1>14 DEF AskSwept, memVars
  <2>2. standing \subseteq Keys /\ k \notin standing
    BY <1>0, <2>1 DEF TypeOK, StandingInv
  <2> QED
    BY <1>0, <2>1, <2>2 DEF StandingInv, Claimed, TypeOK
<1>15. CASE Crash
  BY <1>15 DEF Crash, StandingInv
<1>16. CASE Boot
  BY <1>4, <1>16 DEF Boot
<1>17. CASE UNCHANGED vars
  BY <1>4, <1>17 DEF vars, memVars
<1>18. ASSUME NEW k \in Keys, TurnTrimmed(k) PROVE StandingInv'
  BY <1>4, <1>18 DEF TurnTrimmed, memVars
<1> QED
  BY <1>1, <1>5, <1>6, <1>7, <1>8, <1>9, <1>10, <1>11, <1>12, <1>13, <1>14, <1>15, <1>16,
     <1>17, <1>18 DEF Next

\* For every instance without resets: a notification stands, and is sent again, only
\* while its fact is open.
THEOREM OnlyOpenFactsStand ==
  ASSUME ~CanReset
  PROVE  Spec => []StandingIsOpen
<1>1. Init => LedgerInv /\ AnnouncedOnce /\ StandingInv
  BY DEF Init, LedgerInv, AnnouncedWasReported, LedgerKnows, WaitingIsUnclaimed, OpenIsPresent,
         AnnouncedOnce, StandingInv
<1>2. OpenInv => StandingIsOpen
  BY DEF OpenInv, StandingInv, StandingIsOpen
<1>3. OpenInv /\ [Next]_vars => OpenInv'
  BY OpenStep
<1> QED
  BY <1>1, <1>2, <1>3, AttentionInit, PTL DEF Spec, OpenInv, AnnouncedInv
=============================================================================
