---------------------------- MODULE AttentionPolicy ----------------------------
(***************************************************************************)
(* The attention policy of the Host (attention/application/                *)
(* attentionPolicy.ts): which facts (a dwarf's ask, a finished turn)       *)
(* become a system notification, and until when it stands.  It is driven   *)
(* by the routes (wiring/routes/askingRoutes.ts, cut1Routes.ts), keeps its *)
(* claimed keys in the database and everything else in memory, and sends   *)
(* them to the one notifier connection, whose tray process draws them.     *)
(*                                                                         *)
(* A key names one fact.  The policy may be told of a fact again: of an    *)
(* open ask, which its tests do, and of a turn end that is read again      *)
(* after the log of turn ends has let it go.  What keeps it from being     *)
(* announced again is the ledger of claimed keys.  The rows of             *)
(* attention_announced (the carry-over) have no writer in the code, so     *)
(* that table is always empty and its reads are left out.                  *)
(***************************************************************************)
EXTENDS Integers, FiniteSets

CONSTANTS
  Dwarves, Mines,
  AskKeys, TurnKeys,   \* the keys of ask facts and of finished-turn facts
  DwarfOf, MineOf,     \* a key's dwarf, a dwarf's mine
  Clients,             \* the ui connections
  MaxSeq,              \* bound on a client's presence reports
  CanCrash, CanReset   \* which faults may happen

Keys == AskKeys \cup TurnKeys

ASSUME AttentionConstants ==
  /\ AskKeys \cap TurnKeys = {}
  /\ DwarfOf \in [Keys -> Dwarves]
  /\ MineOf \in [Dwarves -> Mines]
  /\ MaxSeq \in Nat

VARIABLES
  \* the world the routes report from
  facts,           \* each key's fact: "unborn", "open" (reported, not ended since) or "ended"
  departed,        \* the dwarves that left
  \* the database
  ledger,          \* attention_keys: "none", "emitted", "suppressed" or "withdrawn"
  logged,          \* the turn ends in dwarf_lifecycle_facts
  notificationsOn, \* the preference systemNotificationsOn
  \* the memory of one Host life
  up,
  handed,          \* the routes' keyOf and keysOf: the keys handed to onFact
  gated,           \* the open facts the gate holds back
  standing,        \* the emitted notifications whose fact still stands
  reports,         \* each attached client's last presence, or NoReport
  notifier,        \* a notifier connection is attached
  \* the tray process, and history
  sent,           \* the notifications the tray process was given
  announced        \* how often each key's AttentionNotified was published; a turn's,
                   \* since a reset last deleted its row

memVars == <<up, handed, gated, standing, reports, notifier>>
vars == <<facts, departed, ledger, logged, notificationsOn, memVars, sent, announced>>

NoReport == [seq |-> 0, onScreen |-> {}]

Reports == [seq: 0..MaxSeq, onScreen: SUBSET Mines]

Attached(rs) == {c \in Clients : rs[c].seq > 0}

Claimed(k) == ledger[k] \in {"emitted", "suppressed"}

-----------------------------------------------------------------------------
(* The gate: level3Gate over the union of the attached clients' reports *)

OnScreen(k, rs) == \E c \in Clients : MineOf[DwarfOf[k]] \in rs[c].onScreen

Gate(k, on, rs) ==
  IF k \in TurnKeys /\ Attached(rs) = {} THEN "suppressed"
  ELSE IF ~on \/ OnScreen(k, rs) THEN "gated"
  ELSE "emitted"

\* decide, for the keys ks at once: claim what the gate decides, keep the rest gated,
\* then publish and draw what was emitted.
Decide(ks, on, rs) ==
  LET emitted == {k \in ks : Gate(k, on, rs) = "emitted"}
  IN
  /\ ledger' = [k \in Keys |->
       IF k \in ks /\ Gate(k, on, rs) # "gated" THEN Gate(k, on, rs) ELSE ledger[k]]
  /\ gated' = (gated \ ks) \cup {k \in ks : Gate(k, on, rs) = "gated"}
  /\ standing' = standing \cup emitted
  /\ sent' = IF notifier THEN sent \cup emitted ELSE sent
  /\ announced' = [k \in Keys |-> IF k \in emitted THEN announced[k] + 1 ELSE announced[k]]

-----------------------------------------------------------------------------
Init ==
  /\ facts = [k \in Keys |-> "unborn"]
  /\ departed = {}
  /\ ledger = [k \in Keys |-> "none"]
  /\ logged = {}
  /\ notificationsOn \in BOOLEAN
  /\ up = TRUE
  /\ handed = {}
  /\ gated = {}
  /\ standing = {}
  /\ reports = [c \in Clients |-> NoReport]
  /\ notifier = FALSE
  /\ sent = {}
  /\ announced = [k \in Keys |-> 0]

-----------------------------------------------------------------------------
(* onFact *)

\* With a fault: the withdrawn keys are not read as claimed.
UndecidedOrEnded == {k \in Keys : ~Claimed(k)}

\* emitted(): every row of attention_keys is a decided key, a withdrawn one too.
Undecided == {k \in Keys : ledger[k] = "none"}

\* A key already decided is refused (already-decided), and was not waiting.
OnFact(k) == Decide({k} \cap Undecided, notificationsOn, reports)

\* The routes hand over a fact of a dwarf that is present, and remember its key until it
\* ends, whatever the policy makes of it.
HandsOver(k) ==
  /\ DwarfOf[k] \notin departed
  /\ facts' = [facts EXCEPT ![k] = "open"]
  /\ handed' = handed \cup {k}
  /\ OnFact(k)

\* AskOpened.  The broker announces an ask when it opens; that the policy hears of an open
\* ask again, before or after a reset, is what its tests take it to bear
\* (attentionPolicy.test.ts:115, resetAttention.flow.test.ts:176).
AskReported(k) ==
  /\ up
  /\ k \in AskKeys
  /\ facts[k] # "ended"
  /\ HandsOver(k)
  /\ UNCHANGED <<departed, logged, notificationsOn, up, reports, notifier>>

\* recordTurnEnd: a driver or a transcript reports a turn's end, once or again.  The log
\* publishes TurnEnded of an end it does not hold.
TurnReported(k) ==
  /\ up
  /\ k \in TurnKeys
  /\ k \notin logged
  /\ logged' = logged \cup {k}
  /\ HandsOver(k)
  /\ UNCHANGED <<departed, notificationsOn, up, reports, notifier>>

\* The ends of 50 newer turns trim a turn's row.  Turns that are no fact (inferred or
\* cancelled) count and are not told apart, so the row of any turn may go.
TurnTrimmed(k) ==
  /\ up
  /\ k \in logged
  /\ logged' = logged \ {k}
  /\ UNCHANGED <<facts, departed, ledger, notificationsOn, memVars, sent, announced>>

-----------------------------------------------------------------------------
(* onFactEnded *)

\* The keys the routes end: the facts ks of this Host life.
Ending(ks) == ks \cap handed

\* The keys a withdrawal takes off the tray: those the ledger withdraws now, and
\* the gated ones, which claimed no key.
WithdrawsGated(ks) == {k \in ks : k \in gated}

WithdrawsNow(ks) == {k \in ks : Claimed(k) \/ k \in gated}

\* The facts ks end; the routes end the keys they remember handing over.
FactsEnd(ks) ==
  LET ending == Ending(ks)
      leaving == WithdrawsNow(ending)
  IN
  /\ facts' = [k \in Keys |-> IF k \in ks THEN "ended" ELSE facts[k]]
  /\ handed' = handed \ ending
  /\ ledger' = [k \in Keys |-> IF k \in ending /\ Claimed(k) THEN "withdrawn" ELSE ledger[k]]
  /\ gated' = gated \ leaving
  /\ standing' = standing \ leaving
  /\ sent' = IF notifier THEN sent \ leaving ELSE sent
  /\ UNCHANGED <<logged, notificationsOn, up, reports, notifier, announced>>

AskCloses(k) ==
  /\ up
  /\ k \in AskKeys
  /\ facts[k] = "open"
  /\ FactsEnd({k})
  /\ UNCHANGED departed

\* The next turn of a dwarf ends its finished-turn facts.
OpenTurns(d) == {k \in TurnKeys : facts[k] = "open" /\ DwarfOf[k] = d}

TurnStarts(d) ==
  /\ up
  /\ OpenTurns(d) # {}
  /\ FactsEnd(OpenTurns(d))
  /\ UNCHANGED departed

\* DwarfDeparted: its asks close by death and its turn keys end.
Depart(d) ==
  /\ up
  /\ d \notin departed
  /\ departed' = departed \cup {d}
  /\ FactsEnd({k \in Keys : facts[k] = "open" /\ DwarfOf[k] = d})

-----------------------------------------------------------------------------
(* The gate changes: recheckGated *)

\* Only an open fact that waits is decided again.
RecheckedNone == {}

Rechecked == gated

\* presenceChanged: a newer report of a client; an older one changes nothing.
Present(c, report) ==
  LET seen == [reports EXCEPT ![c] = report]
  IN
  /\ up
  /\ report.seq > reports[c].seq
  /\ reports' = seen
  /\ Decide(Rechecked, notificationsOn, seen)
  /\ UNCHANGED <<facts, departed, logged, notificationsOn, up, handed, notifier>>

\* A ui connection left the registry: 'detached'.
Detach(c) ==
  LET seen == [reports EXCEPT ![c] = NoReport]
  IN
  /\ up
  /\ reports[c] # NoReport
  /\ reports' = seen
  /\ Decide(Rechecked, notificationsOn, seen)
  /\ UNCHANGED <<facts, departed, logged, notificationsOn, up, handed, notifier>>

\* HostPreferencesChanged routed to preferencesChanged.
SetNotifications(on) ==
  /\ up
  /\ on # notificationsOn
  /\ notificationsOn' = on
  /\ Decide(Rechecked, on, reports)
  /\ UNCHANGED <<facts, departed, logged, up, handed, reports, notifier>>

-----------------------------------------------------------------------------
(* The notifier connection of the tray process *)

\* The notifier has no replay: an attach sends every standing notification again.
SendsNothing == {}

SendsAgain == standing

NotifierAttaches ==
  /\ up
  /\ ~notifier
  /\ notifier' = TRUE
  /\ sent' = sent \cup SendsAgain
  /\ UNCHANGED <<facts, departed, ledger, logged, notificationsOn, up, handed, gated,
                 standing, reports, announced>>

\* The connection is lost; the tray process keeps what it was given, unless it died.
NotifierDetaches(kept) ==
  /\ notifier
  /\ kept \in {sent, {}}
  /\ notifier' = FALSE
  /\ sent' = kept
  /\ UNCHANGED <<facts, departed, ledger, logged, notificationsOn, up, handed, gated,
                 standing, reports, announced>>

-----------------------------------------------------------------------------
(* Reset metrics, a Host stop, and the next boot *)

\* AttentionResetStep: a key survives when it names a live ask of a present dwarf.
Survives(k) == k \in AskKeys /\ facts[k] = "open" /\ DwarfOf[k] \notin departed

\* The one db transaction also gives host_preferences its defaults, and publishes no
\* HostPreferencesChanged: nothing is decided again.  The turn ends of present dwarves stay
\* in their log.
Reset ==
  /\ CanReset /\ up
  /\ ledger' = [k \in Keys |-> IF Survives(k) THEN ledger[k] ELSE "none"]
  /\ notificationsOn' = TRUE
  /\ announced' = [k \in Keys |-> IF k \in TurnKeys THEN 0 ELSE announced[k]]
  /\ UNCHANGED <<facts, departed, logged, memVars, sent>>

\* The sweep deletes a closed ask, and with it its key (ON DELETE CASCADE).
AskSwept(k) ==
  /\ up
  /\ k \in AskKeys
  /\ facts[k] = "ended"
  /\ ledger[k] # "none"
  /\ ledger' = [ledger EXCEPT ![k] = "none"]
  /\ UNCHANGED <<facts, departed, logged, notificationsOn, memVars, sent, announced>>

Crash ==
  /\ CanCrash /\ up
  /\ up' = FALSE
  /\ handed' = {}
  /\ gated' = {}
  /\ standing' = {}
  /\ reports' = [c \in Clients |-> NoReport]
  /\ notifier' = FALSE
  /\ UNCHANGED <<facts, departed, ledger, logged, notificationsOn, sent, announced>>

\* The routes replay the open asks into crew's memory, not into attention.
Boot ==
  /\ ~up
  /\ up' = TRUE
  /\ UNCHANGED <<facts, departed, ledger, logged, notificationsOn, handed, gated, standing,
                 reports, notifier, sent, announced>>

-----------------------------------------------------------------------------
Next ==
  \/ \E k \in Keys : AskReported(k)
  \/ \E k \in Keys : TurnReported(k)
  \/ \E k \in Keys : TurnTrimmed(k)
  \/ \E k \in Keys : AskCloses(k)
  \/ \E d \in Dwarves : TurnStarts(d)
  \/ \E d \in Dwarves : Depart(d)
  \/ \E c \in Clients, report \in Reports : Present(c, report)
  \/ \E c \in Clients : Detach(c)
  \/ \E on \in BOOLEAN : SetNotifications(on)
  \/ NotifierAttaches
  \/ \E kept \in SUBSET Keys : NotifierDetaches(kept)
  \/ Reset
  \/ \E k \in Keys : AskSwept(k)
  \/ Crash
  \/ Boot

Spec == Init /\ [][Next]_vars

-----------------------------------------------------------------------------
(* Properties *)

\* Every variable keeps its type.
TypeOK ==
  /\ facts \in [Keys -> {"unborn", "open", "ended"}]
  /\ departed \subseteq Dwarves
  /\ ledger \in [Keys -> {"none", "emitted", "suppressed", "withdrawn"}]
  /\ logged \subseteq TurnKeys
  /\ notificationsOn \in BOOLEAN
  /\ up \in BOOLEAN
  /\ handed \subseteq Keys
  /\ gated \subseteq handed
  /\ standing \subseteq Keys
  /\ reports \in [Clients -> Reports]
  /\ notifier \in BOOLEAN
  /\ sent \subseteq Keys
  /\ announced \in [Keys -> Nat]

\* S17.03: no fact waits behind an open gate.  Whatever opened it, a client leaving, a
\* mine leaving the screen or the preference, decided every fact that waited.  A reset
\* rewrites the preference and decides nothing: this is about the time without one.
NoneWaitsBehindOpenGate ==
  \A k \in gated : Gate(k, notificationsOn, reports) = "gated"

\* INV-100: a key is announced at most once, however often its fact is reported, across
\* gates, the end of the fact, the log's trimming, sweeps and Host lives.  An ask is
\* announced once across resets too (resetAttention.flow.test.ts:161); a reset deletes the
\* row of a turn, and only after one may that turn be announced again.
AnnouncedOnce == \A k \in Keys : announced[k] <= 1

\* A notification stands, and is sent to each notifier that attaches, only while its
\* fact is open.  A reset deletes the rows withdrawals are read from: this is about the
\* time without one.
StandingIsOpen == \A k \in standing : facts[k] = "open"

\* A notification that stands was given to the attached tray process, even
\* when it was decided, or the tray process was started, while none was attached.
StandingIsSent == notifier => standing \subseteq sent

=============================================================================
