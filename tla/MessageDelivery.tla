--------------------------- MODULE MessageDelivery ---------------------------
(***************************************************************************)
(* A person's messages to one dwarf: the Host command and its hand-over    *)
(* (conversation/application/send.ts), Retry (retry.ts), the boot          *)
(* reconcile of the rows a stopped Host left sending                       *)
(* (conversation/index.ts), the rows (adapters/SqliteMessageLog.ts), and   *)
(* the driver session that takes the turns (suppliers/adapters/drivers).   *)
(*                                                                         *)
(* The driver's events reach the sender through an asynchronous channel,   *)
(* so the sender learns of a turn end after the driver began the next      *)
(* turn; a receipt reaches it after the driver answered.  Two dwarves      *)
(* share nothing here, so one is enough.                                   *)
(***************************************************************************)
EXTENDS Naturals, FiniteSets, Sequences, DeliveryRules

CONSTANTS
  Msgs,            \* the messages the person may send
  Drivers,         \* the drivers the session may run on
  MaxAttempts      \* bound on the hand-overs of one message

\* The kinds of driver: what a receipt says of a message, and when.
DriverKinds == {"codex", "acp", "claude"}

WatchedPerDwarf == 50

ASSUME DeliveryAssumption ==
  /\ Drivers \subseteq DriverKinds
  /\ MaxAttempts \in Nat \ {0}
  /\ IsFiniteSet(Msgs) /\ Cardinality(Msgs) <= WatchedPerDwarf
  /\ "launch" \notin Msgs

VARIABLES
  driver,          \* the kind of the session's driver
  row,             \* the database: each message's row and delivery
  \* the memory of one Host life
  up,              \* whether a Host runs
  track,           \* the sender's maps, by message
  call,            \* each message's hand-over: nothing, queued, called or answered
  listed,          \* the rows the open boot reconcile watches
  \* the driver session
  session,         \* "live", "exited", "departed" once the Host heard, "down" with the Host
  turn,            \* the turn the driver holds open
  turnCount,       \* the turns the session started so far
  queue,           \* the messages the driver queued behind its open turn
  events,          \* the driver events the Host has not taken yet
  \* history
  taken,           \* the messages a provider turn began with
  worked,          \* those whose turn wrote something or ended with work done
  handed,          \* the times each message was given to the driver
  unread           \* the rows a boot found sending and did not read

memory == <<up, track, call, listed>>
driverVars == <<driver, session, turn, turnCount, queue, events>>
history == <<taken, worked, handed, unread>>
vars == <<row, memory, driverVars, history>>

-----------------------------------------------------------------------------
(* Data *)

Absent == Delivery("absent", "none", 0, FALSE)
Deleted(d) == Delivery("deleted", "none", d.attempts, FALSE)

NoTurn == [n |-> 0, msg |-> "launch", begun |-> FALSE]

TurnAt(n, m, begun) == [n |-> n, msg |-> m, begun |-> begun]

\* The key a turn end carries, and the bare number an ACP receipt names the turn by.
Key(n) == <<"turn", n>>
Number(n) == <<"number", n>>
NoKey == <<"none", 0>>

Evidence == IF driver = "claude" THEN "transcript-match" ELSE "turn-id"

Receipt(held, key) == [t |-> "ok", held |-> held, key |-> key]
Failure(kind) == [t |-> kind]

NoCall == [t |-> "none"]
Queued == [t |-> "queued"]
Called(n) == [t |-> "called", n |-> n]

\* What the sender keeps of one message.
Track(delivery, flight, ends, closed, held, watch, echo, live) ==
  [delivery |-> delivery, flight |-> flight, ends |-> ends, closed |-> closed,
   held |-> held, watch |-> watch, echo |-> echo, live |-> live]

NotHeld == [t |-> "none"]

Forgotten == Track(Absent, FALSE, {}, FALSE, NotHeld, NoKey, "none", FALSE)

\* track(): the maps of a delivery just put in sending.
Tracked(d) == Track(d, TRUE, {}, FALSE, NotHeld, NoKey, "waiting", FALSE)

\* A turn end, and whose turn it was, which the event does not carry.
Ended(o, work) == [t |-> "ended", n |-> o.n, msg |-> o.msg, work |-> work]
Echo(m) == [t |-> "echo", msg |-> m]
Reply == [t |-> "reply"]
Exited == [t |-> "exited"]

Sending(m) == row[m].phase = "sending"

Settled(d) == d.phase \in {"delivered", "reacted", "failed"}

\* recipients.canReceiveMessages: until the Host hears that the session is gone.
CanReceive == session # "departed"

-----------------------------------------------------------------------------
(* One message in the hands of the sender: its row and what is kept of it *)

State(d, t) == [row |-> d, track |-> t]

Forget(s) == State(s.row, Forgotten)

\* With a fault: a row in any phase takes the move of a delivery read before.
WritableAnyway(d, fact) == d.phase # "absent" /\ fact.t # "none"

\* settleDelivery refuses a row that is not in the phase the step leaves.
Writable(d, fact) ==
  d.phase = (IF fact.t = "activity-correlated" THEN "delivered" ELSE "sending")

\* move(): one step of machine 7, stored; a row that went away ends the tracking.
Moves(s, fact) == /\ s.track.delivery.phase # "absent"
                  /\ Advance(s.track.delivery, fact).phase # "refused"
                  /\ Writable(s.row, fact)

Move(s, fact) ==
  LET next == Advance(s.track.delivery, fact) IN
  IF s.track.delivery.phase = "absent" \/ next.phase = "refused" THEN s
  ELSE IF ~Writable(s.row, fact) THEN Forget(s)
  ELSE IF next.phase = "failed" THEN State(next, Forgotten)
  ELSE State(next, [s.track EXCEPT !.delivery = next])

\* react(): the double check mark, then the tracking ends.
React(s, evidence) == Forget(Move(s, Correlated(evidence)))

\* watchTranscript(): the echo and the reply may have come before the receipt.
WatchTranscript(s) ==
  CASE s.track.echo = "none" -> s
    [] s.track.echo = "replied" -> React(s, "transcript-match")
    [] OTHER -> State(s.row, [s.track EXCEPT !.live = TRUE, !.watch = <<"transcript", 0>>])

\* With a fault: the end of the turn reacts without work done.
OwnEndAlways(s, own) == IF own.n > 0 THEN React(s, "turn-id") ELSE Forget(s)

\* The end of the turn that consumed the message was seen already: work done reacts.
OwnEnd(s, own) == IF own.work THEN React(s, "turn-id") ELSE Forget(s)

\* accept(): delivered, then what proves that the dwarf acted on it.
Accept(s, receipt, ends) ==
  LET r == Move(s, Accepted)
      own == {e \in ends : Key(e.n) = receipt.key} IN
  IF ~Moves(s, Accepted) THEN r
  ELSE CASE Evidence = "transcript-match" -> WatchTranscript(r)
    [] Evidence = "turn-id" /\ receipt.key = NoKey -> Forget(r)
    [] Evidence = "turn-id" /\ receipt.key # NoKey /\ own = {} ->
         State(r.row, [r.track EXCEPT !.watch = receipt.key, !.echo = "none"])
    [] OTHER -> OwnEnd(r, CHOOSE e \in own : TRUE)

\* A held receipt: its session ended meanwhile, or the turn it waits behind did.
Hold(s, receipt, ends) ==
  LET r == Move(s, Held)
      blocking == {e \in ends : e.work /\ Key(e.n) # receipt.key} IN
  IF ~Moves(s, Held) THEN r
  ELSE IF blocking # {} THEN Accept(r, receipt, ends)
  ELSE State(r.row, [r.track EXCEPT !.held = receipt])

\* With a fault: a session that closed before the receipt of a held message is missed.
AnsweredUnaware(s, answer) ==
  LET r == State(s.row, [s.track EXCEPT !.flight = FALSE, !.ends = {}, !.closed = FALSE]) IN
  IF ~s.track.flight THEN s
  ELSE CASE answer.t = "session-closed" -> Move(r, SessionClosed)
    [] answer.t = "channel-error" -> Move(r, ChannelError)
    [] answer.t = "ok" /\ ~answer.held -> Accept(r, answer, s.track.ends)
    [] OTHER -> Hold(r, answer, s.track.ends)

\* handOver(), once the driver answered.
Answered(s, answer) ==
  LET ends == s.track.ends
      closed == s.track.closed
      r == State(s.row, [s.track EXCEPT !.flight = FALSE, !.ends = {}, !.closed = FALSE]) IN
  IF ~s.track.flight THEN s
  ELSE CASE answer.t = "session-closed" -> Move(r, SessionClosed)
    [] answer.t = "channel-error" -> Move(r, ChannelError)
    [] answer.t = "ok" /\ ~answer.held -> Accept(r, answer, ends)
    [] answer.t = "ok" /\ answer.held /\ closed -> Move(r, SessionClosed)
    [] OTHER -> Hold(r, answer, ends)

\* turnEnded(): kept for a receipt in flight, releases what is held, reacts to its own.
TurnEnded(s, end) ==
  LET t == s.track
      seen == IF t.flight THEN State(s.row, [t EXCEPT !.ends = @ \cup {end}]) ELSE s IN
  IF t.held.t = "ok" /\ end.work
  THEN Accept(State(s.row, [t EXCEPT !.held = NotHeld]), t.held, {end})
  ELSE IF t.watch = Key(end.n) THEN OwnEnd(seen, end) ELSE seen

\* sessionEnded(): a held message fails, one in flight learns it, a watched one is let go.
SessionEnded(s) ==
  LET t == [s.track EXCEPT !.closed = s.track.flight] IN
  IF t.held.t = "ok" THEN Move(State(s.row, [t EXCEPT !.held = NotHeld]), SessionClosed)
  ELSE IF t.watch # NoKey THEN Forget(s) ELSE State(s.row, t)

\* entriesIngested(): the echo of a message, known or not yet by its receipt.
Echoed(s, m, e) ==
  IF e.msg = m /\ s.track.echo = "waiting"
  THEN State(s.row, [s.track EXCEPT !.echo = "seen"]) ELSE s

\* entriesIngested(): a dwarf entry follows every echo seen so far.
Replied(s) ==
  LET t == IF s.track.echo = "seen" THEN [s.track EXCEPT !.echo = "replied"] ELSE s.track IN
  IF t.live /\ t.echo = "replied" THEN React(State(s.row, t), "transcript-match")
  ELSE State(s.row, t)

At(m) == State(row[m], track[m])

One(m, s) == /\ row' = [row EXCEPT ![m] = s.row]
             /\ track' = [track EXCEPT ![m] = s.track]

-----------------------------------------------------------------------------
(* The Host *)

\* With a fault: the trim takes rows that are still sending.
PurgeableAll == {m \in Msgs : row[m].phase \notin {"absent", "deleted"}}

\* The cap of 50 and Reset metrics delete settled rows, never one still sending.
Without(gone) == [m \in Msgs |-> IF m \in gone THEN Deleted(row[m]) ELSE row[m]]

Purgeable == {m \in Msgs : Settled(row[m])}

\* send(): the row, its delivery and the trim in one transaction, then the tracking.
Send(m) ==
  /\ up /\ CanReceive /\ row[m] = Absent
  /\ \E gone \in SUBSET Purgeable : row' = [Without(gone) EXCEPT ![m] = Started]
  /\ track' = [track EXCEPT ![m] = Tracked(Started)]
  /\ call' = [call EXCEPT ![m] = Queued]
  /\ UNCHANGED <<up, listed, driverVars, history>>

\* retry(): the same message again, when machine 7 lets it.
Resend(m) ==
  LET next == Advance(row[m], Retry(CanReceive)) IN
  /\ up /\ row[m].phase = "failed" /\ row[m].attempts < MaxAttempts
  /\ next.phase # "refused"
  /\ row' = [row EXCEPT ![m] = next]
  /\ track' = [track EXCEPT ![m] = Tracked(next)]
  /\ call' = [call EXCEPT ![m] = Queued]
  /\ UNCHANGED <<up, listed, driverVars, history>>

\* An ingested batch over the cap, or a Reset: the sender is not told.
Purge ==
  /\ up
  /\ \E gone \in SUBSET Purgeable \ {{}} : row' = Without(gone)
  /\ UNCHANGED <<memory, driverVars, history>>

\* A retried message's file went away since: nothing is handed over without it.
FilesChanged(m) ==
  /\ up /\ call[m] = Queued /\ row[m].attempts > 1
  /\ call' = [call EXCEPT ![m] = Failure("channel-error")]
  /\ UNCHANGED <<row, up, track, listed, driverVars, history>>

\* With a fault: the Host hands the message over again on a channel error.
TakeAnswerAgain(m) ==
  /\ up /\ call[m].t \in {"ok", "session-closed", "channel-error"}
  /\ IF call[m].t = "channel-error" THEN UNCHANGED <<row, track>>
     ELSE One(m, Answered(At(m), call[m]))
  /\ call' = [call EXCEPT ![m] = IF @.t = "channel-error" THEN Queued ELSE NoCall]
  /\ UNCHANGED <<up, listed, driverVars, history>>

\* The continuation of handOver, on the driver's answer.
TakeAnswer(m) ==
  /\ up /\ call[m].t \in {"ok", "session-closed", "channel-error"}
  /\ One(m, Answered(At(m), call[m]))
  /\ call' = [call EXCEPT ![m] = NoCall]
  /\ UNCHANGED <<up, listed, driverVars, history>>

\* What one driver event does to one message.
AfterEvent(m, e) ==
  CASE e.t = "ended" -> TurnEnded(At(m), e)
    [] e.t = "echo" -> Echoed(At(m), m, e)
    [] e.t = "reply" -> Replied(At(m))
    [] OTHER -> SessionEnded(At(m))

\* The Host takes the oldest driver event and routes it to the sender.
TakeEvent ==
  /\ up /\ events # <<>>
  /\ row' = [m \in Msgs |-> AfterEvent(m, Head(events)).row]
  /\ track' = [m \in Msgs |-> AfterEvent(m, Head(events)).track]
  /\ session' = IF Head(events).t = "exited" THEN "departed" ELSE session
  /\ events' = Tail(events)
  /\ UNCHANGED <<up, call, listed, driver, turn, turnCount, queue, history>>

-----------------------------------------------------------------------------
(* The driver session *)

Working == turn.n # 0

\* The turn a receipt names: by its key, by a bare number, or not at all.
Named(n, held) == CASE driver = "codex" -> IF held THEN NoKey ELSE Key(n)
                    [] driver = "acp" -> Number(n)
                    [] OTHER -> NoKey

\* Claude's driver echoes a user line as it writes it; the others' echo proves nothing.
EchoesOf(m) == IF driver = "claude" THEN <<Echo(m)>> ELSE <<>>

\* A turn begins at once, except on Codex, which answers turn/start later.
Begun(m) == driver # "codex"

Begin(m) ==
  /\ turnCount' = turnCount + 1
  /\ turn' = TurnAt(turnCount + 1, m, Begun(m))
  /\ taken' = IF Begun(m) THEN taken \cup {m} ELSE taken

\* sendTurn(): queued behind the open turn, or the start of a turn of its own.
DriverTakes(m) ==
  /\ up /\ call[m] = Queued /\ session = "live"
  /\ handed' = [handed EXCEPT ![m] = @ + 1]
  /\ events' = events \o EchoesOf(m)
  /\ LET n == turnCount + 1 + (IF Working THEN Len(queue) ELSE 0) IN
     IF Working
     THEN /\ queue' = Append(queue, m)
          /\ call' = [call EXCEPT ![m] = Receipt(TRUE, Named(n, TRUE))]
          /\ UNCHANGED <<turn, turnCount, taken>>
     ELSE /\ Begin(m)
          /\ call' = [call EXCEPT ![m] = IF Begun(m) THEN Receipt(FALSE, Named(n, FALSE))
                                         ELSE Called(n)]
          /\ UNCHANGED queue
  /\ UNCHANGED <<row, up, track, listed, driver, session, worked, unread>>

\* sendTurn() of a session that ended, or no session at all.
DriverRefuses(m) ==
  /\ up /\ call[m] = Queued /\ session # "live"
  /\ call' = [call EXCEPT ![m] = Failure("session-closed")]
  /\ UNCHANGED <<row, up, track, listed, driverVars, history>>

\* Codex begins the turn it was asked for.
CodexBegins ==
  /\ session = "live" /\ Working /\ ~turn.begun
  /\ turn' = [turn EXCEPT !.begun = TRUE]
  /\ taken' = taken \cup {turn.msg}
  /\ UNCHANGED <<row, memory, driver, session, turnCount, queue, events, worked, handed, unread>>

\* With a fault: no answer in time is a channel error, though the turn was asked for.
CodexAnswersFailing(m) ==
  /\ up /\ call[m].t = "called" /\ session = "live"
  /\ \/ /\ turn.n = call[m].n => turn.begun
        /\ call' = [call EXCEPT ![m] = Receipt(FALSE, Key(call[m].n))]
     \/ call' = [call EXCEPT ![m] = Failure("channel-error")]
  /\ UNCHANGED <<row, up, track, listed, driverVars, history>>

\* turn/start is answered with the turn's id, or not in time.
CodexAnswers(m) ==
  /\ up /\ call[m].t = "called" /\ session = "live"
  /\ \/ /\ turn.n = call[m].n => turn.begun
        /\ call' = [call EXCEPT ![m] = Receipt(FALSE, Key(call[m].n))]
        /\ UNCHANGED turn
     \/ /\ call' = [call EXCEPT ![m] = Receipt(FALSE, NoKey)]
        /\ turn' = IF turn.n = call[m].n /\ ~turn.begun THEN NoTurn ELSE turn
  /\ UNCHANGED <<row, up, track, listed, driver, session, turnCount, queue, events, history>>

\* Codex refuses turn/start: the driver is idle again, whatever it had queued.
CodexRefuses ==
  /\ session = "live" /\ Working /\ ~turn.begun
  /\ turn' = NoTurn
  /\ call' = [m \in Msgs |-> IF call[m] = Called(turn.n) THEN Failure("channel-error")
                             ELSE call[m]]
  /\ UNCHANGED <<row, up, track, listed, driver, session, turnCount, queue, events, history>>

\* The agent writes something in its turn.
AgentSpeaks ==
  /\ session = "live" /\ Working /\ turn.begun /\ turn.msg \notin worked
  /\ worked' = worked \cup {turn.msg}
  /\ events' = IF driver = "claude" THEN Append(events, Reply) ELSE events
  /\ UNCHANGED <<row, memory, driver, session, turn, turnCount, queue, taken, handed, unread>>

\* A turn ends, with work done or not, and the next queued message starts its own.
TurnEnds ==
  /\ session = "live" /\ Working /\ turn.begun
  /\ \/ /\ events' = Append(events, Ended(turn, TRUE))
        /\ worked' = worked \cup {turn.msg}
     \/ /\ events' = Append(events, Ended(turn, FALSE))
        /\ UNCHANGED worked
  /\ IF queue = <<>> THEN turn' = NoTurn /\ UNCHANGED <<turnCount, queue, taken>>
     ELSE Begin(Head(queue)) /\ queue' = Tail(queue)
  /\ UNCHANGED <<row, memory, driver, session, handed, unread>>

\* The session's process ends: what the driver queued goes with it.
SessionExits ==
  /\ session = "live"
  /\ session' = "exited"
  /\ turn' = NoTurn /\ queue' = <<>>
  /\ events' = Append(events, Exited)
  /\ call' = [m \in Msgs |-> IF call[m].t = "called" THEN Failure("session-closed")
                             ELSE call[m]]
  /\ UNCHANGED <<row, up, track, listed, driver, turnCount, history>>

-----------------------------------------------------------------------------
(* A Host stop, and the next Host *)

\* The Host dies: its memory and the driver go.  Claude may still read its queued lines.
Crash ==
  /\ up
  /\ up' = FALSE
  /\ track' = [m \in Msgs |-> Forgotten] /\ call' = [m \in Msgs |-> NoCall]
  /\ listed' = {}
  /\ session' = IF session = "departed" THEN "departed" ELSE "down"
  /\ turn' = NoTurn /\ queue' = <<>> /\ events' = <<>>
  /\ \E read \in SUBSET (IF driver = "claude" THEN {queue[i] : i \in DOMAIN queue} ELSE {}) :
       taken' = taken \cup read
  /\ UNCHANGED <<row, driver, turnCount, worked, handed, unread>>

SendingRows == {m \in Msgs : Sending(m)}

\* The recovery resumed the session or gave it up, and watches what was left sending.
Boot ==
  /\ ~up /\ session = "down"
  /\ up' = TRUE
  /\ session' \in {"live", "departed"}
  /\ listed' = SendingRows
  /\ UNCHANGED <<row, track, call, driver, turn, turnCount, queue, events, history>>

\* The recovery found that the session ended while the Host was closed: its rows are not read.
BootEnded ==
  /\ ~up
  /\ up' = TRUE
  /\ session' = "departed"
  /\ unread' = unread \cup SendingRows
  /\ UNCHANGED <<row, track, call, listed, driver, turn, turnCount, queue, events>>
  /\ UNCHANGED <<taken, worked, handed>>

\* The replay of a resumed session shows a listed message, and perhaps an entry after it.
Replayed(m) ==
  /\ up /\ m \in listed /\ m \in taken
  /\ \E actedAfter \in BOOLEAN :
       /\ row' = [row EXCEPT ![m] = Reconciled(@, TRUE, actedAfter)]
       /\ worked' = IF actedAfter THEN worked \cup {m} ELSE worked
  /\ listed' = listed \ {m}
  /\ UNCHANGED <<up, track, call, driverVars, taken, handed, unread>>

\* The window ends: what showed no evidence was interrupted with the Host.
WindowEnds ==
  /\ up /\ listed # {}
  /\ row' = [m \in Msgs |-> IF m \in listed THEN Reconciled(row[m], FALSE, FALSE) ELSE row[m]]
  /\ listed' = {}
  /\ UNCHANGED <<up, track, call, driverVars, history>>

-----------------------------------------------------------------------------
Init ==
  /\ driver \in Drivers
  /\ row = [m \in Msgs |-> Absent]
  /\ up = TRUE
  /\ track = [m \in Msgs |-> Forgotten] /\ call = [m \in Msgs |-> NoCall] /\ listed = {}
  /\ session = "live" /\ turn = TurnAt(1, "launch", TRUE) /\ turnCount = 1
  /\ queue = <<>> /\ events = <<>>
  /\ taken = {} /\ worked = {} /\ handed = [m \in Msgs |-> 0] /\ unread = {}

Host == \/ \E m \in Msgs : Send(m) \/ Resend(m) \/ FilesChanged(m) \/ TakeAnswer(m)
        \/ Purge \/ TakeEvent \/ Boot \/ BootEnded \/ WindowEnds
        \/ \E m \in Msgs : Replayed(m)

Session == \/ \E m \in Msgs : DriverTakes(m) \/ DriverRefuses(m) \/ CodexAnswers(m)
           \/ CodexBegins \/ CodexRefuses \/ AgentSpeaks \/ TurnEnds \/ SessionExits

Next == Host \/ Session \/ Crash

Spec == Init /\ [][Next]_vars

-----------------------------------------------------------------------------
(* What makes it correct *)

Deliveries == [phase: Phases \cup {"absent", "deleted"}, failure: Failures \cup {"none"},
               attempts: 0..MaxAttempts, held: BOOLEAN]

Turns == Nat

Keys == ({"turn", "number"} \X Turns) \cup {NoKey, <<"transcript", 0>>}

Ends == [t: {"ended"}, n: Turns, msg: Msgs \cup {"launch"}, work: BOOLEAN]

Receipts == [t: {"ok"}, held: BOOLEAN, key: Keys]

Tracks == [delivery: Deliveries, flight: BOOLEAN, ends: SUBSET Ends, closed: BOOLEAN,
           held: Receipts \cup {NotHeld}, watch: Keys,
           echo: {"none", "waiting", "seen", "replied"}, live: BOOLEAN]

Calls == {NoCall, Queued, Failure("session-closed"), Failure("channel-error")}
         \cup Receipts \cup [t: {"called"}, n: Turns]

Events == Ends \cup [t: {"echo"}, msg: Msgs] \cup {Reply, Exited}

\* The types of the variables.
TypeOK ==
  /\ driver \in Drivers
  /\ row \in [Msgs -> Deliveries]
  /\ up \in BOOLEAN
  /\ track \in [Msgs -> Tracks]
  /\ call \in [Msgs -> Calls]
  /\ listed \subseteq Msgs
  /\ session \in {"live", "exited", "departed", "down"}
  /\ turn \in [n: Turns, msg: Msgs \cup {"launch"}, begun: BOOLEAN]
  /\ turnCount \in Turns
  /\ queue \in Seq(Msgs)
  /\ events \in Seq(Events)
  /\ taken \subseteq Msgs \cup {"launch"} /\ worked \subseteq Msgs \cup {"launch"}
  /\ handed \in [Msgs -> Nat] /\ unread \subseteq Msgs

\* What the sender keeps of a message is what its row says, or the row went away;
\* and a message in flight or held is still sending (send.ts deliveries, settleDelivery).
TrackMatchesRow ==
  \A m \in Msgs : LET t == track[m] IN
    /\ t.delivery.phase # "absent" => row[m] \in {t.delivery, Deleted(t.delivery)}
    /\ t.flight \/ t.held # NotHeld => row[m].phase = "sending" /\ row[m] = t.delivery
    /\ t.held # NotHeld => row[m].held /\ ~t.flight

\* While a Host runs, every message it shows as sending has something that will
\* settle it: a hand-over on its way, the end of a turn or of the session it is held
\* for, or the boot reconcile; but for the rows a boot did not read (send.ts, index.ts).
SendingIsAwaited ==
  up => \A m \in SendingRows \ unread :
          \/ call[m] # NoCall /\ track[m].flight
          \/ track[m].held # NotHeld /\ session # "departed"
          \/ m \in listed

\* A message reaches the driver at most once for each time it was sent, and never
\* waits twice in one session, across retries, refusals and Host stops (ADR-022 item 5).
OneHandOverPerAttempt ==
  /\ \A m \in Msgs : handed[m] <= row[m].attempts
  /\ \A i, j \in DOMAIN queue : queue[i] = queue[j] => i = j
  /\ \A i \in DOMAIN queue : queue[i] # turn.msg

\* A double check mark on a driver that names its turns means that the message's own
\* turn began and did something (ADR-022 item 3: only correlated activity).
ReactedIsEarned ==
  driver # "claude" =>
    \A m \in Msgs : row[m].phase = "reacted" => m \in taken /\ m \in worked

\* A message with a Retry button is not with the provider now: not queued, and no
\* turn of it is open (a second hand-over would say it twice).
RetryableIsOutside ==
  \A m \in Msgs : row[m].phase = "failed" /\ Retryable(row[m].failure) =>
    turn.msg # m /\ \A i \in DOMAIN queue : queue[i] # m

\* The marks keep what the person is promised of them.
Marks == INSTANCE DeliveryMarks WITH
  mark <- [m \in Msgs |-> [phase |-> row[m].phase, failure |-> row[m].failure,
                           attempts |-> row[m].attempts]]

MarksKept == Marks!MSpec
=============================================================================
