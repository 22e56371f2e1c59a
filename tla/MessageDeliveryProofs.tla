------------------------ MODULE MessageDeliveryProofs ------------------------
(***************************************************************************)
(* What MessageDelivery promises for every set of messages, every driver   *)
(* and every number of attempts: what the sender keeps of a message agrees *)
(* with its row; every row shown as sending has something that will settle *)
(* it; and the marks follow DeliveryMarks.                                 *)
(*                                                                         *)
(* The sender handles one message at a time: the lemmas speak of a State   *)
(* (a row and its track) and of the operator that moves it.                *)
(***************************************************************************)
EXTENDS MessageDelivery, TLAPS

States == [row: Deliveries, track: Tracks]

\* What is kept of a message between two handlers agrees with its row: a live delivery
\* is in flight or held exactly while it is sending, and nothing is kept of another.
Linked(s) ==
  LET t == s.track IN
  /\ t.delivery.phase \in {"absent", "sending", "delivered"}
  /\ t.delivery.phase = "absent" => t = Forgotten
  /\ t.delivery.phase = "sending" =>
       /\ s.row = t.delivery /\ t.watch = NoKey /\ ~t.live
       /\ t.flight \/ t.held # NotHeld
       /\ t.held # NotHeld => t.delivery.held /\ ~t.flight
  /\ t.delivery.phase = "delivered" =>
       /\ s.row \in {t.delivery, Deleted(t.delivery)}
       /\ ~t.flight /\ t.held = NotHeld

\* What a step may do to a row.
Follows(d, e) ==
  \/ e = d
  \/ /\ d.phase = "sending"
     /\ e \in {[d EXCEPT !.held = TRUE], To(d, "delivered"), To(d, "reacted"),
               FailedBy(d, "channel-error"), FailedBy(d, "session-closed")}
  \/ d.phase = "delivered" /\ e = To(d, "reacted")

\* A message whose driver answered: no longer in flight, not yet settled.
Ready(s) ==
  /\ s \in States /\ s.track.delivery.phase = "sending" /\ s.row = s.track.delivery
  /\ ~s.track.flight /\ s.track.held = NotHeld /\ s.track.watch = NoKey /\ ~s.track.live

\* A message the sender moved and no longer waits for a receipt of.
Moved(s) == s \in States /\ Linked(s) /\ s.track.delivery.phase \in {"absent", "delivered"}

Good(s) == s \in States /\ Linked(s)

\* A row shown as sending is the sender's.
Tended(s) == s.row.phase = "sending" => s.track.delivery.phase = "sending"

\* After its session is gone nothing is held, and what is in flight knows.
Gone(s) == s.track.held = NotHeld /\ (s.track.flight => s.track.closed)

\* What a handler makes of a message.
Handles(s, r) ==
  /\ Good(r)
  /\ Follows(s.row, r.row)
  /\ s.track = Forgotten => r = s
  /\ r.track.flight => s.track.flight
  /\ Tended(s) => Tended(r)
  /\ Gone(s) => Gone(r)

-----------------------------------------------------------------------------
(* One message *)

\* A delivery with nothing held is a delivery.
LEMMA DeliveryType ==
  ASSUME NEW phase \in Phases \cup {"absent", "deleted"}, NEW failure \in Failures \cup {"none"},
         NEW n \in 0..MaxAttempts
  PROVE  /\ Delivery(phase, failure, n, FALSE) \in Deliveries
         /\ Delivery(phase, failure, n, FALSE).phase = phase
  BY DEF Deliveries, Delivery

\* The deliveries the moves make are deliveries.
LEMMA MovesAreDeliveries ==
  ASSUME NEW d \in Deliveries
  PROVE  /\ \A p \in {"delivered", "reacted"} : To(d, p) \in Deliveries
         /\ \A f \in Failures : FailedBy(d, f) \in Deliveries
         /\ [d EXCEPT !.held = TRUE] \in Deliveries
         /\ Deleted(d) \in Deliveries
         /\ Absent \in Deliveries
<1>1. d.attempts \in 0..MaxAttempts /\ 0 \in 0..MaxAttempts
  BY DeliveryAssumption DEF Deliveries
<1>3. [d EXCEPT !.held = TRUE] \in Deliveries
  BY DEF Deliveries
<1>4. \A p \in {"delivered", "reacted"} : To(d, p) \in Deliveries
  BY <1>1, DeliveryType DEF To, Phases
<1>5. \A f \in Failures : FailedBy(d, f) \in Deliveries
  BY <1>1, DeliveryType DEF FailedBy, Phases
<1>6. Deleted(d) \in Deliveries /\ Absent \in Deliveries
  BY <1>1, DeliveryType DEF Deleted, Absent
<1> QED
  BY <1>3, <1>4, <1>5, <1>6

\* What is kept of no message is a track.
LEMMA ForgottenTrack == Forgotten \in Tracks
  BY DeliveryAssumption, MovesAreDeliveries
  DEF Forgotten, Track, Tracks, Deliveries, Absent, Delivery, Keys, NoKey, NotHeld, Turns

\* A message forgotten is settled, whatever its row says.
LEMMA ForgetMoved ==
  ASSUME NEW s \in States
  PROVE  Moved(Forget(s)) /\ Forget(s).row = s.row /\ Forget(s).track = Forgotten
  BY ForgottenTrack
  DEF States, Moved, Forget, State, Linked, Forgotten, Track, Absent, Delivery

\* A row with nothing kept of it is well linked.
LEMMA ForgottenGood ==
  /\ ~Forgotten.flight
  /\ \A d \in Deliveries : Good(State(d, Forgotten)) /\ Gone(State(d, Forgotten))
<1>1. /\ ~Forgotten.flight /\ Forgotten.held = NotHeld
      /\ Forgotten.delivery.phase = "absent"
  BY DEF Forgotten, Track, Absent, Delivery
<1>2. ASSUME NEW d \in Deliveries
      PROVE  State(d, Forgotten) \in States /\ State(d, Forgotten).track = Forgotten
  BY ForgottenTrack DEF States, State
<1> QED
  BY <1>1, <1>2 DEF Good, Linked, Gone

\* A message with a receipt is accepted.
LEMMA ReadyAccepted ==
  ASSUME NEW s, Ready(s)
  PROVE  /\ Moves(s, Accepted)
         /\ Move(s, Accepted) =
              State(To(s.row, "delivered"), [s.track EXCEPT !.delivery = To(s.row, "delivered")])
         /\ Moved(Move(s, Accepted))
         /\ Move(s, Accepted).track.delivery.phase = "delivered"
         /\ Move(s, Accepted).row = Move(s, Accepted).track.delivery
<1> DEFINE d == To(s.row, "delivered")
           t == [s.track EXCEPT !.delivery = d]
<1>1. s.row \in Deliveries /\ s.track \in Tracks /\ s.row = s.track.delivery
  BY DEF Ready, States
<1>2. d \in Deliveries /\ d.phase = "delivered"
  BY <1>1, MovesAreDeliveries DEF To, Delivery
<1>3. Advance(s.track.delivery, Accepted) = d
  BY <1>1 DEF Ready, Advance, FromSending, Accepted
<1>4. Writable(s.row, Accepted)
  BY <1>1 DEF Ready, Writable, Accepted
<1>5. Moves(s, Accepted)
  BY <1>2, <1>3, <1>4 DEF Moves, Ready
<1>6. Move(s, Accepted) = State(d, t)
  BY <1>2, <1>3, <1>4 DEF Move, Ready
<1>7. t \in Tracks /\ t.delivery = d /\ ~t.flight /\ t.held = NotHeld
  BY <1>1, <1>2 DEF Tracks, Ready
<1>8. Moved(State(d, t))
  BY <1>2, <1>7 DEF Moved, States, State, Linked
<1>9. Move(s, Accepted).row = d /\ Move(s, Accepted).track = t
  BY <1>6 DEF State
<1> QED
  BY <1>2, <1>5, <1>6, <1>7, <1>8, <1>9

\* A message that fails is forgotten.
LEMMA ReadyFails ==
  ASSUME NEW s, Ready(s), NEW fact \in {SessionClosed, ChannelError}
  PROVE  \E f \in {"session-closed", "channel-error"} :
           Move(s, fact) = State(FailedBy(s.row, f), Forgotten)
  BY DEF Ready, Move, Advance, FromSending, SessionClosed, ChannelError, Writable,
         FailedBy, Delivery, Refused

\* A message that reacts is forgotten, and its row reacts unless it is gone.
LEMMA ReactMoved ==
  ASSUME NEW s, Moved(s), s.track.delivery.phase = "delivered", NEW evidence, evidence # "none"
  PROVE  /\ Moved(React(s, evidence))
         /\ React(s, evidence).track = Forgotten
         /\ React(s, evidence).row =
              IF s.row = s.track.delivery THEN To(s.row, "reacted") ELSE s.row
<1> DEFINE fact == Correlated(evidence)
           d == To(s.track.delivery, "reacted")
<1>1. s \in States /\ s.row \in Deliveries /\ s.track \in Tracks /\ s.track.delivery \in Deliveries
  BY DEF Moved, States, Tracks
<1>2. d \in Deliveries /\ d.phase = "reacted"
  BY <1>1, MovesAreDeliveries DEF To, Delivery
<1>3. Advance(s.track.delivery, fact) = d
  BY DEF Advance, FromDelivered, Correlated
<1>4. CASE s.row = s.track.delivery
  <2>1. Writable(s.row, fact)
    BY <1>4 DEF Writable, Correlated
  <2>2. Move(s, fact) = State(d, [s.track EXCEPT !.delivery = d])
    BY <1>2, <1>3, <2>1 DEF Move
  <2>3. [s.track EXCEPT !.delivery = d] \in Tracks
    BY <1>1, <1>2 DEF Tracks
  <2>4. Move(s, fact) \in States /\ Move(s, fact).row = d
    BY <1>2, <2>2, <2>3 DEF States, State
  <2> QED
    BY <1>4, <2>4, ForgetMoved DEF React
<1>5. CASE s.row # s.track.delivery
  <2>1. s.row = Deleted(s.track.delivery)
    BY <1>5 DEF Moved, Linked
  <2>2. ~Writable(s.row, fact)
    BY <2>1 DEF Writable, Correlated, Deleted, Delivery
  <2>3. Move(s, fact) = Forget(s)
    BY <1>2, <1>3, <2>2 DEF Move
  <2> QED
    BY <1>1, <1>5, <2>3, ForgetMoved DEF React, Moved
<1> QED
  BY <1>4, <1>5

\* What is watched of a delivered message does not change what it is linked to.
LEMMA WatchedMoved ==
  ASSUME NEW s, Moved(s), s.track.delivery.phase = "delivered",
         NEW watch \in Keys, NEW echo \in {"none", "waiting", "seen", "replied"},
         NEW live \in BOOLEAN
  PROVE  Moved(State(s.row, [s.track EXCEPT !.watch = watch, !.echo = echo, !.live = live]))
<1> DEFINE t == [s.track EXCEPT !.watch = watch, !.echo = echo, !.live = live]
<1>1. s.row \in Deliveries /\ s.track \in Tracks
  BY DEF Moved, States
<1>2. t \in Tracks /\ t.delivery = s.track.delivery /\ t.flight = s.track.flight
      /\ t.held = s.track.held
  BY <1>1 DEF Tracks
<1> QED
  BY <1>1, <1>2 DEF Moved, Linked, States, State

\* A message whose driver took it is delivered or reacted, and settled.
LEMMA AcceptMoved ==
  ASSUME NEW s, Ready(s), NEW receipt \in Receipts, NEW ends \in SUBSET Ends
  PROVE  /\ Moved(Accept(s, receipt, ends))
         /\ Accept(s, receipt, ends).row \in {To(s.row, "delivered"), To(s.row, "reacted")}
<1> DEFINE r == Move(s, Accepted)
           own == {e \in ends : Key(e.n) = receipt.key}
           A == Accept(s, receipt, ends)
<1>1. /\ Moves(s, Accepted) /\ Moved(r) /\ r.track.delivery.phase = "delivered"
      /\ r.row = r.track.delivery /\ r.row = To(s.row, "delivered")
      /\ r.track = [s.track EXCEPT !.delivery = To(s.row, "delivered")]
  BY ReadyAccepted DEF State
<1>2. r \in States /\ r.row \in Deliveries /\ r.track \in Tracks
  BY <1>1 DEF Moved, States
<1>3. To(r.row, "reacted") = To(s.row, "reacted")
  BY <1>1 DEF To, Delivery
<1>4. ASSUME NEW evidence, evidence # "none"
      PROVE  Moved(React(r, evidence)) /\ React(r, evidence).row = To(s.row, "reacted")
  BY <1>1, <1>3, <1>4, ReactMoved
<1>5. Moved(Forget(r)) /\ Forget(r).row = r.row
  BY <1>2, ForgetMoved
<1>6. Moved(r) /\ r.row = To(s.row, "delivered")
  BY <1>1
<1>7. CASE Evidence = "transcript-match"
  <2>1. A = WatchTranscript(r)
    BY <1>1, <1>7 DEF Accept
  <2>2. CASE r.track.echo \in {"none", "replied"}
    BY <2>1, <2>2, <1>4, <1>6 DEF WatchTranscript
  <2>3. CASE r.track.echo \notin {"none", "replied"}
    <3>1. A = State(r.row, [r.track EXCEPT !.live = TRUE, !.watch = <<"transcript", 0>>])
      BY <2>1, <2>3 DEF WatchTranscript
    <3>2. [r.track EXCEPT !.live = TRUE, !.watch = <<"transcript", 0>>]
            = [r.track EXCEPT !.watch = <<"transcript", 0>>, !.echo = r.track.echo, !.live = TRUE]
      BY <1>2 DEF Tracks
    <3>3. r.track.echo \in {"none", "waiting", "seen", "replied"} /\ <<"transcript", 0>> \in Keys
      BY <1>2 DEF Tracks, Keys
    <3>4. Moved(State(r.row, [r.track EXCEPT !.watch = <<"transcript", 0>>, !.echo = r.track.echo,
                                             !.live = TRUE]))
      <4> HIDE DEF r
      <4> QED
        BY <3>3, <1>1, WatchedMoved
    <3>5. Moved(A)
      BY <3>1, <3>2, <3>4, Zenon
    <3> QED
      BY <3>1, <3>5, <1>6 DEF State
  <2> QED
    BY <2>2, <2>3
<1>8. CASE Evidence = "turn-id" /\ receipt.key = NoKey
  BY <1>1, <1>5, <1>8 DEF Accept
<1>9. CASE Evidence = "turn-id" /\ receipt.key # NoKey /\ own = {}
  <2>1. A = State(r.row, [r.track EXCEPT !.watch = receipt.key, !.echo = "none"])
    BY <1>1, <1>9 DEF Accept
  <2>2. [r.track EXCEPT !.watch = receipt.key, !.echo = "none"]
          = [r.track EXCEPT !.watch = receipt.key, !.echo = "none", !.live = r.track.live]
    BY <1>2 DEF Tracks
  <2>3. receipt.key \in Keys /\ r.track.live \in BOOLEAN
    BY <1>2 DEF Receipts, Tracks
  <2>4. Moved(State(r.row, [r.track EXCEPT !.watch = receipt.key, !.echo = "none",
                                           !.live = r.track.live]))
    <3> HIDE DEF r
    <3> QED
      BY <2>3, <1>1, WatchedMoved
  <2>5. Moved(A)
    BY <2>1, <2>2, <2>4, Zenon
  <2> QED
    BY <2>1, <2>5, <1>6 DEF State
<1>10. CASE Evidence = "turn-id" /\ receipt.key # NoKey /\ own # {}
  <2>1. A = OwnEnd(r, CHOOSE e \in own : TRUE)
    BY <1>1, <1>10 DEF Accept
  <2> QED
    BY <2>1, <1>4, <1>5, <1>6 DEF OwnEnd
<1>11. Evidence \in {"turn-id", "transcript-match"}
  BY DEF Evidence
<1> QED
  BY <1>7, <1>8, <1>9, <1>10, <1>11

\* A settled message is well handled, whatever it was before.
LEMMA MovedHandles ==
  ASSUME NEW s, s.track # Forgotten, NEW r, Moved(r), Follows(s.row, r.row),
         r.row.phase # "sending"
  PROVE  Handles(s, r)
<1>1. r.track.held = NotHeld /\ ~r.track.flight
  BY DEF Moved, Linked, Forgotten, Track
<1> QED
  BY <1>1 DEF Moved, Good, Handles, Tended, Gone

\* The two ends of an accepted message are steps of its row.
LEMMA AcceptFollows ==
  ASSUME NEW s, Ready(s), NEW e \in {To(s.row, "delivered"), To(s.row, "reacted")}
  PROVE  Follows(s.row, e) /\ e.phase # "sending"
  BY DEF Ready, Follows, To, Delivery

\* A message that fails is settled.
LEMMA FailHandles ==
  ASSUME NEW s, NEW q, Ready(q), q.row = s.row, s.track # Forgotten,
         NEW fact \in {SessionClosed, ChannelError}
  PROVE  Handles(s, Move(q, fact)) /\ ~Move(q, fact).track.flight
<1>1. PICK f \in {"session-closed", "channel-error"} :
        Move(q, fact) = State(FailedBy(q.row, f), Forgotten)
  BY ReadyFails
<1> DEFINE r == State(FailedBy(q.row, f), Forgotten)
<1>2. q.row \in Deliveries /\ q.row.phase = "sending"
  BY DEF Ready, States
<1>3. FailedBy(q.row, f) \in Deliveries
  BY <1>2, MovesAreDeliveries DEF Failures
<1>4. r \in States /\ r.row = FailedBy(q.row, f) /\ r.track = Forgotten
  BY <1>3, ForgottenTrack DEF States, State
<1>5. Moved(r)
  BY <1>4 DEF Moved, Linked, Forgotten, Track, Absent, Delivery
<1>6. Follows(s.row, r.row) /\ r.row.phase # "sending"
  <2>1. FailedBy(s.row, f).phase = "failed"
    BY DEF FailedBy, Delivery
  <2>2. f = "channel-error" \/ f = "session-closed"
    OBVIOUS
  <2>3. r.row = FailedBy(s.row, f) /\ s.row.phase = "sending"
    BY <1>2, <1>4
  <2> HIDE DEF r
  <2> QED
    BY <2>1, <2>2, <2>3 DEF Follows
<1>7. ~r.track.flight
  BY <1>4 DEF Forgotten, Track
<1>8. Handles(s, r)
  <2> HIDE DEF r
  <2> QED
    BY <1>5, <1>6, MovedHandles
<1> QED
  BY <1>1, <1>7, <1>8

\* A message held behind a turn waits for it, or was released by an end already seen.
LEMMA HoldHandles ==
  ASSUME NEW s, NEW q, Ready(q), q.row = s.row, s.track # Forgotten, ~Gone(s),
         NEW receipt \in Receipts, NEW ends \in SUBSET Ends
  PROVE  Handles(s, Hold(q, receipt, ends)) /\ ~Hold(q, receipt, ends).track.flight
<1> DEFINE d == [q.row EXCEPT !.held = TRUE]
           r == State(d, [q.track EXCEPT !.delivery = d])
           h == State(d, [r.track EXCEPT !.held = receipt])
           blocking == {e \in ends : e.work /\ Key(e.n) # receipt.key}
<1>1. /\ q.row \in Deliveries /\ q.track \in Tracks /\ q.row = q.track.delivery
      /\ q.row.phase = "sending"
  BY DEF Ready, States
<1>2. d \in Deliveries /\ d.phase = "sending" /\ d.held
  BY <1>1, MovesAreDeliveries DEF Deliveries
<1>3. Advance(q.track.delivery, Held) = d
  BY <1>1 DEF Advance, FromSending, Held
<1>4. Writable(q.row, Held)
  BY <1>1 DEF Writable, Held
<1>5. Moves(q, Held) /\ Move(q, Held) = r
  BY <1>1, <1>2, <1>3, <1>4 DEF Moves, Move
<1>6. Ready(r) /\ r.row = d
  BY <1>1, <1>2 DEF Ready, States, State, Tracks
<1>7. CASE blocking # {}
  <2>1. Hold(q, receipt, ends) = Accept(r, receipt, ends)
    BY <1>5, <1>7 DEF Hold
  <2>2. Moved(Accept(r, receipt, ends)) /\
        Accept(r, receipt, ends).row \in {To(d, "delivered"), To(d, "reacted")}
    <3> HIDE DEF r, d
    <3> QED
      BY <1>6, AcceptMoved
  <2>3. \A p : To(d, p) = To(s.row, p)
    BY <1>1 DEF To
  <2>4. Follows(s.row, Accept(r, receipt, ends).row) /\
        Accept(r, receipt, ends).row.phase # "sending"
    BY <1>1, <2>2, <2>3 DEF Follows, To, Delivery
  <2>5. ~Accept(r, receipt, ends).track.flight
    BY <2>2 DEF Moved, Linked, Forgotten, Track
  <2> QED
    BY <2>1, <2>2, <2>4, <2>5, MovedHandles
<1>8. CASE blocking = {}
  <2>1. Hold(q, receipt, ends) = h
    BY <1>5, <1>6, <1>8 DEF Hold
  <2>2. /\ h.row = d /\ h.track \in Tracks /\ h.track.delivery = d /\ h.track.held = receipt
        /\ ~h.track.flight /\ h.track.watch = NoKey /\ ~h.track.live
    BY <1>6 DEF Ready, States, State, Tracks
  <2>3. receipt # NotHeld
    BY DEF Receipts, NotHeld
  <2>4. h \in States
    BY <1>2, <2>2 DEF States, State
  <2>5. Good(h)
    <3> HIDE DEF h, d
    <3> QED
      BY <1>2, <2>2, <2>3, <2>4 DEF Good, Linked
  <2>6. Follows(s.row, h.row)
    BY <2>2, <1>1 DEF Follows
  <2> QED
    BY <2>1, <2>2, <2>5, <2>6, <1>2 DEF Handles, Tended
<1> QED
  BY <1>7, <1>8

\* The continuation of a hand-over.
LEMMA AnsweredHandles ==
  ASSUME NEW s, Good(s),
         NEW answer \in Receipts \cup {Failure("session-closed"), Failure("channel-error")}
  PROVE  Handles(s, Answered(s, answer)) /\ ~Answered(s, answer).track.flight
<1> DEFINE q == State(s.row, [s.track EXCEPT !.flight = FALSE, !.ends = {}, !.closed = FALSE])
           ends == s.track.ends
<1>1. CASE ~s.track.flight
  <2>1. Answered(s, answer) = s
    BY <1>1 DEF Answered
  <2> QED
    BY <1>1, <2>1 DEF Handles, Follows
<1>2. CASE s.track.flight
  <2>1. s.track \in Tracks /\ s.row \in Deliveries /\ s.track.delivery.phase = "sending"
        /\ s.row = s.track.delivery /\ s.track.held = NotHeld /\ s.track.watch = NoKey
        /\ ~s.track.live /\ s.track # Forgotten /\ ends \in SUBSET Ends
    <3>1. s.track \in Tracks /\ s.row \in Deliveries
      BY DEF Good, States
    <3>2. s.track # Forgotten
      BY <1>2 DEF Forgotten, Track
    <3>3. s.track.delivery.phase = "sending"
      BY <1>2, <3>2 DEF Good, Linked
    <3> QED
      BY <1>2, <3>1, <3>2, <3>3 DEF Good, Linked, Tracks
  <2>2. Ready(q) /\ q.row = s.row
    BY <2>1 DEF Ready, States, State, Tracks
  <2> HIDE DEF q
  <2>3. CASE answer.t = "session-closed"
    <3>1. Answered(s, answer) = Move(q, SessionClosed)
      BY <1>2, <2>3 DEF Answered, q
    <3> QED
      BY <3>1, <2>1, <2>2, FailHandles
  <2>4. CASE answer.t = "channel-error"
    <3>1. Answered(s, answer) = Move(q, ChannelError)
      BY <1>2, <2>4 DEF Answered, q
    <3> QED
      BY <3>1, <2>1, <2>2, FailHandles
  <2>5. CASE answer.t = "ok" /\ ~answer.held
    <3>1. Answered(s, answer) = Accept(q, answer, ends) /\ answer \in Receipts
      BY <1>2, <2>5 DEF Answered, q, Failure
    <3>2. Moved(Accept(q, answer, ends))
          /\ Accept(q, answer, ends).row \in {To(s.row, "delivered"), To(s.row, "reacted")}
      BY <2>1, <2>2, <3>1, AcceptMoved
    <3>3. Follows(s.row, Accept(q, answer, ends).row) /\ Accept(q, answer, ends).row.phase # "sending"
      BY <2>2, <3>2, AcceptFollows
    <3>4. ~Accept(q, answer, ends).track.flight
      BY <3>2 DEF Moved, Linked, Forgotten, Track
    <3> QED
      BY <3>1, <3>2, <3>3, <3>4, <2>1, MovedHandles
  <2>6. CASE answer.t = "ok" /\ answer.held /\ s.track.closed
    <3>1. Answered(s, answer) = Move(q, SessionClosed)
      BY <1>2, <2>6 DEF Answered, q
    <3> QED
      BY <3>1, <2>1, <2>2, FailHandles
  <2>7. CASE answer.t = "ok" /\ answer.held /\ ~s.track.closed
    <3>1. Answered(s, answer) = Hold(q, answer, ends) /\ answer \in Receipts
      BY <1>2, <2>7 DEF Answered, q, Failure
    <3>2. ~Gone(s)
      BY <1>2, <2>7 DEF Gone
    <3> QED
      BY <2>1, <2>2, <3>1, <3>2, HoldHandles
  <2> QED
    BY <2>3, <2>4, <2>5, <2>6, <2>7 DEF Receipts, Failure
<1> QED
  BY <1>1, <1>2

\* The end of a turn.
LEMMA TurnEndedHandles ==
  ASSUME NEW s, Good(s), NEW end \in Ends
  PROVE  Handles(s, TurnEnded(s, end))
<1> DEFINE t == s.track
           seen == IF t.flight THEN State(s.row, [t EXCEPT !.ends = @ \cup {end}]) ELSE s
           q == State(s.row, [t EXCEPT !.held = NotHeld])
<1>1. t \in Tracks /\ s.row \in Deliveries
  BY DEF Good, States
<1>2. CASE t.held.t = "ok" /\ end.work
  <2>1. t.held # NotHeld /\ t # Forgotten
    BY <1>2 DEF NotHeld, Forgotten, Track
  <2>2. t.delivery.phase = "sending" /\ s.row = t.delivery /\ t.watch = NoKey /\ ~t.live
        /\ ~t.flight
    BY <2>1 DEF Good, Linked
  <2>3. t.held \in Receipts
    BY <1>1, <2>1 DEF Tracks
  <2>4. Ready(q) /\ q.row = s.row
    BY <1>1, <2>2 DEF Ready, States, State, Tracks
  <2>5. TurnEnded(s, end) = Accept(q, t.held, {end})
    BY <1>2 DEF TurnEnded
  <2> HIDE DEF q
  <2>6. Moved(Accept(q, t.held, {end}))
        /\ Accept(q, t.held, {end}).row \in {To(s.row, "delivered"), To(s.row, "reacted")}
    BY <2>3, <2>4, AcceptMoved
  <2>7. Follows(s.row, Accept(q, t.held, {end}).row) /\ Accept(q, t.held, {end}).row.phase # "sending"
    BY <2>4, <2>6, AcceptFollows
  <2> QED
    BY <2>1, <2>5, <2>6, <2>7, MovedHandles
<1>3. CASE ~(t.held.t = "ok" /\ end.work) /\ t.watch = Key(end.n)
  <2>1. t.watch # NoKey /\ t # Forgotten
    BY <1>3 DEF Key, NoKey, Forgotten, Track
  <2>2. t.delivery.phase = "delivered"
    BY <2>1 DEF Good, Linked
  <2>3. ~t.flight /\ Moved(s)
    BY <2>2 DEF Good, Linked, Moved
  <2>4. TurnEnded(s, end) = OwnEnd(s, end)
    BY <1>3, <2>3 DEF TurnEnded
  <2>5. CASE end.work
    <3>1. OwnEnd(s, end) = React(s, "turn-id")
      BY <2>5 DEF OwnEnd
    <3>2. Moved(React(s, "turn-id")) /\ React(s, "turn-id").row =
            IF s.row = s.track.delivery THEN To(s.row, "reacted") ELSE s.row
      BY <2>2, <2>3, ReactMoved
    <3>3. s.row = s.track.delivery \/ s.row = Deleted(s.track.delivery)
      BY <2>2 DEF Good, Linked
    <3>4. Follows(s.row, React(s, "turn-id").row) /\ React(s, "turn-id").row.phase # "sending"
      BY <2>2, <3>2, <3>3 DEF Follows, To, Delivery, Deleted
    <3> QED
      BY <2>1, <2>4, <3>1, <3>2, <3>4, MovedHandles
  <2>6. CASE ~end.work
    <3>1. TurnEnded(s, end) = Forget(s) /\ s \in States
      BY <2>4, <2>6 DEF OwnEnd, Good
    <3>2. Moved(Forget(s)) /\ Forget(s).row = s.row
      BY <3>1, ForgetMoved
    <3>3. s.row.phase # "sending"
      BY <2>2 DEF Good, Linked, Deleted, Delivery
    <3>4. Follows(s.row, Forget(s).row)
      BY <3>2 DEF Follows
    <3> QED
      BY <2>1, <3>1, <3>2, <3>3, <3>4, MovedHandles
  <2> QED
    BY <2>5, <2>6
<1>4. CASE ~(t.held.t = "ok" /\ end.work) /\ t.watch # Key(end.n)
  <2>1. TurnEnded(s, end) = seen
    BY <1>4 DEF TurnEnded
  <2>2. CASE t.flight
    <3>1. /\ seen.row = s.row /\ seen.track \in Tracks /\ seen.track.delivery = t.delivery
          /\ seen.track.held = t.held /\ seen.track.watch = t.watch /\ seen.track.live = t.live
          /\ seen.track.flight = t.flight /\ seen.track.closed = t.closed
      BY <1>1, <2>2 DEF Tracks, State
    <3>2. t # Forgotten
      BY <2>2 DEF Forgotten, Track
    <3>3. seen \in States
      BY <1>1, <2>2, <3>1 DEF States, State
    <3>4. t.delivery.phase = "sending"
      BY <2>2, <3>2 DEF Good, Linked
    <3> HIDE DEF seen
    <3>5. Good(seen)
      BY <3>1, <3>3, <3>4 DEF Good, Linked
    <3> QED
      BY <2>1, <3>1, <3>2, <3>5 DEF Handles, Follows, Tended, Gone
  <2>3. CASE ~t.flight
    BY <2>1, <2>3 DEF Handles, Follows
  <2> QED
    BY <2>2, <2>3
<1> QED
  BY <1>2, <1>3, <1>4

\* The end of the session: afterwards nothing is held, and what is in flight knows.
LEMMA SessionEndedHandles ==
  ASSUME NEW s, Good(s)
  PROVE  Handles(s, SessionEnded(s)) /\ Gone(SessionEnded(s))
<1> DEFINE t == s.track
           c == [t EXCEPT !.closed = t.flight]
           q == State(s.row, [t EXCEPT !.held = NotHeld, !.closed = t.flight])
<1>1. t \in Tracks /\ s.row \in Deliveries /\ s \in States
  BY DEF Good, States
<1>2. CASE t.held.t = "ok"
  <2>1. t.held # NotHeld /\ t # Forgotten
    BY <1>2 DEF NotHeld, Forgotten, Track
  <2>2. t.delivery.phase = "sending" /\ s.row = t.delivery /\ t.watch = NoKey /\ ~t.live
        /\ ~t.flight
    BY <2>1 DEF Good, Linked
  <2>3. Ready(q) /\ q.row = s.row
    BY <1>1, <2>2 DEF Ready, States, State, Tracks
  <2>4. c.held.t = "ok" /\ [c EXCEPT !.held = NotHeld] = [t EXCEPT !.held = NotHeld, !.closed = t.flight]
    BY <1>1, <1>2 DEF Tracks
  <2>5. SessionEnded(s) = Move(q, SessionClosed)
    BY <2>4 DEF SessionEnded
  <2> HIDE DEF q
  <2>6. Handles(s, Move(q, SessionClosed)) /\ ~Move(q, SessionClosed).track.flight
    BY <2>1, <2>3, FailHandles
  <2>7. Move(q, SessionClosed).track = Forgotten
    BY <2>3, ReadyFails DEF State
  <2> QED
    BY <2>5, <2>6, <2>7 DEF Gone, Forgotten, Track
<1>3. CASE t.held.t # "ok" /\ t.watch # NoKey
  <2>1. SessionEnded(s) = Forget(s)
    BY <1>1, <1>3 DEF SessionEnded, Tracks
  <2>2. t.delivery.phase = "delivered" /\ t # Forgotten
    BY <1>3 DEF Good, Linked, Forgotten, Track
  <2>3. s.row.phase # "sending"
    BY <2>2 DEF Good, Linked, Deleted, Delivery
  <2>4. Moved(Forget(s)) /\ Forget(s).row = s.row /\ Forget(s).track = Forgotten
    BY <1>1, ForgetMoved
  <2>5. Follows(s.row, Forget(s).row)
    BY <2>4 DEF Follows
  <2>6. Gone(Forget(s))
    BY <2>4 DEF Gone, Forgotten, Track
  <2> QED
    BY <2>1, <2>2, <2>3, <2>4, <2>5, <2>6, MovedHandles
<1>4. CASE t.held.t # "ok" /\ t.watch = NoKey
  <2>1. SessionEnded(s) = State(s.row, c)
    BY <1>1, <1>4 DEF SessionEnded, Tracks
  <2>2. /\ c \in Tracks /\ c.delivery = t.delivery /\ c.held = t.held /\ c.watch = t.watch
        /\ c.live = t.live /\ c.flight = t.flight /\ c.closed = t.flight
    BY <1>1 DEF Tracks
  <2>3. t.held = NotHeld
    BY <1>1, <1>4 DEF Tracks, Receipts
  <2>4. t = Forgotten => c = t
    <3>1. t = Forgotten => t.closed = t.flight
      BY DEF Forgotten, Track
    <3>2. t.closed = t.flight => c = t
      BY <1>1 DEF Tracks
    <3> HIDE DEF c
    <3> QED
      BY <3>1, <3>2
  <2>5. State(s.row, c) \in States /\ State(s.row, c).row = s.row /\ State(s.row, c).track = c
    BY <1>1, <2>2 DEF States, State
  <2>6. Linked(State(s.row, c))
    <3> HIDE DEF c
    <3> QED
      BY <2>2, <2>4, <2>5 DEF Good, Linked
  <2>7. t = Forgotten => State(s.row, c) = s
    BY <1>1, <2>4 DEF States, State
  <2> HIDE DEF c
  <2> QED
    BY <2>1, <2>2, <2>3, <2>5, <2>6, <2>7 DEF Handles, Good, Follows, Tended, Gone
<1> QED
  BY <1>2, <1>3, <1>4

\* A track that only learns of an echo is as well linked as before.
LEMMA EchoHandles ==
  ASSUME NEW s, Good(s), s.track # Forgotten,
         NEW echo \in {"none", "waiting", "seen", "replied"}
  PROVE  Handles(s, State(s.row, [s.track EXCEPT !.echo = echo]))
<1> DEFINE t == s.track
           c == [t EXCEPT !.echo = echo]
<1>1. t \in Tracks /\ s.row \in Deliveries
  BY DEF Good, States
<1>2. /\ c \in Tracks /\ c.delivery = t.delivery /\ c.held = t.held /\ c.watch = t.watch
      /\ c.live = t.live /\ c.flight = t.flight /\ c.closed = t.closed
  BY <1>1 DEF Tracks
<1>3. State(s.row, c) \in States /\ State(s.row, c).row = s.row /\ State(s.row, c).track = c
  BY <1>1, <1>2 DEF States, State
<1>4. t.delivery.phase # "absent"
  BY DEF Good, Linked
<1> HIDE DEF c
<1>5. Good(State(s.row, c))
  BY <1>2, <1>3, <1>4 DEF Good, Linked
<1>6. Handles(s, State(s.row, c))
  BY <1>2, <1>3, <1>5 DEF Handles, Follows, Tended, Gone
<1> QED
  BY <1>6 DEF c

\* A message no handler touches.
LEMMA SameHandles == ASSUME NEW s, Good(s) PROVE Handles(s, s)
  BY DEF Handles, Follows

\* The echo of a message, and the entry that follows it.
LEMMA EchoedHandles ==
  ASSUME NEW s, Good(s), NEW m, NEW e
  PROVE  Handles(s, Echoed(s, m, e))
<1>1. CASE e.msg = m /\ s.track.echo = "waiting"
  <2>1. s.track # Forgotten
    BY <1>1 DEF Forgotten, Track
  <2> QED
    BY <1>1, <2>1, EchoHandles DEF Echoed
<1>2. CASE ~(e.msg = m /\ s.track.echo = "waiting")
  BY <1>2, SameHandles DEF Echoed
<1> QED
  BY <1>1, <1>2

\* An entry of the dwarf follows every echo seen so far.
LEMMA RepliedHandles ==
  ASSUME NEW s, Good(s)
  PROVE  Handles(s, Replied(s))
<1> DEFINE t == IF s.track.echo = "seen" THEN [s.track EXCEPT !.echo = "replied"] ELSE s.track
           q == State(s.row, t)
<1>1. s.track \in Tracks /\ s.row \in Deliveries
  BY DEF Good, States
<1>2. t.live = s.track.live /\ t.delivery = s.track.delivery
  BY <1>1 DEF Tracks
<1>3. Handles(s, q)
  <2>1. CASE s.track.echo = "seen"
    <3>1. s.track # Forgotten
      BY <2>1 DEF Forgotten, Track
    <3> QED
      BY <2>1, <3>1, EchoHandles
  <2>2. CASE s.track.echo # "seen"
    <3>1. q = s
      BY <2>2 DEF Good, States, State
    <3> QED
      BY <3>1, SameHandles
  <2> QED
    BY <2>1, <2>2
<1>4. q.row = s.row /\ q.track = t
  BY DEF State
<1>5. Replied(s) = IF t.live /\ t.echo = "replied" THEN React(q, "transcript-match") ELSE q
  BY DEF Replied
<1> HIDE DEF q, t
<1>6. CASE t.live /\ t.echo = "replied"
  <2>1. s.track # Forgotten
    <3>1. Forgotten.live = FALSE
      BY DEF Forgotten, Track
    <3> QED
      BY <1>2, <1>6, <3>1
  <2>2. s.track.delivery.phase = "delivered"
    BY <1>2, <1>6, <2>1 DEF Good, Linked
  <2>3. Moved(q) /\ q.track.delivery.phase = "delivered"
    BY <1>2, <1>3, <1>4, <2>2 DEF Handles, Good, Moved
  <2>4. /\ Moved(React(q, "transcript-match"))
        /\ React(q, "transcript-match").row =
             IF s.row = s.track.delivery THEN To(s.row, "reacted") ELSE s.row
    BY <1>2, <1>4, <2>3, ReactMoved
  <2>5. s.row = s.track.delivery \/ s.row = Deleted(s.track.delivery)
    BY <2>2 DEF Good, Linked
  <2>6. Follows(s.row, React(q, "transcript-match").row)
        /\ React(q, "transcript-match").row.phase # "sending"
    BY <2>2, <2>4, <2>5 DEF Follows, To, Delivery, Deleted
  <2> QED
    BY <1>5, <1>6, <2>1, <2>4, <2>6, MovedHandles
<1>7. CASE ~(t.live /\ t.echo = "replied")
  BY <1>3, <1>5, <1>7
<1> QED
  BY <1>6, <1>7

\* Whatever the event.
LEMMA EventHandles ==
  ASSUME NEW m \in Msgs, Good(At(m)), NEW e \in Events
  PROVE  /\ Handles(At(m), AfterEvent(m, e))
         /\ e.t = "exited" => Gone(AfterEvent(m, e))
<1>1. CASE e.t = "ended"
  <2>1. e \in Ends
    BY <1>1 DEF Events, Reply, Exited
  <2> QED
    BY <1>1, <2>1, TurnEndedHandles DEF AfterEvent
<1>2. CASE e.t = "echo"
  BY <1>2, EchoedHandles DEF AfterEvent
<1>3. CASE e.t = "reply"
  BY <1>3, RepliedHandles DEF AfterEvent
<1>4. CASE e.t \notin {"ended", "echo", "reply"}
  BY <1>4, SessionEndedHandles DEF AfterEvent
<1> QED
  BY <1>1, <1>2, <1>3, <1>4

-----------------------------------------------------------------------------
(* The messages of a dwarf *)

\* The types of what is not a message's own.
RestType ==
  /\ driver \in Drivers
  /\ up \in BOOLEAN
  /\ call \in [Msgs -> Calls]
  /\ listed \subseteq Msgs
  /\ session \in {"live", "exited", "departed", "down"}
  /\ turn \in [n: Turns, msg: Msgs \cup {"launch"}, begun: BOOLEAN]
  /\ turnCount \in Turns
  /\ queue \in Seq(Msgs)
  /\ events \in Seq(Events)
  /\ taken \subseteq Msgs \cup {"launch"} /\ worked \subseteq Msgs \cup {"launch"}
  /\ handed \in [Msgs -> Nat] /\ unread \subseteq Msgs

\* Every message is well linked, and the functions are functions.
MessagesGood ==
  /\ row \in [Msgs -> Deliveries] /\ track \in [Msgs -> Tracks]
  /\ \A m \in Msgs : Good(At(m))

\* A hand-over in flight is on its way to the driver or back.
FlightHasCall == \A m \in Msgs : track[m].flight => call[m] # NoCall

\* A stopped Host keeps nothing; the reconcile watches rows nobody else does.
ListedAreLeft ==
  /\ ~up => listed = {} /\ \A m \in Msgs : track[m] = Forgotten
  /\ \A m \in listed : track[m] = Forgotten /\ row[m].phase = "sending"

\* A row shown as sending is somebody's.
SendingIsKept ==
  up => \A m \in Msgs : row[m].phase = "sending" =>
          track[m].delivery.phase = "sending" \/ m \in listed \/ m \in unread

\* After the Host heard that the session is gone, nothing is held.
DepartedHoldsNothing == session = "departed" => \A m \in Msgs : Gone(At(m))

Inv == /\ RestType /\ MessagesGood /\ FlightHasCall /\ ListedAreLeft
       /\ SendingIsKept /\ DepartedHoldsNothing

\* The row and track of a good message have their types.
LEMMA AtTypes ==
  ASSUME MessagesGood, NEW m \in Msgs
  PROVE  /\ At(m) \in States /\ At(m).row = row[m] /\ At(m).track = track[m]
         /\ Linked(At(m)) /\ Good(At(m))
  BY DEF MessagesGood, Good, At, State

\* The delivery that starts a message, and its track.
LEMMA TrackedGood ==
  ASSUME NEW d \in Deliveries, d.phase = "sending"
  PROVE  /\ Tracked(d) \in Tracks /\ Good(State(d, Tracked(d)))
         /\ Tracked(d).flight /\ Tracked(d).held = NotHeld /\ Tracked(d).delivery = d
<1>1. /\ Tracked(d) \in Tracks /\ Tracked(d).flight /\ Tracked(d).held = NotHeld
      /\ Tracked(d).delivery = d /\ Tracked(d).watch = NoKey /\ ~Tracked(d).live
  BY DEF Tracked, Track, Tracks, Keys, NoKey, NotHeld, Turns
<1> QED
  BY <1>1 DEF Good, Linked, States, State

\* A settled message may go: what is kept of it does not mind.
LEMMA DeletedGood ==
  ASSUME MessagesGood, NEW m \in Purgeable
  PROVE  /\ Good(State(Deleted(row[m]), track[m]))
         /\ Gone(At(m)) => Gone(State(Deleted(row[m]), track[m]))
         /\ Deleted(row[m]).phase = "deleted"
<1>1. m \in Msgs /\ row[m].phase \in {"delivered", "reacted", "failed"}
  BY DEF Purgeable, Settled
<1>2. At(m).row = row[m] /\ At(m).track = track[m] /\ Linked(At(m)) /\ At(m) \in States
  BY <1>1, AtTypes
<1>3. row[m] \in Deliveries /\ track[m] \in Tracks
  BY <1>1 DEF MessagesGood
<1>4. Deleted(row[m]) \in Deliveries
  BY <1>3, MovesAreDeliveries
<1> DEFINE r == State(Deleted(row[m]), track[m])
<1>5. r.row = Deleted(row[m]) /\ r.track = track[m] /\ r \in States
  BY <1>3, <1>4 DEF State, States
<1>6. track[m].delivery.phase = "delivered" => row[m] = track[m].delivery
  BY <1>1, <1>2 DEF Linked, Deleted, Delivery
<1> HIDE DEF r
<1>7. Linked(r)
  BY <1>1, <1>2, <1>5, <1>6 DEF Linked
<1>8. Gone(At(m)) => Gone(r)
  BY <1>2, <1>5 DEF Gone
<1> QED
  BY <1>5, <1>7, <1>8 DEF Good, r, Deleted, Delivery

\* The rows after some settled ones went.
LEMMA WithoutGood ==
  ASSUME MessagesGood, NEW gone \in SUBSET Purgeable
  PROVE  /\ Without(gone) \in [Msgs -> Deliveries]
         /\ \A m \in Msgs : Good(State(Without(gone)[m], track[m]))
         /\ \A m \in Msgs : Gone(At(m)) => Gone(State(Without(gone)[m], track[m]))
         /\ \A m \in Msgs : Without(gone)[m].phase = "sending" <=> row[m].phase = "sending"
         /\ \A m \in Msgs : Without(gone)[m] = row[m] \/ (m \in Purgeable /\ Without(gone)[m] = Deleted(row[m]))
<1>1. \A m \in Msgs : Without(gone)[m] = IF m \in gone THEN Deleted(row[m]) ELSE row[m]
  BY DEF Without
<1>2. ASSUME NEW m \in gone
      PROVE  /\ Deleted(row[m]) \in Deliveries /\ Good(State(Deleted(row[m]), track[m]))
             /\ Gone(At(m)) => Gone(State(Deleted(row[m]), track[m]))
             /\ Deleted(row[m]).phase # "sending" /\ row[m].phase # "sending"
  <2>1. m \in Purgeable /\ m \in Msgs /\ row[m] \in Deliveries
    BY DEF Purgeable, MessagesGood
  <2> QED
    BY <2>1, DeletedGood, MovesAreDeliveries DEF Purgeable, Settled
<1>3. ASSUME NEW m \in Msgs PROVE row[m] \in Deliveries /\ Good(State(row[m], track[m]))
  BY DEF MessagesGood, At
<1>4. Without(gone) = [m \in Msgs |-> IF m \in gone THEN Deleted(row[m]) ELSE row[m]]
  BY DEF Without
<1>5. Without(gone) \in [Msgs -> Deliveries]
  BY <1>2, <1>3, <1>4
<1>6. \A m \in Msgs : At(m) = State(row[m], track[m])
  BY DEF At
<1>7. gone \subseteq Purgeable
  OBVIOUS
<1> HIDE DEF Without
<1>8. \A m \in Msgs : Good(State(Without(gone)[m], track[m]))
  BY <1>1, <1>2, <1>3
<1>9. \A m \in Msgs : Gone(At(m)) => Gone(State(Without(gone)[m], track[m]))
  BY <1>1, <1>2, <1>6
<1>10. \A m \in Msgs : Without(gone)[m].phase = "sending" <=> row[m].phase = "sending"
  BY <1>1, <1>2
<1>11. \A m \in Msgs : Without(gone)[m] = row[m] \/ (m \in Purgeable /\ Without(gone)[m] = Deleted(row[m]))
  BY <1>1, <1>7
<1> QED
  BY <1>5, <1>8, <1>9, <1>10, <1>11

\* No step of a settled row makes it sending again.
LEMMA FollowsSending ==
  ASSUME NEW d, NEW e, Follows(d, e), e.phase = "sending"
  PROVE  d.phase = "sending"
  BY DEF Follows, To, Delivery

\* A step in which every message is handled, by its own handler or by none.
LEMMA HandledStep ==
  ASSUME Inv, row' \in [Msgs -> Deliveries], track' \in [Msgs -> Tracks],
         \A m \in Msgs : Handles(At(m), At(m)'),
         up' = up, listed' = listed, unread' = unread
  PROVE  /\ MessagesGood' /\ ListedAreLeft' /\ SendingIsKept'
         /\ \A m \in Msgs : Gone(At(m)) => Gone(At(m))'
         /\ \A m \in Msgs : track'[m].flight => track[m].flight
<1>1. \A m \in Msgs : At(m).row = row[m] /\ At(m).track = track[m]
  BY DEF At, State
<1>2. \A m \in Msgs : At(m)'.row = row'[m] /\ At(m)'.track = track'[m]
  BY DEF At, State
<1>3. MessagesGood'
  BY DEF MessagesGood, Handles
<1>4. \A m \in Msgs : Gone(At(m)) => Gone(At(m))'
  BY DEF Handles, Gone
<1>5. \A m \in Msgs : track'[m].flight => track[m].flight
  BY <1>1, <1>2 DEF Handles
<1>6. ASSUME NEW m \in Msgs, track[m] = Forgotten
      PROVE  track'[m] = Forgotten /\ row'[m] = row[m]
  BY <1>1, <1>2, <1>6 DEF Handles
<1>7. ListedAreLeft'
  BY <1>6 DEF Inv, ListedAreLeft, RestType
<1>8. ASSUME up', NEW m \in Msgs, row'[m].phase = "sending"
      PROVE  track'[m].delivery.phase = "sending" \/ m \in listed' \/ m \in unread'
  <2>1. row[m].phase = "sending"
    BY <1>1, <1>2, <1>8, FollowsSending DEF Handles
  <2>2. CASE track[m].delivery.phase = "sending"
    BY <1>1, <1>2, <1>8, <2>2 DEF Handles, Tended
  <2> QED
    BY <1>8, <2>1, <2>2 DEF Inv, SendingIsKept
<1> QED
  BY <1>3, <1>4, <1>5, <1>7, <1>8 DEF SendingIsKept

-----------------------------------------------------------------------------
(* Types *)

\* The answers of a driver are calls.
LEMMA CallTypes ==
  /\ NoCall \in Calls /\ Queued \in Calls
  /\ Failure("session-closed") \in Calls /\ Failure("channel-error") \in Calls
  /\ \A n \in Nat, held \in BOOLEAN :
       /\ Receipt(held, Named(n, held)) \in Calls /\ Receipt(held, Key(n)) \in Calls
       /\ Receipt(held, NoKey) \in Calls /\ Called(n) \in Calls
<1>1. \A n \in Nat : Key(n) \in Keys /\ Number(n) \in Keys /\ NoKey \in Keys
  BY DEF Key, Number, NoKey, Keys, Turns
<1>2. \A n \in Nat, held \in BOOLEAN : Named(n, held) \in Keys
  BY <1>1 DEF Named
<1>3. \A k \in Keys, held \in BOOLEAN : Receipt(held, k) \in Receipts
  BY DEF Receipt, Receipts
<1>4. \A n \in Nat : Called(n) \in Calls
  BY DEF Called, Calls, Turns
<1> QED
  BY <1>1, <1>2, <1>3, <1>4 DEF Calls

\* A turn that begins is a turn.
LEMMA BeginTypes ==
  ASSUME RestType, NEW m \in Msgs, Begin(m)
  PROVE  /\ turnCount' \in Turns /\ taken' \subseteq Msgs \cup {"launch"}
         /\ turn' \in [n: Turns, msg: Msgs \cup {"launch"}, begun: BOOLEAN]
  BY DEF RestType, Begin, TurnAt, Turns, Begun

\* No turn is a turn; the agent may be in none.
LEMMA NoTurnType == NoTurn \in [n: Turns, msg: Msgs \cup {"launch"}, begun: BOOLEAN]
  BY DEF NoTurn, Turns

\* A sequence one event longer.
LEMMA AppendType ==
  ASSUME NEW S, NEW s \in Seq(S), NEW e \in S
  PROVE  Append(s, e) \in Seq(S)
  OBVIOUS

\* Every step keeps the types of what is not a message's own.
LEMMA RestStep == RestType /\ [Next]_vars => RestType'
<1> SUFFICES ASSUME RestType, [Next]_vars PROVE RestType'
  OBVIOUS
<1> USE DEF driverVars, memory, history
<1>1. ASSUME NEW m \in Msgs, Send(m) PROVE RestType'
  BY <1>1, CallTypes DEF RestType, Send
<1>2. ASSUME NEW m \in Msgs, Resend(m) PROVE RestType'
  BY <1>2, CallTypes DEF RestType, Resend
<1>3. ASSUME NEW m \in Msgs, FilesChanged(m) PROVE RestType'
  BY <1>3, CallTypes DEF RestType, FilesChanged
<1>4. ASSUME NEW m \in Msgs, TakeAnswer(m) PROVE RestType'
  BY <1>4, CallTypes DEF RestType, TakeAnswer
<1>5. CASE Purge
  BY <1>5, CallTypes DEF RestType, Purge
<1>6. CASE TakeEvent
  <2>1. events' \in Seq(Events)
    BY <1>6 DEF RestType, TakeEvent
  <2> QED
    BY <1>6, <2>1 DEF RestType, TakeEvent
<1>7. CASE Boot
  BY <1>7 DEF RestType, Boot, SendingRows
<1>8. CASE BootEnded
  BY <1>8 DEF RestType, BootEnded, SendingRows
<1>9. CASE WindowEnds
  BY <1>9 DEF RestType, WindowEnds
<1>10. ASSUME NEW m \in Msgs, Replayed(m) PROVE RestType'
  BY <1>10 DEF RestType, Replayed
<1>11. ASSUME NEW m \in Msgs, DriverTakes(m) PROVE RestType'
  <2> DEFINE waiting == IF Working THEN Len(queue) ELSE 0
             n == turnCount + 1 + waiting
  <2>1. n \in Nat
    <3>1. turnCount \in Nat /\ Len(queue) \in Nat
      BY DEF RestType, Turns
    <3>2. waiting \in Nat
      BY <3>1
    <3> HIDE DEF waiting
    <3> QED
      BY <3>1, <3>2
  <2>2. EchoesOf(m) \in Seq(Events)
    <3>1. Echo(m) \in Events
      BY DEF Echo, Events
    <3> QED
      BY <3>1 DEF EchoesOf
  <2>3. events' \in Seq(Events) /\ handed' \in [Msgs -> Nat]
    BY <1>11, <2>2 DEF DriverTakes, RestType
  <2>4. CASE Working
    <3>1. queue' = Append(queue, m)
          /\ call' = [call EXCEPT ![m] = Receipt(TRUE, Named(n, TRUE))]
          /\ UNCHANGED <<turn, turnCount, taken>>
      BY <1>11, <2>4 DEF DriverTakes
    <3> HIDE DEF n
    <3>2. queue' \in Seq(Msgs) /\ call' \in [Msgs -> Calls]
      <4>1. Receipt(TRUE, Named(n, TRUE)) \in Calls
        BY <2>1, CallTypes
      <4>2. call' \in [Msgs -> Calls]
        BY <3>1, <4>1 DEF RestType
      <4> QED
        BY <3>1, <4>2, AppendType DEF RestType
    <3> QED
      BY <1>11, <2>3, <3>1, <3>2 DEF DriverTakes, RestType
  <2>5. CASE ~Working
    <3>1. Begin(m) /\ UNCHANGED queue
          /\ call' = [call EXCEPT ![m] = IF Begun(m) THEN Receipt(FALSE, Named(n, FALSE))
                                         ELSE Called(n)]
      BY <1>11, <2>5 DEF DriverTakes
    <3> HIDE DEF n
    <3>2. call' \in [Msgs -> Calls]
      BY <2>1, <3>1, CallTypes DEF RestType
    <3> QED
      BY <1>11, <2>3, <3>1, <3>2, BeginTypes DEF DriverTakes, RestType
  <2> QED
    BY <2>4, <2>5
<1>12. ASSUME NEW m \in Msgs, DriverRefuses(m) PROVE RestType'
  BY <1>12, CallTypes DEF RestType, DriverRefuses
<1>13. ASSUME NEW m \in Msgs, CodexAnswers(m) PROVE RestType'
  <2>1. call[m].n \in Nat
    BY <1>13 DEF CodexAnswers, RestType, Calls, Turns, NoCall, Queued, Failure, Receipts
  <2>2. call' \in [Msgs -> Calls]
    BY <1>13, <2>1, CallTypes DEF CodexAnswers, RestType
  <2>3. turn' \in [n: Turns, msg: Msgs \cup {"launch"}, begun: BOOLEAN]
    BY <1>13, NoTurnType DEF CodexAnswers, RestType
  <2> QED
    BY <1>13, <2>2, <2>3 DEF CodexAnswers, RestType
<1>14. CASE CodexBegins
  BY <1>14, DeliveryAssumption DEF RestType, CodexBegins, Working
<1>15. CASE CodexRefuses
  BY <1>15, CallTypes, NoTurnType DEF RestType, CodexRefuses
<1>16. CASE AgentSpeaks
  <2>1. events' \in Seq(Events)
    BY <1>16 DEF RestType, AgentSpeaks, Reply, Events
  <2> QED
    BY <1>16, <2>1 DEF RestType, AgentSpeaks
<1>17. CASE TurnEnds
  <2>1. \A work \in BOOLEAN : Ended(turn, work) \in Events
    BY DEF RestType, Ended, Events, Ends
  <2>2. events' \in Seq(Events) /\ worked' \subseteq Msgs \cup {"launch"}
    <3>1. PICK work \in BOOLEAN : events' = Append(events, Ended(turn, work))
      BY <1>17 DEF TurnEnds
    <3>2. events' \in Seq(Events)
      BY <2>1, <3>1, AppendType DEF RestType
    <3>3. worked' \subseteq Msgs \cup {"launch"}
      BY <1>17 DEF RestType, TurnEnds
    <3> QED
      BY <3>2, <3>3
  <2>3. CASE queue = <<>>
    BY <1>17, <2>2, <2>3, NoTurnType DEF RestType, TurnEnds
  <2>4. CASE queue # <<>>
    <3>1. Head(queue) \in Msgs /\ Tail(queue) \in Seq(Msgs)
      BY <2>4 DEF RestType
    <3>2. Begin(Head(queue)) /\ queue' = Tail(queue)
      BY <1>17, <2>4 DEF TurnEnds
    <3> QED
      BY <1>17, <2>2, <3>1, <3>2, BeginTypes DEF RestType, TurnEnds
  <2> QED
    BY <2>3, <2>4
<1>18. CASE SessionExits
  <2>1. events' \in Seq(Events)
    BY <1>18 DEF RestType, SessionExits, Exited, Events
  <2> QED
    BY <1>18, <2>1, NoTurnType, CallTypes DEF RestType, SessionExits
<1>19. CASE Crash
  <2>1. {queue[i] : i \in DOMAIN queue} \subseteq Msgs
    BY DEF RestType
  <2>2. taken' \subseteq Msgs \cup {"launch"}
    BY <1>19, <2>1 DEF Crash, RestType
  <2>3. call' \in [Msgs -> Calls] /\ listed' \subseteq Msgs /\ up' \in BOOLEAN
    BY <1>19, CallTypes DEF Crash
  <2>4. session' \in {"live", "exited", "departed", "down"}
    BY <1>19 DEF Crash
  <2>5. turn' \in [n: Turns, msg: Msgs \cup {"launch"}, begun: BOOLEAN]
    BY <1>19, NoTurnType DEF Crash
  <2>6. queue' \in Seq(Msgs) /\ events' \in Seq(Events)
    BY <1>19 DEF Crash
  <2> QED
    BY <1>19, <2>2, <2>3, <2>4, <2>5, <2>6 DEF RestType, Crash
<1>20. CASE UNCHANGED vars
  BY <1>20 DEF RestType, vars
<1> QED
  BY <1>1, <1>2, <1>3, <1>4, <1>5, <1>6, <1>7, <1>8, <1>9, <1>10, <1>11, <1>12, <1>13, <1>14,
     <1>15, <1>16, <1>17, <1>18, <1>19, <1>20
  DEF Next, Host, Session

-----------------------------------------------------------------------------
(* The inductive invariant *)

\* A step that leaves every row and every track as it was.
LEMMA QuietStep ==
  ASSUME Inv, UNCHANGED <<row, track, up, listed, unread>>
  PROVE  /\ MessagesGood' /\ ListedAreLeft' /\ SendingIsKept'
         /\ \A m \in Msgs : Gone(At(m)) => Gone(At(m))'
         /\ \A m \in Msgs : track'[m].flight => track[m].flight
<1>1. \A m \in Msgs : At(m)' = At(m)
  BY DEF At
<1>2. \A m \in Msgs : Handles(At(m), At(m)')
  BY <1>1, SameHandles DEF Inv, MessagesGood
<1>3. row' \in [Msgs -> Deliveries] /\ track' \in [Msgs -> Tracks]
  BY DEF Inv, MessagesGood
<1> QED
  BY <1>2, <1>3, HandledStep

\* The parts of the invariant that speak of calls and of the session follow.
LEMMA RestFollows ==
  ASSUME Inv, MessagesGood', ListedAreLeft', SendingIsKept', RestType',
         \A m \in Msgs : Gone(At(m)) => Gone(At(m))',
         \A m \in Msgs : track'[m].flight => track[m].flight /\ call'[m] # NoCall,
         session' = "departed" => session = "departed"
  PROVE  Inv'
  BY DEF Inv, FlightHasCall, DepartedHoldsNothing

\* A step of one message by its handler.
LEMMA OneStep ==
  ASSUME Inv, NEW m \in Msgs, NEW r, One(m, r), Handles(At(m), r),
         up' = up, listed' = listed, unread' = unread
  PROVE  /\ MessagesGood' /\ ListedAreLeft' /\ SendingIsKept'
         /\ \A x \in Msgs : Gone(At(x)) => Gone(At(x))'
         /\ \A x \in Msgs : track'[x].flight => track[x].flight
         /\ At(m)' = r
<1>1. r \in States /\ r.row \in Deliveries /\ r.track \in Tracks
  BY DEF Handles, Good, States
<1>2. row' \in [Msgs -> Deliveries] /\ track' \in [Msgs -> Tracks]
  BY <1>1 DEF Inv, MessagesGood, One
<1>3. \A x \in Msgs \ {m} : At(x)' = At(x)
  BY DEF One, At, Inv, MessagesGood
<1>4. row'[m] = r.row /\ track'[m] = r.track
  BY DEF One, Inv, MessagesGood
<1>5. At(m)' = r
  BY <1>1, <1>4 DEF At, States, State
<1>6. \A x \in Msgs : Handles(At(x), At(x)')
  BY <1>3, <1>5, SameHandles DEF Inv, MessagesGood
<1> QED
  BY <1>2, <1>5, <1>6, HandledStep

\* A step that starts the delivery of a message, after the trim of settled ones.
LEMMA StartStep ==
  ASSUME Inv, NEW m \in Msgs, NEW d \in Deliveries, d.phase = "sending",
         NEW gone \in SUBSET Purgeable, m \notin gone,
         row' = [Without(gone) EXCEPT ![m] = d],
         track' = [track EXCEPT ![m] = Tracked(d)],
         call' = [call EXCEPT ![m] = Queued], row[m].phase # "sending",
         up, UNCHANGED <<up, listed, session, unread>>, RestType', session # "departed"
  PROVE  Inv'
<1>1. /\ Tracked(d) \in Tracks /\ Good(State(d, Tracked(d)))
      /\ Tracked(d).flight /\ Tracked(d).held = NotHeld /\ Tracked(d).delivery = d
  BY TrackedGood
<1>2. /\ Without(gone) \in [Msgs -> Deliveries]
      /\ \A x \in Msgs : Good(State(Without(gone)[x], track[x]))
      /\ \A x \in Msgs : Without(gone)[x].phase = "sending" <=> row[x].phase = "sending"
  BY WithoutGood DEF Inv
<1>3. row' \in [Msgs -> Deliveries] /\ track' \in [Msgs -> Tracks]
  BY <1>1, <1>2 DEF Inv, MessagesGood
<1>4. row'[m] = d /\ track'[m] = Tracked(d)
  BY <1>2 DEF Inv, MessagesGood
<1>5. \A x \in Msgs \ {m} : row'[x] = Without(gone)[x] /\ track'[x] = track[x]
  BY <1>2 DEF Inv, MessagesGood
<1>6. \A x \in Msgs : Good(At(x))'
  BY <1>1, <1>2, <1>4, <1>5 DEF At
<1>7. MessagesGood'
  BY <1>3, <1>6 DEF MessagesGood
<1>8. FlightHasCall'
  <2>1. call'[m] = Queued /\ \A x \in Msgs \ {m} : call'[x] = call[x]
    BY DEF Inv, RestType
  <2> QED
    BY <1>5, <2>1 DEF Inv, FlightHasCall, Queued, NoCall
<1>9. m \notin listed
  BY DEF Inv, ListedAreLeft
<1>10. SendingIsKept'
  BY <1>1, <1>2, <1>4, <1>5 DEF Inv, SendingIsKept
<1>11. ListedAreLeft'
  <2>1. \A x \in listed : track[x] = Forgotten /\ row[x].phase = "sending" /\ x \in Msgs
    BY DEF Inv, ListedAreLeft, RestType
  <2>2. \A x \in listed' : track'[x] = Forgotten /\ row'[x].phase = "sending"
    BY <1>2, <1>5, <1>9, <2>1
  <2> QED
    BY <2>2 DEF Inv, ListedAreLeft
<1>12. DepartedHoldsNothing'
  BY DEF DepartedHoldsNothing
<1> QED
  BY <1>7, <1>8, <1>10, <1>11, <1>12 DEF Inv

\* The rows the boot settles are nobody else's.
LEMMA ReconciledTypes ==
  ASSUME NEW d \in Deliveries, NEW found \in BOOLEAN, NEW actedAfter \in BOOLEAN
  PROVE  /\ Reconciled(d, found, actedAfter) \in Deliveries
         /\ Reconciled(d, found, actedAfter) \in
              {To(d, "delivered"), To(d, "reacted"), FailedBy(d, "host-interrupted")}
         /\ Reconciled(d, found, actedAfter).phase # "sending"
<1>1. Reconciled(d, found, actedAfter) \in
        {To(d, "delivered"), To(d, "reacted"), FailedBy(d, "host-interrupted")}
  BY DEF Reconciled
<1>2. /\ To(d, "delivered") \in Deliveries /\ To(d, "reacted") \in Deliveries
      /\ FailedBy(d, "host-interrupted") \in Deliveries
  BY MovesAreDeliveries DEF Failures
<1>3. /\ To(d, "delivered").phase # "sending" /\ To(d, "reacted").phase # "sending"
      /\ FailedBy(d, "host-interrupted").phase # "sending"
  BY DEF To, FailedBy, Delivery
<1> QED
  BY <1>1, <1>2, <1>3

\* A step that settles some of the listed rows.
LEMMA ReconcileStep ==
  ASSUME Inv, NEW settled \in SUBSET listed, NEW found \in BOOLEAN, NEW actedAfter \in BOOLEAN,
         row' = [m \in Msgs |-> IF m \in settled THEN Reconciled(row[m], found, actedAfter)
                                ELSE row[m]],
         listed' = listed \ settled, UNCHANGED <<up, track, call, session, unread>>, RestType'
  PROVE  Inv'
<1>1. \A m \in settled : track[m] = Forgotten /\ row[m] \in Deliveries
  BY DEF Inv, ListedAreLeft, RestType, MessagesGood
<1>2. \A m \in settled : Reconciled(row[m], found, actedAfter) \in Deliveries
                        /\ Reconciled(row[m], found, actedAfter).phase # "sending"
  BY <1>1, ReconciledTypes
<1>3. row' \in [Msgs -> Deliveries] /\ track' \in [Msgs -> Tracks]
  BY <1>2 DEF Inv, MessagesGood
<1>4. \A m \in Msgs : row'[m] = IF m \in settled THEN Reconciled(row[m], found, actedAfter)
                                ELSE row[m]
  OBVIOUS
<1>5. ASSUME NEW m \in settled PROVE Good(At(m))'
  <2>1. At(m)' = State(row'[m], Forgotten) /\ row'[m] \in Deliveries
    BY <1>1, <1>2, <1>4 DEF At, Inv, RestType
  <2>2. State(row'[m], Forgotten) \in States /\ State(row'[m], Forgotten).track = Forgotten
    BY <2>1, ForgottenTrack DEF States, State
  <2> QED
    BY <2>1, <2>2 DEF Good, Linked, Forgotten, Track, Absent, Delivery
<1>6. \A m \in Msgs \ settled : At(m)' = At(m)
  BY <1>4 DEF At
<1>7. MessagesGood'
  BY <1>3, <1>5, <1>6 DEF Inv, MessagesGood
<1>8. FlightHasCall'
  BY DEF Inv, FlightHasCall
<1>9. ListedAreLeft'
  BY <1>4 DEF Inv, ListedAreLeft, RestType
<1>10. SendingIsKept'
  BY <1>2, <1>4 DEF Inv, SendingIsKept
<1>11. \A m \in Msgs : Gone(At(m)) <=> track[m].held = NotHeld /\ (track[m].flight => track[m].closed)
  BY DEF Gone, At, State
<1>12. \A m \in Msgs : Gone(At(m))' <=> track'[m].held = NotHeld /\ (track'[m].flight => track'[m].closed)
  BY DEF Gone, At, State
<1>13. DepartedHoldsNothing'
  BY <1>11, <1>12 DEF Inv, DepartedHoldsNothing
<1> QED
  BY <1>7, <1>8, <1>9, <1>10, <1>13 DEF Inv

\* What the sender takes as the answer of the driver.
LEMMA AnswersAreCalls ==
  ASSUME RestType, NEW m \in Msgs, TakeAnswer(m)
  PROVE  call[m] \in Receipts \cup {Failure("session-closed"), Failure("channel-error")}
<1>1. NoCall.t = "none" /\ Queued.t = "queued" /\ \A c \in [t: {"called"}, n: Turns] : c.t = "called"
  BY DEF NoCall, Queued
<1>2. call[m] \in Calls /\ call[m].t \in {"ok", "session-closed", "channel-error"}
  BY DEF TakeAnswer, RestType
<1> QED
  BY <1>1, <1>2 DEF Calls

\* The invariant is inductive.
LEMMA InvStep == Inv /\ [Next]_vars => Inv'
<1> SUFFICES ASSUME Inv, [Next]_vars PROVE Inv'
  OBVIOUS
<1> USE DEF driverVars, memory, history
<1>0. RestType'
  BY RestStep DEF Inv
<1>1. ASSUME NEW m \in Msgs, Send(m) PROVE Inv'
  <2>1. PICK gone \in SUBSET Purgeable : row' = [Without(gone) EXCEPT ![m] = Started]
    BY <1>1 DEF Send
  <2>2. row[m] = Absent /\ session # "departed" /\ up
    BY <1>1 DEF Send, CanReceive
  <2>3. Started \in Deliveries /\ Started.phase = "sending"
    BY DeliveryAssumption DEF Started, Delivery, Deliveries, Phases
  <2>4. m \notin gone /\ row[m].phase # "sending"
    BY <2>2 DEF Purgeable, Settled, Absent, Delivery
  <2>5. /\ track' = [track EXCEPT ![m] = Tracked(Started)] /\ call' = [call EXCEPT ![m] = Queued]
        /\ UNCHANGED <<up, listed, session, unread>>
    BY <1>1 DEF Send
  <2> HIDE DEF driverVars, memory, history
  <2> QED
    BY <1>0, <2>1, <2>2, <2>3, <2>4, <2>5, StartStep
<1>2. ASSUME NEW m \in Msgs, Resend(m) PROVE Inv'
  <2> DEFINE next == Advance(row[m], Retry(CanReceive))
  <2>1. row[m] \in Deliveries /\ row[m].phase = "failed" /\ row[m].attempts < MaxAttempts /\ up
    BY <1>2 DEF Resend, Inv, MessagesGood
  <2>2. next.phase # "refused" /\ row' = [row EXCEPT ![m] = next]
    BY <1>2 DEF Resend
  <2>3. CanReceive /\ next = Delivery("sending", "none", row[m].attempts + 1, FALSE)
    BY <2>1, <2>2 DEF Advance, FromFailed, Retry, Refused
  <2>4. row[m].attempts + 1 \in 0..MaxAttempts
    BY <2>1, DeliveryAssumption DEF Deliveries
  <2>5. next \in Deliveries /\ next.phase = "sending"
    BY <2>3, <2>4, DeliveryType DEF Phases
  <2>6. Without({}) = row
    BY DEF Without, Inv, MessagesGood
  <2>7. /\ track' = [track EXCEPT ![m] = Tracked(next)] /\ call' = [call EXCEPT ![m] = Queued]
        /\ UNCHANGED <<up, listed, session, unread>>
    BY <1>2 DEF Resend
  <2>8. session # "departed" /\ {} \in SUBSET Purgeable
    BY <2>3 DEF CanReceive
  <2> HIDE DEF next, driverVars, memory, history
  <2>9. row' = [Without({}) EXCEPT ![m] = next]
    BY <2>2, <2>6
  <2> QED
    BY <1>0, <2>1, <2>5, <2>7, <2>8, <2>9, StartStep
<1>3. CASE Purge
  <2>1. PICK gone \in SUBSET Purgeable : row' = Without(gone)
    BY <1>3 DEF Purge
  <2>2. UNCHANGED <<up, track, call, listed, session, unread>>
    BY <1>3 DEF Purge
  <2>3. /\ Without(gone) \in [Msgs -> Deliveries]
        /\ \A m \in Msgs : Good(State(Without(gone)[m], track[m]))
        /\ \A m \in Msgs : Gone(At(m)) => Gone(State(Without(gone)[m], track[m]))
        /\ \A m \in Msgs : Without(gone)[m].phase = "sending" <=> row[m].phase = "sending"
    BY WithoutGood DEF Inv
  <2>4. \A m \in Msgs : At(m)' = State(Without(gone)[m], track[m])
    BY <2>1, <2>2 DEF At
  <2>5. MessagesGood'
    BY <2>1, <2>2, <2>3, <2>4 DEF Inv, MessagesGood
  <2>6. ListedAreLeft'
    BY <2>1, <2>2, <2>3 DEF Inv, ListedAreLeft, RestType
  <2>7. SendingIsKept'
    BY <2>1, <2>2, <2>3 DEF Inv, SendingIsKept
  <2> QED
    BY <1>0, <2>2, <2>3, <2>4, <2>5, <2>6, <2>7, RestFollows DEF Inv, FlightHasCall
<1>4. ASSUME NEW m \in Msgs, TakeAnswer(m) PROVE Inv'
  <2>1. call[m] \in Receipts \cup {Failure("session-closed"), Failure("channel-error")}
    BY <1>4, AnswersAreCalls DEF Inv
  <2>2. Handles(At(m), Answered(At(m), call[m])) /\ ~Answered(At(m), call[m]).track.flight
    BY <2>1, AnsweredHandles DEF Inv, MessagesGood
  <2>3. One(m, Answered(At(m), call[m])) /\ UNCHANGED <<up, listed, session, unread>>
        /\ call' = [call EXCEPT ![m] = NoCall]
    BY <1>4 DEF TakeAnswer
  <2>4. /\ MessagesGood' /\ ListedAreLeft' /\ SendingIsKept'
        /\ \A x \in Msgs : Gone(At(x)) => Gone(At(x))'
        /\ \A x \in Msgs : track'[x].flight => track[x].flight
        /\ At(m)' = Answered(At(m), call[m])
    BY <2>2, <2>3, OneStep
  <2>5. ~track'[m].flight
    BY <2>2, <2>4 DEF At, State
  <2>6. \A x \in Msgs \ {m} : call'[x] = call[x]
    BY <2>3 DEF Inv, RestType
  <2> QED
    BY <1>0, <2>3, <2>4, <2>5, <2>6, RestFollows DEF Inv, FlightHasCall
<1>5. CASE TakeEvent
  <2>1. Head(events) \in Events
    BY <1>5 DEF TakeEvent, Inv, RestType
  <2>2. \A m \in Msgs : /\ Handles(At(m), AfterEvent(m, Head(events)))
                        /\ Head(events).t = "exited" => Gone(AfterEvent(m, Head(events)))
    BY <2>1, EventHandles DEF Inv, MessagesGood
  <2>3. \A m \in Msgs : AfterEvent(m, Head(events)) \in States
    BY <2>2 DEF Handles, Good
  <2>4. /\ row' = [m \in Msgs |-> AfterEvent(m, Head(events)).row]
        /\ track' = [m \in Msgs |-> AfterEvent(m, Head(events)).track]
        /\ UNCHANGED <<up, listed, unread, call>>
        /\ session' = IF Head(events).t = "exited" THEN "departed" ELSE session
    BY <1>5 DEF TakeEvent
  <2>5. \A m \in Msgs : At(m)' = AfterEvent(m, Head(events))
    BY <2>3, <2>4 DEF At, States, State
  <2>6. row' \in [Msgs -> Deliveries] /\ track' \in [Msgs -> Tracks]
    BY <2>3, <2>4 DEF States
  <2>7. /\ MessagesGood' /\ ListedAreLeft' /\ SendingIsKept'
        /\ \A x \in Msgs : Gone(At(x)) => Gone(At(x))'
        /\ \A x \in Msgs : track'[x].flight => track[x].flight
    BY <2>2, <2>4, <2>5, <2>6, HandledStep
  <2>8. DepartedHoldsNothing'
    BY <2>2, <2>4, <2>5, <2>7 DEF Inv, DepartedHoldsNothing
  <2>9. FlightHasCall'
    BY <2>4, <2>7 DEF Inv, FlightHasCall
  <2> QED
    BY <1>0, <2>7, <2>8, <2>9 DEF Inv
<1>6. CASE Boot
  <2>1. /\ \A m \in Msgs : track[m] = Forgotten
        /\ UNCHANGED <<row, track, call, unread>> /\ listed' = {m \in Msgs : row[m].phase = "sending"}
        /\ up'
    BY <1>6 DEF Boot, Inv, ListedAreLeft, SendingRows, Sending
  <2>2. \A m \in Msgs : At(m)' = At(m) /\ Gone(At(m))'
    BY <2>1 DEF At, Gone, State, Forgotten, Track
  <2> QED
    BY <1>0, <2>1, <2>2
    DEF Inv, MessagesGood, FlightHasCall, ListedAreLeft, SendingIsKept, DepartedHoldsNothing
<1>7. CASE BootEnded
  <2>1. /\ \A m \in Msgs : track[m] = Forgotten
        /\ UNCHANGED <<row, track, call, listed>> /\ listed = {} /\ up'
        /\ {m \in Msgs : row[m].phase = "sending"} \subseteq unread'
    BY <1>7 DEF BootEnded, Inv, ListedAreLeft, SendingRows, Sending
  <2>2. \A m \in Msgs : At(m)' = At(m) /\ Gone(At(m))'
    BY <2>1 DEF At, Gone, State, Forgotten, Track
  <2> QED
    BY <1>0, <2>1, <2>2
    DEF Inv, MessagesGood, FlightHasCall, ListedAreLeft, SendingIsKept, DepartedHoldsNothing
<1>8. CASE WindowEnds
  <2>1. row' = [m \in Msgs |-> IF m \in listed THEN Reconciled(row[m], FALSE, FALSE) ELSE row[m]]
        /\ listed' = listed \ listed /\ UNCHANGED <<up, track, call, session, unread>>
    BY <1>8 DEF WindowEnds
  <2> HIDE DEF driverVars, memory, history
  <2> QED
    BY <1>0, <2>1, ReconcileStep
<1>9. ASSUME NEW m \in Msgs, Replayed(m) PROVE Inv'
  <2>1. PICK actedAfter \in BOOLEAN : row' = [row EXCEPT ![m] = Reconciled(@, TRUE, actedAfter)]
    BY <1>9 DEF Replayed
  <2>2. row' = [x \in Msgs |-> IF x \in {m} THEN Reconciled(row[x], TRUE, actedAfter) ELSE row[x]]
    BY <2>1 DEF Inv, MessagesGood
  <2>3. {m} \subseteq listed /\ listed' = listed \ {m} /\ UNCHANGED <<up, track, call, session, unread>>
    BY <1>9 DEF Replayed
  <2> HIDE DEF driverVars, memory, history
  <2> QED
    BY <1>0, <2>2, <2>3, ReconcileStep
<1>10. CASE Crash
  <2>1. /\ row' = row /\ ~up' /\ listed' = {} /\ track' = [m \in Msgs |-> Forgotten]
        /\ \A m \in Msgs : track'[m] = Forgotten
    BY <1>10 DEF Crash
  <2>2. \A m \in Msgs : At(m)' = State(row[m], Forgotten) /\ row[m] \in Deliveries
    BY <2>1 DEF At, Inv, MessagesGood
  <2>3. \A m \in Msgs : Good(State(row[m], Forgotten)) /\ Gone(State(row[m], Forgotten))
    BY <2>2, ForgottenGood
  <2>4. \A m \in Msgs : Good(At(m))' /\ Gone(At(m))' /\ ~track'[m].flight
    BY <2>1, <2>2, <2>3, ForgottenGood
  <2>5. MessagesGood'
    BY <2>1, <2>4, ForgottenTrack DEF Inv, MessagesGood
  <2> QED
    BY <1>0, <2>1, <2>4, <2>5
    DEF Inv, FlightHasCall, ListedAreLeft, SendingIsKept, DepartedHoldsNothing
<1>11. ASSUME UNCHANGED <<row, track, up, listed, unread>>,
              \A m \in Msgs : call[m] # NoCall => call'[m] # NoCall,
              session' = "departed" => session = "departed"
       PROVE  Inv'
  BY <1>0, <1>11, QuietStep, RestFollows DEF Inv, FlightHasCall
<1>12. ASSUME NEW m \in Msgs, FilesChanged(m) \/ DriverTakes(m) \/ DriverRefuses(m) \/ CodexAnswers(m)
       PROVE  Inv'
  <2>1. UNCHANGED <<row, track, up, listed, unread, session>>
    BY <1>12 DEF FilesChanged, DriverTakes, DriverRefuses, CodexAnswers
  <2>2. PICK c : c # NoCall /\ call' = [call EXCEPT ![m] = c]
    BY <1>12 DEF FilesChanged, DriverTakes, DriverRefuses, CodexAnswers, Failure, Receipt, Called, NoCall
  <2>3. \A x \in Msgs : call[x] # NoCall => call'[x] # NoCall
    BY <2>2 DEF Inv, RestType
  <2> QED
    BY <1>11, <2>1, <2>3
<1>13. CASE CodexRefuses
  <2>1. UNCHANGED <<row, track, up, listed, unread, session>>
        /\ \A x \in Msgs : call[x] # NoCall => call'[x] # NoCall
    BY <1>13 DEF CodexRefuses, Failure, NoCall
  <2> QED
    BY <1>11, <2>1
<1>14. CASE SessionExits
  <2>1. UNCHANGED <<row, track, up, listed, unread>> /\ session' # "departed"
        /\ \A x \in Msgs : call[x] # NoCall => call'[x] # NoCall
    BY <1>14 DEF SessionExits, Failure, NoCall
  <2> QED
    BY <1>11, <2>1
<1>15. CASE CodexBegins \/ AgentSpeaks \/ TurnEnds
  <2>1. UNCHANGED <<row, track, up, listed, unread, session, call>>
    BY <1>15 DEF CodexBegins, AgentSpeaks, TurnEnds
  <2> QED
    BY <1>11, <2>1
<1>16. CASE UNCHANGED vars
  <2>1. UNCHANGED <<row, track, up, listed, unread, session, call>>
    BY <1>16 DEF vars
  <2> QED
    BY <1>11, <2>1
<1> QED
  BY <1>1, <1>2, <1>3, <1>4, <1>5, <1>6, <1>7, <1>8, <1>9, <1>10, <1>12, <1>13, <1>14, <1>15, <1>16
  DEF Next, Host, Session

\* The invariant holds at the start.
LEMMA InvInit == Init => Inv
<1> SUFFICES ASSUME Init PROVE Inv
  OBVIOUS
<1>1. \A m \in Msgs : row[m] = Absent /\ track[m] = Forgotten /\ call[m] = NoCall
  BY DEF Init
<1>2. Absent \in Deliveries /\ Absent.phase = "absent"
  <2>1. 0 \in 0..MaxAttempts
    BY DeliveryAssumption
  <2> QED
    BY <2>1, DeliveryType DEF Absent
<1>3. row \in [Msgs -> Deliveries] /\ track \in [Msgs -> Tracks]
  BY <1>2, ForgottenTrack DEF Init
<1>4. \A m \in Msgs : Good(At(m)) /\ Gone(At(m)) /\ ~track[m].flight
  BY <1>1, <1>2, ForgottenGood DEF At
<1>5. turn \in [n: Turns, msg: Msgs \cup {"launch"}, begun: BOOLEAN] /\ turnCount \in Turns
  BY DEF Init, TurnAt, Turns
<1>6. queue \in Seq(Msgs) /\ events \in Seq(Events)
  BY DEF Init
<1>7. call \in [Msgs -> Calls] /\ handed \in [Msgs -> Nat]
  BY CallTypes DEF Init
<1>8. RestType
  BY <1>5, <1>6, <1>7 DEF Init, RestType
<1> QED
  BY <1>1, <1>2, <1>3, <1>4, <1>8
  DEF Init, Inv, MessagesGood, FlightHasCall, ListedAreLeft, SendingIsKept, DepartedHoldsNothing

\* The invariant holds of every state (send.ts, retry.ts, index.ts).
LEMMA Invariance == Spec => []Inv
  BY InvInit, InvStep, PTL DEF Spec

-----------------------------------------------------------------------------
(* Results *)

\* The variables keep their types, for every set of messages and every driver.
THEOREM TypeCorrect == Spec => []TypeOK
<1>1. Inv => TypeOK
  BY DEF Inv, RestType, MessagesGood, TypeOK
<1> QED
  BY <1>1, Invariance, PTL

\* What the sender keeps of a message is what its row says: no hand-over, hold or watch
\* outlives the delivery it was made for (send.ts deliveries, inFlight, held, watching).
THEOREM TracksMatchRows == Spec => []TrackMatchesRow
<1>1. ASSUME Inv, NEW m \in Msgs
      PROVE  LET t == track[m] IN
             /\ t.delivery.phase # "absent" => row[m] \in {t.delivery, Deleted(t.delivery)}
             /\ t.flight \/ t.held # NotHeld => row[m].phase = "sending" /\ row[m] = t.delivery
             /\ t.held # NotHeld => row[m].held /\ ~t.flight
  <2>1. Linked(At(m)) /\ At(m).row = row[m] /\ At(m).track = track[m]
    BY <1>1, AtTypes DEF Inv
  <2>2. ~Forgotten.flight /\ Forgotten.held = NotHeld
    BY DEF Forgotten, Track
  <2> QED
    BY <2>1, <2>2 DEF Linked
<1>2. Inv => TrackMatchesRow
  BY <1>1 DEF TrackMatchesRow
<1> QED
  BY <1>2, Invariance, PTL

\* While a Host runs, a message shown as sending is never abandoned: its hand-over is on
\* its way, it is held by a session that is not gone, or the boot reconcile has it.
THEOREM SendingNeverAbandoned == Spec => []SendingIsAwaited
<1>1. ASSUME Inv, up, NEW m \in SendingRows \ unread
      PROVE  \/ call[m] # NoCall /\ track[m].flight
             \/ track[m].held # NotHeld /\ session # "departed"
             \/ m \in listed
  <2>1. m \in Msgs /\ row[m].phase = "sending"
    BY DEF SendingRows, Sending
  <2>2. Linked(At(m)) /\ At(m).row = row[m] /\ At(m).track = track[m]
    BY <1>1, <2>1, AtTypes DEF Inv
  <2>3. track[m].delivery.phase = "sending" \/ m \in listed
    BY <1>1, <2>1 DEF Inv, SendingIsKept
  <2>4. track[m].delivery.phase = "sending" => track[m].flight \/ track[m].held # NotHeld
    BY <2>2 DEF Linked
  <2> QED
    BY <1>1, <2>1, <2>2, <2>3, <2>4 DEF Inv, FlightHasCall, DepartedHoldsNothing, Gone
<1>2. Inv => SendingIsAwaited
  BY <1>1 DEF SendingIsAwaited
<1> QED
  BY <1>2, Invariance, PTL

-----------------------------------------------------------------------------
(* The refinement *)

MarkOf(d) == [phase |-> d.phase, failure |-> d.failure, attempts |-> d.attempts]

\* What a step does to a row is one of the steps of its mark.
MarkStep(d, e) ==
  \/ MarkOf(e) = MarkOf(d)
  \/ d = Absent /\ e = Started
  \/ /\ d.phase = "sending"
     /\ \/ e \in {To(d, "delivered"), To(d, "reacted")}
        \/ \E f \in Failures : e = FailedBy(d, f)
  \/ d.phase = "delivered" /\ e = To(d, "reacted")
  \/ /\ d.phase = "failed" /\ Retryable(d.failure)
     /\ e = Delivery("sending", "none", d.attempts + 1, FALSE)
  \/ d.phase \in {"delivered", "reacted", "failed"} /\ e = Deleted(d)

\* A handler's step is a step of the mark.
LEMMA FollowsIsMarkStep ==
  ASSUME NEW d \in Deliveries, NEW e, Follows(d, e)
  PROVE  MarkStep(d, e)
<1>1. MarkOf([d EXCEPT !.held = TRUE]) = MarkOf(d)
  BY DEF MarkOf, Deliveries
<1> QED
  BY <1>1 DEF Follows, MarkStep, Failures

\* Deleting settled rows, and starting one, are steps of the marks.
LEMMA WithoutIsMarkStep ==
  ASSUME Inv, NEW gone \in SUBSET Purgeable, NEW m \in Msgs
  PROVE  MarkStep(row[m], Without(gone)[m])
<1>1. Without(gone)[m] = row[m] \/ (m \in Purgeable /\ Without(gone)[m] = Deleted(row[m]))
  BY WithoutGood DEF Inv
<1> QED
  BY <1>1 DEF MarkStep, Purgeable, Settled

\* Every step of the Host moves every row as its mark may move.
LEMMA RowsStep ==
  ASSUME Inv, [Next]_vars
  PROVE  \A m \in Msgs : MarkStep(row[m], row'[m])
<1> SUFFICES ASSUME NEW m \in Msgs PROVE MarkStep(row[m], row'[m])
  OBVIOUS
<1>0. row \in [Msgs -> Deliveries] /\ row[m] \in Deliveries
  BY DEF Inv, MessagesGood
<1>1. ASSUME NEW x \in Msgs, Send(x) PROVE MarkStep(row[m], row'[m])
  <2>1. PICK gone \in SUBSET Purgeable : row' = [Without(gone) EXCEPT ![x] = Started]
    BY <1>1 DEF Send
  <2>2. row[x] = Absent
    BY <1>1 DEF Send
  <2>3. CASE m = x
    BY <2>1, <2>2, <2>3, WithoutGood DEF MarkStep, Inv
  <2>4. CASE m # x
    <3>1. row'[m] = Without(gone)[m]
      BY <2>1, <2>4, WithoutGood DEF Inv
    <3> QED
      BY <3>1, WithoutIsMarkStep
  <2> QED
    BY <2>3, <2>4
<1>2. ASSUME NEW x \in Msgs, Resend(x) PROVE MarkStep(row[m], row'[m])
  <2> DEFINE next == Advance(row[x], Retry(CanReceive))
  <2>1. row[x].phase = "failed" /\ next.phase # "refused" /\ row' = [row EXCEPT ![x] = next]
    BY <1>2 DEF Resend
  <2>2. Retryable(row[x].failure) /\ next = Delivery("sending", "none", row[x].attempts + 1, FALSE)
    BY <2>1 DEF Advance, FromFailed, Retry, Refused
  <2> HIDE DEF next
  <2>3. CASE m = x
    BY <1>0, <2>1, <2>2, <2>3 DEF MarkStep
  <2>4. CASE m # x
    BY <1>0, <2>1, <2>4 DEF MarkStep
  <2> QED
    BY <2>3, <2>4
<1>3. CASE Purge
  <2>1. PICK gone \in SUBSET Purgeable : row' = Without(gone)
    BY <1>3 DEF Purge
  <2> QED
    BY <2>1, WithoutIsMarkStep
<1>4. ASSUME NEW x \in Msgs, TakeAnswer(x) PROVE MarkStep(row[m], row'[m])
  <2>1. call[x] \in Receipts \cup {Failure("session-closed"), Failure("channel-error")}
    BY <1>4, AnswersAreCalls DEF Inv
  <2>2. Handles(At(x), Answered(At(x), call[x])) /\ At(x).row = row[x]
    BY <2>1, AnsweredHandles, AtTypes DEF Inv
  <2>3. row' = [row EXCEPT ![x] = Answered(At(x), call[x]).row]
    BY <1>4 DEF TakeAnswer, One
  <2>4. CASE m = x
    BY <1>0, <2>2, <2>3, <2>4, FollowsIsMarkStep DEF Handles
  <2>5. CASE m # x
    BY <1>0, <2>3, <2>5 DEF MarkStep
  <2> QED
    BY <2>4, <2>5
<1>5. CASE TakeEvent
  <2>1. Head(events) \in Events
    BY <1>5 DEF TakeEvent, Inv, RestType
  <2>2. Handles(At(m), AfterEvent(m, Head(events))) /\ At(m).row = row[m]
    BY <2>1, EventHandles, AtTypes DEF Inv
  <2>3. row'[m] = AfterEvent(m, Head(events)).row
    BY <1>5 DEF TakeEvent
  <2> QED
    BY <1>0, <2>2, <2>3, FollowsIsMarkStep DEF Handles
<1>6. ASSUME NEW found \in BOOLEAN, NEW actedAfter \in BOOLEAN, m \in listed
      PROVE  MarkStep(row[m], Reconciled(row[m], found, actedAfter))
  <2>1. row[m].phase = "sending"
    BY <1>6 DEF Inv, ListedAreLeft
  <2>2. Reconciled(row[m], found, actedAfter) \in
          {To(row[m], "delivered"), To(row[m], "reacted"), FailedBy(row[m], "host-interrupted")}
    BY <1>0, ReconciledTypes
  <2> QED
    BY <2>1, <2>2 DEF MarkStep, Failures
<1>7. CASE WindowEnds
  <2>1. row'[m] = IF m \in listed THEN Reconciled(row[m], FALSE, FALSE) ELSE row[m]
    BY <1>7 DEF WindowEnds
  <2> QED
    BY <1>6, <2>1 DEF MarkStep
<1>8. ASSUME NEW x \in Msgs, Replayed(x) PROVE MarkStep(row[m], row'[m])
  <2>1. PICK actedAfter \in BOOLEAN : row' = [row EXCEPT ![x] = Reconciled(@, TRUE, actedAfter)]
    BY <1>8 DEF Replayed
  <2>2. x \in listed
    BY <1>8 DEF Replayed
  <2>3. CASE m = x
    BY <1>0, <1>6, <2>1, <2>2, <2>3
  <2>4. CASE m # x
    BY <1>0, <2>1, <2>4 DEF MarkStep
  <2> QED
    BY <2>3, <2>4
<1>9. ASSUME row' = row PROVE MarkStep(row[m], row'[m])
  BY <1>9 DEF MarkStep
<1>10. ASSUME NEW x \in Msgs, FilesChanged(x) \/ DriverTakes(x) \/ DriverRefuses(x) \/ CodexAnswers(x)
       PROVE  MarkStep(row[m], row'[m])
  BY <1>9, <1>10 DEF FilesChanged, DriverTakes, DriverRefuses, CodexAnswers
<1>11. CASE Boot \/ BootEnded \/ Crash \/ SessionExits \/ CodexRefuses
  BY <1>9, <1>11 DEF Boot, BootEnded, Crash, SessionExits, CodexRefuses
<1>12. CASE CodexBegins \/ AgentSpeaks \/ TurnEnds \/ UNCHANGED vars
  BY <1>9, <1>12 DEF CodexBegins, AgentSpeaks, TurnEnds, vars
<1> QED
  BY <1>1, <1>2, <1>3, <1>4, <1>5, <1>7, <1>8, <1>10, <1>11, <1>12 DEF Next, Host, Session

\* Whatever the Host, the driver and the provider do, the marks the person sees follow
\* DeliveryMarks: "..." first, a check mark never taken back, one attempt a retry.
THEOREM DeliveryImplementsMarks == Spec => MarksKept
<1> DEFINE mark == [m \in Msgs |-> [phase |-> row[m].phase, failure |-> row[m].failure,
                                   attempts |-> row[m].attempts]]
<1>1. Init => Marks!MInit
  <2>1. ASSUME Init PROVE mark = [m \in Msgs |-> Marks!Unsent]
    BY <2>1 DEF Init, Absent, Delivery, Marks!Unsent
  <2> QED
    BY <2>1 DEF Marks!MInit
<1>2. Inv /\ [Next]_vars => [Marks!MNext]_mark
  <2> SUFFICES ASSUME Inv, [Next]_vars PROVE Marks!MNext
    OBVIOUS
  <2>1. ASSUME NEW m \in Msgs
        PROVE  \/ mark'[m] = mark[m] \/ Marks!Sent(m) \/ Marks!Settled(m)
               \/ Marks!Acted(m) \/ Marks!Resent(m) \/ Marks!Purged(m)
    <3>1. MarkStep(row[m], row'[m])
      BY RowsStep
    <3>2. mark[m] = MarkOf(row[m]) /\ mark'[m] = MarkOf(row'[m])
      BY DEF MarkOf
    <3>3. CASE MarkOf(row'[m]) = MarkOf(row[m])
      BY <3>2, <3>3
    <3>4. CASE row[m] = Absent /\ row'[m] = Started
      BY <3>4 DEF Absent, Started, Delivery, Marks!Sent, Marks!Unsent, Marks!Mark
    <3>5. CASE row[m].phase = "sending" /\ row'[m] \in {To(row[m], "delivered"), To(row[m], "reacted")}
      BY <3>5 DEF To, Delivery, Marks!Settled, Marks!Mark
    <3>6. ASSUME row[m].phase = "sending", NEW f \in Failures, row'[m] = FailedBy(row[m], f)
          PROVE  Marks!Settled(m)
      BY <3>6 DEF FailedBy, Delivery, Failures, Marks!Settled, Marks!Mark, Marks!Failures
    <3>7. CASE row[m].phase = "delivered" /\ row'[m] = To(row[m], "reacted")
      BY <3>7 DEF To, Delivery, Marks!Acted, Marks!Mark
    <3>8. CASE /\ row[m].phase = "failed" /\ Retryable(row[m].failure)
               /\ row'[m] = Delivery("sending", "none", row[m].attempts + 1, FALSE)
      BY <3>8 DEF Delivery, Retryable, Marks!Resent, Marks!Retryable, Marks!Mark
    <3>9. CASE row[m].phase \in {"delivered", "reacted", "failed"} /\ row'[m] = Deleted(row[m])
      BY <3>9 DEF Deleted, Delivery, Marks!Purged
    <3> QED
      BY <3>1, <3>3, <3>4, <3>5, <3>6, <3>7, <3>8, <3>9 DEF MarkStep
  <2> QED
    BY <2>1 DEF Marks!MNext
<1> QED
  BY <1>1, <1>2, Invariance, PTL DEF Spec, MarksKept, Marks!MSpec

-----------------------------------------------------------------------------
(* Between the messages and the turns of the driver's session: a message   *)
(* is handed over once for each attempt, one with a Retry button is not    *)
(* with the provider, and a double check mark is earned by the message's   *)
(* own turn.                                                               *)

Waiting(q) == {q[i] : i \in DOMAIN q}
Distinct(q) == \A i, j \in DOMAIN q : q[i] = q[j] => i = j

\* A message the driver has neither in its turn nor in its queue.
Outside(m) == turn.msg # m /\ m \notin Waiting(queue)

\* The driver has each message once.
OnceInDriver == Distinct(queue) /\ turn.msg \notin Waiting(queue)

\* A hand-over under way is of a message in flight.
CallsFly == \A m \in Msgs : call[m] # NoCall => track[m].flight

\* A message still to be handed over, or refused, is outside; one whose turn was asked
\* for is in that turn or past it.
CallsApart ==
  \A m \in Msgs :
    /\ call[m] \in {Queued, Failure("channel-error")} => Outside(m)
    /\ \A n \in Nat : call[m] = Called(n) =>
         /\ 0 < n /\ n <= turnCount
         /\ m \notin Waiting(queue)
         /\ turn.n = n => turn.msg = m

MayBeSent(d) == d.phase = "absent" \/ (d.phase = "failed" /\ Retryable(d.failure))

\* What may be sent, and what a boot may call interrupted, is outside.
RowsApart == \A m \in Msgs : MayBeSent(row[m]) \/ m \in listed => Outside(m)

\* The session of a stopped Host is gone with its queue.
DownIsEmpty == session = "down" => turn = NoTurn /\ queue = <<>>

\* Each attempt is one hand-over, done or still to do.
HandedWithin ==
  \A m \in Msgs : /\ handed[m] <= row[m].attempts
                  /\ call[m] = Queued => handed[m] < row[m].attempts

ApartInv == /\ Inv /\ OnceInDriver /\ CallsFly /\ CallsApart /\ RowsApart /\ DownIsEmpty
            /\ HandedWithin

-----------------------------------------------------------------------------
(* Lemmas about the data *)

\* A longer queue holds one message more.
LEMMA QueueGrows ==
  ASSUME NEW S, NEW q \in Seq(S), NEW m \in S
  PROVE  /\ Waiting(Append(q, m)) = Waiting(q) \cup {m}
         /\ Distinct(q) /\ m \notin Waiting(q) => Distinct(Append(q, m))
<1> DEFINE a == Append(q, m)
<1>1. /\ DOMAIN q = 1..Len(q) /\ DOMAIN a = 1..(Len(q) + 1) /\ Len(q) \in Nat
      /\ \A i \in 1..Len(q) : a[i] = q[i]
      /\ a[Len(q) + 1] = m
  OBVIOUS
<1> HIDE DEF a
<1>2. \A i \in 1..(Len(q) + 1) : i \in 1..Len(q) \/ i = Len(q) + 1
  BY <1>1
<1>3. Waiting(a) = Waiting(q) \cup {m}
  BY <1>1, <1>2 DEF Waiting
<1>4. ASSUME Distinct(q), m \notin Waiting(q) PROVE Distinct(a)
  <2> SUFFICES ASSUME NEW i \in DOMAIN a, NEW j \in DOMAIN a, a[i] = a[j] PROVE i = j
    BY DEF Distinct
  <2>1. \A k \in 1..Len(q) : q[k] # m
    BY <1>1, <1>4 DEF Waiting
  <2> QED BY <1>1, <1>2, <1>4, <2>1 DEF Distinct
<1> QED BY <1>3, <1>4 DEF a

\* A queue that lost its head keeps the others.
LEMMA QueueShrinks ==
  ASSUME NEW S, NEW q \in Seq(S), q # <<>>
  PROVE  /\ Head(q) \in Waiting(q) /\ Head(q) \in S
         /\ Waiting(Tail(q)) \subseteq Waiting(q)
         /\ Distinct(q) => Distinct(Tail(q)) /\ Head(q) \notin Waiting(Tail(q))
<1> DEFINE t == Tail(q)
<1>1. /\ DOMAIN q = 1..Len(q) /\ Len(q) \in Nat \ {0} /\ DOMAIN t = 1..(Len(q) - 1)
      /\ \A i \in 1..(Len(q) - 1) : t[i] = q[i + 1]
      /\ Head(q) = q[1] /\ q[1] \in S
  OBVIOUS
<1> HIDE DEF t
<1>2. 1 \in DOMAIN q /\ \A i \in 1..(Len(q) - 1) : i + 1 \in DOMAIN q /\ i + 1 # 1
  BY <1>1
<1>3. Head(q) \in Waiting(q) /\ Waiting(t) \subseteq Waiting(q)
  BY <1>1, <1>2 DEF Waiting
<1>4. ASSUME Distinct(q) PROVE Distinct(t) /\ Head(q) \notin Waiting(t)
  <2>1. ASSUME NEW i \in DOMAIN t, NEW j \in DOMAIN t, t[i] = t[j] PROVE i = j
    <3>1. q[i + 1] = q[j + 1] /\ i + 1 \in DOMAIN q /\ j + 1 \in DOMAIN q
      BY <1>1, <1>2, <2>1
    <3>2. i + 1 = j + 1
      BY <1>4, <3>1 DEF Distinct
    <3> QED BY <1>1, <3>2
  <2>2. ASSUME NEW i \in DOMAIN t PROVE t[i] # Head(q)
    <3>1. q[i + 1] # q[1]
      BY <1>1, <1>2, <1>4, <2>2 DEF Distinct
    <3> QED BY <1>1, <2>2, <3>1
  <2> QED BY <2>1, <2>2 DEF Distinct, Waiting
<1> QED BY <1>1, <1>3, <1>4 DEF t

\* The empty queue holds nothing.
LEMMA EmptyQueue == Waiting(<<>>) = {} /\ Distinct(<<>>)
BY DEF Waiting, Distinct

\* The turn of no message.
LEMMA NoTurnFacts == NoTurn.n = 0 /\ \A m \in Msgs : NoTurn.msg # m
BY DeliveryAssumption DEF NoTurn

\* The kinds of call are apart.
LEMMA CallKinds ==
  /\ NoCall.t = "none" /\ Queued.t = "queued"
  /\ Failure("session-closed").t = "session-closed" /\ Failure("channel-error").t = "channel-error"
  /\ \A n \in Nat : Called(n).t = "called" /\ Called(n).n = n
  /\ \A held \in BOOLEAN, key \in Keys : Receipt(held, key).t = "ok"
BY DEF NoCall, Queued, Failure, Called, Receipt

\* A deleted row keeps its attempts, and is not sent again.
LEMMA DeletedFacts ==
  ASSUME NEW d
  PROVE  Deleted(d).phase = "deleted" /\ Deleted(d).attempts = d.attempts
         /\ ~ MayBeSent(Deleted(d))
BY DEF Deleted, Delivery, MayBeSent

\* A row another one follows without a failure that may be retried.
Soft(d, e) == e = d \/ ~ (e.phase = "failed" /\ Retryable(e.failure))

\* A move is soft unless a channel error makes it.
LEMMA MoveIsSoft ==
  ASSUME NEW s, NEW fact, fact.t \in {"held", "accepted", "session-closed", "activity-correlated"}
  PROVE  Soft(s.row, Move(s, fact).row)
BY DEF Soft, Move, Advance, FromSending, FromDelivered, FromFailed, To, FailedBy, Delivery,
       Retryable, Refused, State, Forget

\* So is a reaction.
LEMMA ReactIsSoft ==
  ASSUME NEW s, NEW evidence
  PROVE  Soft(s.row, React(s, evidence).row)
<1>1. Correlated(evidence).t = "activity-correlated"
  BY DEF Correlated
<1> QED BY <1>1, MoveIsSoft DEF React, Forget, State

\* So is an acceptance.
LEMMA AcceptIsSoft ==
  ASSUME NEW s, NEW receipt, NEW ends
  PROVE  Soft(s.row, Accept(s, receipt, ends).row)
<1> DEFINE r == Move(s, Accepted)
<1>1. Soft(s.row, r.row)
  BY MoveIsSoft DEF Accepted
<1>2. \A e : Soft(r.row, OwnEnd(r, e).row)
  BY ReactIsSoft DEF OwnEnd, Forget, State, Soft
<1>3. Soft(r.row, WatchTranscript(r).row)
  BY ReactIsSoft DEF WatchTranscript, State, Soft
<1>4. Forget(r).row = r.row
  BY DEF Forget, State
<1>5. \A t : State(r.row, t).row = r.row
  BY DEF State
<1>6. Accept(s, receipt, ends).row = r.row \/ Soft(r.row, Accept(s, receipt, ends).row)
  BY <1>2, <1>3, <1>4, <1>5 DEF Accept, Evidence
<1> QED BY <1>1, <1>6 DEF Soft

\* So is a hold.
LEMMA HoldIsSoft ==
  ASSUME NEW s, NEW receipt, NEW ends
  PROVE  Soft(s.row, Hold(s, receipt, ends).row)
<1> DEFINE r == Move(s, Held)
<1>1. Soft(s.row, r.row)
  BY MoveIsSoft DEF Held
<1>2. Soft(r.row, Accept(r, receipt, ends).row)
  BY AcceptIsSoft
<1>3. \A t : State(r.row, t).row = r.row
  BY DEF State
<1> QED BY <1>1, <1>2, <1>3 DEF Hold, Soft

\* Only a channel error makes a failure that may be retried, and no driver event is one.
LEMMA AnsweredIsSoft ==
  ASSUME NEW s, NEW answer, answer.t # "channel-error"
  PROVE  Soft(s.row, Answered(s, answer).row)
<1> DEFINE r == State(s.row, [s.track EXCEPT !.flight = FALSE, !.ends = {}, !.closed = FALSE])
<1>1. r.row = s.row
  BY DEF State
<1>2. Soft(s.row, Move(r, SessionClosed).row)
  BY <1>1, MoveIsSoft DEF SessionClosed
<1>3. \A ends : Soft(s.row, Accept(r, answer, ends).row) /\ Soft(s.row, Hold(r, answer, ends).row)
  BY <1>1, AcceptIsSoft, HoldIsSoft
<1> HIDE DEF r
<1>4. CASE ~ s.track.flight
  BY <1>4 DEF Answered, Soft
<1>5. CASE s.track.flight
  BY <1>2, <1>3, <1>5 DEF Answered, r
<1> QED BY <1>4, <1>5

\* No event of a driver is a channel error.
LEMMA EventIsSoft ==
  ASSUME NEW m, NEW e
  PROVE  Soft(row[m], AfterEvent(m, e).row)
<1> DEFINE s == At(m)
<1>1. s.row = row[m]
  BY DEF At, State
<1> HIDE DEF s
<1>2. \A d, t : State(d, t).row = d
  BY DEF State
<1>3. Soft(s.row, TurnEnded(s, e).row)
  <2>1. \A q : q.row = s.row => Soft(s.row, OwnEnd(q, e).row)
    BY ReactIsSoft DEF OwnEnd, Forget, State, Soft
  <2>2. \A q : q.row = s.row => Soft(s.row, Accept(q, s.track.held, {e}).row)
    BY AcceptIsSoft
  <2> DEFINE h == State(s.row, [s.track EXCEPT !.held = NotHeld])
             seen == IF s.track.flight
                     THEN State(s.row, [s.track EXCEPT !.ends = @ \cup {e}]) ELSE s
  <2>3. h.row = s.row /\ seen.row = s.row
    BY <1>2
  <2>4. Soft(s.row, OwnEnd(seen, e).row) /\ Soft(s.row, Accept(h, s.track.held, {e}).row)
        /\ Soft(s.row, seen.row)
    BY <2>1, <2>2, <2>3 DEF Soft
  <2>5. TurnEnded(s, e) \in {Accept(h, s.track.held, {e}), OwnEnd(seen, e), seen}
    BY DEF TurnEnded
  <2> HIDE DEF h, seen
  <2> QED BY <2>4, <2>5
<1>4. Soft(s.row, Echoed(s, m, e).row)
  BY <1>2 DEF Echoed, Soft
<1>5. Soft(s.row, Replied(s).row)
  <2>1. \A q : q.row = s.row => Soft(s.row, React(q, "transcript-match").row)
    BY ReactIsSoft
  <2> QED BY <1>2, <2>1 DEF Replied, Soft
<1>6. Soft(s.row, SessionEnded(s).row)
  <2>1. \A q : q.row = s.row => Soft(s.row, Move(q, SessionClosed).row)
    BY MoveIsSoft DEF SessionClosed
  <2> QED BY <1>2, <2>1 DEF SessionEnded, Forget, Soft
<1> QED BY <1>1, <1>3, <1>4, <1>5, <1>6 DEF AfterEvent, s

\* A message in flight stays in flight whatever the driver's events.
LEMMA EventKeepsFlight ==
  ASSUME NEW m \in Msgs, Good(At(m)), track[m].flight, NEW e
  PROVE  AfterEvent(m, e).track.flight
<1> DEFINE s == At(m)
           t == s.track
<1>1. s.track = track[m] /\ t.flight /\ Linked(s) /\ t \in Tracks
  BY DEF At, State, Good, States
<1> HIDE DEF s
<1>2. t.held = NotHeld /\ t.watch = NoKey /\ ~t.live /\ t.held.t # "ok"
  BY <1>1 DEF Linked, Forgotten, Track, NotHeld, Tracks
<1>3. \A n : Key(n) # NoKey
  BY DEF Key, NoKey
<1>4. TurnEnded(s, e).track.flight
  BY <1>1, <1>2, <1>3 DEF TurnEnded, State, Tracks
<1>5. Echoed(s, m, e).track.flight
  BY <1>1 DEF Echoed, State, Tracks
<1>6. Replied(s).track.flight
  BY <1>1, <1>2 DEF Replied, State, Tracks
<1>7. SessionEnded(s).track.flight
  BY <1>1, <1>2 DEF SessionEnded, State, Tracks
<1> QED BY <1>4, <1>5, <1>6, <1>7 DEF AfterEvent, s

-----------------------------------------------------------------------------
(* One step keeps the messages and the driver apart *)

\* What every handler of a message does to the attempts of its row.
LEMMA FollowsAttempts ==
  ASSUME NEW d \in Deliveries, NEW e, Follows(d, e)
  PROVE  /\ e.attempts = d.attempts
         /\ e.phase = "absent" => e = d
BY DEF Follows, To, FailedBy, Delivery, Deliveries

\* A step that leaves the driver's turn and queue, the calls, and what is outside.
LEMMA DriverIdles ==
  ASSUME ApartInv, Inv', UNCHANGED <<session, turn, turnCount, queue, call, handed>>,
         \A m \in Msgs : track[m].flight => track'[m].flight,
         \A m \in Msgs : row'[m].attempts = row[m].attempts,
         \A m \in Msgs : MayBeSent(row'[m]) \/ m \in listed' => Outside(m)
  PROVE  ApartInv'
<1>1. \A m \in Msgs : Outside(m)' = Outside(m)
  BY DEF Outside
<1> QED
  BY <1>1 DEF ApartInv, OnceInDriver, CallsFly, CallsApart, RowsApart, DownIsEmpty, HandedWithin

\* A message becomes one to hand over.
LEMMA AttemptStarts ==
  ASSUME ApartInv, Inv', UNCHANGED <<session, turn, turnCount, queue, handed, listed>>,
         NEW m \in Msgs, MayBeSent(row[m]), call' = [call EXCEPT ![m] = Queued],
         row'[m].phase = "sending", track'[m].flight, row'[m].attempts = row[m].attempts + 1,
         \A x \in Msgs \ {m} : /\ track'[x] = track[x]
                               /\ row'[x] = row[x] \/ row'[x] = Deleted(row[x])
  PROVE  ApartInv'
<1>1. \A x \in Msgs : Outside(x)' = Outside(x)
  BY DEF Outside
<1>2. Outside(m)
  BY DEF ApartInv, RowsApart
<1>3. /\ call'[m] = Queued /\ \A x \in Msgs \ {m} : call'[x] = call[x]
  BY DEF ApartInv, Inv, RestType
<1>4. \A x \in Msgs : row[x].attempts \in Nat /\ handed[x] \in Nat
  BY DeliveryAssumption DEF ApartInv, Inv, RestType, MessagesGood, Deliveries
<1>5. CallsFly'
  BY <1>3 DEF ApartInv, CallsFly
<1>6. CallsApart'
  BY <1>1, <1>2, <1>3, CallKinds DEF ApartInv, CallsApart
<1>7. RowsApart'
  <2>1. \A x \in Msgs \ {m} : MayBeSent(row'[x]) => MayBeSent(row[x])
    BY DeletedFacts
  <2> QED BY <1>1, <1>2, <2>1 DEF ApartInv, RowsApart
<1>8. HandedWithin'
  <2>1. \A x \in Msgs \ {m} : row'[x].attempts = row[x].attempts
    BY DeletedFacts
  <2> QED BY <1>3, <1>4, <2>1, CallKinds DEF ApartInv, HandedWithin
<1>9. OnceInDriver' /\ DownIsEmpty'
  BY DEF ApartInv, OnceInDriver, DownIsEmpty
<1> QED BY <1>5, <1>6, <1>7, <1>8, <1>9 DEF ApartInv

\* The invariant is inductive.
LEMMA ApartStep == ApartInv /\ [Next]_vars => ApartInv'
<1> SUFFICES ASSUME ApartInv, [Next]_vars PROVE ApartInv'
  OBVIOUS
<1>a. Inv /\ Inv'
  BY InvStep DEF ApartInv
<1>b. /\ OnceInDriver /\ CallsFly /\ CallsApart /\ RowsApart /\ DownIsEmpty /\ HandedWithin
  BY DEF ApartInv
<1>c. /\ row \in [Msgs -> Deliveries] /\ track \in [Msgs -> Tracks] /\ call \in [Msgs -> Calls]
      /\ queue \in Seq(Msgs) /\ handed \in [Msgs -> Nat] /\ turnCount \in Nat
      /\ turn \in [n: Nat, msg: Msgs \cup {"launch"}, begun: BOOLEAN] /\ listed \subseteq Msgs
      /\ \A m \in Msgs : row[m].attempts \in Nat
  <2>1. RestType /\ MessagesGood
    BY <1>a DEF Inv
  <2>2. row \in [Msgs -> Deliveries] /\ track \in [Msgs -> Tracks]
    BY <2>1 DEF MessagesGood
  <2>3. /\ call \in [Msgs -> Calls] /\ queue \in Seq(Msgs) /\ handed \in [Msgs -> Nat]
        /\ turnCount \in Nat /\ listed \subseteq Msgs
        /\ turn \in [n: Nat, msg: Msgs \cup {"launch"}, begun: BOOLEAN]
    BY <2>1 DEF RestType, Turns
  <2>4. \A m \in Msgs : row[m].attempts \in Nat
    <3> SUFFICES ASSUME NEW m \in Msgs PROVE row[m].attempts \in Nat
      OBVIOUS
    <3>1. row[m] \in Deliveries
      BY <2>2
    <3>2. row[m].attempts \in 0..MaxAttempts
      BY <3>1 DEF Deliveries
    <3> QED BY <3>2
  <2> QED BY <2>2, <2>3, <2>4
<1> USE DEF driverVars, memory, history
<1>1. ASSUME NEW m \in Msgs, Send(m) PROVE ApartInv'
  <2>1. PICK gone \in SUBSET Purgeable : row' = [Without(gone) EXCEPT ![m] = Started]
    BY <1>1 DEF Send
  <2>2. row'[m] = Started /\ \A x \in Msgs \ {m} : row'[x] = row[x] \/ row'[x] = Deleted(row[x])
    BY <2>1 DEF Without
  <2>3. /\ track'[m] = Tracked(Started) /\ \A x \in Msgs \ {m} : track'[x] = track[x]
        /\ call' = [call EXCEPT ![m] = Queued]
        /\ UNCHANGED <<session, turn, turnCount, queue, handed, listed>>
        /\ row[m] = Absent
    BY <1>1, <1>c DEF Send
  <2>4. /\ MayBeSent(row[m]) /\ Tracked(Started).flight /\ Started.phase = "sending"
        /\ Started.attempts = Absent.attempts + 1
    <3>1. Absent.phase = "absent" /\ Absent.attempts = 0 /\ Started.phase = "sending"
          /\ Started.attempts = 1
      BY DEF Absent, Started, Delivery
    <3>2. Tracked(Started).flight
      BY DEF Tracked, Track
    <3>3. MayBeSent(Absent)
      BY DEF MayBeSent, Absent, Delivery, Retryable
    <3>4. Started.attempts = Absent.attempts + 1
      BY <3>1
    <3> QED BY <2>3, <3>1, <3>2, <3>3, <3>4
  <2> QED BY <1>a, <2>2, <2>3, <2>4, AttemptStarts
<1>2. ASSUME NEW m \in Msgs, Resend(m) PROVE ApartInv'
  <2> DEFINE next == Advance(row[m], Retry(CanReceive))
  <2>1. /\ row'[m] = next /\ \A x \in Msgs \ {m} : row'[x] = row[x] /\ track'[x] = track[x]
        /\ track'[m] = Tracked(next) /\ call' = [call EXCEPT ![m] = Queued]
        /\ UNCHANGED <<session, turn, turnCount, queue, handed, listed>>
        /\ row[m].phase = "failed" /\ next.phase # "refused"
    BY <1>2, <1>c DEF Resend
  <2>2. /\ MayBeSent(row[m])
        /\ next = Delivery("sending", "none", row[m].attempts + 1, FALSE)
    BY <2>1 DEF Advance, FromFailed, Retry, Refused, MayBeSent
  <2>3. next.phase = "sending" /\ next.attempts = row[m].attempts + 1 /\ Tracked(next).flight
    BY <2>2 DEF Delivery, Tracked, Track
  <2> HIDE DEF next
  <2> QED BY <1>a, <2>1, <2>2, <2>3, AttemptStarts
<1>3. CASE Purge
  <2>1. PICK gone \in SUBSET Purgeable : row' = Without(gone)
    BY <1>3 DEF Purge
  <2>2. \A x \in Msgs : row'[x] = row[x] \/ row'[x] = Deleted(row[x])
    BY <2>1 DEF Without
  <2>3. \A x \in Msgs : row'[x].attempts = row[x].attempts /\ (MayBeSent(row'[x]) => MayBeSent(row[x]))
    BY <2>2, DeletedFacts
  <2> QED BY <1>3, <1>a, <1>b, <2>3, DriverIdles DEF Purge, RowsApart
<1>4. ASSUME NEW m \in Msgs, TakeAnswer(m) PROVE ApartInv'
  <2> DEFINE r == Answered(At(m), call[m])
  <2>1. /\ row' = [row EXCEPT ![m] = r.row] /\ track' = [track EXCEPT ![m] = r.track]
        /\ call' = [call EXCEPT ![m] = NoCall]
        /\ UNCHANGED <<session, turn, turnCount, queue, handed, listed>>
    BY <1>4 DEF TakeAnswer, One
  <2>2. call[m] \in Receipts \cup {Failure("session-closed"), Failure("channel-error")}
    BY <1>4, <1>a, AnswersAreCalls DEF Inv
  <2>3. Follows(row[m], r.row)
    BY <1>a, <2>2, AnsweredHandles DEF Inv, MessagesGood, Handles, At, State
  <2>4. call[m].t # "channel-error" => Soft(row[m], r.row)
    BY AnsweredIsSoft DEF At, State
  <2>5. call[m].t = "channel-error" => Outside(m)
    BY <1>b, <2>2 DEF CallsApart, Receipts, Failure
  <2> HIDE DEF r
  <2>6. r.row.attempts = row[m].attempts /\ (MayBeSent(r.row) => Outside(m))
    BY <1>b, <1>c, <2>3, <2>4, <2>5, FollowsAttempts DEF MayBeSent, Soft, RowsApart
  <2>7. \A x \in Msgs : /\ Outside(x)' = Outside(x)
                        /\ x # m => row'[x] = row[x] /\ track'[x] = track[x] /\ call'[x] = call[x]
    BY <1>c, <2>1 DEF Outside
  <2>8. row'[m] = r.row /\ call'[m] = NoCall
    BY <1>c, <2>1
  <2>9. CallsFly' /\ CallsApart'
    BY <1>b, <2>1, <2>7, <2>8, CallKinds DEF CallsFly, CallsApart
  <2>10. RowsApart'
    BY <1>b, <2>1, <2>6, <2>7, <2>8 DEF RowsApart
  <2>11. HandedWithin'
    BY <1>b, <2>1, <2>6, <2>7, <2>8, CallKinds DEF HandedWithin
  <2> QED BY <1>a, <1>b, <2>1, <2>9, <2>10, <2>11 DEF ApartInv, OnceInDriver, DownIsEmpty
<1>5. CASE TakeEvent
  <2>1. /\ Head(events) \in Events
        /\ \A m \in Msgs : /\ row'[m] = AfterEvent(m, Head(events)).row
                           /\ track'[m] = AfterEvent(m, Head(events)).track
        /\ UNCHANGED <<call, listed, turn, turnCount, queue, handed>>
        /\ session' = IF Head(events).t = "exited" THEN "departed" ELSE session
    BY <1>5, <1>a DEF TakeEvent, Inv, RestType
  <2>2. \A m \in Msgs : Follows(row[m], row'[m]) /\ Soft(row[m], row'[m])
    BY <1>a, <2>1, EventHandles, EventIsSoft DEF Inv, MessagesGood, Handles, At, State
  <2>3. \A m \in Msgs : track[m].flight => track'[m].flight
    BY <1>a, <2>1, EventKeepsFlight DEF Inv, MessagesGood
  <2>4. \A m \in Msgs : /\ row'[m].attempts = row[m].attempts
                        /\ MayBeSent(row'[m]) => MayBeSent(row[m])
    BY <1>c, <2>2, FollowsAttempts DEF MayBeSent, Soft
  <2>5. \A m \in Msgs : Outside(m)' = Outside(m)
    BY <2>1 DEF Outside
  <2>6. CallsFly' /\ CallsApart' /\ RowsApart' /\ HandedWithin'
    BY <1>b, <2>1, <2>3, <2>4, <2>5 DEF CallsFly, CallsApart, RowsApart, HandedWithin
  <2> QED BY <1>a, <1>b, <2>1, <2>6 DEF ApartInv, OnceInDriver, DownIsEmpty
<1>6. CASE Boot \/ BootEnded
  <2>1. /\ UNCHANGED <<row, track, call, turn, turnCount, queue, handed>>
        /\ session' \in {"live", "departed"}
        /\ session = "down" \/ listed' = listed
    BY <1>6 DEF Boot, BootEnded
  <2>2. \A m \in Msgs : Outside(m)' = Outside(m)
    BY <2>1 DEF Outside
  <2>3. RowsApart'
    BY <1>b, <2>1, <2>2, NoTurnFacts, EmptyQueue DEF RowsApart, DownIsEmpty, Outside
  <2> QED BY <1>a, <1>b, <2>1, <2>2, <2>3
    DEF ApartInv, OnceInDriver, CallsFly, CallsApart, DownIsEmpty, HandedWithin
<1>7. CASE WindowEnds \/ \E m \in Msgs : Replayed(m)
  <2>1. /\ UNCHANGED <<track, call, session, turn, turnCount, queue, handed>>
        /\ listed' \subseteq listed
        /\ \A m \in Msgs : \/ row'[m] = row[m]
                           \/ m \in listed /\ \E found, acted \in BOOLEAN :
                                row'[m] = Reconciled(row[m], found, acted)
    BY <1>7, <1>c DEF WindowEnds, Replayed
  <2>2. \A m \in Msgs : row'[m].attempts = row[m].attempts
    <3>1. \A d, found, acted : Reconciled(d, found, acted).attempts = d.attempts
      BY DEF Reconciled, To, FailedBy, Delivery
    <3> QED BY <2>1, <3>1
  <2>3. \A m \in Msgs : MayBeSent(row'[m]) \/ m \in listed' => Outside(m)
    BY <1>b, <2>1 DEF RowsApart
  <2> QED BY <1>a, <2>1, <2>2, <2>3, DriverIdles
<1>8. CASE Crash
  <2>1. /\ \A m \in Msgs : call'[m] = NoCall
        /\ turn' = NoTurn /\ queue' = <<>> /\ UNCHANGED <<row, handed>>
    BY <1>8 DEF Crash
  <2>2. \A m \in Msgs : Outside(m)'
    BY <2>1, NoTurnFacts, EmptyQueue DEF Outside
  <2> QED BY <1>a, <1>b, <2>1, <2>2, EmptyQueue, CallKinds
    DEF ApartInv, OnceInDriver, CallsFly, CallsApart, RowsApart, DownIsEmpty, HandedWithin
<1>9. ASSUME NEW m \in Msgs, FilesChanged(m) \/ DriverRefuses(m) PROVE ApartInv'
  <2>1. /\ UNCHANGED <<row, track, listed, session, turn, turnCount, queue, handed>>
        /\ call[m] = Queued
        /\ call'[m] \in {Failure("channel-error"), Failure("session-closed")}
        /\ \A x \in Msgs \ {m} : call'[x] = call[x]
    BY <1>9, <1>c DEF FilesChanged, DriverRefuses
  <2>2. \A x \in Msgs : Outside(x)' = Outside(x)
    BY <2>1 DEF Outside
  <2>3. CallsFly' /\ CallsApart' /\ HandedWithin'
    BY <1>b, <2>1, <2>2, CallKinds DEF CallsFly, CallsApart, HandedWithin
  <2> QED BY <1>a, <1>b, <2>1, <2>2, <2>3 DEF ApartInv, OnceInDriver, RowsApart, DownIsEmpty
<1>10. ASSUME NEW m \in Msgs, DriverTakes(m) PROVE ApartInv'
  <2>1. /\ UNCHANGED <<row, track, listed, session>> /\ session = "live" /\ call[m] = Queued
        /\ handed' = [handed EXCEPT ![m] = @ + 1]
        /\ \A x \in Msgs \ {m} : call'[x] = call[x]
    BY <1>10, <1>c DEF DriverTakes
  <2>2. /\ Outside(m) /\ track[m].flight
    BY <1>b, <2>1, CallKinds DEF CallsApart, CallsFly
  <2>3. row[m].phase = "sending" /\ m \notin listed
    BY <1>a, <2>2, AtTypes DEF Inv, ListedAreLeft, Linked, Forgotten, Track
  <2> DEFINE n == turnCount + 1 + (IF Working THEN Len(queue) ELSE 0)
  <2>0. /\ IF Working
           THEN /\ queue' = Append(queue, m) /\ UNCHANGED <<turn, turnCount>>
                /\ call' = [call EXCEPT ![m] = Receipt(TRUE, Named(n, TRUE))]
           ELSE /\ Begin(m) /\ UNCHANGED queue
                /\ call' = [call EXCEPT ![m] = IF Begun(m) THEN Receipt(FALSE, Named(n, FALSE))
                                               ELSE Called(n)]
    BY <1>10 DEF DriverTakes
  <2>n. n \in Nat /\ (~ Working => n = turnCount + 1) /\ turnCount + 1 \in Nat
    <3>1. Len(queue) \in Nat
      BY <1>c
    <3>2. CASE Working
      BY <1>c, <3>1, <3>2
    <3>3. CASE ~ Working
      BY <1>c, <3>3
    <3> QED BY <3>2, <3>3
  <2> HIDE DEF n
  <2>k. Named(n, TRUE) \in Keys /\ Named(n, FALSE) \in Keys
    BY <2>n DEF Named, Key, Number, NoKey, Keys, Turns
  <2>t. \/ call'[m].t = "ok"
        \/ ~ Working /\ call'[m] = Called(turnCount + 1)
    <3>1. Receipt(TRUE, Named(n, TRUE)).t = "ok" /\ Receipt(FALSE, Named(n, FALSE)).t = "ok"
      BY <2>k, CallKinds
    <3> QED BY <1>c, <2>0, <2>n, <3>1
  <2>4. HandedWithin'
    <3>1. call'[m] # Queued
      <4>1. Called(turnCount + 1).t = "called"
        BY <2>n, CallKinds
      <4> QED BY <2>t, <4>1, CallKinds
    <3> QED BY <1>b, <1>c, <2>1, <3>1 DEF HandedWithin
  <2>5. CASE Working
    <3>1. queue' = Append(queue, m) /\ UNCHANGED <<turn, turnCount>> /\ call'[m].t = "ok"
      BY <2>0, <2>t, <2>5
    <3>2. Waiting(queue') = Waiting(queue) \cup {m} /\ OnceInDriver'
      BY <1>b, <1>c, <2>2, <3>1, QueueGrows DEF OnceInDriver, Outside
    <3>3. \A x \in Msgs \ {m} : Outside(x)' = Outside(x)
      BY <3>1, <3>2 DEF Outside
    <3>4. CallsFly' /\ CallsApart' /\ RowsApart'
      BY <1>b, <2>1, <2>2, <2>3, <3>1, <3>2, <3>3, CallKinds
      DEF CallsFly, CallsApart, RowsApart, MayBeSent
    <3> QED BY <1>a, <2>1, <2>4, <3>2, <3>4 DEF ApartInv, DownIsEmpty
  <2>6. CASE ~ Working
    <3>1. /\ turnCount' = turnCount + 1 /\ turn'.n = turnCount + 1 /\ turn'.msg = m
          /\ UNCHANGED queue
          /\ call'[m].t = "ok" \/ call'[m] = Called(turnCount + 1)
      BY <2>0, <2>t, <2>6 DEF Begin, TurnAt
    <3>2. \A x \in Msgs \ {m} : Outside(x) => Outside(x)'
      BY <3>1 DEF Outside
    <3>3. OnceInDriver'
      BY <1>b, <2>2, <3>1 DEF OnceInDriver, Outside
    <3>4. CallsFly' /\ RowsApart'
      BY <1>b, <2>1, <2>2, <2>3, <3>2 DEF CallsFly, RowsApart, MayBeSent
    <3>5. CallsApart'
      <4>1. ASSUME NEW x \in Msgs \ {m}, NEW k \in Nat, call'[x] = Called(k)
            PROVE  0 < k /\ k <= turnCount' /\ x \notin Waiting(queue') /\ turn'.n # k
        BY <1>b, <1>c, <2>1, <3>1, <4>1 DEF CallsApart
      <4>2. ASSUME NEW k \in Nat, call'[m] = Called(k)
            PROVE  0 < k /\ k <= turnCount' /\ m \notin Waiting(queue') /\ turn'.msg = m
        <5>1. k = turnCount + 1
          <6>1. /\ Called(turnCount + 1).n = turnCount + 1
                /\ Called(k).n = k /\ Called(k).t = "called"
            BY <2>n, <4>2, CallKinds
          <6> QED BY <3>1, <4>2, <6>1
        <5> QED BY <1>c, <2>2, <3>1, <5>1 DEF Outside
      <4>3. \A x \in Msgs : call'[x] \in {Queued, Failure("channel-error")} => Outside(x)'
        <5>1. call'[m].t \in {"ok", "called"}
          <6>1. Called(turnCount + 1).t = "called"
            BY <2>n, CallKinds
          <6> QED BY <2>t, <6>1
        <5>2. call'[m] \notin {Queued, Failure("channel-error")}
          BY <5>1, CallKinds
        <5>3. ASSUME NEW x \in Msgs \ {m}, call'[x] \in {Queued, Failure("channel-error")}
              PROVE  Outside(x)'
          <6>1. call'[x] = call[x]
            BY <2>1
          <6>2. Outside(x)
            BY <1>b, <5>3, <6>1 DEF CallsApart
          <6> QED BY <3>2, <6>2
        <5> QED BY <5>2, <5>3
      <4> QED BY <4>1, <4>2, <4>3 DEF CallsApart
    <3> QED BY <1>a, <2>1, <2>4, <3>3, <3>4, <3>5 DEF ApartInv, DownIsEmpty
  <2> QED BY <2>5, <2>6
<1>11. ASSUME NEW m \in Msgs, CodexAnswers(m) PROVE ApartInv'
  <2>1. /\ UNCHANGED <<row, track, listed, session, turnCount, queue, handed>>
        /\ call[m].t = "called" /\ session = "live"
        /\ turn' = turn \/ turn' = NoTurn
        /\ \A x \in Msgs \ {m} : call'[x] = call[x]
        /\ call'[m].t = "ok"
    BY <1>11, <1>c DEF CodexAnswers, Receipt
  <2>2. \A x \in Msgs : Outside(x) => Outside(x)'
    BY <2>1, NoTurnFacts DEF Outside
  <2>3. OnceInDriver'
    BY <1>b, <1>c, <2>1, NoTurnFacts, DeliveryAssumption DEF OnceInDriver, Waiting, NoTurn
  <2>4. call[m] # NoCall
    BY <2>1, CallKinds
  <2>5. CallsFly' /\ RowsApart' /\ HandedWithin'
    BY <1>b, <2>1, <2>2, <2>4, CallKinds DEF CallsFly, RowsApart, HandedWithin
  <2>6. CallsApart'
    BY <1>b, <2>1, <2>2, NoTurnFacts, CallKinds DEF CallsApart
  <2> QED BY <1>a, <1>b, <2>1, <2>3, <2>5, <2>6 DEF ApartInv, DownIsEmpty
<1>12. CASE CodexBegins \/ AgentSpeaks
  <2>1. /\ UNCHANGED <<row, track, listed, call, session, turnCount, queue, handed>>
        /\ turn'.n = turn.n /\ turn'.msg = turn.msg /\ session = "live"
    BY <1>12, <1>c DEF CodexBegins, AgentSpeaks
  <2>2. \A x \in Msgs : Outside(x)' = Outside(x)
    BY <2>1 DEF Outside
  <2> QED BY <1>a, <1>b, <2>1, <2>2
    DEF ApartInv, OnceInDriver, CallsFly, CallsApart, RowsApart, DownIsEmpty, HandedWithin
<1>13. CASE CodexRefuses
  <2>1. /\ UNCHANGED <<row, track, listed, session, turnCount, queue, handed>>
        /\ turn' = NoTurn /\ session = "live"
        /\ \A x \in Msgs : call'[x] = IF call[x] = Called(turn.n) THEN Failure("channel-error")
                                      ELSE call[x]
    BY <1>13 DEF CodexRefuses
  <2>2. \A x \in Msgs : Outside(x) => Outside(x)'
    BY <2>1, NoTurnFacts DEF Outside
  <2>3. \A x \in Msgs : call[x] = Called(turn.n) => Outside(x)'
    BY <1>b, <1>c, <2>1, NoTurnFacts DEF CallsApart, Outside
  <2>4. OnceInDriver'
    BY <1>b, <1>c, <2>1, NoTurnFacts, DeliveryAssumption DEF OnceInDriver, Waiting, NoTurn
  <2>5. CallsFly' /\ RowsApart' /\ HandedWithin'
    BY <1>b, <1>c, <2>1, <2>2, CallKinds DEF CallsFly, RowsApart, HandedWithin
  <2>6. CallsApart'
    BY <1>b, <2>1, <2>2, <2>3, NoTurnFacts, CallKinds DEF CallsApart
  <2> QED BY <1>a, <2>1, <2>4, <2>5, <2>6 DEF ApartInv, DownIsEmpty
<1>14. CASE TurnEnds
  <2>1. UNCHANGED <<row, track, listed, call, session, handed>> /\ session = "live"
    BY <1>14 DEF TurnEnds
  <2>2. CASE queue = <<>>
    <3>1. turn' = NoTurn /\ UNCHANGED <<turnCount, queue>>
      BY <1>14, <2>2 DEF TurnEnds
    <3>2. \A x \in Msgs : Outside(x) => Outside(x)'
      BY <3>1, NoTurnFacts DEF Outside
    <3>3. OnceInDriver'
      BY <2>2, <3>1, EmptyQueue DEF OnceInDriver
    <3> QED BY <1>a, <1>b, <2>1, <3>1, <3>2, <3>3, NoTurnFacts
      DEF ApartInv, CallsFly, CallsApart, RowsApart, DownIsEmpty, HandedWithin
  <2>3. CASE queue # <<>>
    <3>1. /\ turnCount' = turnCount + 1 /\ turn'.n = turnCount + 1 /\ turn'.msg = Head(queue)
          /\ queue' = Tail(queue)
      BY <1>14, <2>3 DEF TurnEnds, Begin, TurnAt
    <3>2. /\ Head(queue) \in Waiting(queue) /\ Waiting(queue') \subseteq Waiting(queue)
          /\ Distinct(queue') /\ Head(queue) \notin Waiting(queue')
      BY <1>b, <1>c, <2>3, <3>1, QueueShrinks DEF OnceInDriver
    <3>3. \A x \in Msgs : Outside(x) => Outside(x)'
      BY <3>1, <3>2 DEF Outside
    <3>4. CallsApart'
      BY <1>b, <1>c, <2>1, <3>1, <3>2, <3>3 DEF CallsApart
    <3> QED BY <1>a, <1>b, <2>1, <3>1, <3>2, <3>3, <3>4
      DEF ApartInv, OnceInDriver, CallsFly, RowsApart, DownIsEmpty, HandedWithin
  <2> QED BY <2>2, <2>3
<1>15. CASE SessionExits
  <2>1. /\ UNCHANGED <<row, track, listed, turnCount, handed>>
        /\ turn' = NoTurn /\ queue' = <<>> /\ session' = "exited"
        /\ \A x \in Msgs : call'[x] = IF call[x].t = "called" THEN Failure("session-closed")
                                      ELSE call[x]
    BY <1>15 DEF SessionExits
  <2>2. \A x \in Msgs : Outside(x)'
    BY <2>1, NoTurnFacts, EmptyQueue DEF Outside
  <2>3. \A x \in Msgs : call[x].t = "called" => call[x] # NoCall
    BY DEF NoCall
  <2>4. CallsFly' /\ HandedWithin'
    BY <1>b, <2>1, <2>3, CallKinds DEF CallsFly, HandedWithin
  <2>5. CallsApart'
    BY <2>1, <2>2, CallKinds DEF CallsApart
  <2> QED BY <1>a, <2>1, <2>2, <2>4, <2>5, EmptyQueue
    DEF ApartInv, OnceInDriver, RowsApart, DownIsEmpty
<1>16. CASE UNCHANGED vars
  <2>1. \A x \in Msgs : Outside(x)' = Outside(x)
    BY <1>16 DEF vars, Outside
  <2> QED BY <1>16, <1>a, <1>b, <2>1
    DEF vars, ApartInv, OnceInDriver, CallsFly, CallsApart, RowsApart, DownIsEmpty, HandedWithin
<1> QED
  BY <1>1, <1>2, <1>3, <1>4, <1>5, <1>6, <1>7, <1>8, <1>9, <1>10, <1>11, <1>12, <1>13, <1>14,
     <1>15, <1>16
  DEF Next, Host, Session

\* The invariant holds at the start.
LEMMA ApartInit == Init => ApartInv
<1> SUFFICES ASSUME Init PROVE ApartInv
  OBVIOUS
<1>1. /\ \A m \in Msgs : row[m] = Absent /\ call[m] = NoCall /\ handed[m] = 0
      /\ turn.msg = "launch" /\ queue = <<>> /\ session = "live" /\ listed = {}
  BY DEF Init, TurnAt
<1>2. \A m \in Msgs : Outside(m)
  BY <1>1, DeliveryAssumption, EmptyQueue DEF Outside
<1> QED BY <1>1, <1>2, InvInit, EmptyQueue, CallKinds
  DEF ApartInv, OnceInDriver, CallsFly, CallsApart, RowsApart, DownIsEmpty, HandedWithin,
      Absent, Delivery

\* The invariant holds of every state.
LEMMA ApartHolds == Spec => []ApartInv
BY ApartInit, ApartStep, PTL DEF Spec

\* A message reaches the driver at most once for each time it was sent, and never waits
\* twice in one session (send.ts, retry.ts, the drivers' turn queues).
THEOREM HandedOverOnce == Spec => []OneHandOverPerAttempt
<1>1. ApartInv => OneHandOverPerAttempt
  BY DEF ApartInv, OnceInDriver, HandedWithin, OneHandOverPerAttempt, Distinct, Waiting
<1> QED BY <1>1, ApartHolds, PTL

\* A message with a Retry button is neither queued nor in the open turn, so a Retry never
\* says it twice (delivery.ts, retry.ts, the drivers' turn queues).
THEOREM RetrySaysItOnce == Spec => []RetryableIsOutside
<1>1. ApartInv => RetryableIsOutside
  BY DEF ApartInv, RowsApart, MayBeSent, Outside, RetryableIsOutside, Waiting
<1> QED BY <1>1, ApartHolds, PTL

-----------------------------------------------------------------------------
(* Whose turn a key names, on a driver that names its turns *)

\* The keys a track goes by.
KeysOf(t) == {t.watch} \cup (IF t.held.t = "ok" THEN {t.held.key} ELSE {})

\* Those of the receipt of a hand-over.
KeysOfCall(c) == IF c.t = "ok" THEN {c.key} ELSE {}

\* Turn n is the one the hand-over, the hold or the watch of m goes by.
Names(m, n) == call[m] = Called(n) \/ Key(n) \in KeysOf(track[m]) \cup KeysOfCall(call[m])

\* The turn ends still to be taken, and those kept for a receipt.
SeenEnds == {e \in Ends : e \in Waiting(events) \/ \E x \in Msgs : e \in track[x].ends}

TurnsCounted == turn.n <= turnCount /\ \A e \in SeenEnds : e.n <= turnCount

\* A turn a message goes by is its own.
NamedTurns ==
  \A m \in Msgs : \A n \in Nat : Names(m, n) =>
    /\ 0 < n /\ n <= turnCount
    /\ turn.n = n => turn.msg = m
    /\ \A e \in SeenEnds : e.n = n => e.msg = m

\* A turn that began is of a message the provider took, and its end says what it did.
TurnsAreTaken ==
  /\ turn.begun /\ turn.msg \in Msgs => turn.msg \in taken
  /\ \A e \in SeenEnds : e.msg \in Msgs => e.msg \in taken /\ (e.work => e.msg \in worked)

\* No echo of a driver that names its turns is evidence.
NoEchoes ==
  /\ \A e \in Waiting(events) : e.t \in {"ended", "exited"}
  /\ \A m \in Msgs : ~ track[m].live

NamingInv == TurnsCounted /\ NamedTurns /\ TurnsAreTaken /\ NoEchoes /\ ReactedIsEarned

-----------------------------------------------------------------------------
(* What a handler reacts to *)

\* From s to r nothing is named but keys, and a reaction has a turn end of one of them.
Earns(s, r, keys, seen) ==
  /\ r.track.ends \subseteq s.track.ends \cup seen
  /\ ~ r.track.live
  /\ KeysOf(r.track) \subseteq keys \cup {NoKey}
  /\ r.row.phase = "reacted" =>
       s.row.phase = "reacted" \/ \E e \in s.track.ends \cup seen : e.work /\ Key(e.n) \in keys

\* What is kept of no message names no turn.
LEMMA ForgottenFacts ==
  /\ Forgotten.ends = {} /\ ~ Forgotten.live /\ KeysOf(Forgotten) = {NoKey}
  /\ Forgotten.held = NotHeld /\ NotHeld.t # "ok"
BY DEF Forgotten, Track, KeysOf, NotHeld

\* The end of its own turn makes a delivered message react when it did work.
LEMMA OwnEndEarns ==
  ASSUME NEW s, s.row.phase # "reacted", NEW e
  PROVE  /\ OwnEnd(s, e).track = Forgotten
         /\ OwnEnd(s, e).row.phase = "reacted" => e.work
<1>1. Forget(s).track = Forgotten /\ Forget(s).row = s.row
  BY DEF Forget, State
<1>2. \A q : Forget(q).track = Forgotten
  BY DEF Forget, State
<1> QED BY <1>1, <1>2 DEF OwnEnd, React

\* An accepted message reacts at once only on the end of the turn its receipt names.
LEMMA AcceptEarns ==
  ASSUME driver # "claude", NEW s, Ready(s), NEW receipt \in Receipts, NEW ends \in SUBSET Ends
  PROVE  LET a == Accept(s, receipt, ends) IN
         /\ a.track.ends \subseteq s.track.ends
         /\ ~ a.track.live /\ KeysOf(a.track) \subseteq {NoKey, receipt.key}
         /\ a.row.phase = "reacted" => \E e \in ends : e.work /\ Key(e.n) = receipt.key
<1> DEFINE r == Move(s, Accepted)
           own == {e \in ends : Key(e.n) = receipt.key}
           o == CHOOSE e \in own : TRUE
           w == State(r.row, [r.track EXCEPT !.watch = receipt.key, !.echo = "none"])
           a == Accept(s, receipt, ends)
<1>1. /\ Moves(s, Accepted)
      /\ r = State(To(s.row, "delivered"), [s.track EXCEPT !.delivery = To(s.row, "delivered")])
  BY ReadyAccepted
<1>2. /\ s.track \in Tracks /\ s.track.held = NotHeld /\ s.track.watch = NoKey /\ ~ s.track.live
  BY DEF Ready, States
<1>3. /\ r.row.phase = "delivered"
      /\ r.track.ends = s.track.ends /\ r.track.held = NotHeld /\ ~ r.track.live
  BY <1>1, <1>2 DEF State, To, Delivery, Tracks
<1>t. r.track \in Tracks
  BY ReadyAccepted DEF Moved, States
<1>4. /\ w.row = r.row /\ w.track.ends = s.track.ends /\ w.track.held = NotHeld
      /\ ~ w.track.live /\ w.track.watch = receipt.key
  <2> HIDE DEF r
  <2> QED BY <1>3, <1>t DEF State, Tracks
<1> HIDE DEF r, w
<1>5. CASE receipt.key = NoKey
  <2>1. a = Forget(r)
    BY <1>1, <1>5 DEF Accept, Evidence, r
  <2>2. a.track = Forgotten /\ a.row = r.row
    BY <2>1 DEF Forget, State
  <2> QED BY <1>3, <2>2, ForgottenFacts
<1>6. CASE receipt.key # NoKey /\ own = {}
  <2>1. a = w
    BY <1>1, <1>6 DEF Accept, Evidence, r, w
  <2> QED BY <1>3, <1>4, <2>1, ForgottenFacts DEF KeysOf
<1>7. CASE receipt.key # NoKey /\ own # {}
  <2>1. a = OwnEnd(r, o)
    BY <1>1, <1>7 DEF Accept, Evidence, r
  <2>2. o \in ends /\ Key(o.n) = receipt.key
    BY <1>7
  <2> HIDE DEF o
  <2>3. a.track = Forgotten /\ (a.row.phase = "reacted" => o.work)
    BY <1>3, <2>1, OwnEndEarns
  <2> QED BY <2>2, <2>3, ForgottenFacts
<1> QED BY <1>5, <1>6, <1>7

\* A message that fails reacts to nothing.
LEMMA FailsEarns ==
  ASSUME NEW s, NEW q, Ready(q), NEW fact \in {SessionClosed, ChannelError}, NEW keys, NEW seen
  PROVE  Earns(s, Move(q, fact), keys, seen)
<1>1. PICK f \in {"session-closed", "channel-error"} :
        Move(q, fact) = State(FailedBy(q.row, f), Forgotten)
  BY ReadyFails
<1>2. Move(q, fact).track = Forgotten /\ Move(q, fact).row.phase = "failed"
  BY <1>1 DEF State, FailedBy, Delivery
<1> QED BY <1>2, ForgottenFacts DEF Earns

\* A held message waits, or reacts as an accepted one does.
LEMMA HoldEarns ==
  ASSUME driver # "claude", NEW s, NEW q, Ready(q), q.track.ends \subseteq s.track.ends,
         NEW receipt \in Receipts, NEW ends \in SUBSET Ends, ends \subseteq s.track.ends,
         NEW keys, receipt.key \in keys
  PROVE  Earns(s, Hold(q, receipt, ends), keys, {})
<1> DEFINE d == [q.row EXCEPT !.held = TRUE]
           r == State(d, [q.track EXCEPT !.delivery = d])
           h == State(d, [r.track EXCEPT !.held = receipt])
           blocking == {e \in ends : e.work /\ Key(e.n) # receipt.key}
<1>1. /\ q.row \in Deliveries /\ q.track \in Tracks /\ q.row = q.track.delivery
      /\ q.row.phase = "sending" /\ ~ q.track.live /\ q.track.watch = NoKey
  BY DEF Ready, States
<1>2. d \in Deliveries /\ d.phase = "sending"
  BY <1>1, MovesAreDeliveries DEF Deliveries
<1>3. Advance(q.track.delivery, Held) = d /\ Writable(q.row, Held)
  BY <1>1 DEF Advance, FromSending, Held, Writable
<1>4. Moves(q, Held) /\ Move(q, Held) = r
  BY <1>1, <1>2, <1>3 DEF Moves, Move
<1>5. Ready(r) /\ r.track.ends = q.track.ends
  BY <1>1, <1>2 DEF Ready, States, State, Tracks
<1>6. CASE blocking # {}
  <2>1. Hold(q, receipt, ends) = Accept(r, receipt, ends)
    BY <1>4, <1>6 DEF Hold
  <2> HIDE DEF r
  <2>2. LET a == Accept(r, receipt, ends) IN
        /\ a.track.ends \subseteq r.track.ends
        /\ ~ a.track.live /\ KeysOf(a.track) \subseteq {NoKey, receipt.key}
        /\ a.row.phase = "reacted" => \E e \in ends : e.work /\ Key(e.n) = receipt.key
    BY <1>5, AcceptEarns
  <2> QED BY <1>5, <2>1, <2>2 DEF Earns
<1>7. CASE blocking = {}
  <2>1. Hold(q, receipt, ends) = h
    BY <1>4, <1>7 DEF Hold, State
  <2>2. /\ h.row = d /\ h.track.ends = q.track.ends /\ ~ h.track.live
        /\ h.track.held = receipt /\ h.track.watch = NoKey
    BY <1>1, <1>2 DEF State, Tracks
  <2> HIDE DEF h, d
  <2> QED BY <1>2, <2>1, <2>2 DEF Earns, KeysOf
<1> QED BY <1>6, <1>7

\* The continuation of a hand-over goes by the receipt's key.
LEMMA AnsweredEarns ==
  ASSUME driver # "claude", NEW s, Good(s), ~ s.track.live, NEW keys,
         KeysOf(s.track) \subseteq keys \cup {NoKey},
         NEW answer \in Receipts \cup {Failure("session-closed"), Failure("channel-error")},
         answer.t = "ok" => answer.key \in keys
  PROVE  Earns(s, Answered(s, answer), keys, {})
<1> DEFINE q == State(s.row, [s.track EXCEPT !.flight = FALSE, !.ends = {}, !.closed = FALSE])
           ends == s.track.ends
<1>1. CASE ~s.track.flight
  <2>1. Answered(s, answer) = s
    BY <1>1 DEF Answered
  <2> QED BY <2>1 DEF Earns
<1>2. CASE s.track.flight
  <2>1. /\ s.track \in Tracks /\ s.row \in Deliveries /\ s.track # Forgotten
        /\ ends \in SUBSET Ends
    BY <1>2 DEF Good, States, Tracks, Forgotten, Track
  <2>2. s.track.delivery.phase = "sending" /\ s.row = s.track.delivery
        /\ s.track.held = NotHeld /\ s.track.watch = NoKey
    BY <1>2, <2>1 DEF Good, Linked
  <2>3. Ready(q) /\ q.row = s.row /\ q.track.ends = {}
    BY <2>1, <2>2 DEF Ready, States, State, Tracks
  <2> HIDE DEF q
  <2>4. CASE answer.t # "ok" \/ (answer.held /\ s.track.closed)
    <3>1. \E fact \in {SessionClosed, ChannelError} : Answered(s, answer) = Move(q, fact)
      BY <1>2, <2>4 DEF Answered, q, Receipts, Failure
    <3> QED BY <2>3, <3>1, FailsEarns
  <2>5. CASE answer.t = "ok" /\ ~ answer.held
    <3>1. Answered(s, answer) = Accept(q, answer, ends) /\ answer \in Receipts
      BY <1>2, <2>5 DEF Answered, q, Failure
    <3>2. LET a == Accept(q, answer, ends) IN
          /\ a.track.ends \subseteq q.track.ends
          /\ ~ a.track.live /\ KeysOf(a.track) \subseteq {NoKey, answer.key}
          /\ a.row.phase = "reacted" => \E e \in ends : e.work /\ Key(e.n) = answer.key
      BY <2>1, <2>3, <3>1, AcceptEarns
    <3> QED BY <2>3, <2>5, <3>1, <3>2 DEF Earns
  <2>6. CASE answer.t = "ok" /\ answer.held /\ ~ s.track.closed
    <3>1. Answered(s, answer) = Hold(q, answer, ends) /\ answer \in Receipts
      BY <1>2, <2>6 DEF Answered, q, Failure
    <3>2. q.track.ends \subseteq s.track.ends /\ answer.key \in keys
      BY <2>3, <2>6
    <3>3. Earns(s, Hold(q, answer, ends), keys, {})
      BY <2>1, <2>3, <3>1, <3>2, HoldEarns
    <3> QED BY <3>1, <3>3
  <2> QED BY <2>4, <2>5, <2>6
<1> QED BY <1>1, <1>2

\* The end of a turn makes react what goes by that turn.
LEMMA TurnEndedEarns ==
  ASSUME driver # "claude", NEW s, Good(s), ~ s.track.live, NEW end \in Ends
  PROVE  Earns(s, TurnEnded(s, end), KeysOf(s.track), {end})
<1> DEFINE t == s.track
           seen == IF t.flight THEN State(s.row, [t EXCEPT !.ends = @ \cup {end}]) ELSE s
           q == State(s.row, [t EXCEPT !.held = NotHeld])
<1>1. t \in Tracks /\ s.row \in Deliveries
  BY DEF Good, States
<1>2. CASE t.held.t = "ok" /\ end.work
  <2>1. t.held # NotHeld /\ t # Forgotten
    BY <1>2 DEF NotHeld, Forgotten, Track
  <2>2. t.delivery.phase = "sending" /\ s.row = t.delivery /\ t.watch = NoKey /\ ~t.flight
    BY <2>1 DEF Good, Linked
  <2>3. t.held \in Receipts /\ {end} \in SUBSET Ends /\ t.held.key \in KeysOf(t)
    BY <1>1, <1>2, <2>1 DEF Tracks, KeysOf
  <2>4. Ready(q) /\ q.track.ends = t.ends
    BY <1>1, <2>2 DEF Ready, States, State, Tracks
  <2>5. TurnEnded(s, end) = Accept(q, t.held, {end})
    BY <1>2 DEF TurnEnded
  <2> HIDE DEF q
  <2>6. LET a == Accept(q, t.held, {end}) IN
        /\ a.track.ends \subseteq q.track.ends
        /\ ~ a.track.live /\ KeysOf(a.track) \subseteq {NoKey, t.held.key}
        /\ a.row.phase = "reacted" => \E e \in {end} : e.work /\ Key(e.n) = t.held.key
    BY <2>3, <2>4, AcceptEarns
  <2> QED BY <2>3, <2>4, <2>5, <2>6 DEF Earns
<1>3. CASE ~(t.held.t = "ok" /\ end.work) /\ t.watch = Key(end.n)
  <2>1. t.watch # NoKey /\ t # Forgotten
    BY <1>3 DEF Key, NoKey, Forgotten, Track
  <2>2. t.delivery.phase = "delivered" /\ s.row \in {t.delivery, Deleted(t.delivery)} /\ ~t.flight
    BY <2>1 DEF Good, Linked
  <2>3. TurnEnded(s, end) = OwnEnd(s, end) /\ s.row.phase # "reacted"
    BY <1>3, <2>2 DEF TurnEnded, Deleted, Delivery
  <2>4. /\ OwnEnd(s, end).track = Forgotten
        /\ OwnEnd(s, end).row.phase = "reacted" => end.work
    BY <2>3, OwnEndEarns
  <2>5. Key(end.n) \in KeysOf(t)
    BY <1>3 DEF KeysOf
  <2> QED BY <2>3, <2>4, <2>5, ForgottenFacts DEF Earns
<1>4. CASE ~(t.held.t = "ok" /\ end.work) /\ t.watch # Key(end.n)
  <2>1. TurnEnded(s, end) = seen
    BY <1>4 DEF TurnEnded
  <2>2. /\ seen.row = s.row /\ seen.track.ends \subseteq t.ends \cup {end}
        /\ seen.track.held = t.held /\ seen.track.watch = t.watch /\ seen.track.live = t.live
    BY <1>1 DEF Tracks, State
  <2> HIDE DEF seen
  <2>3. KeysOf(seen.track) = KeysOf(t)
    BY <2>2 DEF KeysOf
  <2> QED BY <2>1, <2>2, <2>3 DEF Earns
<1> QED BY <1>2, <1>3, <1>4

\* The end of the session makes nothing react.
LEMMA SessionEndedEarns ==
  ASSUME NEW s, Good(s), ~ s.track.live
  PROVE  Earns(s, SessionEnded(s), KeysOf(s.track), {})
<1> DEFINE t == s.track
           c == [t EXCEPT !.closed = t.flight]
           q == State(s.row, [c EXCEPT !.held = NotHeld])
<1>1. t \in Tracks /\ s.row \in Deliveries /\ s \in States
  BY DEF Good, States
<1>2. c \in Tracks /\ c.held = t.held /\ c.watch = t.watch /\ c.ends = t.ends /\ ~ c.live
      /\ c.delivery = t.delivery /\ c.flight = t.flight
  BY <1>1 DEF Tracks
<1>3. CASE t.held.t = "ok"
  <2>1. t.held # NotHeld /\ t # Forgotten
    BY <1>3 DEF NotHeld, Forgotten, Track
  <2>2. t.delivery.phase = "sending" /\ s.row = t.delivery /\ t.watch = NoKey /\ ~t.flight
    BY <2>1 DEF Good, Linked
  <2>3. SessionEnded(s) = Move(q, SessionClosed)
    BY <1>2, <1>3 DEF SessionEnded
  <2> HIDE DEF c
  <2>4. Ready(q)
    BY <1>1, <1>2, <2>2 DEF Ready, States, State, Tracks
  <2> QED BY <2>3, <2>4, FailsEarns
<1>4. CASE t.held.t # "ok" /\ t.watch # NoKey
  <2>1. SessionEnded(s) = Forget(s)
    BY <1>2, <1>4 DEF SessionEnded
  <2>2. Forget(s).row = s.row /\ Forget(s).track = Forgotten
    BY DEF Forget, State
  <2> QED BY <2>1, <2>2, ForgottenFacts DEF Earns
<1>5. CASE t.held.t # "ok" /\ t.watch = NoKey
  <2>1. SessionEnded(s) = State(s.row, c)
    BY <1>2, <1>5 DEF SessionEnded
  <2>2. SessionEnded(s).row = s.row /\ SessionEnded(s).track = c
    BY <2>1 DEF State
  <2> HIDE DEF c
  <2> QED BY <1>2, <2>2 DEF Earns, KeysOf
<1> QED BY <1>3, <1>4, <1>5

\* What a driver event does to a message, on a driver that names its turns.
LEMMA EventEarns ==
  ASSUME driver # "claude", NEW m \in Msgs, Good(At(m)), ~ track[m].live,
         NEW e \in Events, e.t \in {"ended", "exited"}
  PROVE  Earns(At(m), AfterEvent(m, e), KeysOf(track[m]), {e} \cap Ends)
<1>1. At(m).track = track[m]
  BY DEF At, State
<1>2. CASE e.t = "ended"
  <2>1. e \in Ends /\ {e} \cap Ends = {e}
    BY <1>2 DEF Events, Reply, Exited
  <2>2. AfterEvent(m, e) = TurnEnded(At(m), e)
    BY <1>2 DEF AfterEvent
  <2> QED BY <1>1, <2>1, <2>2, TurnEndedEarns
<1>3. CASE e.t = "exited"
  <2>1. AfterEvent(m, e) = SessionEnded(At(m))
    BY <1>3 DEF AfterEvent
  <2>2. {e} \cap Ends = {}
    BY <1>3 DEF Ends
  <2> QED BY <1>1, <2>1, <2>2, SessionEndedEarns
<1> QED BY <1>2, <1>3

-----------------------------------------------------------------------------
(* One step keeps the names of the turns *)

\* The keys are apart.
LEMMA KeyFacts ==
  /\ \A n : Key(n) # NoKey
  /\ \A n, k : Key(n) # Number(k)
  /\ \A n, k \in Nat : Key(n) = Key(k) => n = k
  /\ \A n, k \in Nat : Called(n) = Called(k) => n = k
BY DEF Key, NoKey, Number, Called

\* The work at the end of the turn a message goes by is its own.
LEMMA EndEarns ==
  ASSUME Inv, NamingInv, NEW m \in Msgs, NEW e \in SeenEnds, e.work,
         Key(e.n) \in KeysOf(track[m]) \cup KeysOfCall(call[m])
  PROVE  m \in taken /\ m \in worked
<1>1. e.n \in Nat /\ Names(m, e.n)
  BY DEF SeenEnds, Ends, Turns, Names
<1>2. e.msg = m
  BY <1>1 DEF NamingInv, NamedTurns
<1> QED BY <1>2 DEF NamingInv, TurnsAreTaken

\* A step that names at most the turn it begins, and ends at most the open one.
LEMMA NamingKept ==
  ASSUME Inv, Inv', NamingInv,
         turnCount <= turnCount', turn'.n <= turnCount',
         \/ turn'.n \in {0, turnCount + 1}
         \/ turn'.n = turn.n /\ turn'.msg = turn.msg,
         turn'.begun => turn'.msg \in taken' \cup {"launch"},
         taken \subseteq taken', worked \subseteq worked',
         \A e \in SeenEnds' : \/ e \in SeenEnds
                              \/ /\ turn.begun /\ e.n = turn.n /\ e.msg = turn.msg
                                 /\ e.work => e.msg \in worked',
         \A m \in Msgs, n \in Nat :
           Names(m, n)' => Names(m, n) \/ (turnCount < n /\ n = turn'.n /\ m = turn'.msg),
         NoEchoes',
         \A m \in Msgs : row'[m].phase = "reacted" =>
           row[m].phase = "reacted" \/ (m \in taken' /\ m \in worked'),
         driver' = driver, driver # "claude"
  PROVE  NamingInv'
<1>1. /\ turnCount \in Nat /\ turnCount' \in Nat /\ turn.n \in Nat /\ turn'.n \in Nat
      /\ \A e \in SeenEnds \cup SeenEnds' : e.n \in Nat
  BY DEF Inv, RestType, SeenEnds, Ends, Turns
<1>2. \A e \in SeenEnds' : e.n <= turnCount
  BY DEF NamingInv, TurnsCounted
<1>3. TurnsCounted'
  BY <1>1, <1>2 DEF TurnsCounted
<1>4. ASSUME NEW m \in Msgs, NEW n \in Nat, Names(m, n)'
      PROVE  /\ 0 < n /\ n <= turnCount'
             /\ turn'.n = n => turn'.msg = m
             /\ \A e \in SeenEnds' : e.n = n => e.msg = m
  <2>1. CASE Names(m, n)
    <3>1. /\ 0 < n /\ n <= turnCount
          /\ turn.n = n => turn.msg = m
          /\ \A e \in SeenEnds : e.n = n => e.msg = m
      BY <2>1 DEF NamingInv, NamedTurns
    <3> QED BY <1>1, <3>1
  <2>2. CASE turnCount < n /\ n = turn'.n /\ m = turn'.msg
    BY <1>1, <1>2, <2>2
  <2> QED BY <1>4, <2>1, <2>2
<1>5. NamedTurns'
  BY <1>4 DEF NamedTurns
<1>6. TurnsAreTaken'
  <2>1. turn'.begun /\ turn'.msg \in Msgs => turn'.msg \in taken'
    BY DeliveryAssumption
  <2>2. ASSUME NEW e \in SeenEnds', e.msg \in Msgs
        PROVE  e.msg \in taken' /\ (e.work => e.msg \in worked')
    BY <2>2 DEF NamingInv, TurnsAreTaken
  <2> QED BY <2>1, <2>2 DEF TurnsAreTaken
<1>7. ReactedIsEarned'
  BY DEF NamingInv, ReactedIsEarned
<1> QED BY <1>3, <1>5, <1>6, <1>7 DEF NamingInv

\* A step that leaves the turns, or closes the open one, and names nothing.
LEMMA NothingNamed ==
  ASSUME Inv, Inv', NamingInv, turnCount' = turnCount,
         turn' \in {turn, NoTurn, [turn EXCEPT !.begun = TRUE]},
         turn'.begun => turn'.msg \in taken' \cup {"launch"},
         taken \subseteq taken', worked \subseteq worked',
         Waiting(events') \subseteq Waiting(events) \cup {Exited},
         \A m \in Msgs : /\ ~ track'[m].live
                         /\ track'[m].ends \subseteq track[m].ends \cup Waiting(events),
         \A m \in Msgs, n \in Nat : Names(m, n)' => Names(m, n),
         \A m \in Msgs : row'[m].phase = "reacted" =>
           row[m].phase = "reacted" \/ (m \in taken' /\ m \in worked'),
         driver' = driver, driver # "claude"
  PROVE  NamingInv'
<1>1. turnCount \in Nat /\ turn \in [n: Turns, msg: Msgs \cup {"launch"}, begun: BOOLEAN]
      /\ turn.n \in Nat /\ turn.n <= turnCount
  BY DEF Inv, RestType, NamingInv, TurnsCounted, Turns
<1>2. Exited.t = "exited" /\ \A e \in Ends : e.t = "ended"
  BY DEF Exited, Ends
<1>3. SeenEnds' \subseteq SeenEnds
  BY <1>2 DEF SeenEnds
<1>4. NoEchoes'
  BY <1>2 DEF NamingInv, NoEchoes
<1>5. turn'.n <= turnCount' /\ (turn'.n = 0 \/ (turn'.n = turn.n /\ turn'.msg = turn.msg))
  BY <1>1, NoTurnFacts
<1> QED BY <1>1, <1>3, <1>4, <1>5, NamingKept

\* Every step keeps the names of the turns.
LEMMA NamingStep ==
  ASSUME Inv, Inv', NamingInv, [Next]_vars, driver # "claude"
  PROVE  driver' = driver /\ NamingInv'
<1>c. /\ call \in [Msgs -> Calls] /\ track \in [Msgs -> Tracks] /\ row \in [Msgs -> Deliveries]
      /\ queue \in Seq(Msgs) /\ events \in Seq(Events) /\ turnCount \in Nat
      /\ turn \in [n: Turns, msg: Msgs \cup {"launch"}, begun: BOOLEAN]
      /\ driver \in {"codex", "acp"} /\ turn.n \in Nat /\ turn.n <= turnCount
  BY DeliveryAssumption
  DEF Inv, RestType, MessagesGood, Turns, DriverKinds, NamingInv, TurnsCounted
<1>d. driver' = driver
  BY DEF Next, Host, Session, Send, Resend, FilesChanged, TakeAnswer, Purge, TakeEvent, Boot,
         BootEnded, WindowEnds, Replayed, DriverTakes, DriverRefuses, CodexAnswers, CodexBegins,
         CodexRefuses, AgentSpeaks, TurnEnds, SessionExits, Crash, vars, driverVars
<1>t. turn.begun => turn.msg \in taken \cup {"launch"}
  BY <1>c DEF NamingInv, TurnsAreTaken
<1>l. \A m \in Msgs : ~ track[m].live
  BY DEF NamingInv, NoEchoes
<1>n. \A m \in Msgs, n \in Nat : Names(m, n)' <=>
        call'[m] = Called(n) \/ Key(n) \in KeysOf(track'[m]) \cup KeysOfCall(call'[m])
  BY DEF Names
<1>k. KeysOfCall(NoCall) = {} /\ KeysOfCall(Queued) = {} /\ \A f : f # "ok" => KeysOfCall(Failure(f)) = {}
  BY DEF KeysOfCall, NoCall, Queued, Failure
<1>q. \A n \in Nat : /\ NoCall # Called(n) /\ Queued # Called(n)
                     /\ \A f : f # "called" => Failure(f) # Called(n)
  BY DEF NoCall, Queued, Failure, Called
<1>1. ASSUME UNCHANGED <<track, turn, turnCount, taken, worked>>,
             Waiting(events') \subseteq Waiting(events),
             \A m \in Msgs : call'[m] = call[m] \/ call'[m] \in {NoCall, Queued, Failure("channel-error"), Failure("session-closed")},
             \A m \in Msgs : row'[m].phase = "reacted" => row[m].phase = "reacted"
      PROVE  NamingInv'
  <2>1. \A m \in Msgs, n \in Nat : Names(m, n)' => Names(m, n)
    BY <1>1, <1>n, <1>k, <1>q DEF Names
  <2> QED BY <1>1, <1>d, <1>t, <1>l, <2>1, NothingNamed
<1>2. ASSUME NEW m \in Msgs, Send(m) \/ Resend(m) PROVE NamingInv'
  <2>1. /\ UNCHANGED <<turn, turnCount, taken, worked, events>>
        /\ call' = [call EXCEPT ![m] = Queued]
        /\ \E d : track' = [track EXCEPT ![m] = Tracked(d)]
        /\ \A x \in Msgs : row'[x].phase = "reacted" => row[x].phase = "reacted"
    <3>1. CASE Send(m)
      <4>1. PICK gone \in SUBSET Purgeable : row' = [Without(gone) EXCEPT ![m] = Started]
        BY <3>1 DEF Send
      <4>2. \A x \in Msgs : row'[x] \in {Started, row[x], Deleted(row[x])}
        BY <4>1 DEF Without
      <4>3. \A x \in Msgs : row'[x].phase = "reacted" => row[x].phase = "reacted"
        BY <4>2 DEF Started, Deleted, Delivery
      <4> QED BY <3>1, <4>3 DEF Send, driverVars, history
    <3>2. CASE Resend(m)
      <4>1. /\ Advance(row[m], Retry(CanReceive)).phase # "refused"
            /\ row' = [row EXCEPT ![m] = Advance(row[m], Retry(CanReceive))]
            /\ row[m].phase = "failed"
        BY <3>2 DEF Resend
      <4>2. row'[m].phase # "reacted" /\ \A x \in Msgs \ {m} : row'[x] = row[x]
        BY <1>c, <4>1 DEF Advance, FromFailed, Retry, Delivery, Refused
      <4> QED BY <3>2, <4>2 DEF Resend, driverVars, history
    <3> QED BY <1>2, <3>1, <3>2
  <2>2. PICK d : track' = [track EXCEPT ![m] = Tracked(d)]
    BY <2>1
  <2>3. /\ track'[m] = Tracked(d) /\ call'[m] = Queued
        /\ \A x \in Msgs \ {m} : track'[x] = track[x] /\ call'[x] = call[x]
    BY <1>c, <2>1, <2>2
  <2>4. KeysOf(Tracked(d)) = {NoKey} /\ ~ Tracked(d).live /\ Tracked(d).ends = {}
    BY DEF KeysOf, Tracked, Track, NotHeld
  <2>5. \A x \in Msgs, n \in Nat : Names(x, n)' => Names(x, n)
    BY <1>n, <1>k, <1>q, <2>3, <2>4, KeyFacts DEF Names
  <2>6. \A x \in Msgs : ~ track'[x].live /\ track'[x].ends \subseteq track[x].ends
    BY <1>l, <2>3, <2>4
  <2> QED BY <1>d, <1>t, <2>1, <2>5, <2>6, NothingNamed
<1>3. CASE Purge
  <2>1. PICK gone \in SUBSET Purgeable : row' = Without(gone)
    BY <1>3 DEF Purge
  <2>2. \A x \in Msgs : row'[x].phase = "reacted" => row[x].phase = "reacted"
    BY <2>1 DEF Without, Deleted, Delivery
  <2> QED BY <1>1, <1>3, <2>2 DEF Purge, memory, driverVars, history
<1>4. ASSUME NEW m \in Msgs, TakeAnswer(m) PROVE NamingInv'
  <2> DEFINE r == Answered(At(m), call[m])
             keys == KeysOf(track[m]) \cup KeysOfCall(call[m])
  <2>1. /\ row' = [row EXCEPT ![m] = r.row] /\ track' = [track EXCEPT ![m] = r.track]
        /\ call' = [call EXCEPT ![m] = NoCall]
        /\ UNCHANGED <<turn, turnCount, taken, worked, events>>
    BY <1>4 DEF TakeAnswer, One, driverVars, history
  <2>2. call[m] \in Receipts \cup {Failure("session-closed"), Failure("channel-error")}
    BY <1>4, AnswersAreCalls DEF Inv
  <2>3. Earns(At(m), r, keys, {}) /\ At(m).row = row[m] /\ At(m).track = track[m]
    <3>1. At(m).row = row[m] /\ At(m).track = track[m] /\ Good(At(m))
      BY DEF At, State, Inv, MessagesGood
    <3>2. call[m].t = "ok" => call[m].key \in keys
      BY DEF KeysOfCall
    <3>3. KeysOf(At(m).track) \subseteq keys \cup {NoKey}
      BY <3>1
    <3> HIDE DEF keys, r
    <3>4. Earns(At(m), Answered(At(m), call[m]), keys, {})
      BY <1>l, <2>2, <3>1, <3>2, <3>3, AnsweredEarns
    <3> QED BY <3>1, <3>4 DEF r
  <2> HIDE DEF r
  <2>4. /\ row'[m] = r.row /\ track'[m] = r.track /\ call'[m] = NoCall
        /\ \A x \in Msgs \ {m} : row'[x] = row[x] /\ track'[x] = track[x] /\ call'[x] = call[x]
    BY <1>c, <2>1
  <2>5. \A x \in Msgs, n \in Nat : Names(x, n)' => Names(x, n)
    BY <1>n, <1>k, <1>q, <2>3, <2>4, KeyFacts DEF Names, Earns
  <2>6. \A x \in Msgs : ~ track'[x].live /\ track'[x].ends \subseteq track[x].ends
    BY <1>l, <2>3, <2>4 DEF Earns
  <2>7. ASSUME row'[m].phase = "reacted", row[m].phase # "reacted"
        PROVE  m \in taken /\ m \in worked
    <3>1. PICK e \in track[m].ends : e.work /\ Key(e.n) \in keys
      BY <2>3, <2>4, <2>7 DEF Earns
    <3>2. e \in SeenEnds
      BY <1>c DEF Tracks, SeenEnds
    <3> QED BY <3>1, <3>2, EndEarns
  <2>8. \A x \in Msgs : row'[x].phase = "reacted" =>
          row[x].phase = "reacted" \/ (x \in taken' /\ x \in worked')
    BY <2>1, <2>4, <2>7
  <2> QED BY <1>d, <1>t, <2>1, <2>5, <2>6, <2>8, NothingNamed
<1>5. CASE TakeEvent
  <2> DEFINE e == Head(events)
  <2>1. /\ \A m \in Msgs : /\ row'[m] = AfterEvent(m, e).row
                           /\ track'[m] = AfterEvent(m, e).track
        /\ UNCHANGED <<turn, turnCount, taken, worked, call>>
        /\ events' = Tail(events) /\ events # <<>>
    BY <1>5 DEF TakeEvent, history
  <2>2. e \in Events /\ e \in Waiting(events) /\ Waiting(events') \subseteq Waiting(events)
    BY <1>c, <2>1, QueueShrinks
  <2>3. e.t \in {"ended", "exited"}
    BY <2>2 DEF NamingInv, NoEchoes
  <2> HIDE DEF e
  <2>4. \A m \in Msgs : /\ Earns(At(m), AfterEvent(m, e), KeysOf(track[m]), {e} \cap Ends)
                        /\ At(m).row = row[m] /\ At(m).track = track[m]
    <3>1. \A m \in Msgs : At(m).row = row[m] /\ At(m).track = track[m] /\ Good(At(m))
      BY DEF At, State, Inv, MessagesGood
    <3> QED BY <1>l, <2>2, <2>3, <3>1, EventEarns
  <2>5. \A x \in Msgs, n \in Nat : Names(x, n)' => Names(x, n)
    BY <1>n, <2>1, <2>4, KeyFacts DEF Names, Earns
  <2>6. \A x \in Msgs : /\ ~ track'[x].live
                        /\ track'[x].ends \subseteq track[x].ends \cup Waiting(events)
    BY <2>1, <2>2, <2>4 DEF Earns
  <2>7. ASSUME NEW m \in Msgs, row'[m].phase = "reacted", row[m].phase # "reacted"
        PROVE  m \in taken /\ m \in worked
    <3>1. PICK o \in track[m].ends \cup ({e} \cap Ends) : o.work /\ Key(o.n) \in KeysOf(track[m])
      BY <2>1, <2>4, <2>7 DEF Earns
    <3>2. o \in SeenEnds
      BY <1>c, <2>2 DEF Tracks, SeenEnds
    <3> QED BY <3>1, <3>2, EndEarns
  <2>8. \A x \in Msgs : row'[x].phase = "reacted" =>
          row[x].phase = "reacted" \/ (x \in taken' /\ x \in worked')
    BY <2>1, <2>7
  <2>9. Waiting(events') \subseteq Waiting(events) \cup {Exited}
    BY <2>2
  <2> QED BY <1>d, <1>t, <2>1, <2>5, <2>6, <2>8, <2>9, NothingNamed
<1>6. CASE Boot \/ BootEnded
  BY <1>1, <1>6 DEF Boot, BootEnded, history
<1>7. CASE WindowEnds
  <2>1. \A m \in Msgs : row'[m] = row[m] \/ row'[m].phase = "failed"
    BY <1>7 DEF WindowEnds, Reconciled, FailedBy, Delivery
  <2> QED BY <1>1, <1>7, <2>1 DEF WindowEnds, driverVars, history
<1>8. ASSUME NEW m \in Msgs, Replayed(m) PROVE NamingInv'
  <2>1. PICK acted \in BOOLEAN :
          /\ row' = [row EXCEPT ![m] = Reconciled(@, TRUE, acted)]
          /\ worked' = IF acted THEN worked \cup {m} ELSE worked
    BY <1>8 DEF Replayed
  <2>2. UNCHANGED <<track, call, turn, turnCount, events, taken>> /\ m \in taken
    BY <1>8 DEF Replayed, driverVars
  <2>3. \A x \in Msgs : row'[x].phase = "reacted" =>
          row[x].phase = "reacted" \/ (x \in taken' /\ x \in worked')
    BY <1>c, <2>1, <2>2 DEF Reconciled, To, Delivery
  <2>4. \A x \in Msgs, n \in Nat : Names(x, n)' => Names(x, n)
    BY <1>n, <2>2 DEF Names
  <2> QED BY <1>d, <1>t, <1>l, <2>1, <2>2, <2>3, <2>4, NothingNamed
<1>9. ASSUME NEW m \in Msgs, FilesChanged(m) \/ DriverRefuses(m) PROVE NamingInv'
  BY <1>c, <1>1, <1>9 DEF FilesChanged, DriverRefuses, driverVars, history
<1>10. ASSUME NEW m \in Msgs, CodexAnswers(m) PROVE NamingInv'
  <2>1. /\ UNCHANGED <<row, track, turnCount, events, taken, worked>>
        /\ turn' \in {turn, NoTurn} /\ call[m].t = "called"
        /\ \/ call' = [call EXCEPT ![m] = Receipt(FALSE, Key(call[m].n))]
           \/ call' = [call EXCEPT ![m] = Receipt(FALSE, NoKey)]
    BY <1>10 DEF CodexAnswers, history
  <2>2. call[m] = Called(call[m].n) /\ call[m].n \in Nat
    BY <1>c, <2>1 DEF Calls, Called, Turns, NoCall, Queued, Failure, Receipts
  <2>3. /\ \A x \in Msgs \ {m} : call'[x] = call[x]
        /\ call'[m] \in {Receipt(FALSE, Key(call[m].n)), Receipt(FALSE, NoKey)}
    BY <1>c, <2>1
  <2>4. \A k : KeysOfCall(Receipt(FALSE, k)) = {k} /\ \A n \in Nat : Receipt(FALSE, k) # Called(n)
    BY DEF KeysOfCall, Receipt, Called
  <2>5. ASSUME NEW x \in Msgs, NEW n \in Nat, Names(x, n)' PROVE Names(x, n)
    <3>1. CASE x # m
      BY <1>n, <2>1, <2>3, <2>5, <3>1 DEF Names
    <3>2. CASE x = m
      <4>1. CASE call'[m] = Receipt(FALSE, Key(call[m].n)) /\ Key(n) = Key(call[m].n)
        <5>1. n = call[m].n
          BY <2>2, <4>1, KeyFacts
        <5> QED BY <2>2, <3>2, <5>1 DEF Names
      <4>2. CASE Key(n) \in KeysOf(track[m])
        BY <3>2, <4>2 DEF Names
      <4>3. call'[m] # Called(n) /\ track' = track
        BY <2>1, <2>3, <2>4
      <4>4. Key(n) \in KeysOf(track[m]) \cup KeysOfCall(call'[m])
        BY <1>n, <2>5, <3>2, <4>3
      <4>5. KeysOfCall(call'[m]) \subseteq {Key(call[m].n), NoKey}
            /\ (call'[m] = Receipt(FALSE, NoKey) => KeysOfCall(call'[m]) = {NoKey})
        BY <2>3, <2>4
      <4> QED BY <2>3, <4>1, <4>2, <4>4, <4>5, KeyFacts
    <3> QED BY <3>1, <3>2
  <2>6. turn'.begun => turn'.msg \in taken' \cup {"launch"}
    BY <1>t, <2>1 DEF NoTurn
  <2> QED BY <1>d, <1>l, <2>1, <2>5, <2>6, NothingNamed
<1>11. CASE CodexBegins
  <2>1. /\ UNCHANGED <<row, track, call, turnCount, events, worked>>
        /\ turn' = [turn EXCEPT !.begun = TRUE] /\ taken' = taken \cup {turn.msg}
    BY <1>11 DEF CodexBegins, memory
  <2>2. turn'.msg \in taken'
    BY <1>c, <2>1
  <2>3. \A x \in Msgs, n \in Nat : Names(x, n)' => Names(x, n)
    BY <1>n, <2>1 DEF Names
  <2> QED BY <1>d, <1>l, <2>1, <2>2, <2>3, NothingNamed
<1>12. CASE CodexRefuses
  <2>1. /\ UNCHANGED <<row, track, turnCount, events, taken, worked>> /\ turn' = NoTurn
        /\ \A m \in Msgs : call'[m] = call[m] \/ call'[m] = Failure("channel-error")
    BY <1>12 DEF CodexRefuses, history
  <2>2. \A x \in Msgs, n \in Nat : Names(x, n)' => Names(x, n)
    BY <1>n, <1>k, <1>q, <2>1 DEF Names
  <2>3. ~ turn'.begun
    BY <2>1 DEF NoTurn
  <2> QED BY <1>d, <1>l, <2>1, <2>2, <2>3, NothingNamed
<1>13. CASE AgentSpeaks
  <2>1. /\ UNCHANGED <<row, track, call, turn, turnCount, events, taken>>
        /\ worked \subseteq worked'
    BY <1>13 DEF AgentSpeaks, memory
  <2>2. \A x \in Msgs, n \in Nat : Names(x, n)' => Names(x, n)
    BY <1>n, <2>1 DEF Names
  <2> QED BY <1>d, <1>t, <1>l, <2>1, <2>2, NothingNamed
<1>14. CASE SessionExits
  <2>1. /\ UNCHANGED <<row, track, turnCount, taken, worked>> /\ turn' = NoTurn
        /\ events' = Append(events, Exited)
        /\ \A m \in Msgs : call'[m] = call[m] \/ call'[m] = Failure("session-closed")
    BY <1>14 DEF SessionExits, history
  <2>2. \A x \in Msgs, n \in Nat : Names(x, n)' => Names(x, n)
    BY <1>n, <1>k, <1>q, <2>1 DEF Names
  <2>3. Waiting(events') = Waiting(events) \cup {Exited}
    <3>1. Exited \in Events
      BY DEF Events
    <3> QED BY <1>c, <2>1, <3>1, QueueGrows
  <2>4. ~ turn'.begun
    BY <2>1 DEF NoTurn
  <2> QED BY <1>d, <1>l, <2>1, <2>2, <2>3, <2>4, NothingNamed
<1>15. CASE Crash
  <2>1. /\ UNCHANGED <<row, turnCount, worked>> /\ turn' = NoTurn /\ events' = <<>>
        /\ taken \subseteq taken'
        /\ \A m \in Msgs : track'[m] = Forgotten /\ call'[m] = NoCall
    BY <1>15 DEF Crash
  <2>2. \A x \in Msgs, n \in Nat : Names(x, n)' => Names(x, n)
    BY <1>n, <1>k, <1>q, <2>1, ForgottenFacts, KeyFacts
  <2>3. ~ turn'.begun /\ Waiting(events') = {}
    BY <2>1, EmptyQueue DEF NoTurn
  <2>4. \A m \in Msgs : ~ track'[m].live /\ track'[m].ends = {}
    BY <2>1, ForgottenFacts
  <2> QED BY <1>d, <2>1, <2>2, <2>3, <2>4, NothingNamed
<1>16. CASE UNCHANGED vars
  <2>1. \A x \in Msgs, n \in Nat : Names(x, n)' => Names(x, n)
    BY <1>16, <1>n DEF Names, vars, memory
  <2> QED BY <1>16, <1>d, <1>t, <1>l, <2>1, NothingNamed DEF vars, memory, driverVars, history
<1>17. ASSUME NEW m \in Msgs, DriverTakes(m) PROVE NamingInv'
  <2> DEFINE n == turnCount + 1 + (IF Working THEN Len(queue) ELSE 0)
  <2>1. /\ UNCHANGED <<row, track, worked>> /\ events' = events \o EchoesOf(m)
        /\ IF Working
           THEN /\ UNCHANGED <<turn, turnCount, taken>>
                /\ call' = [call EXCEPT ![m] = Receipt(TRUE, Named(n, TRUE))]
           ELSE /\ Begin(m)
                /\ call' = [call EXCEPT ![m] = IF Begun(m) THEN Receipt(FALSE, Named(n, FALSE))
                                               ELSE Called(n)]
    BY <1>17 DEF DriverTakes
  <2> HIDE DEF n
  <2>2. events' = events
    BY <1>c, <2>1 DEF EchoesOf
  <2>3. \A k \in Nat : /\ Key(k) \notin KeysOfCall(Receipt(TRUE, Named(n, TRUE)))
                       /\ Begun(m) => Key(k) \notin KeysOfCall(Receipt(FALSE, Named(n, FALSE)))
                       /\ Receipt(TRUE, Named(n, TRUE)) # Called(k)
                       /\ Receipt(FALSE, Named(n, FALSE)) # Called(k)
    BY <1>c, KeyFacts DEF KeysOfCall, Receipt, Named, Begun, Called
  <2>4. CASE Working
    <3>1. UNCHANGED <<turn, turnCount, taken>> /\ call' = [call EXCEPT ![m] = Receipt(TRUE, Named(n, TRUE))]
      BY <2>1, <2>4
    <3>2. \A x \in Msgs, k \in Nat : Names(x, k)' => Names(x, k)
      BY <1>c, <1>n, <2>1, <2>3, <3>1 DEF Names
    <3> QED BY <1>d, <1>t, <1>l, <2>1, <2>2, <3>1, <3>2, NothingNamed
  <2>5. CASE ~ Working
    <3>1. /\ turnCount' = turnCount + 1 /\ turn'.n = turnCount + 1 /\ turn'.msg = m
          /\ turn'.begun = Begun(m)
          /\ taken' = IF Begun(m) THEN taken \cup {m} ELSE taken
          /\ call' = [call EXCEPT ![m] = IF Begun(m) THEN Receipt(FALSE, Named(n, FALSE))
                                         ELSE Called(n)]
      <4>1. /\ Begin(m)
            /\ call' = [call EXCEPT ![m] = IF Begun(m) THEN Receipt(FALSE, Named(n, FALSE))
                                           ELSE Called(n)]
        BY <2>1, <2>5
      <4>2. /\ turnCount' = turnCount + 1 /\ turn' = TurnAt(turnCount + 1, m, Begun(m))
            /\ taken' = IF Begun(m) THEN taken \cup {m} ELSE taken
        BY <4>1 DEF Begin
      <4>3. turn'.n = turnCount + 1 /\ turn'.msg = m /\ turn'.begun = Begun(m)
        BY <4>2 DEF TurnAt
      <4> QED BY <4>1, <4>2, <4>3
    <3>2. n = turnCount + 1
      BY <1>c, <2>5 DEF n
    <3>3. \A k \in Nat : Called(n) = Called(k) => n = k
      BY <1>c, <3>2, KeyFacts
    <3>4. KeysOfCall(Called(n)) = {}
      BY DEF KeysOfCall, Called
    <3>5. \A x \in Msgs, k \in Nat : Names(x, k)' => Names(x, k) \/ (k = n /\ x = m)
      BY <1>c, <1>n, <2>1, <2>3, <3>1, <3>3, <3>4 DEF Names
    <3>6. \A x \in Msgs, k \in Nat :
            Names(x, k)' => Names(x, k) \/ (turnCount < k /\ k = turn'.n /\ x = turn'.msg)
      BY <1>c, <3>1, <3>2, <3>5
    <3>7. SeenEnds' = SeenEnds /\ NoEchoes'
      BY <2>1, <2>2 DEF SeenEnds, NamingInv, NoEchoes
    <3>8. /\ turnCount <= turnCount' /\ turn'.n <= turnCount'
          /\ taken \subseteq taken' /\ worked \subseteq worked'
          /\ turn'.begun => turn'.msg \in taken' \cup {"launch"}
      BY <1>c, <2>1, <3>1
    <3> QED BY <1>d, <2>1, <3>1, <3>6, <3>7, <3>8, NamingKept
  <2> QED BY <2>4, <2>5
<1>18. CASE TurnEnds
  <2>1. PICK work \in BOOLEAN : /\ events' = Append(events, Ended(turn, work))
                                /\ worked' = IF work THEN worked \cup {turn.msg} ELSE worked
    BY <1>18 DEF TurnEnds
  <2>2. UNCHANGED <<row, track, call>> /\ turn.begun
    BY <1>18 DEF TurnEnds, memory
  <2> DEFINE o == Ended(turn, work)
  <2>3. o \in Ends /\ o \in Events /\ o.t = "ended" /\ o.n = turn.n /\ o.msg = turn.msg /\ o.work = work
    BY <1>c DEF Ended, Ends, Events
  <2>4. Waiting(events') = Waiting(events) \cup {o}
    BY <1>c, <2>1, <2>3, QueueGrows
  <2> HIDE DEF o
  <2>5. \A e \in SeenEnds' : e \in SeenEnds \/ e = o
    BY <2>2, <2>4 DEF SeenEnds
  <2>6. \A e \in SeenEnds' : \/ e \in SeenEnds
                             \/ /\ turn.begun /\ e.n = turn.n /\ e.msg = turn.msg
                                /\ e.work => e.msg \in worked'
    BY <2>1, <2>2, <2>3, <2>5
  <2>7. NoEchoes'
    BY <2>2, <2>3, <2>4 DEF NamingInv, NoEchoes
  <2>8. \A x \in Msgs, k \in Nat : Names(x, k)' => Names(x, k)
    BY <1>n, <2>2 DEF Names
  <2>9. \/ turn' = NoTurn /\ UNCHANGED <<turnCount, taken>>
        \/ Begin(Head(queue))
    BY <1>18 DEF TurnEnds
  <2>10. /\ turnCount <= turnCount' /\ turn'.n <= turnCount' /\ turn'.n \in {0, turnCount + 1}
         /\ taken \subseteq taken' /\ worked \subseteq worked'
         /\ turn'.begun => turn'.msg \in taken' \cup {"launch"}
    <3>1. CASE turn' = NoTurn /\ UNCHANGED <<turnCount, taken>>
      BY <1>c, <2>1, <3>1 DEF NoTurn
    <3>2. CASE Begin(Head(queue))
      BY <1>c, <2>1, <3>2 DEF Begin, TurnAt
    <3> QED BY <2>9, <3>1, <3>2
  <2> QED BY <1>d, <2>2, <2>6, <2>7, <2>8, <2>10, NamingKept
<1> QED
  BY <1>d, <1>2, <1>3, <1>4, <1>5, <1>6, <1>7, <1>8, <1>9, <1>10, <1>11, <1>12, <1>13, <1>14,
     <1>15, <1>16, <1>17, <1>18
  DEF Next, Host, Session

\* On a driver that names its turns, the turns are named as they are taken.
NamedInv == Inv /\ (driver # "claude" => NamingInv)

\* The invariant holds at the start.
LEMMA NamedInit == Init => NamedInv
<1> SUFFICES ASSUME Init PROVE NamedInv
  OBVIOUS
<1>1. /\ \A m \in Msgs : row[m] = Absent /\ call[m] = NoCall /\ track[m] = Forgotten
      /\ turn = TurnAt(1, "launch", TRUE) /\ turnCount = 1 /\ Waiting(events) = {}
  BY EmptyQueue DEF Init
<1>2. SeenEnds = {} /\ \A m \in Msgs, n \in Nat : ~ Names(m, n)
  BY <1>1, ForgottenFacts, KeyFacts DEF SeenEnds, Names, KeysOfCall, NoCall, Called
<1>3. TurnsCounted /\ NamedTurns
  BY <1>1, <1>2 DEF TurnsCounted, NamedTurns, TurnAt
<1>4. TurnsAreTaken /\ NoEchoes /\ ReactedIsEarned
  BY <1>1, <1>2, DeliveryAssumption, ForgottenFacts
  DEF TurnsAreTaken, TurnAt, NoEchoes, ReactedIsEarned, Absent, Delivery
<1> QED BY <1>3, <1>4, InvInit DEF NamedInv, NamingInv

\* The invariant is inductive.
LEMMA NamedStep == NamedInv /\ [Next]_vars => NamedInv'
<1> SUFFICES ASSUME NamedInv, [Next]_vars PROVE NamedInv'
  OBVIOUS
<1>1. Inv /\ Inv'
  BY InvStep DEF NamedInv
<1>2. CASE driver # "claude"
  BY <1>1, <1>2, NamingStep DEF NamedInv
<1>3. CASE driver = "claude"
  <2>1. driver' = driver
    BY DEF Next, Host, Session, Send, Resend, FilesChanged, TakeAnswer, Purge, TakeEvent, Boot,
           BootEnded, WindowEnds, Replayed, DriverTakes, DriverRefuses, CodexAnswers, CodexBegins,
           CodexRefuses, AgentSpeaks, TurnEnds, SessionExits, Crash, vars, driverVars
  <2> QED BY <1>1, <1>3, <2>1 DEF NamedInv
<1> QED BY <1>2, <1>3

\* On a driver that names its turns, a double check mark is earned: the message's own turn
\* began and did something (send.ts watchTurn, turnEnded, react).
THEOREM ReactionsAreEarned == Spec => []ReactedIsEarned
<1>1. NamedInv => ReactedIsEarned
  BY DEF NamedInv, NamingInv, ReactedIsEarned
<1> QED BY <1>1, NamedInit, NamedStep, PTL DEF Spec
=============================================================================
