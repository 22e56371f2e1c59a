----------------------------- MODULE WindowBoard -----------------------------
(***************************************************************************)
(* The way of WindowFrames on to a window: UI main forwards what           *)
(* HostClient hands on (ui-main/ipc/handlers/hostRead.ts, A-N02, A-N04),   *)
(* the renderer's read model follows it and reads the board over the same  *)
(* connection (A-N01; renderer/src/composables/readModel.ts, followHost).  *)
(*                                                                         *)
(* One follower of one window stands for all; it is not stopped.  A batch  *)
(* is heard frame by frame.  A read with no connection fails (before the   *)
(* first attach the code lets it wait for that), and one under way when    *)
(* the connection is lost fails with it.                                   *)
(***************************************************************************)
EXTENDS WindowFrames

VARIABLES
  view,            \* the follower and its model
  reply,           \* its read: none, asked, or how it ended
  snaps            \* history: the last snapshots the reader and the window applied

vars == <<fvars, view, reply, snaps>>

NoRead == [is |-> "none"]
Asked == [is |-> "asked"]
Failed == [is |-> "failed"]

\* resync: the last state stays, a fresh snapshot is read, the frames after it wait.
Resyncs(v, fs) ==
  [v EXCEPT !.phase = "syncing", !.again = FALSE,
            !.buffer = KeepIn(fs, {f \in Range(fs) : f.row # Resync})]

\* With a fault: a live follower applies a frame its snapshot already holds.
HearsAny(v, f) ==
  CASE v.phase = "idle" -> v
    [] v.phase = "syncing" -> [v EXCEPT !.buffer = Append(@, f)]
    [] v.phase = "stale" -> Resyncs(v, <<f>>)
    [] v.phase = "live" ->
         IF f.row = Resync \/ f.epoch # v.epoch THEN Resyncs(v, <<f>>)
         ELSE [v EXCEPT !.seq = f.seq, !.board[f.row] = f.val]

\* What a frame makes of the follower.
Hears(v, f) ==
  CASE v.phase = "idle" -> v
    [] v.phase = "syncing" -> [v EXCEPT !.buffer = Append(@, f)]
    [] v.phase = "stale" -> Resyncs(v, <<f>>)
    [] v.phase = "live" ->
         IF f.row = Resync \/ f.epoch # v.epoch THEN Resyncs(v, <<f>>)
         ELSE IF f.seq <= v.seq THEN v
         ELSE [v EXCEPT !.seq = f.seq, !.board[f.row] = f.val]

\* With a fault: `connected` is taken for an end of staleness only.
LinkedStale(v, state) ==
  LET w == [v EXCEPT !.link = state] IN
  IF state = "connected" /\ v.phase = "stale" THEN Resyncs(w, <<>>) ELSE w

\* connectionChanged: `connected` after any other state reads a fresh snapshot.
Linked(v, state) ==
  LET w == [v EXCEPT !.link = state] IN
  IF v.phase = "idle" THEN v
  ELSE IF state # "connected" \/ v.link = "connected" THEN w
  ELSE IF v.phase = "syncing" THEN [w EXCEPT !.again = TRUE]
  ELSE Resyncs(w, <<>>)

\* load, once its read ended.
Unread(v) ==
  IF v.again THEN Resyncs(v, <<>>) ELSE [v EXCEPT !.phase = "stale", !.buffer = <<>>]

\* With a fault: the frames heard during a read are dropped.
ReadAlone(v, page) ==
  LET fed == [v EXCEPT !.phase = "live", !.seq = page.seq, !.epoch = page.epoch,
                       !.board = page.rows, !.buffer = <<>>]
  IN IF v.again THEN Resyncs(fed, <<>>) ELSE fed

Read(v, page) ==
  LET fed == [v EXCEPT !.phase = "live", !.seq = page.seq, !.epoch = page.epoch,
                       !.board = page.rows, !.buffer = <<>>]
      pending == KeepIn(v.buffer, {f \in Range(v.buffer) : f.epoch = page.epoch})
      heard[i \in 0..Len(pending)] == IF i = 0 THEN fed ELSE Hears(heard[i - 1], pending[i])
  IN IF v.again THEN Resyncs(fed, pending) ELSE heard[Len(pending)]

\* readSnapshot goes out on the connection, or fails.
Reads ==
  IF conn.up
  THEN reply' = Asked /\ conn' = [conn EXCEPT !.asked = Append(@, "window")]
  ELSE reply' = Failed /\ UNCHANGED conn

\* start: the window hears from here on, and reads.
WindowOpens ==
  /\ view.phase = "idle"
  /\ Fault
  /\ view' = [view EXCEPT !.phase = "syncing"]
  /\ win' = [win EXCEPT !.heard = TRUE]
  /\ Reads
  /\ UNCHANGED <<hostVars, out, changes, snaps>>

\* A frame, or a state of the connection, reaches the window.
WindowHears ==
  /\ win.handed # <<>>
  /\ LET item == Head(win.handed) IN
       view' = IF IsEvt(item) THEN Hears(view, item) ELSE Linked(view, item.type)
  /\ win' = [win EXCEPT !.handed = Tail(@)]
  /\ IF view.phase # "syncing" /\ view'.phase = "syncing"
     THEN Reads
     ELSE UNCHANGED <<reply, conn>>
  /\ UNCHANGED <<hostVars, out, bounds, snaps>>

\* A page, or a refusal, for the window comes out of the socket.
WindowAnswered ==
  /\ conn.up /\ out.sock # <<>>
  /\ LET item == Head(out.sock) IN
       /\ ~ IsEvt(item) /\ item.to = "window"
       /\ reply' = IF item.says = "page"
                   THEN [is |-> "page", epoch |-> epoch, seq |-> item.seq, rows |-> item.rows]
                   ELSE Failed
  /\ out' = [out EXCEPT !.sock = Tail(@)]
  /\ UNCHANGED <<hostVars, conn, win, bounds, view, snaps>>

\* The read of the window ended.
WindowLoads ==
  /\ reply.is \in {"page", "failed"}
  /\ view' = IF reply.is = "page" THEN Read(view, reply) ELSE Unread(view)
  /\ IF view'.phase = "syncing" THEN Reads ELSE reply' = NoRead /\ UNCHANGED conn
  /\ snaps' = IF reply.is = "page"
              THEN [snaps EXCEPT !.window = [epoch |-> reply.epoch, seq |-> reply.seq]]
              ELSE snaps
  /\ UNCHANGED <<hostVars, out, win, bounds>>

-----------------------------------------------------------------------------
Init ==
  /\ FInit
  /\ view = [phase |-> "idle", seq |-> 0, epoch |-> 0, board |-> [r \in Rows |-> 0],
             buffer |-> <<>>, again |-> FALSE, link |-> "none"]
  /\ reply = NoRead
  /\ snaps = [reader |-> [epoch |-> 0, seq |-> 0], window |-> [epoch |-> 0, seq |-> 0]]

\* The reader's snapshot is handed on to no window, nor are the frames it holds.
ReaderTakes ==
  /\ ReaderReceives
  /\ LET item == Head(out.sock) IN
       snaps' = IF ~ IsEvt(item) /\ item.says = "page"
                THEN [snaps EXCEPT !.reader = [epoch |-> epoch, seq |-> item.seq]]
                ELSE snaps
  /\ UNCHANGED <<view, reply>>

\* The calls of a connection that is lost answer HOST_UNAVAILABLE.
ReadsFail == reply' = IF reply = Asked THEN Failed ELSE reply

Next ==
  \/ FNext /\ UNCHANGED <<view, reply, snaps>>
  \/ ReaderTakes
  \/ (ConnectionLost \/ HostStops) /\ ReadsFail /\ UNCHANGED <<view, snaps>>
  \/ WindowOpens \/ WindowHears \/ WindowAnswered \/ WindowLoads

\* What the Host, the socket, UI main and the window do without being asked.
Spec ==
  /\ Init /\ [][Next]_vars
  /\ WF_vars(HostSteps /\ UNCHANGED <<view, reply, snaps>>)
  /\ WF_vars(SocketDrains /\ UNCHANGED <<view, reply, snaps>>)
  /\ WF_vars(ReaderTakes)
  /\ WF_vars(Connect /\ UNCHANGED <<view, reply, snaps>>)
  /\ WF_vars(WindowHears) /\ WF_vars(WindowAnswered) /\ WF_vars(WindowLoads)

-----------------------------------------------------------------------------
(* Properties *)

\* The frames on their way to the reader, or waiting to be sent to it.
InFlight ==
  {item \in Range(out.sock) \cup Range(out.queue) : IsEvt(item)} \cup Range(conn.held)
    \cup UNION {Range(a.first) : a \in Range(conn.answers)}

\* One of them that the reader will apply, and that brings row r to the version v.
Coming(r, v) == \E f \in InFlight : f.seq > win.lastSeq /\ f.row = r /\ f.val = v

\* A resync is on its way, or will be sent when the socket drained.
ResyncComing == out.over \/ \E f \in InFlight : f.seq > win.lastSeq /\ f.row = Resync

\* NothingMissed: whatever a live reader lacks of the Host's rows is on its way to it, or a
\* resync is: through frames folded, dropped or held behind a result, a replay from the ring,
\* and a snapshot read while frames arrive (framePublisher.ts, outbound.ts, snapshotReader.ts).
NothingMissed ==
  win.mode = "live" =>
    \A r \in Rows : win.board[r] = rows[r] \/ Coming(r, rows[r]) \/ ResyncComing

\* NeverBackwards: no step puts a row of the reader's board, or of the window's, back to an
\* older version: not a late frame, not one applied twice, not a snapshot read before it
\* (snapshotReader.ts:153-155, readModel.ts applyEvent).
NeverBackwards ==
  [][\A r \in Rows : win'.board[r] >= win.board[r] /\ view'.board[r] >= view.board[r]]_vars

\* A read the Host refused is not asked again on this connection (HostClient.ts:634-642).
Refused == conn.up /\ win.mode = "awaiting" /\ conn.asked = <<>>

\* CatchesUp: once the board stops changing and faults stop, the reader's board becomes the
\* Host's and stays it: the queue drains, an overflow ends with its resync, a lost connection
\* is resumed or read anew, and no read waits for ever; a refused read is excepted.
CatchesUp == <>[](Refused \/ win.board = rows)

\* What UI main has handed on, and the window not heard yet, that brings it row r at v.
HeardSoon(r, v) ==
  \E item \in Range(win.handed) :
    \/ item.type = "connected"
    \/ IsEvt(item) /\ (item.epoch # view.epoch \/ (item.row = r /\ item.val = v))

\* The reader's last snapshot is of the window's last read's epoch, and newer.
Overtaken ==
  snaps.window.epoch = snaps.reader.epoch /\ snaps.window.seq < snaps.reader.seq

Reaches(r) == view.board[r] = rows[r] \/ Coming(r, rows[r]) \/ HeardSoon(r, rows[r])

\* ViewMissesNothing: what a live window lacks is on its way through the reader and A-N02, or a
\* fresh snapshot is about to be read; a window whose last read is older than the reader's
\* snapshot is excepted (`Overtaken`, see ViewFollows).  followHost buffers what comes during its
\* read and reads once more after a reconnect (readModel.ts:182-204).
ViewMissesNothing ==
  (win.mode = "live" /\ view.phase = "live" /\ ~ Overtaken) =>
    ResyncComing \/ \A r \in Rows : Reaches(r)

\* ViewFollows: the same of every live window, as followHost says of itself: "a change between
\* the two is never missed" (readModel.ts:220).
ViewFollows ==
  (win.mode = "live" /\ view.phase = "live") =>
    ResyncComing \/ \A r \in Rows : Reaches(r)

\* ViewCatchesUp: with the same exception, and that of a read that failed and left the follower
\* stale, a window's board becomes the Host's and stays it.
ViewCatchesUp ==
  <>[](\/ view.board = rows
       \/ view.phase \in {"idle", "stale"} \/ Overtaken \/ Refused)
=============================================================================
