---------------------------- MODULE WindowFrames ----------------------------
(***************************************************************************)
(* The Host's frames on their way to one `ui` connection, and the reader   *)
(* at its other end: the frame publisher with its replay ring              *)
(* (host/transport/events/framePublisher.ts, ring.ts), the connection's    *)
(* outbound queue (outbound.ts), events.subscribe and session.snapshot,    *)
(* and HostClient's SnapshotReader (ui-main/host-client).                  *)
(*                                                                         *)
(* The board is one version per row; a row's frame carries its version.    *)
(* A request and its answer are handled in one turn, the answer is written *)
(* in a later one.  The socket takes what it takes and asks to drain when  *)
(* it likes.  Left out: the pages of a snapshot (they are built in one     *)
(* turn), the wait for a Host that is not ready, the ring's bytes.         *)
(***************************************************************************)
EXTENDS Integers, Sequences, Functions

CONSTANTS
  Rows,            \* the rows of the board
  Coalesced,       \* those whose waiting frames a newer one replaces
  Resync,          \* what a resync-required frame names in place of a row
  RingSize,        \* frames the replay ring holds
  HighWater,       \* frames that may wait for the socket
  MaxChanges,      \* bound on the changes of the board
  MaxFaults        \* bound on what may go wrong, on windows and handlers that join

ASSUME FramesAssumption ==
  /\ Coalesced \subseteq Rows
  /\ Resync \notin Rows
  /\ RingSize \in Nat \ {0}
  /\ HighWater \in Nat
  /\ MaxChanges \in Nat
  /\ MaxFaults \in Nat

VARIABLES
  rows,            \* the database: the version of each row
  epoch,           \* the Host's life
  seq,             \* the last seq of the `ui` target
  ring,            \* the frames held for a replay
  evicted,         \* the highest seq the ring let go
  conn,            \* the connection as the Host has it
  out,             \* its outbound queue, and the socket to the window
  win,             \* the window's reader, and what it applied and handed on
  changes,
  faults

hostVars == <<rows, epoch, seq, ring, evicted>>
bounds == <<changes, faults>>
fvars == <<hostVars, conn, out, win, bounds>>

NoSeq == -1

Frame(r, n, v) == [type |-> "evt", epoch |-> epoch, seq |-> n, row |-> r, val |-> v]

\* What HostClient hands on, a frame or a state, goes to the window once it is there.
HandsOn(w, item) == IF w.heard THEN [w EXCEPT !.handed = Append(@, item)] ELSE w

Closed == [up |-> FALSE, asked |-> <<>>, answers |-> <<>>,
           sentAny |-> FALSE, holding |-> FALSE, held |-> <<>>]

Idle == [sock |-> <<>>, queue |-> <<>>, full |-> FALSE, over |-> FALSE]

Fault == faults < MaxFaults /\ faults' = faults + 1

\* A socket that asks to drain is one of them.
Stalls == faults' = IF out'.full /\ ~ out.full THEN faults + 1 ELSE faults

-----------------------------------------------------------------------------
(* The outbound queue: what handing it frames or an answer may leave.      *)

IsEvt(item) == item.type = "evt"

\* Those of the items that are in S, in their order.
KeepIn(items, S) ==
  LET kept[i \in 0..Len(items)] ==
        IF i = 0 THEN <<>>
        ELSE IF items[i] \in S THEN Append(kept[i - 1], items[i])
        ELSE kept[i - 1]
  IN kept[Len(items)]

\* foldWaiting: a waiting frame gives way to a newer one of its row, in the same Host tick.
Waits(queue, fs, sameTick) ==
  KeepIn(queue, {w \in Range(queue) :
    ~ /\ sameTick /\ IsEvt(w) /\ w.row \in Coalesced
      /\ \E f \in Range(fs) : f.row = w.row
      /\ ~ \E x \in Range(queue) : IsEvt(x) /\ x.row = w.row /\ x.seq > w.seq})

Newest(fs) ==
  KeepIn(fs, {f \in Range(fs) :
    ~ (f.row \in Coalesced /\ \E g \in Range(fs) : g.row = f.row /\ g.seq > f.seq)})

\* How many of n items the socket takes at once, and whether it then asks to drain.
Taken(o, n) ==
  IF o.full \/ o.queue # <<>> THEN {<<0, o.full>>}
  ELSE {<<n, FALSE>>} \cup {<<k, TRUE>> : k \in IF faults < MaxFaults THEN 1..n ELSE {}}

\* What stays of a queue whose frames are dropped.
NoEvts(queue) == KeepIn(queue, {w \in Range(queue) : ~ IsEvt(w)})

\* With a fault: the waiting frames are dropped, and nothing remembers it.
OverflowedQuietly(o) ==
  IF Len(o.queue) > HighWater THEN [o EXCEPT !.queue = NoEvts(@)] ELSE o

\* overflow: past the high water the waiting frames are dropped, and the later ones too.
Overflowed(o) ==
  IF Len(o.queue) > HighWater
  THEN [o EXCEPT !.over = TRUE, !.queue = NoEvts(@)]
  ELSE o

\* sendEvt, for frames sent in one turn.
Sent(o, fs, sameTick) ==
  IF o.over \/ fs = <<>> THEN {o}
  ELSE {Overflowed([o EXCEPT !.sock = @ \o SubSeq(fs, 1, t[1]),
                             !.queue = Waits(@, fs, sameTick)
                                         \o Newest(SubSeq(fs, t[1] + 1, Len(fs))),
                             !.full = t[2]])
        : t \in Taken(o, Len(fs))}

\* write: an answer is never dropped.
Written(o, answer) ==
  {[o EXCEPT !.sock = @ \o SubSeq(<<answer>>, 1, t[1]),
             !.queue = @ \o SubSeq(<<answer>>, t[1] + 1, 1),
             !.full = t[2]] : t \in Taken(o, 1)}

\* pump, once the socket drained.
Pumped(o) ==
  {[o EXCEPT !.sock = @ \o SubSeq(o.queue, 1, t[1]),
             !.queue = SubSeq(@, t[1] + 1, Len(@)),
             !.full = t[2]]
   : t \in Taken([o EXCEPT !.full = FALSE, !.queue = <<>>], Len(o.queue))}

-----------------------------------------------------------------------------
(* The frame publisher *)

\* deliver: frames wait behind a subscribe result that is not written yet.
Deliver(c, os, fs, sameTick) ==
  IF ~ c.up THEN {<<c, o>> : o \in os}
  ELSE IF c.holding THEN {<<[c EXCEPT !.held = @ \o fs], o>> : o \in os}
  ELSE {<<[c EXCEPT !.sentAny = @ \/ fs # <<>>], o>>
        : o \in UNION {Sent(p, fs, sameTick) : p \in os}}

Delivers(fs, sameTick) ==
  \E d \in Deliver(conn, {out}, fs, sameTick) : conn' = d[1] /\ out' = d[2]

\* emit: numbered, held in the ring, delivered.
Emit(r, v) ==
  LET f == Frame(r, seq + 1, v) IN
  /\ seq' = seq + 1
  /\ ring' = (IF Len(ring) = RingSize THEN Tail(ring) ELSE ring) \o <<f>>
  /\ evicted' = IF Len(ring) = RingSize THEN Head(ring).seq ELSE evicted
  /\ \E sameTick \in BOOLEAN : Delivers(<<f>>, sameTick)

\* after: the frames a resume missed, if the ring still covers them.
Covers(lastSeq) == evicted <= lastSeq /\ lastSeq <= seq

\* With a fault: from the frame after the next.
AfterNext(lastSeq) == KeepIn(ring, {f \in Range(ring) : f.seq > lastSeq + 1})

After(lastSeq) == KeepIn(ring, {f \in Range(ring) : f.seq > lastSeq})

\* A row changes; its frame is published after the commit.
Publish(r) ==
  /\ changes < MaxChanges
  /\ changes' = changes + 1
  /\ rows' = [rows EXCEPT ![r] = @ + 1]
  /\ Emit(r, rows[r] + 1)
  /\ Stalls
  /\ UNCHANGED <<epoch, win>>

\* MetricsResetStarted: every row may have changed, and one frame says so.
ResetMetrics ==
  /\ changes < MaxChanges
  /\ changes' = changes + 1
  /\ rows' = [r \in Rows |-> rows[r] + 1]
  /\ Emit(Resync, 0)
  /\ Stalls
  /\ UNCHANGED <<epoch, win>>

\* Another window is refused its resume or drained: its resync takes a seq of the target.
OtherResync ==
  /\ Fault
  /\ seq' = seq + 1
  /\ UNCHANGED <<rows, epoch, ring, evicted, conn, out, win, changes>>

-----------------------------------------------------------------------------
(* The Host's side of a request *)

\* An answer to the reader or to A-N01, and the frames that are released after it.
Answer(to, says, first) ==
  [type |-> "res", to |-> to, says |-> says, seq |-> seq, rows |-> rows, first |-> first]

Answers(a) == [conn EXCEPT !.asked = Tail(@), !.answers = Append(@, a)]

Handling(what) == conn.up /\ conn.asked # <<>> /\ Head(conn.asked) = what

\* events.subscribe without a resume.
SubscribeLive ==
  /\ Handling("subscribe") /\ win.lastSeq = NoSeq
  /\ conn' = Answers(Answer("reader", "live", <<>>))
  /\ UNCHANGED <<hostVars, out, win, bounds>>

Replayable == ~ conn.sentAny /\ Covers(win.lastSeq)

\* A resume the ring covers: the frames missed until now follow the result.
SubscribeReplaying ==
  /\ Handling("subscribe") /\ win.lastSeq # NoSeq /\ Replayable
  /\ conn' = [Answers(Answer("reader", "replaying", After(win.lastSeq))) EXCEPT !.holding = TRUE]
  /\ UNCHANGED <<hostVars, out, win, bounds>>

\* A resume it does not cover: a resync follows, with a seq the ring does not hold.
SubscribeRefused ==
  /\ Handling("subscribe") /\ win.lastSeq # NoSeq /\ ~ Replayable
  /\ seq' = seq + 1
  /\ conn' = [Answers(Answer("reader", "resync", <<Frame(Resync, seq + 1, 0)>>))
              EXCEPT !.holding = TRUE]
  /\ UNCHANGED <<rows, epoch, ring, evicted, out, win, bounds>>

\* session.snapshot, for the reader or for a window's read: the board at the current seq.
HostReads(who) ==
  /\ Handling(who)
  /\ conn' = Answers(Answer(who, "page", <<>>))
  /\ UNCHANGED <<hostVars, out, win, bounds>>

\* A read that throws, or the pages of which expired before they were read.
HostRefuses(who, says) ==
  /\ Handling(who)
  /\ Fault
  /\ conn' = Answers(Answer(who, says, <<>>))
  /\ UNCHANGED <<hostVars, out, win, changes>>

\* dispatch writes the answer, then runs what was deferred past it: release.
HostAnswers ==
  /\ conn.up /\ conn.answers # <<>>
  /\ LET a == Head(conn.answers)
         written == Written(out, [a EXCEPT !.first = <<>>])
         after == [conn EXCEPT !.answers = Tail(@)]
         released == [after EXCEPT !.holding = FALSE, !.held = <<>>]
     IN IF a.says \in {"replaying", "resync"}
        THEN \E sameTick \in BOOLEAN :
               \E d \in Deliver(released, written, a.first \o conn.held, sameTick) :
                 conn' = d[1] /\ out' = d[2]
        ELSE conn' = after /\ out' \in written
  /\ Stalls
  /\ UNCHANGED <<hostVars, win, changes>>

\* The socket drained: waiting frames go out; the last of them ends an overflow with a resync.
SocketDrains ==
  /\ conn.up /\ out.full
  /\ \E o \in Pumped(out) :
       IF o.over /\ ~ o.full
       THEN /\ seq' = seq + 1
            /\ \E d \in Deliver(conn, {[o EXCEPT !.over = FALSE]},
                                <<Frame(Resync, seq + 1, 0)>>, FALSE) :
                 conn' = d[1] /\ out' = d[2]
       ELSE out' = o /\ UNCHANGED <<seq, conn>>
  /\ faults' = IF out'.full THEN faults + 1 ELSE faults
  /\ UNCHANGED <<rows, epoch, ring, evicted, win, changes>>

-----------------------------------------------------------------------------
(* SnapshotReader *)

\* frame, apply: buffered until the reader is live; a resync-required is not handed on.
Takes(w, f) ==
  IF w.mode # "live" THEN [w EXCEPT !.buffer = Append(@, f)]
  ELSE IF f.seq <= w.lastSeq THEN w
  ELSE IF f.row = Resync THEN [w EXCEPT !.lastSeq = f.seq, !.mode = "reading"]
  ELSE HandsOn([w EXCEPT !.lastSeq = f.seq, !.board[f.row] = f.val,
                         !.applied = [epoch |-> f.epoch, seq |-> f.seq]], f)

\* drain: live from here, with what was buffered.
Drained(w) ==
  LET taken[i \in 0..Len(w.buffer)] ==
        IF i = 0 THEN [w EXCEPT !.mode = "live", !.buffer = <<>>]
        ELSE Takes(taken[i - 1], w.buffer[i])
  IN taken[Len(w.buffer)]

\* read, after its last page.
Loaded(w, page) ==
  Drained([w EXCEPT !.lastSeq = page.seq, !.board = page.rows,
                    !.applied = [epoch |-> epoch, seq |-> page.seq]])

\* What one item of the socket makes of the reader.
Received(item) ==
  IF IsEvt(item) THEN Takes(win, item)
  ELSE CASE item.says = "replaying" -> Drained(win)
         [] item.says \in {"live", "resync"} -> [win EXCEPT !.mode = "reading"]
         [] item.says = "page" -> Loaded(win, item)
         [] item.says = "expired" -> win
         [] item.says = "refused" -> [win EXCEPT !.mode = "awaiting"]

\* A read starts with the answer to the subscribe, with a resync that is applied, or anew.
Rereads(item) ==
  /\ Received(item).mode = "reading"
  /\ \/ win.mode # "reading"
     \/ ~ IsEvt(item)

ReaderReceives ==
  /\ conn.up /\ out.sock # <<>>
  /\ LET item == Head(out.sock) IN
       /\ item.type = "res" => item.to = "reader"
       /\ win' = Received(item)
       /\ conn' = IF Rereads(item) THEN [conn EXCEPT !.asked = Append(@, "reader")] ELSE conn
  /\ out' = [out EXCEPT !.sock = Tail(@)]
  /\ UNCHANGED <<hostVars, bounds>>

\* refresh: another handler of UI main joins a live reader.
HandlerJoins ==
  /\ conn.up /\ win.mode = "live"
  /\ Fault
  /\ win' = [win EXCEPT !.mode = "reading"]
  /\ conn' = [conn EXCEPT !.asked = Append(@, "reader")]
  /\ UNCHANGED <<hostVars, out, changes>>

-----------------------------------------------------------------------------
(* The connection *)

Resumed == IF win.applied.epoch = epoch THEN win.applied.seq ELSE NoSeq

\* openUi: subscribe first, with a resume when the state applied is of this epoch.
Connect ==
  /\ ~ conn.up
  /\ conn' = [Closed EXCEPT !.up = TRUE, !.asked = <<"subscribe">>]
  /\ win' = HandsOn([win EXCEPT !.mode = "awaiting", !.lastSeq = Resumed],
                    [type |-> "connected"])
  /\ UNCHANGED <<hostVars, out, bounds>>

Hangs ==
  /\ conn.up
  /\ conn' = Closed
  /\ out' = Idle
  /\ win' = HandsOn([win EXCEPT !.mode = "off", !.lastSeq = NoSeq, !.buffer = <<>>],
                    [type |-> "reconnecting"])

ConnectionLost ==
  /\ Fault
  /\ Hangs
  /\ UNCHANGED <<hostVars, changes>>

\* A Host that stops after a commit has not published its frame; the next life starts at seq 0.
HostStops ==
  /\ Fault
  /\ Hangs
  /\ \/ UNCHANGED <<rows, changes>>
     \/ /\ changes < MaxChanges
        /\ changes' = changes + 1
        /\ \E r \in Rows : rows' = [rows EXCEPT ![r] = @ + 1]
  /\ epoch' = epoch + 1
  /\ seq' = 0
  /\ ring' = <<>>
  /\ evicted' = 0

FInit ==
  /\ rows = [r \in Rows |-> 1]
  /\ epoch = 1 /\ seq = 0 /\ ring = <<>> /\ evicted = 0
  /\ conn = Closed
  /\ out = Idle
  /\ win = [mode |-> "off", lastSeq |-> NoSeq, buffer |-> <<>>,
            heard |-> FALSE, handed |-> <<>>,
            board |-> [r \in Rows |-> 0], applied |-> [epoch |-> 0, seq |-> 0]]
  /\ changes = 0 /\ faults = 0

HostSteps ==
  \/ SubscribeLive \/ SubscribeReplaying \/ SubscribeRefused
  \/ \E who \in {"reader", "window"} : HostReads(who)
  \/ HostAnswers

FNext ==
  \/ \E r \in Rows : Publish(r)
  \/ ResetMetrics \/ OtherResync
  \/ HostSteps
  \/ \E who \in {"reader", "window"}, says \in {"refused", "expired"} : HostRefuses(who, says)
  \/ SocketDrains \/ HandlerJoins \/ Connect
=============================================================================
