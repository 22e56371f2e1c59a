--------------------------- MODULE WindowInvariants ---------------------------
(***************************************************************************)
(* The terms WindowBoardProofs argues in, and the inductive invariants it  *)
(* proves of WindowBoard.                                                  *)
(*                                                                         *)
(* A step is put in the terms of the line, the frames and answers in the   *)
(* socket and then in the queue: what it adds to it, or takes from it.     *)
(* The invariant of the reader, ReaderInv, says that its calls come one at *)
(* a time, that the frames are in the order of their seqs from its buffer  *)
(* to what the Host holds back, that their versions grow with them, and    *)
(* that what it goes on from is fed by them: at every seq where they may   *)
(* end, the ring still has what is lacking, or has let it go.  That of the *)
(* window, ViewInv, says the same of the versions it hears and reads.      *)
(* CatchInv relates the two: what the window goes on from, its board or a  *)
(* page on its way to it, has all that the reader has, but for what it is  *)
(* to hear.                                                                *)
(***************************************************************************)
EXTENDS WindowBoard

-----------------------------------------------------------------------------
(* Runs of a function, and sequences that keep their order *)

\* What a step makes of the elements of a sequence, one after the other, exists: what
\* KeepIn, Drained and Read define.
IsRun(f, n, X, start, step) ==
  /\ f \in [0..n -> X]
  /\ f[0] = start
  /\ \A i \in 1..n : f[i] = step[f[i - 1]][i]

Steps(step, n, X) == \A x \in X, i \in 1..n : step[x][i] \in X

\* t has elements of s, in the order they have there.
Thin(t, s) ==
  \E p \in [DOMAIN t -> DOMAIN s] :
    \A i \in DOMAIN t :
      t[i] = s[p[i]] /\ \A j \in DOMAIN t : i < j => p[i] < p[j]

\* t is the elements of s that are in S, of the type T, in their order.
Picks(t, s, S, T) == t \in Seq(T) /\ Thin(t, s) /\ Range(t) = Range(s) \cap S

-----------------------------------------------------------------------------
(* The items of a connection, and the line they stand in *)

Evt == [type: {"evt"}, epoch: Nat, seq: Nat, row: Rows \cup {Resync}, val: Nat]
Boards == [Rows -> Nat]
Res == [type: {"res"}, to: {"reader", "window"},
        says: {"live", "replaying", "resync", "page", "refused", "expired"},
        seq: Nat, rows: Boards, first: Seq(Evt)]
Item == Evt \cup Res
Outs == [sock: Seq(Item), queue: Seq(Item), full: BOOLEAN, over: BOOLEAN]

Evts(s) == {x \in Range(s) : IsEvt(x)}

\* The frames of a sequence, or of a set and another, in the order of their seqs.
Sorted(s) ==
  \A i, j \in DOMAIN s : i < j /\ IsEvt(s[i]) /\ IsEvt(s[j]) => s[i].seq < s[j].seq
Before(A, B) == \A f \in A, g \in B : f.seq < g.seq

\* At most one of the items is in S, or at least one.
Lone(s, S) == \A i, j \in DOMAIN s : s[i] \in S /\ s[j] \in S => i = j
Has(s, S) == \E x \in Range(s) : x \in S

\* What waits for the reader: in the socket, then in the queue.
Line(o) == o.sock \o o.queue

\* Equality, for lemmas about concatenations: the provers find the instances of a
\* predicate, not those of an equation.
Same(x, y) == x = y

-----------------------------------------------------------------------------
(* What the outbound queue does to the line *)

\* A frame is missing from the line p: a newer one of its row took its place, or the line
\* overflowed, and no frame after it is left either.
Gone(G, p, g) ==
  \/ g.row \in Coalesced /\ \E h \in G : h.row = g.row /\ h.seq > g.seq
  \/ p.over /\ Before(Evts(Line(p)), {g})

-----------------------------------------------------------------------------
(* Types *)

Asks == {"subscribe", "reader", "window"}
Conns == [up: BOOLEAN, asked: Seq(Asks), answers: Seq(Res),
          sentAny: BOOLEAN, holding: BOOLEAN, held: Seq(Evt)]
Stamps == [epoch: Nat, seq: Nat]
Note == [type: {"connected", "reconnecting"}]
Handed == Evt \cup Note
Wins == [mode: {"off", "awaiting", "reading", "live"}, lastSeq: Nat \cup {NoSeq},
         buffer: Seq(Evt), heard: BOOLEAN, handed: Seq(Handed),
         board: Boards, applied: Stamps]
Views == [phase: {"idle", "syncing", "stale", "live"}, seq: Nat, epoch: Nat, board: Boards,
          buffer: Seq(Evt), again: BOOLEAN, link: {"none", "connected", "reconnecting"}]
Page == [is: {"page"}, epoch: Nat, seq: Nat, rows: Boards]
Replies == {NoRead, Asked, Failed} \cup Page

HostOK ==
  /\ rows \in Boards /\ epoch \in Nat /\ seq \in Nat
  /\ ring \in Seq(Evt) /\ evicted \in Nat
  /\ changes \in Nat /\ faults \in Nat

TypeOK ==
  /\ HostOK
  /\ conn \in Conns /\ out \in Outs /\ win \in Wins
  /\ view \in Views /\ reply \in Replies
  /\ snaps \in [reader: Stamps, window: Stamps]

\* deliver: to nobody, behind a result, or to the outbound queue.
Delivered(c, o, fs, same, d) ==
  /\ d[1].up = c.up /\ d[1].asked = c.asked /\ d[1].answers = c.answers
  /\ d[1].holding = c.holding
  /\ \/ ~ c.up /\ d[1] = c /\ d[2] = o
     \/ /\ c.up /\ c.holding /\ d[2] = o
        /\ d[1].held = c.held \o fs /\ d[1].sentAny = c.sentAny
     \/ /\ c.up /\ ~ c.holding /\ d[2] \in Sent(o, fs, same)
        /\ d[1].held = c.held /\ d[1].sentAny = (c.sentAny \/ fs # <<>>)

\* The buffer of a follower that reads anew has the frames fs, but for the resyncs.
SansResyncs(b, fs) == \A f : f \in Range(b) <=> f \in Range(fs) /\ f.row # Resync

\* The follower's board stays, or it takes one row from the frame f.
Applied(v, f, w) ==
  \/ /\ w.seq = v.seq /\ w.epoch = v.epoch /\ w.board = v.board
     /\ Range(w.buffer) \subseteq Range(v.buffer) \cup {f}
  \/ /\ v.phase = "live" /\ w.phase = "live" /\ f.row # Resync /\ f.epoch = v.epoch
     /\ f.seq > v.seq /\ w.seq = f.seq /\ w.epoch = v.epoch /\ w.buffer = v.buffer
     /\ w.board = [v.board EXCEPT ![f.row] = f.val]

\* What Read runs through: the frames q of the page's epoch, and the followers d they make.
Runs(v, p, q, d) ==
  /\ Range(q) = {f \in Range(v.buffer) : f.epoch = p.epoch}
  /\ Thin(q, v.buffer)
  /\ d[0].phase = "live" /\ d[0].seq = p.seq /\ d[0].epoch = p.epoch
  /\ d[0].board = p.rows /\ Range(d[0].buffer) = {} /\ d[0].link = v.link
  /\ \A i \in 1..Len(q) : d[i] = Hears(d[i - 1], q[i])
  /\ Read(v, p) = IF v.again THEN Resyncs(d[0], q) ELSE d[Len(q)]

-----------------------------------------------------------------------------
(* What each step does, in the terms of the invariants: the fields of the  *)
(* connection, the line, and the fields of the reader                      *)

HostSame == rows' = rows /\ epoch' = epoch /\ seq' = seq /\ ring' = ring /\ evicted' = evicted

ReaderSame ==
  /\ win'.mode = win.mode /\ win'.lastSeq = win.lastSeq /\ win'.buffer = win.buffer
  /\ win'.board = win.board /\ win'.applied = win.applied

ConnSame ==
  /\ conn'.up = conn.up /\ conn'.answers = conn.answers /\ conn'.sentAny = conn.sentAny
  /\ conn'.holding = conn.holding /\ conn'.held = conn.held

LineSame == Line(out') = Line(out) /\ out'.over = out.over

\* Nothing the reader's side depends on changes, but a window may ask for a read.
Quiet ==
  /\ HostSame /\ ReaderSame /\ ConnSame /\ LineSame
  /\ conn'.asked = conn.asked \/ (conn.up /\ conn'.asked = Append(conn.asked, "window"))

\* Frames are handed to the connection c, with the queue o.
Hands(c, o, fs) ==
  /\ conn'.up = c.up /\ conn'.asked = c.asked /\ conn'.answers = c.answers
  /\ conn'.holding = c.holding
  /\ \/ ~ c.up /\ conn' = c /\ out' = o
     \/ /\ c.up /\ c.holding /\ out' = o
        /\ conn'.held = c.held \o fs /\ conn'.sentAny = c.sentAny
     \/ /\ c.up /\ ~ c.holding /\ \E same \in BOOLEAN : out' \in Sent(o, fs, same)
        /\ conn'.held = c.held /\ conn'.sentAny = (c.sentAny \/ fs # <<>>)

\* The frame f is numbered, and held in the ring; the board changes as f says.
Emits(f) ==
  /\ f \in Evt /\ f.seq = seq + 1 /\ f.epoch = epoch
  /\ \/ f.row = Resync
     \/ /\ f.row \in Rows /\ rows'[f.row] = f.val /\ rows[f.row] < f.val
        /\ \A r \in Rows \ {f.row} : rows'[r] = rows[r]
  /\ \A r \in Rows : rows[r] <= rows'[r]
  /\ seq' = seq + 1 /\ epoch' = epoch
  /\ ring' = (IF Len(ring) = RingSize THEN Tail(ring) ELSE ring) \o <<f>>
  /\ evicted' = IF Len(ring) = RingSize THEN Head(ring).seq ELSE evicted
  /\ ReaderSame
  /\ Hands(conn, out, <<f>>)

\* What emit makes of row r at v.
Emitted(f, r, v) ==
  /\ f \in Evt /\ f.row = r /\ f.val = v /\ f.seq = seq + 1 /\ f.epoch = epoch
  /\ seq' = seq + 1 /\ seq' \in Nat
  /\ ring' = (IF Len(ring) = RingSize THEN Tail(ring) ELSE ring) \o <<f>>
  /\ evicted' = IF Len(ring) = RingSize THEN Head(ring).seq ELSE evicted
  /\ ring' \in Seq(Evt) /\ evicted' \in Nat
  /\ conn' \in Conns /\ out' \in Outs
  /\ Hands(conn, out, <<f>>)

\* Nothing of the window's own changes.
ViewSame == view' = view /\ reply' = reply /\ snaps' = snaps

\* The answer a, of the Host's seq and its board.
AnswerOf(a, to, says, first) ==
  /\ a \in Res /\ a.seq = seq /\ a.rows = rows
  /\ a.to = to /\ a.says = says /\ a.first = first

\* A call is answered with a, and the connection holds frames back or not.
Handled(q, a, h) ==
  /\ conn.up /\ conn.asked # <<>> /\ Head(conn.asked) = q
  /\ conn'.up = conn.up /\ conn'.asked = Tail(conn.asked)
  /\ conn'.answers = Append(conn.answers, a) /\ conn'.sentAny = conn.sentAny
  /\ conn'.holding = h /\ conn'.held = conn.held

\* A request is handled: q was asked, and a is to be written.
Handles(q, a) ==
  /\ conn.up /\ conn.asked # <<>> /\ Head(conn.asked) = q
  /\ a \in Res /\ a.seq = seq /\ a.rows = rows
  /\ conn'.up = conn.up /\ conn'.asked = Tail(conn.asked)
  /\ conn'.answers = Append(conn.answers, a)
  /\ conn'.sentAny = conn.sentAny /\ conn'.held = conn.held
  /\ rows' = rows /\ epoch' = epoch /\ ring' = ring /\ evicted' = evicted
  /\ out' = out /\ win' = win
  /\ \/ /\ q = "subscribe" /\ a.to = "reader" /\ a.says = "live" /\ a.first = <<>>
        /\ win.lastSeq = NoSeq /\ conn'.holding = conn.holding /\ seq' = seq
     \/ /\ q = "subscribe" /\ a.to = "reader" /\ a.says = "replaying"
        /\ a.first = After(win.lastSeq)
        /\ win.lastSeq # NoSeq /\ ~ conn.sentAny /\ Covers(win.lastSeq)
        /\ conn'.holding = TRUE /\ seq' = seq
     \/ /\ q = "subscribe" /\ a.to = "reader" /\ a.says = "resync"
        /\ a.first = <<Frame(Resync, seq + 1, 0)>>
        /\ conn'.holding = TRUE /\ seq' = seq + 1
     \/ /\ q = a.to /\ a.says \in {"page", "refused", "expired"} /\ a.first = <<>>
        /\ conn'.holding = conn.holding /\ seq' = seq

\* The answer a is written, as b, with nothing to release after it.
Writes(a, b) ==
  /\ conn.up /\ conn.answers # <<>> /\ a = Head(conn.answers) /\ a \in Res
  /\ a.says \notin {"replaying", "resync"}
  /\ b \in Res /\ b.to = a.to /\ b.says = a.says /\ b.seq = a.seq /\ b.rows = a.rows
  /\ conn'.up = conn.up /\ conn'.asked = conn.asked /\ conn'.answers = Tail(conn.answers)
  /\ conn'.sentAny = conn.sentAny /\ conn'.holding = conn.holding /\ conn'.held = conn.held
  /\ Same(Line(out'), Line(out) \o <<b>>) /\ out'.over = out.over
  /\ HostSame /\ win' = win

\* It is written, and what it held back is released after it.
Releases(a, b) ==
  /\ conn.up /\ conn.answers # <<>> /\ a = Head(conn.answers) /\ a \in Res
  /\ a.says \in {"replaying", "resync"}
  /\ b \in Res /\ b.to = a.to /\ b.says = a.says /\ b.seq = a.seq /\ b.rows = a.rows
  /\ conn'.up = conn.up /\ conn'.asked = conn.asked /\ conn'.answers = Tail(conn.answers)
  /\ conn'.sentAny = (conn.sentAny \/ a.first \o conn.held # <<>>)
  /\ conn'.holding = FALSE /\ conn'.held = <<>>
  /\ \E w \in Outs, same \in BOOLEAN :
       /\ Same(Line(w), Line(out) \o <<b>>) /\ w.over = out.over
       /\ out' \in Sent(w, a.first \o conn.held, same)
  /\ HostSame /\ win' = win

\* The queue ran empty after an overflow: a resync follows.
Recovers(f) ==
  /\ conn.up /\ out.over
  /\ f \in Evt /\ f.row = Resync /\ f.seq = seq + 1 /\ f.epoch = epoch
  /\ seq' = seq + 1 /\ rows' = rows /\ epoch' = epoch /\ ring' = ring /\ evicted' = evicted
  /\ win' = win
  /\ \E o \in Outs : Same(Line(o), Line(out)) /\ ~ o.over /\ Hands(conn, o, <<f>>)

\* The reader, with the page of its read.
With(w, page) == [w EXCEPT !.lastSeq = page.seq, !.board = page.rows,
                           !.applied = [epoch |-> epoch, seq |-> page.seq]]

\* The head of the line reaches the reader.
Gets(item) ==
  /\ conn.up /\ Line(out) # <<>> /\ item = Head(Line(out))
  /\ Same(Line(out'), Tail(Line(out))) /\ out'.over = out.over
  /\ HostSame /\ ConnSame

GetsEvt(f) ==
  /\ Gets(f) /\ f \in Evt /\ win' = Takes(win, f)
  /\ conn'.asked = IF win'.mode = "reading" /\ win.mode # "reading"
                   THEN Append(conn.asked, "reader") ELSE conn.asked

GetsRes(a) ==
  /\ Gets(a) /\ a \in Res /\ a.to = "reader"
  /\ a.says = "replaying" => win' = Drained(win)
  /\ a.says = "page" => win' = Drained(With(win, a))
  /\ a.says \in {"live", "resync", "expired", "refused"} =>
       /\ win'.lastSeq = win.lastSeq /\ win'.buffer = win.buffer /\ win'.board = win.board
       /\ win'.applied = win.applied /\ win'.handed = win.handed /\ win'.heard = win.heard
       /\ win'.mode = IF a.says = "expired" THEN win.mode
                      ELSE IF a.says = "refused" THEN "awaiting" ELSE "reading"
  /\ conn'.asked = IF win'.mode = "reading" THEN Append(conn.asked, "reader") ELSE conn.asked

\* The snapshot that the reader applies, when x is one.
Snaps(x) ==
  snaps' = IF x.says = "page"
           THEN [snaps EXCEPT !.reader = [epoch |-> epoch, seq |-> x.seq]]
           ELSE snaps

\* Another handler joins a live reader, which reads anew.
Joins ==
  /\ conn.up /\ win.mode = "live" /\ win'.mode = "reading"
  /\ win'.lastSeq = win.lastSeq /\ win'.buffer = win.buffer
  /\ win'.board = win.board /\ win'.applied = win.applied
  /\ win'.handed = win.handed /\ win'.heard = win.heard
  /\ conn'.asked = Append(conn.asked, "reader")
  /\ HostSame /\ ConnSame /\ LineSame

\* openUi
Connects ==
  /\ ~ conn.up /\ conn'.up /\ conn'.asked = <<"subscribe">> /\ conn'.answers = <<>>
  /\ conn'.sentAny = FALSE /\ conn'.holding = FALSE /\ conn'.held = <<>>
  /\ win'.mode = "awaiting"
  /\ win'.lastSeq = (IF win.applied.epoch = epoch THEN win.applied.seq ELSE NoSeq)
  /\ win'.buffer = win.buffer /\ win'.board = win.board /\ win'.applied = win.applied
  /\ win'.handed = (IF win.heard THEN Append(win.handed, [type |-> "connected"])
                    ELSE win.handed)
  /\ win'.heard = win.heard
  /\ HostSame /\ out' = out

\* The connection is lost, or with it the Host's life.
Hung ==
  /\ conn.up /\ conn' = Closed /\ out' = Idle
  /\ win'.mode = "off" /\ win'.lastSeq = NoSeq /\ win'.buffer = <<>>
  /\ win'.board = win.board /\ win'.applied = win.applied
  /\ win'.handed = (IF win.heard THEN Append(win.handed, [type |-> "reconnecting"])
                    ELSE win.handed)
  /\ win'.heard = win.heard
  /\ \A r \in Rows : rows[r] <= rows'[r]
  /\ \/ HostSame
     \/ epoch' = epoch + 1 /\ seq' = 0 /\ ring' = <<>> /\ evicted' = 0

\* A window's read goes out, or fails.
WindowReads ==
  IF conn.up THEN reply' = Asked /\ conn'.asked = Append(conn.asked, "window")
  ELSE reply' = Failed /\ conn'.asked = conn.asked

\* An answer for the window comes out of the line.
GetsWin(a) ==
  /\ Gets(a) /\ a \in Res /\ a.to = "window" /\ win' = win /\ conn'.asked = conn.asked

\* Every step is one of these.
OthersResync ==
  /\ seq' = seq + 1 /\ rows' = rows /\ epoch' = epoch /\ ring' = ring
  /\ evicted' = evicted /\ conn' = conn /\ out' = out /\ win' = win

Moves ==
  \/ Quiet \/ OthersResync \/ Joins \/ Connects \/ Hung
  \/ \E f : Emits(f) \/ Recovers(f) \/ GetsEvt(f)
  \/ \E q, a : Handles(q, a)
  \/ \E a, b : Writes(a, b) \/ Releases(a, b)
  \/ \E a : GetsRes(a) \/ GetsWin(a)

-----------------------------------------------------------------------------
(* The inductive invariant, on the reader's side *)

L == Line(out)
ToReader == {a \in Res : a.to = "reader"}
Subs == {"subscribe", "reader"}
Held == {"replaying", "resync"}

\* At most one of a connection's calls is in S, whether it is asked, answered or in the line;
\* or none is.
One(asked, answers, line, Q, S) ==
  /\ Lone(asked, Q) /\ Lone(answers, S) /\ Lone(line, S)
  /\ ~ (Has(asked, Q) /\ Has(answers, S))
  /\ ~ (Has(asked, Q) /\ Has(line, S))
  /\ ~ (Has(answers, S) /\ Has(line, S))
None(asked, answers, line, Q, S) == ~ Has(asked, Q) /\ ~ Has(answers, S) /\ ~ Has(line, S)

\* The answers that have not reached UI main.
InTransit == {a \in Range(conn.answers) \cup Range(L) : ~ IsEvt(a)}

\* The reader has one call under way, and none while it is live or off.
Single ==
  /\ One(conn.asked, conn.answers, L, Subs, ToReader)
  /\ win.mode \in {"live", "off"} => None(conn.asked, conn.answers, L, Subs, ToReader)

\* Frames wait behind a result that releases them, and behind no other.
Behind ==
  /\ \A a \in InTransit : a.says \in {"live", "replaying", "resync"} => a.to = "reader"
  /\ \A a \in Range(conn.answers) : a.says \notin Held => a.first = <<>>
  /\ conn.holding => \E a \in Range(conn.answers) : a.says \in Held
  /\ ~ conn.holding => conn.held = <<>> /\ \A a \in Range(conn.answers) : a.says \notin Held

\* A connection that is down keeps nothing; a live reader holds nothing back.
Down ==
  /\ ~ conn.up => /\ conn.asked = <<>> /\ conn.answers = <<>> /\ ~ conn.sentAny
                  /\ ~ conn.holding /\ conn.held = <<>> /\ L = <<>> /\ ~ out.over
                  /\ win.mode = "off"
  /\ win.mode = "off" => ~ conn.up /\ win.buffer = <<>>
  /\ win.mode = "live" =>
       win.buffer = <<>> /\ win.applied.epoch = epoch /\ win.applied.seq = win.lastSeq

\* A replay starts where the reader's state is, before any frame was sent.
Resuming ==
  /\ Has(conn.asked, {"subscribe"}) \/ (\E a \in InTransit : a.says = "replaying") =>
       \/ win.lastSeq = NoSeq
       \/ win.applied.epoch = epoch /\ win.applied.seq = win.lastSeq
  /\ \A a \in InTransit : a.says = "replaying" => win.lastSeq # NoSeq
  /\ \A a \in Range(conn.answers) : a.says = "replaying" => ~ conn.sentAny
  /\ out.over => conn.sentAny
  /\ ~ conn.sentAny => Evts(L) = {} /\ win.buffer = <<>>

Calls == Single /\ Behind /\ Down /\ Resuming

Firsts == UNION {Range(a.first) : a \in Range(conn.answers)}
Later == Firsts \cup Range(conn.held)

\* The frames that are to reach the reader, and those with the ring's.
Bag == Range(win.buffer) \cup Evts(L) \cup Later
Ups == Bag \cup Range(ring)

\* They are in the order of their seqs, from the buffer of the reader to what is held.
Order ==
  /\ Sorted(win.buffer) /\ Sorted(L) /\ Before(Range(win.buffer), Evts(L))
  /\ Before(Range(win.buffer) \cup Evts(L), Later) /\ Before(Firsts, Range(conn.held))
  /\ Sorted(conn.held) /\ Sorted(ring) /\ \A a \in Range(conn.answers) : Sorted(a.first)

\* Nothing has a seq of the future, nor an epoch that is not the Host's.
Stamped ==
  /\ \A f \in Ups : f.seq <= seq /\ f.epoch = epoch
  /\ \A f \in Range(ring) : evicted < f.seq
  /\ evicted <= seq
  /\ \A a \in InTransit : a.seq <= seq
  /\ win.applied.epoch <= epoch
  /\ win.applied.epoch = epoch => win.applied.seq <= seq

\* A board has what the frames up to s say.
Ahead(b, s) == \A f \in Ups : f.row \in Rows /\ f.seq > s => f.val >= b[f.row]
Below(b, c) == \A r \in Rows : b[r] <= c[r]
PageFor(a) == a \in InTransit /\ a.says = "page" /\ a.to = "reader"

\* The versions of a row grow with the seqs, up to the one of the Host.
Timely ==
  /\ \A f \in Ups : f.row \in Rows => f.val <= rows[f.row]
  /\ \A f, g \in Ups : f.row \in Rows /\ g.row = f.row /\ f.seq < g.seq => f.val < g.val
  /\ Below(win.board, rows)
  /\ win.applied.epoch = epoch => Ahead(win.board, win.applied.seq)
  /\ \A a \in InTransit : PageFor(a) =>
       Below(a.rows, rows) /\ Ahead(a.rows, a.seq) /\ Below(win.board, a.rows)

\* A reader with the board b that applied the frames of G up to n lacks what the ring still
\* has, what a resync brings, or what the ring let go of.
Stop(rw, rg, ev, b, s, G, n) ==
  \/ ev > n
  \/ \E f \in G : f.row = Resync /\ s < f.seq /\ f.seq <= n
  \/ \E f \in rg : f.row = Resync /\ n < f.seq
  \/ \A r \in Rows :
       \/ b[r] = rw[r]
       \/ \E f \in G : f.row = r /\ f.val = rw[r] /\ s < f.seq /\ f.seq <= n
       \/ \E f \in rg : f.row = r /\ f.val = rw[r] /\ n < f.seq

Stops(sq, ov, s, G) == {s} \cup {n \in Nat : \E f \in G : f.seq = n /\ s < n} \cup (IF ov THEN {} ELSE {sq})

Feeds(rw, rg, ev, sq, ov, b, s, G) ==
  \A n \in Stops(sq, ov, s, G) : Stop(rw, rg, ev, b, s, G, n)

\* What the reader goes on from, or will.
Owed(b, s) ==
  \/ win.mode = "live" /\ b = win.board /\ s = win.lastSeq
  \/ (\E a \in InTransit : a.says = "replaying") /\ b = win.board /\ s = win.lastSeq
  \/ \E a \in InTransit : PageFor(a) /\ b = a.rows /\ s = a.seq

Covered(b, s) == Stop(rows, Range(ring), evicted, b, s, {}, s)

\* What the reader applied can be resumed; what it goes on from is fed by what comes.
Fed ==
  /\ win.applied.epoch = epoch => Covered(win.board, win.applied.seq)
  /\ \A b \in Boards, s \in Nat :
       Owed(b, s) => Feeds(rows, Range(ring), evicted, seq, out.over, b, s, Bag)

ReaderInv == Calls /\ Order /\ Stamped /\ Timely /\ Fed

-----------------------------------------------------------------------------
(* The stops of a feed *)

\* One frame more, numbered next: what the ring holds of it keeps the stops before it.
Newer(rw, rg, ev, sq, f, rw2, rg2, ev2) ==
  /\ f.seq = sq + 1 /\ f \in rg2
  /\ \/ f.row = Resync
     \/ f.row \in Rows /\ rw2[f.row] = f.val /\ \A r \in Rows \ {f.row} : rw2[r] = rw[r]
  /\ \A g \in rg : g \in rg2 \/ g.seq <= ev2
  /\ ev <= ev2

Seqs(G, sq) == \A f \in G : f.seq \in Nat /\ f.seq <= sq

\* All that the board b lacks after s is among the frames of G.
Fetched(rw, b, s, G) ==
  \/ \E f \in G : f.row = Resync /\ s < f.seq
  \/ \A r \in Rows : \/ b[r] = rw[r]
                     \/ \E f \in G : f.row = r /\ f.val = rw[r] /\ s < f.seq

\* A frame that is not in the line any more is stale, or an overflow took it and all after it.
Missing(rw, ov, G, g) ==
  \/ g.row \in Rows /\ g.val # rw[g.row]
  \/ ov /\ \A x \in G : x.seq < g.seq

-----------------------------------------------------------------------------
(* The calls of a connection, one after the other *)

\* The calls of one kind: what is asked, and the answers to it.
ToWindow == {a \in Res : a.to = "window"}
Calling(Q, S) == \/ Q = Subs /\ S = ToReader
                 \/ Q = {"window"} /\ S = ToWindow

Once(Q, S) == One(conn.asked, conn.answers, L, Q, S)
Never(Q, S) == None(conn.asked, conn.answers, L, Q, S)
KeepsCalls(Q, S) == (Once(Q, S) => Once(Q, S)') /\ (Never(Q, S) => Never(Q, S)')

\* A line w with an answer, and the frames fs that are released after it.
Frees(a, b, w, fs, same) ==
  /\ fs = a.first \o conn.held /\ out' \in Sent(w, fs, same) /\ w.over = out.over
  /\ Line(w) = Append(L, b) /\ Range(Line(w)) = Range(L) \cup {b}
  /\ Evts(Line(w)) = Evts(L)

-----------------------------------------------------------------------------
(* The order of the frames, and their versions *)

\* A frame that is numbered next.
Fresh(g) ==
  /\ g.seq = seq + 1 /\ g.epoch = epoch
  /\ g.row \in Rows => rows'[g.row] = g.val /\ rows[g.row] < g.val

\* A frame of G is not among those of H: a newer one of its row took its place, or an
\* overflow took it and all the frames after it.
Lost(G, ov, H, g) ==
  \/ g.row \in Rows /\ \E h \in G : h.row = g.row /\ h.seq > g.seq
  \/ ov /\ \A x \in H : x.seq < g.seq

\* What the steps have in common that the reader takes no part in: a frame is numbered next,
\* a page is of the board as it is, and nothing else is new.
Twin(x, y) == x.to = y.to /\ x.says = y.says /\ x.seq = y.seq /\ x.rows = y.rows
Flows ==
  /\ epoch' = epoch /\ seq <= seq'
  /\ \A g \in Ups' : g \in Ups \/ (Fresh(g) /\ seq' = seq + 1)
  /\ \A r \in Rows : rows[r] <= rows'[r]
  /\ win'.board = win.board /\ win'.applied = win.applied
  /\ \A x \in InTransit' : \/ \E y \in InTransit : Twin(x, y)
                           \/ x.seq = seq /\ x.rows = rows /\ rows' = rows
  /\ \A g \in Range(ring') : evicted' < g.seq
  /\ evicted' <= seq'

-----------------------------------------------------------------------------
(* What feeds the reader, through the steps of the Host *)

\* f is the first of the frames of G, H are the others, and it makes the board b the board c.
First(rw, b, G, f, c, H) ==
  /\ f \in G /\ \A g \in G : g.seq \in Nat /\ (g = f \/ f.seq < g.seq)
  /\ f.row \in Rows /\ f.row # Resync /\ (b[f.row] = rw[f.row] => f.val = rw[f.row])
  /\ b \in Boards /\ c = [b EXCEPT ![f.row] = f.val]
  /\ \A g : g \in H <=> g \in G /\ g # f

\* A reader whose board is one the Host's board had, and can be resumed.
Sound(w) ==
  /\ w.applied.epoch = epoch /\ w.applied.seq <= seq
  /\ Ahead(w.board, w.applied.seq) /\ Covered(w.board, w.applied.seq)
  /\ Below(w.board, rows)

\* While it is live, the frames of G feed it.
Live(w, G) ==
  w.mode = "live" =>
    /\ w.buffer = <<>> /\ w.lastSeq = w.applied.seq
    /\ Feeds(rows, Range(ring), evicted, seq, out.over, w.board, w.lastSeq, G)

\* f is the first of the frames of G, and H are the others.
Leads(f, G, H) ==
  /\ f \in G /\ \A g \in G : g = f \/ f.seq < g.seq
  /\ \A g : g \in H <=> g \in G /\ g # f

\* The frames that are still to come after i of the buffered ones.
Left(buf, i, R) == {buf[j] : j \in {k \in DOMAIN buf : k > i}} \cup R

\* The reader x has taken i of the frames buffered in w, with R behind them.
Draining(w, x, i, R) ==
  /\ x \in Wins /\ Sound(x) /\ Live(x, Left(w.buffer, i, R)) /\ x.mode \in {"live", "reading"}
  /\ Below(w.board, x.board) /\ Sorted(x.buffer)
  /\ \A f \in Range(x.buffer) : \E j \in DOMAIN w.buffer : j <= i /\ f = w.buffer[j]

\* No call of the reader is left, once the head of the line has left it.
NoneLeft == None(conn.asked, conn'.answers, L', Subs, ToReader)

\* The reader asks only when none of its calls is under way.
AsksOnce ==
  \/ conn'.asked = conn.asked
  \/ conn'.asked = Append(conn.asked, "reader") /\ win'.mode = "reading" /\ NoneLeft

\* The item x was received: its state stays, or it goes on to another sound one.
Rests ==
  /\ win'.board = win.board /\ win'.lastSeq = win.lastSeq /\ win'.applied = win.applied
  /\ win'.mode = win.mode \/ win'.mode \in {"reading", "awaiting"}
  /\ win'.mode = "live" => win'.buffer = win.buffer
  /\ Bag' = Bag
Advances ==
  /\ NoneLeft /\ win'.mode \in {"live", "reading"}
  /\ Sound(win') /\ Live(win', Bag') /\ Below(win.board, win'.board)
Buffers(x) ==
  /\ Sorted(win'.buffer)
  /\ \A g \in Range(win'.buffer) : g \in Range(win.buffer) \/ (g = x /\ IsEvt(x))
Got(x) == Gets(x) /\ AsksOnce /\ Buffers(x) /\ (Rests \/ Advances)

\* Its frames and its read, through every step.
Still == view' = view /\ reply' = reply
HandedSame == win'.handed = win.handed /\ win'.heard = win.heard
Answered(a) ==
  /\ GetsWin(a)
  /\ reply' = IF a.says = "page"
              THEN [is |-> "page", epoch |-> epoch, seq |-> a.seq, rows |-> a.rows]
              ELSE Failed
Flowing ==
  \/ Quiet /\ conn'.asked = conn.asked
  \/ OthersResync \/ Joins
  \/ \E f : Emits(f) \/ Recovers(f)
  \/ \E q, a : Handles(q, a)
  \/ \E a, b : Writes(a, b) \/ Releases(a, b)
Follows ==
  \/ Still /\ snaps' = snaps /\ HandedSame /\ Flowing
  \/ Still /\ snaps' = snaps /\ Connects
  \/ Still /\ \E x : (GetsEvt(x) /\ snaps' = snaps) \/ (GetsRes(x) /\ Snaps(x))
  \/ view' = view /\ snaps' = snaps /\ ReadsFail /\ Hung
  \/ view' = view /\ snaps' = snaps /\ \E a : Answered(a)
  \/ WindowOpens \/ WindowHears \/ WindowLoads

\* The frames that are handed on come from the Host's.
HandsOver == \A x \in Range(win'.handed) : IsEvt(x) => x \in Range(win.handed) \/ x \in Ups

\* What the window is to hear, or holds during its read; with the frames on their way.
Heard == {x \in Range(win.handed) : IsEvt(x)} \cup Range(view.buffer)
Known == Heard \cup Ups

\* A board at s of the epoch e is older than the frames of K after s.
Timed(K, e, s, b) ==
  \A f \in K : f.row \in Rows /\ f.epoch = e /\ f.seq > s => f.val >= b[f.row]

\* No frame is of the future, and none is newer than the Host's board.
Past(K, e, s, rw) ==
  \A f \in K : /\ f \in Evt /\ f.epoch <= e /\ (f.epoch = e => f.seq <= s)
               /\ f.row \in Rows => f.val <= rw[f.row]

\* The versions of a row grow with the seqs of an epoch.
Grows(K) ==
  \A f, g \in K : f.row \in Rows /\ g.row = f.row /\ g.epoch = f.epoch /\ f.seq < g.seq
                    => f.val < g.val

\* A board b that the window may take in place of vb.
Good(K, vb, rw, e, s, b) == Below(vb, b) /\ Below(b, rw) /\ Timed(K, e, s, b)

\* The window has one read under way, while it waits for one.
Waiting ==
  /\ Once({"window"}, ToWindow)
  /\ reply # Asked => Never({"window"}, ToWindow)
  /\ reply # NoRead => view.phase = "syncing"

Paged ==
  \A a \in InTransit :
    a.says = "page" /\ a.to = "window" => Good(Known, view.board, rows, epoch, a.seq, a.rows)

Loading ==
  reply.is = "page" =>
    Good(Known, view.board, rows, reply.epoch, reply.seq, reply.rows)

Viewed == Below(view.board, rows) /\ Timed(Known, view.epoch, view.seq, view.board)

ViewInv == Past(Known, epoch, seq, rows) /\ Grows(Known) /\ Viewed /\ Waiting /\ Paged /\ Loading

\* A step that leaves the window's board: a frame is numbered next, a page is of the board as
\* it is, and nothing else is new.
WinFlows ==
  /\ \A g \in Known' : g \in Known \/ (Fresh(g) /\ epoch' = epoch /\ seq' = seq + 1)
  /\ \A r \in Rows : rows[r] <= rows'[r]
  /\ \/ epoch' = epoch /\ seq <= seq'
     \/ epoch' = epoch + 1 /\ InTransit' = {}
  /\ \A x \in InTransit' : \/ \E y \in InTransit : Twin(x, y)
                           \/ x.seq = seq /\ x.rows = rows
  /\ view'.board = view.board /\ view'.seq = view.seq /\ view'.epoch = view.epoch

\* A step of the window: it asks for a read, or not.
Reading ==
  \/ reply # Asked /\ WindowReads /\ view'.phase = "syncing"
  \/ reply # Asked /\ reply' = NoRead /\ conn'.asked = conn.asked
  \/ /\ reply' = reply /\ conn'.asked = conn.asked
     /\ reply = NoRead \/ (view'.phase = "syncing" /\ view'.board = view.board)

\* What it makes of its board.
Advancing ==
  /\ \A f \in Range(view'.buffer) : f \in Known
  /\ Below(view.board, view'.board) /\ Below(view'.board, rows)
  /\ Timed(Known, view'.epoch, view'.seq, view'.board)

-----------------------------------------------------------------------------
(* What is handed on to the window: states that alternate, frames in order *)

\* A state of the connection, and a frame that comes before another of its epoch.
IsNote(x, state) == x.type = state
Next2(f, g) == f.epoch = g.epoch => f.seq < g.seq
InTurn(s) ==
  \A i, j \in DOMAIN s : i < j /\ IsEvt(s[i]) /\ IsEvt(s[j]) => Next2(s[i], s[j])

\* The states in h alternate, after the state `link` and up to that of the connection.
Between(h, i, j) == \E k \in DOMAIN h : i < k /\ k < j /\ IsNote(h[k], "reconnecting")
Alternate(h, link, up) ==
  /\ \A i, j \in DOMAIN h :
       i < j /\ IsNote(h[i], "connected") /\ IsNote(h[j], "connected") => Between(h, i, j)
  /\ \A j \in DOMAIN h : link = "connected" /\ IsNote(h[j], "connected") => Between(h, 0, j)
  /\ ~ up => \A i \in DOMAIN h : IsNote(h[i], "connected") => Between(h, i, Len(h) + 1)
  /\ ~ up /\ link = "connected" => Between(h, 0, Len(h) + 1)

\* h2 is h with frames after it.
Grown(h, h2) ==
  /\ Len(h) <= Len(h2)
  /\ \A i \in DOMAIN h : h2[i] = h[i]
  /\ \A i \in DOMAIN h2 : i \in DOMAIN h \/ IsEvt(h2[i])

\* The reader's frames, those of T, are of the rows, and are not newer than what it applied.
Told(T, ap) ==
  \A x \in T : /\ x.row \in Rows /\ x.epoch <= ap.epoch
               /\ x.epoch = ap.epoch => x.seq <= ap.seq
\* What the reader w handed on, behind the frames of B: in order, and to a window that is there.
Tells(w, B) ==
  /\ Told(Evts(w.handed) \cup B, w.applied)
  /\ InTurn(w.handed)
  /\ \A f \in B, g \in Evts(w.handed) : Next2(f, g)
  /\ ~ w.heard => w.handed = <<>>
\* A live reader's state is the one it applied last, of the epoch e.
Going(w, e) == w.mode = "live" => w.applied.epoch = e /\ w.applied.seq = w.lastSeq
\* v goes on from w: with frames more, and to no older state of the epoch e.
From(w, v, e) ==
  /\ Grown(w.handed, v.handed) /\ v.heard = w.heard
  /\ w.applied.epoch = e => v.applied.epoch = e /\ w.applied.seq <= v.applied.seq

\* A frame is not applied, or it is, and handed on.
Passes(w, v) ==
  /\ v.handed = w.handed /\ v.applied = w.applied /\ v.board = w.board
  /\ v.mode = "live" => v = w
Applies(w, f, v) ==
  /\ w.mode = "live" /\ f.seq > w.lastSeq /\ f.row \in Rows
  /\ v.mode = "live" /\ v.lastSeq = f.seq
  /\ v.board = [w.board EXCEPT ![f.row] = f.val]
  /\ v.applied.epoch = f.epoch /\ v.applied.seq = f.seq
  /\ w.heard => v.handed = Append(w.handed, f)
  /\ ~ w.heard => v.handed = w.handed

\* What the board b at s lacks of the reader's wb is among the frames of T.
Tracked(e, wb, T, s, b) ==
  \A r \in Rows :
    \/ wb[r] <= b[r]
    \/ \E f \in T : f.row = r /\ f.epoch = e /\ s < f.seq /\ wb[r] <= f.val
\* It is at the snapshot s0, or at a state the reader applied.
Since(ap, e, s, s0) == s = s0 \/ (ap.epoch = e /\ s <= ap.seq)
\* The frames of G up to s0 are in the board.
Holds(G, s0, b) == \A f \in G : f.row \in Rows /\ f.seq <= s0 => f.val <= b[f.row]

\* The reader x goes on from w.
Speaks(w, x, B, e) == x \in Wins /\ Tells(x, B) /\ Going(x, e) /\ From(w, x, e)

-----------------------------------------------------------------------------
(* The inductive invariant, on what the window goes on from *)

\* The reader's last snapshot is newer than the one of this epoch the board at s0 is of.
Excused(s0) == snaps.reader.epoch = epoch /\ s0 < snaps.reader.seq
\* The snapshot at s0 is of this epoch: the board b has what the frames and the pages up to it say.
Based(b, s0) ==
  /\ Holds(Ups, s0, b)
  /\ \A a \in InTransit : PageFor(a) /\ a.seq <= s0 => Below(a.rows, b)
  /\ s0 = seq => Below(rows, b)
  /\ s0 <= seq
Tracks(s, b, s0) == Excused(s0) \/ Tracked(epoch, win.board, Heard, s, b)
Abreast(s, b, s0) ==
  /\ Tracks(s, b, s0)
  /\ Based(b, s0)
  /\ Since(win.applied, epoch, s, s0)
\* What the window goes on from, or will: its board, the page it read, or one on its way.
PageToWindow(a) == a \in InTransit /\ a.says = "page" /\ a.to = "window"
Owes(s, b, s0) ==
  \/ /\ view.phase = "live" /\ view.epoch = epoch
     /\ s = view.seq /\ b = view.board /\ s0 = snaps.window.seq
  \/ /\ reply.is = "page" /\ reply.epoch = epoch
     /\ s = reply.seq /\ b = reply.rows /\ s0 = reply.seq
  \/ \E a \in InTransit : PageToWindow(a) /\ s = a.seq /\ b = a.rows /\ s0 = a.seq
Current ==
  /\ view.epoch <= epoch /\ (reply.is = "page" => reply.epoch <= epoch)
  /\ view.phase = "live" => snaps.window.epoch = view.epoch
  /\ \A s \in Nat, b \in Boards, s0 \in Nat : Owes(s, b, s0) => Abreast(s, b, s0)
\* A window that is not of this epoch will hear of the connection that is.
Renewed == \E x \in Range(win.handed) : IsNote(x, "connected")
Anew ==
  /\ view.phase = "live" /\ view.epoch # epoch /\ conn.up => Renewed
  /\ reply.is = "page" /\ reply.epoch # epoch /\ conn.up => Renewed \/ view.again
\* A window hears from when it opens on, and holds frames during its read only.
Opened ==
  /\ view.phase = "idle" => ~ win.heard /\ view.link = "none"
  /\ ~ win.heard => view.phase = "idle"
  /\ view.phase # "syncing" => Range(view.buffer) = {}
\* What it is to hear.
Speaking == Tells(win, Range(view.buffer)) /\ InTurn(view.buffer)
Alternating == Alternate(win.handed, view.link, conn.up)
\* The reader's next snapshot is no older than what it applied.
LaterPages ==
  \A a \in InTransit : PageFor(a) /\ win.applied.epoch = epoch => win.applied.seq <= a.seq
CatchInv == Opened /\ Speaking /\ Alternating /\ LaterPages /\ Current /\ Anew

-----------------------------------------------------------------------------
(* What the window goes on from, through the steps it takes no part in *)

\* A step of the Host takes a seq, or leaves the board as it is.
Paced == seq' = seq + 1 \/ (seq' = seq /\ rows' = rows)

\* The frames that are to be heard, when nothing is handed on but a state.
SameFrames == Evts(win'.handed) = Evts(win.handed)

\* A state of the connection is handed on, to a window that is there.
Notes(state) ==
  /\ win'.handed = (IF win.heard THEN Append(win.handed, [type |-> state]) ELSE win.handed)
  /\ win'.heard = win.heard /\ win'.applied = win.applied
  /\ view' = view
  /\ (state = "connected" /\ ~ conn.up) \/ state = "reconnecting"
  /\ conn'.up = (state = "connected")

-----------------------------------------------------------------------------
(* What the window goes on from, through its own steps *)

\* A step of the window leaves the reader, and what is on its way to it.
Aside ==
  /\ HostSame /\ InTransit' = InTransit /\ Ups' = Ups /\ conn'.up = conn.up
  /\ win'.board = win.board /\ win'.applied = win.applied /\ snaps'.reader = snaps.reader

\* A live follower takes a frame of its epoch, when it is newer.
TakesOn(v, f, w) ==
  \/ f.seq <= v.seq /\ w.seq = v.seq /\ w.board = v.board
  \/ f.seq > v.seq /\ w.seq = f.seq /\ w.board = [v.board EXCEPT ![f.row] = f.val]

\* The follower x, live with the page p and some of the frames it held during its read.
OnPage(p, K, rw, link, x) ==
  /\ x \in Views /\ x.phase = "live" /\ x.epoch = p.epoch /\ Range(x.buffer) = {} /\ x.link = link
  /\ Below(p.rows, x.board) /\ Below(x.board, rw) /\ Timed(K, p.epoch, x.seq, x.board)

\* It is at the page p, or at one of the frames of B.
AtPage(p, B, s) == s = p.seq \/ \E f \in B : f.epoch = p.epoch /\ s = f.seq

=============================================================================
