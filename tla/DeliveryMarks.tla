---------------------------- MODULE DeliveryMarks ----------------------------
(***************************************************************************)
(* What the person is promised about the mark of each message they send,   *)
(* whatever the Host, the driver and the provider do: "..." comes first, a *)
(* check mark is never taken back, a failure stays unless the person       *)
(* retries one that may be retried, and each retry is one attempt more.    *)
(*                                                                         *)
(* This is the abstract specification; MessageDelivery implements it.      *)
(***************************************************************************)
EXTENDS Naturals, DeliveryRules

CONSTANT Msgs

VARIABLE mark       \* Msgs -> [phase, failure, attempts]

Unsent == [phase |-> "absent", failure |-> "none", attempts |-> 0]

Mark(phase, failure, attempts) ==
  [phase |-> phase, failure |-> failure, attempts |-> attempts]

\* A row goes with a Reset or the cap of 50, and never while it is sending.
Purged(m) == /\ mark[m].phase \in {"delivered", "reacted", "failed"}
             /\ mark'[m].phase = "deleted"

Sent(m) == mark[m] = Unsent /\ mark'[m] = Mark("sending", "none", 1)

Settled(m) ==
  /\ mark[m].phase = "sending"
  /\ \/ \E p \in {"delivered", "reacted"} : mark'[m] = Mark(p, "none", mark[m].attempts)
     \/ \E f \in Failures : mark'[m] = Mark("failed", f, mark[m].attempts)

Acted(m) == /\ mark[m].phase = "delivered"
            /\ mark'[m] = Mark("reacted", "none", mark[m].attempts)

Resent(m) == /\ mark[m].phase = "failed" /\ Retryable(mark[m].failure)
             /\ mark'[m] = Mark("sending", "none", mark[m].attempts + 1)

-----------------------------------------------------------------------------
MInit == mark = [m \in Msgs |-> Unsent]

\* One turn end may move several messages.
MNext == \A m \in Msgs : \/ mark'[m] = mark[m]
                         \/ Sent(m) \/ Settled(m) \/ Acted(m) \/ Resent(m) \/ Purged(m)

MSpec == MInit /\ [][MNext]_mark
=============================================================================
