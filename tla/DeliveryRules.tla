---------------------------- MODULE DeliveryRules ----------------------------
(***************************************************************************)
(* Machine 7, the delivery of a person's message                           *)
(* (conversation/domain/delivery.ts), as a table of pure rules.  Instants, *)
(* the channel's confidence and the text of a reason are left out; the     *)
(* answers-records' half of the machine is AskBroker's.                    *)
(***************************************************************************)
EXTENDS Naturals

Phases == {"sending", "delivered", "reacted", "failed"}

Failures == {"channel-error", "session-closed", "host-interrupted"}

\* The failures the person may retry.
Retryable(failure) == failure \in {"channel-error", "host-interrupted"}

\* A fact is a record whose "t" names it, with what the guard of its row reads.
Held == [t |-> "held"]
Accepted == [t |-> "accepted"]
Correlated(evidence) == [t |-> "activity-correlated", evidence |-> evidence]
ChannelError == [t |-> "channel-error"]
SessionClosed == [t |-> "session-closed"]
Retry(canReceive) == [t |-> "retry", canReceive |-> canReceive]

Delivery(phase, failure, attempts, held) ==
  [phase |-> phase, failure |-> failure, attempts |-> attempts, held |-> held]

Started == Delivery("sending", "none", 1, FALSE)

\* moved(): the delivery in another phase, with no hold and no failure of its own.
To(d, phase) == Delivery(phase, "none", d.attempts, FALSE)

FailedBy(d, failure) == Delivery("failed", failure, d.attempts, FALSE)

Refused == [phase |-> "refused"]

FromSending(d, fact) ==
  CASE fact.t = "held" -> [d EXCEPT !.held = TRUE]                      \* S7.03
    [] fact.t = "accepted" -> To(d, "delivered")                        \* S7.04
    [] fact.t = "channel-error" -> FailedBy(d, "channel-error")         \* S7.06
    [] fact.t = "session-closed" -> FailedBy(d, "session-closed")       \* S7.07
    [] OTHER -> Refused

FromDelivered(d, fact) ==
  IF fact.t = "activity-correlated" /\ d.phase = "delivered" /\ fact.evidence # "none"
  THEN To(d, "reacted")                                                 \* S7.05
  ELSE Refused

FromFailed(d, fact) ==
  IF fact.t = "retry" /\ Retryable(d.failure) /\ fact.canReceive
  THEN Delivery("sending", "none", d.attempts + 1, FALSE)               \* S7.09
  ELSE Refused

\* advance(): one transition of the machine, or Refused.
Advance(d, fact) ==
  CASE d.phase = "sending" -> FromSending(d, fact)
    [] d.phase \in {"delivered", "reacted"} -> FromDelivered(d, fact)
    [] d.phase = "failed" -> FromFailed(d, fact)
    [] OTHER -> Refused

\* reconcileDelivery(): what the boot makes of a row the last Host left sending.
Reconciled(d, found, actedAfter) ==
  CASE ~found -> FailedBy(d, "host-interrupted")                        \* S7.16
    [] found /\ ~actedAfter -> To(d, "delivered")                       \* S7.14
    [] OTHER -> To(d, "reacted")                                        \* S7.15
=============================================================================
