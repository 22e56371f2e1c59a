----------------------------- MODULE AskEmission -----------------------------
(***************************************************************************)
(* What the ask broker makes of a request a session reports: the emission  *)
(* table of asking/domain/emission.ts.  The session is only its            *)
(* capabilities, as data; no provider name decides anything.               *)
(***************************************************************************)

Kinds == {"question", "permission"}

Channels == {"driver", "hook-keystroke", "hook-decision", "http", "none"}

\* A reported request.  allowOnce: the permission offers the allow_once option
\* (hasAllowOnce); it is meaningless, and FALSE, for a question.
AskInputs ==
  {i \in [kind: Kinds, channel: Channels, allowOnce: BOOLEAN] :
     i.kind = "question" => ~i.allowOnce}

\* Who started the session, and its effective capabilities.
AskSessions ==
  [origin: {"launched", "observed"},
   permission: {"interactive", "policy-only", "none"},
   question: {"form", "options", "none"},
   observedPermission: {"detected", "none"},
   observedQuestion: {"detected", "none"}]

EmissionKinds == {"card", "auto-denied", "channel-none", "not-an-ask"}

\* A trusted signal reveals that an observed session waits for this kind.
Detects(session, kind) ==
  (IF kind = "permission" THEN session.observedPermission
                          ELSE session.observedQuestion) = "detected"

\* The app can answer the request from a card, Allow meaning only this once.
Answerable(input, session) ==
  /\ input.channel # "none"
  /\ session.permission = "interactive"
  /\ IF input.kind = "permission" THEN input.allowOnce
                                  ELSE session.question # "none"

ResolveEmission(input, session) ==
  IF session.origin = "observed" /\ ~Detects(session, input.kind) THEN "not-an-ask"
  ELSE IF Answerable(input, session) THEN "card"
  ELSE IF session.origin = "observed" THEN "channel-none"
  ELSE "auto-denied"
=============================================================================
