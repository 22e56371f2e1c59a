----------------------------- MODULE MCAskBroker -----------------------------
(***************************************************************************)
(* AskBroker on small instances.  The reports: a permission prompt of an   *)
(* observed Claude session with hooks (keystroke channel), a question of a *)
(* launched session (driver channel), and reports no card can answer.      *)
(***************************************************************************)
EXTENDS AskBroker, TLC

Prompt == [kind |-> "permission", channel |-> "hook-keystroke", allowOnce |-> TRUE]
Question == [kind |-> "question", channel |-> "driver", allowOnce |-> FALSE]

Hooked == [origin |-> "observed", permission |-> "interactive", question |-> "none",
           observedPermission |-> "detected", observedQuestion |-> "detected"]
Launched == [origin |-> "launched", permission |-> "interactive", question |-> "form",
             observedPermission |-> "none", observedQuestion |-> "none"]

QuestionOnly == {Question}
BothReports == {Prompt, Question}
LaunchedOnly == {Launched}
BothSessions == {Hooked, Launched}

Symmetry == Permutations(ProviderReqs) \cup Permutations(Requests)
=============================================================================
