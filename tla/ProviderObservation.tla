------------------------ MODULE ProviderObservation ------------------------
(***************************************************************************)
(* What Pacium knows of the agent in a session: the observation contract,  *)
(* and how Claude's hooks and the events of Codex's App Server become      *)
(* observations.                                                           *)
(*                                                                         *)
(* An event is abstracted to its name, to the turn, item or request it is  *)
(* about and to its status.  Everything else (wording, usage figures,      *)
(* times and freshness) is left out.                                       *)
(***************************************************************************)
EXTENDS Naturals, Sequences, FiniteSets

CONSTANTS
  Subjects,         \* turns, items and requests
  ActivityLimit,    \* MAX_PROVIDER_ACTIVITIES
  FingerprintLimit  \* CLAUDE_ and CODEX_OBSERVER_FINGERPRINT_LIMIT

Capabilities ==
  {"attention", "activity", "tools", "approvals", "questions", "plan",
   "usage", "completion"}
Attentions ==
  {"none", "working", "waiting", "needs_input", "finished", "failed"}
Healths == {"unavailable", "ready", "degraded", "failed", "unsupported"}

NoEvidence ==
  [health |-> "unavailable", attention |-> "none", supported |-> {},
   activities |-> <<>>]

Unique(s) == \A i, j \in DOMAIN s : s[i] = s[j] => i = j

\* The schema that every observation is parsed with, or the observer throws.
\* An observation that carries evidence has a source.
ValidObservation(o) ==
  /\ o.health \in Healths /\ o.attention \in Attentions
  /\ o.supported \subseteq Capabilities
  /\ Len(o.activities) <= ActivityLimit
  /\ Unique(o.activities)
  /\ o.health = "unavailable" =>
       o.supported = {} /\ o.attention = "none" /\ o.activities = <<>>

Prepend(x, s, limit) ==
  SubSeq(<<x>> \o s, 1, IF Len(s) < limit THEN Len(s) + 1 ELSE limit)

-----------------------------------------------------------------------------
(* An event shows an activity or none, an attention or the one it was, and *)
(* that the provider has some capabilities.                                *)

Shows(kind, attention, gains) ==
  [kind |-> kind, attention |-> attention, gains |-> gains]

ClaudeHook == [
  SessionStart |-> Shows("session_started", "waiting", {}),
  UserPromptSubmit |-> Shows("prompt_submitted", "working", {}),
  PreToolUse |-> Shows("tool_started", "working", {"tools"}),
  PermissionRequest |-> Shows("approval_requested", "needs_input",
                              {"approvals"}),
  PostToolUse |-> Shows("tool_completed", "working", {"tools"}),
  PostToolUseFailure |-> Shows("failed", "working", {"tools"}),
  Stop |-> Shows("turn_completed", "waiting", {"completion"}),
  StopFailure |-> Shows("failed", "failed", {"completion"}),
  SessionEnd |-> Shows("session_completed", "finished", {"completion"}),
  permission_prompt |-> Shows("approval_requested", "needs_input",
                              {"approvals"}),
  idle_prompt |-> Shows("question_requested", "needs_input", {"questions"}),
  status |-> Shows("usage_updated", "as it was", {"usage"})]

TurnStatuses ==
  [completed |-> "waiting", interrupted |-> "waiting", failed |-> "failed",
   inProgress |-> "working"]
ThreadStatuses ==
  [idle |-> "waiting", notLoaded |-> "waiting", systemError |-> "failed",
   active |-> "working", waitingOnApproval |-> "needs_input",
   waitingOnUserInput |-> "needs_input"]
ToolStatuses ==
  [inProgress |-> "tool_started", completed |-> "tool_completed",
   failed |-> "failed", declined |-> "failed"]

CodexEvent(e) ==
  CASE e.method = "thread/started" -> Shows("session_started", "waiting", {})
    [] e.method = "thread/status/changed" ->
         Shows("none", ThreadStatuses[e.status], {})
    [] e.method = "turn/started" -> Shows("turn_started", "working", {})
    [] e.method = "turn/completed" ->
         Shows(IF e.status = "failed" THEN "failed" ELSE "turn_completed",
               TurnStatuses[e.status], {"completion"})
    [] e.method = "tool" -> Shows(ToolStatuses[e.status], "working", {"tools"})
    [] e.method = "message" -> Shows("message", "working", {})
    [] e.method = "reasoning" -> Shows("none", "as it was", {})
    [] e.method = "plan" -> Shows("plan_updated", "as it was", {"plan"})
    [] e.method = "usage" -> Shows("usage_updated", "as it was", {"usage"})
    [] e.method = "error" ->
         Shows("failed",
               IF e.status = "retrying" THEN "working" ELSE "failed", {})
    [] e.method = "requestApproval" ->
         Shows("approval_requested", "needs_input", {"approvals"})
    [] e.method = "requestUserInput" ->
         Shows("question_requested", "needs_input", {"questions"})

Event(method, subject, status) ==
  [method |-> method, subject |-> subject, status |-> status]

ClaudeEvents ==
  {Event(m, s, "none") : m \in DOMAIN ClaudeHook, s \in Subjects}

\* The thread is the one subject of its status: two reports of one status
\* are the same event.
CodexEvents ==
  {Event("thread/started", "none", "none")}
  \cup {Event("thread/status/changed", "none", s) : s \in DOMAIN ThreadStatuses}
  \cup {Event("turn/completed", t, s) :
          t \in Subjects, s \in DOMAIN TurnStatuses}
  \cup {Event("tool", t, s) : t \in Subjects, s \in DOMAIN ToolStatuses}
  \cup {Event("error", t, s) : t \in Subjects, s \in {"retrying", "terminal"}}
  \cup {Event(m, t, "none") :
          m \in {"turn/started", "message", "reasoning", "plan", "usage",
                 "requestApproval", "requestUserInput"}, t \in Subjects}

-----------------------------------------------------------------------------
(* The evidence of an event becomes part of the observation.               *)

Observe(o, e, shows) ==
  [health |-> "ready",
   attention |-> IF shows.attention = "as it was" THEN o.attention
                 ELSE shows.attention,
   supported |-> o.supported \cup shows.gains
     \cup (IF shows.kind = "none" THEN {} ELSE {"activity"})
     \cup (IF shows.attention = "as it was" THEN {} ELSE {"attention"}),
   activities |-> IF shows.kind = "none" THEN o.activities
                  ELSE Prepend(e, o.activities, ActivityLimit)]

Degraded(o, health) == [o EXCEPT !.health = health]

-----------------------------------------------------------------------------
(* The events seen lately are recognised by their fingerprints.            *)

Known(fingerprints, e) == \E i \in DOMAIN fingerprints : fingerprints[i] = e

\* Faulty variant: as many fingerprints as half of the activities.
RememberFew(fingerprints, e) ==
  Prepend(e, fingerprints, ActivityLimit \div 2)

Remember(fingerprints, e) == Prepend(e, fingerprints, FingerprintLimit)
=============================================================================
