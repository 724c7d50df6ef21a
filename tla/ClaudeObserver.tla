--------------------------- MODULE ClaudeObserver ---------------------------
(***************************************************************************)
(* The observer of a Claude session: hooks and status reports arrive by    *)
(* HTTP, in any order and more than once, while the session lives and      *)
(* after it ended.  One session stands for all: they share nothing.        *)
(***************************************************************************)
EXTENDS ProviderObservation

CONSTANTS
  ClaudeInputs,      \* the events that Claude may report
  ProviderSessions   \* the sessions Claude itself knows

VARIABLES
  claude,      \* the observer's entry for the session
  claudeShown  \* the observation in the session's summary

claudeVars == <<claude, claudeShown>>

NoEntry == [bound |-> "no entry"]

ClaudeInit == claude = NoEntry /\ claudeShown = NoEvidence

\* A session is created.
ClaudePrepare ==
  /\ claude = NoEntry
  /\ claude' = [bound |-> "none", observation |-> NoEvidence,
                fingerprints |-> <<>>]
  /\ claudeShown' = NoEvidence

\* The process exits or the session is removed.
ClaudeRelease ==
  /\ claude # NoEntry
  /\ claude' = NoEntry
  /\ UNCHANGED claudeShown

\* unknown_session, invalid_token, invalid_payload
ClaudeUnauthorized ==
  /\ claude = NoEntry
  /\ UNCHANGED claudeVars

\* provider_session_mismatch
ClaudeMismatch(p) ==
  /\ claude # NoEntry /\ claude.bound \notin {"none", p}
  /\ UNCHANGED claudeVars

\* unsupported_event: the session is bound by then.
ClaudeUnsupported(p) ==
  /\ claude # NoEntry /\ claude.bound \in {"none", p}
  /\ claude' = [claude EXCEPT !.bound = p]
  /\ UNCHANGED claudeShown

ClaudeIngest(p, e) ==
  /\ claude # NoEntry /\ claude.bound \in {"none", p}
  /\ IF Known(claude.fingerprints, e)
       THEN /\ claude' = [claude EXCEPT !.bound = p]
            /\ UNCHANGED claudeShown
       ELSE LET o == Observe(claude.observation, e, ClaudeHook[e.method])
            IN /\ claude' = [bound |-> p, observation |-> o,
                             fingerprints |-> Remember(claude.fingerprints, e)]
               /\ claudeShown' = o

ClaudeNext ==
  \/ ClaudePrepare \/ ClaudeRelease \/ ClaudeUnauthorized
  \/ \E p \in ProviderSessions :
       \/ ClaudeMismatch(p) \/ ClaudeUnsupported(p)
       \/ \E e \in ClaudeInputs : ClaudeIngest(p, e)

-----------------------------------------------------------------------------
\* The observer's own schema never rejects what it made of the hooks: an
\* activity that is still listed is still recognised, so that none is listed
\* twice.
ClaudeNeverThrows ==
  claude # NoEntry =>
    ValidObservation(claude.observation) /\ claudeShown = claude.observation
=============================================================================
