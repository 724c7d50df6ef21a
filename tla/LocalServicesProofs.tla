------------------------ MODULE LocalServicesProofs ------------------------
(***************************************************************************)
(* The properties of the services of the local server, proved for all      *)
(* sessions, subjects, bridges and views and all limits and bounds.        *)
(*                                                                         *)
(* Claude: an activity stays at the place of its fingerprint for as long   *)
(* as it is listed (ListedIsKnown), as the limit of the fingerprints is    *)
(* the larger one; so an event that is not recognised is not listed.       *)
(*                                                                         *)
(* Codex: the map names a bridge exactly as long as it is open             *)
(* (ActiveIsOpen), and an open bridge holds the claim (OpenIsClaimed), so  *)
(* that no upgrade starts beside it.                                       *)
(*                                                                         *)
(* Browser: what is observed for a request is not older than what its view *)
(* shows, if the view still waits for this request (Fits): the version is  *)
(* read after the request was made, and whatever the view shows since then *)
(* ended its wait.  Verification is also told of by pushes, which carry no *)
(* request: they are in one order with its answers (VerificationInOrder),  *)
(* as none of its answers is read before it is sent.                       *)
(***************************************************************************)
EXTENDS LocalServices, PaciumConfigProofs, SequenceTheorems, TLAPS

-----------------------------------------------------------------------------
(* The configuration.                                                      *)

\* Beside the other services the store does what it does alone.
LEMMA ConfigBehaves == ServicesSpec => Spec
<1>1. ServicesInit => Init
  BY DEF ServicesInit
<1>2. [ServicesNext]_allVars => [Next]_vars
  BY DEF ServicesNext, ConfigMoves, ClaudeMoves, CodexMoves, BrowserMoves,
         QueueMoves, allVars, configVars
<1> QED BY <1>1, <1>2, PTL DEF ServicesSpec, Spec

\* In the server too the configuration is a register with compare and swap:
\* no replacement overwrites one it did not know of, and none that was
\* accepted is lost.
THEOREM RegisterInServices == ServicesSpec => ImplementsRegister
BY ConfigBehaves, Implementation, PTL

-----------------------------------------------------------------------------
(* The observer of Claude.                                                 *)

\* A list of events.
Listed(s) == s \in Seq(Provider!ClaudeEvents)

\* What is listed is among the events that are recognised, at its place: no
\* listed activity is forgotten before it leaves the list.
ListedIsKnown(o, fingerprints) ==
  /\ Len(o.activities) <= Len(fingerprints)
  /\ \A i \in 1 .. Len(o.activities) : o.activities[i] = fingerprints[i]

\* The observer's entry: what it observed is valid, and what is shown.
ClaudeEntry(c) ==
  /\ c = [bound |-> c.bound, observation |-> c.observation,
          fingerprints |-> c.fingerprints]
  /\ Listed(c.observation.activities) /\ Listed(c.fingerprints)
  /\ Len(c.fingerprints) <= FingerprintLimit
  /\ Claude!ValidObservation(c.observation)
  /\ ListedIsKnown(c.observation, c.fingerprints)

ClaudeInv ==
  claude # Claude!NoEntry =>
    ClaudeEntry(claude) /\ claudeShown = claude.observation

\* An event in front of the others, the last of which gives way.
Prepended(t, x, s, limit) ==
  /\ t \in Seq(Provider!ClaudeEvents)
  /\ Len(t) = IF Len(s) < limit THEN Len(s) + 1 ELSE limit
  /\ \A i \in 1 .. Len(t) : t[i] = IF i = 1 THEN x ELSE s[i - 1]

\* That is what Prepend makes of a list that is not too long.
LEMMA PrependIs ==
  ASSUME NEW x \in Provider!ClaudeEvents, NEW s \in Seq(Provider!ClaudeEvents),
         NEW limit \in Nat, Len(s) <= limit
  PROVE  Prepended(Claude!Prepend(x, s, limit), x, s, limit)
<1> DEFINE n == IF Len(s) < limit THEN Len(s) + 1 ELSE limit
           u == <<x>> \o s
<1>1. u \in Seq(Provider!ClaudeEvents) /\ Len(u) = Len(s) + 1
  OBVIOUS
<1>2. n \in 0 .. Len(u)
  BY <1>1
<1>3. \A i \in 1 .. Len(u) : u[i] = IF i = 1 THEN x ELSE s[i - 1]
  OBVIOUS
<1>4. Claude!Prepend(x, s, limit) = SubSeq(u, 1, n)
  BY DEF Claude!Prepend
<1> HIDE DEF n, u
<1>5. SubSeq(u, 1, n) \in Seq(Provider!ClaudeEvents) /\ Len(SubSeq(u, 1, n)) = n
  BY <1>1, <1>2
<1>6. \A i \in 1 .. n : SubSeq(u, 1, n)[i] = u[i]
  BY <1>1, <1>2
<1>7. \A i \in 1 .. n : i \in 1 .. Len(u)
  BY <1>1, <1>2
<1> QED BY <1>3, <1>4, <1>5, <1>6, <1>7 DEF n, Prepended

\* A hook shows an activity, and what the schema allows.
HookFits(hook) ==
  /\ hook.kind # "none"
  /\ hook.attention \in Claude!Attentions \cup {"as it was"}
  /\ hook.gains \subseteq Claude!Capabilities

\* Every hook does.
LEMMA HookShows ==
  ASSUME NEW e \in Provider!ClaudeEvents
  PROVE  HookFits(Claude!ClaudeHook[e.method])
<1>1. PICK m \in DOMAIN Provider!ClaudeHook, s \in Subjects :
        e = Provider!Event(m, s, "none")
  BY DEF Provider!ClaudeEvents
<1>2. e.method = m
  BY <1>1 DEF Provider!Event
<1>3. m \in {"SessionStart", "UserPromptSubmit", "PreToolUse",
             "PermissionRequest", "PostToolUse", "PostToolUseFailure", "Stop",
             "StopFailure", "SessionEnd", "permission_prompt", "idle_prompt",
             "status"}
  BY DEF Provider!ClaudeHook
<1>4. /\ HookFits(Claude!ClaudeHook["SessionStart"])
      /\ HookFits(Claude!ClaudeHook["UserPromptSubmit"])
      /\ HookFits(Claude!ClaudeHook["PreToolUse"])
      /\ HookFits(Claude!ClaudeHook["PermissionRequest"])
      /\ HookFits(Claude!ClaudeHook["PostToolUse"])
      /\ HookFits(Claude!ClaudeHook["PostToolUseFailure"])
      /\ HookFits(Claude!ClaudeHook["Stop"])
      /\ HookFits(Claude!ClaudeHook["StopFailure"])
      /\ HookFits(Claude!ClaudeHook["SessionEnd"])
      /\ HookFits(Claude!ClaudeHook["permission_prompt"])
      /\ HookFits(Claude!ClaudeHook["idle_prompt"])
      /\ HookFits(Claude!ClaudeHook["status"])
  BY DEF Claude!ClaudeHook, Claude!Shows, Claude!Attentions,
         Claude!Capabilities, HookFits
<1> QED BY <1>2, <1>3, <1>4

\* A new event leaves a list of activities that the schema accepts.
LEMMA ObserveIsValid ==
  ASSUME NEW e \in Provider!ClaudeEvents, NEW o, NEW fingerprints,
         Listed(o.activities), Listed(fingerprints),
         Len(fingerprints) <= FingerprintLimit,
         Claude!ValidObservation(o), ListedIsKnown(o, fingerprints),
         ~Claude!Known(fingerprints, e)
  PROVE  LET p == Claude!Observe(o, e, Claude!ClaudeHook[e.method])
             f == Claude!Remember(fingerprints, e)
         IN /\ Listed(p.activities) /\ Listed(f)
            /\ Len(f) <= FingerprintLimit
            /\ Claude!ValidObservation(p) /\ ListedIsKnown(p, f)
<1> DEFINE p == Claude!Observe(o, e, Claude!ClaudeHook[e.method])
           f == Claude!Remember(fingerprints, e)
           hook == Claude!ClaudeHook[e.method]
<1>1. /\ p.health = "ready"
      /\ p.attention = IF hook.attention = "as it was" THEN o.attention
                       ELSE hook.attention
      /\ p.supported = o.supported \cup hook.gains
           \cup (IF hook.kind = "none" THEN {} ELSE {"activity"})
           \cup (IF hook.attention = "as it was" THEN {} ELSE {"attention"})
      /\ p.activities = Claude!Prepend(e, o.activities, ActivityLimit)
  BY HookShows DEF Claude!Observe, HookFits
<1>2. f = Claude!Prepend(e, fingerprints, FingerprintLimit)
  BY DEF Claude!Remember
<1>3. p.attention \in Claude!Attentions
  BY <1>1, HookShows DEF Claude!ValidObservation, HookFits
<1>4. p.supported \subseteq Claude!Capabilities
  BY <1>1, HookShows DEF Claude!ValidObservation, Claude!Capabilities, HookFits
<1> HIDE DEF p, f, hook
<1>5. /\ o.activities \in Seq(Provider!ClaudeEvents)
      /\ Len(o.activities) <= ActivityLimit
  BY DEF Claude!ValidObservation, Listed
<1>6. PICK s \in Seq(Provider!ClaudeEvents) : s = o.activities
  BY <1>5
<1>7. fingerprints \in Seq(Provider!ClaudeEvents)
  BY DEF Listed
<1>8. PICK a, b \in Nat : a = Len(s) /\ b = Len(fingerprints)
  BY <1>6, <1>7
<1>9. a <= b /\ a <= ActivityLimit /\ b <= FingerprintLimit
  BY <1>5, <1>6, <1>8 DEF ListedIsKnown
<1>10. p.activities = Claude!Prepend(e, s, ActivityLimit)
  BY <1>1, <1>6
<1>11. Prepended(p.activities, e, s, ActivityLimit)
  BY <1>8, <1>9, <1>10, PrependIs, ServicesAssumption
<1>12. Prepended(f, e, fingerprints, FingerprintLimit)
  BY <1>2, <1>7, <1>8, <1>9, PrependIs, ServicesAssumption
<1>13. /\ p.activities \in Seq(Provider!ClaudeEvents)
       /\ Len(p.activities) = IF a < ActivityLimit THEN a + 1
                              ELSE ActivityLimit
       /\ \A i \in 1 .. Len(p.activities) :
            p.activities[i] = IF i = 1 THEN e ELSE s[i - 1]
  BY <1>8, <1>11 DEF Prepended
<1>14. /\ f \in Seq(Provider!ClaudeEvents)
       /\ Len(f) = IF b < FingerprintLimit THEN b + 1 ELSE FingerprintLimit
       /\ \A i \in 1 .. Len(f) : f[i] = IF i = 1 THEN e ELSE fingerprints[i - 1]
  BY <1>8, <1>12 DEF Prepended
<1>15. Len(p.activities) <= Len(f) /\ Len(p.activities) <= a + 1
  BY <1>8, <1>9, <1>13, <1>14, ServicesAssumption
<1>16. PICK m \in Nat : m = Len(p.activities)
  BY <1>13
<1>17. \A i \in 1 .. a : s[i] = fingerprints[i] /\ s[i] # e
  <2>1. \A i \in 1 .. a : s[i] = fingerprints[i]
    BY <1>6, <1>8 DEF ListedIsKnown
  <2>2. \A i \in 1 .. b : fingerprints[i] # e
    BY <1>7, <1>8 DEF Claude!Known
  <2> QED BY <1>8, <1>9, <2>1, <2>2
<1>18. ListedIsKnown(p, f)
  <2>1. ASSUME NEW i \in 1 .. m PROVE p.activities[i] = f[i]
    <3>1. i \in 1 .. Len(f) /\ i \in 1 .. Len(p.activities)
      BY <1>14, <1>15, <1>16
    <3>2. i # 1 => i - 1 \in 1 .. a
      BY <1>15, <1>16, <1>8
    <3>3. f[i] = IF i = 1 THEN e ELSE fingerprints[i - 1]
      BY <3>1, <1>14
    <3>4. p.activities[i] = IF i = 1 THEN e ELSE s[i - 1]
      BY <3>1, <1>13
    <3> QED BY <3>2, <3>3, <3>4, <1>17
  <2> QED BY <2>1, <1>15, <1>16 DEF ListedIsKnown
<1>19. Claude!Unique(p.activities)
  <2>1. \A i, j \in 1 .. a : s[i] = s[j] => i = j
    BY <1>5, <1>6, <1>8 DEF Claude!ValidObservation, Claude!Unique
  <2>2. ASSUME NEW i \in 1 .. m, NEW j \in 1 .. m,
               p.activities[i] = p.activities[j]
        PROVE  i = j
    <3>1. /\ i # 1 => i - 1 \in 1 .. a
          /\ j # 1 => j - 1 \in 1 .. a
      BY <1>15, <1>16, <1>8
    <3>2. /\ p.activities[i] = IF i = 1 THEN e ELSE s[i - 1]
          /\ p.activities[j] = IF j = 1 THEN e ELSE s[j - 1]
      BY <1>13, <1>16
    <3>3. CASE i = 1 \/ j = 1
      BY <2>2, <3>1, <3>2, <3>3, <1>17
    <3>4. CASE i # 1 /\ j # 1
      <4>1. s[i - 1] = s[j - 1] /\ i - 1 \in 1 .. a /\ j - 1 \in 1 .. a
        BY <2>2, <3>1, <3>2, <3>4
      <4>2. i - 1 = j - 1
        BY <4>1, <2>1
      <4> QED BY <4>2
    <3> QED BY <3>3, <3>4
  <2>3. DOMAIN p.activities = 1 .. m
    BY <1>13, <1>16
  <2> QED BY <2>2, <2>3 DEF Claude!Unique
<1>20. Claude!ValidObservation(p)
  <2>1. p.health \in Claude!Healths /\ p.health # "unavailable"
    BY <1>1 DEF Claude!Healths
  <2>2. Len(p.activities) <= ActivityLimit
    BY <1>8, <1>13, ServicesAssumption
  <2> QED BY <1>3, <1>4, <1>19, <2>1, <2>2 DEF Claude!ValidObservation
<1>21. Len(f) <= FingerprintLimit
  BY <1>8, <1>14, ServicesAssumption
<1> QED BY <1>13, <1>14, <1>18, <1>20, <1>21 DEF Listed, p, f

\* A session starts without evidence.
LEMMA NoEvidenceIsValid ==
  /\ Claude!ValidObservation(Claude!NoEvidence)
  /\ Listed(Claude!NoEvidence.activities)
  /\ Claude!NoEvidence.activities = <<>>
BY ServicesAssumption
   DEF Claude!ValidObservation, Claude!NoEvidence, Claude!Healths,
       Claude!Attentions, Claude!Unique, Listed

\* The invariant holds before a session is created, ...
LEMMA ClaudeStarts == Claude!ClaudeInit => ClaudeInv
BY DEF Claude!ClaudeInit, ClaudeInv

\* ... every hook keeps it, ...
LEMMA ClaudeStep ==
  ASSUME ClaudeInv, Claude!ClaudeNext PROVE ClaudeInv'
<1>1. CASE Claude!ClaudePrepare
  <2>1. /\ claude' = [bound |-> "none", observation |-> Claude!NoEvidence,
                      fingerprints |-> <<>>]
        /\ claudeShown' = Claude!NoEvidence
    BY <1>1 DEF Claude!ClaudePrepare
  <2>2. Listed(<<>>) /\ Len(<<>>) <= FingerprintLimit
    BY ServicesAssumption DEF Listed
  <2>3. ListedIsKnown(Claude!NoEvidence, <<>>)
    BY NoEvidenceIsValid DEF ListedIsKnown
  <2>4. ClaudeEntry(claude')
    BY <2>1, <2>2, <2>3, NoEvidenceIsValid DEF ClaudeEntry
  <2> QED BY <2>1, <2>4 DEF ClaudeInv
<1>2. CASE Claude!ClaudeRelease
  BY <1>2 DEF Claude!ClaudeRelease, ClaudeInv
<1>3. CASE UNCHANGED <<claude, claudeShown>>
  BY <1>3 DEF ClaudeInv, ClaudeEntry
<1>4. ASSUME NEW p, claude # Claude!NoEntry,
             claude' = [claude EXCEPT !.bound = p], UNCHANGED claudeShown
      PROVE  ClaudeInv'
  BY <1>4 DEF ClaudeInv, ClaudeEntry
<1>5. ASSUME NEW p \in ProviderSessions, NEW e \in Provider!ClaudeEvents,
             Claude!ClaudeIngest(p, e)
      PROVE  ClaudeInv'
  <2>1. claude # Claude!NoEntry
    BY <1>5 DEF Claude!ClaudeIngest
  <2>2. CASE Claude!Known(claude.fingerprints, e)
    BY <1>4, <1>5, <2>1, <2>2 DEF Claude!ClaudeIngest
  <2>3. CASE ~Claude!Known(claude.fingerprints, e)
    <3> DEFINE o == Claude!Observe(claude.observation, e,
                                   Claude!ClaudeHook[e.method])
               f == Claude!Remember(claude.fingerprints, e)
    <3>1. /\ claude' = [bound |-> p, observation |-> o, fingerprints |-> f]
          /\ claudeShown' = o
      BY <1>5, <2>3 DEF Claude!ClaudeIngest
    <3>2. ClaudeEntry(claude)
      BY <2>1 DEF ClaudeInv
    <3>3. /\ Listed(o.activities) /\ Listed(f) /\ Len(f) <= FingerprintLimit
          /\ Claude!ValidObservation(o) /\ ListedIsKnown(o, f)
      BY <2>3, <3>2, ObserveIsValid DEF ClaudeEntry
    <3> HIDE DEF o, f
    <3>4. ClaudeEntry(claude')
      BY <3>1, <3>3 DEF ClaudeEntry
    <3> QED BY <3>1, <3>4 DEF ClaudeInv
  <2> QED BY <2>2, <2>3
<1> QED BY <1>1, <1>2, <1>3, <1>4, <1>5
           DEF Claude!ClaudeNext, Claude!ClaudeUnauthorized,
               Claude!ClaudeMismatch, Claude!ClaudeUnsupported,
               Claude!claudeVars

\* ... and the other services leave it alone.
LEMMA ClaudeUnchanged ==
  ASSUME ClaudeInv, UNCHANGED claudeVars PROVE ClaudeInv'
BY DEF claudeVars, ClaudeInv, ClaudeEntry

\* So it holds in every state.
LEMMA ClaudeInvariance == ServicesSpec => []ClaudeInv
<1>1. ServicesInit => ClaudeInv
  BY ClaudeStarts DEF ServicesInit
<1>2. ClaudeInv /\ [ServicesNext]_allVars => ClaudeInv'
  BY ClaudeStep, ClaudeUnchanged
     DEF ServicesNext, ConfigMoves, ClaudeMoves, CodexMoves, BrowserMoves,
         QueueMoves, allVars
<1> QED BY <1>1, <1>2, PTL DEF ServicesSpec

\* The observer of Claude never rejects what it made of the hooks, whatever
\* their order and however often they come.
THEOREM ClaudeIsValid == ServicesSpec => []ClaudeNeverThrows
<1>1. ClaudeInv => ClaudeNeverThrows
  BY DEF ClaudeInv, ClaudeEntry, ClaudeNeverThrows, Claude!ClaudeNeverThrows
<1> QED BY <1>1, ClaudeInvariance, PTL

-----------------------------------------------------------------------------
(* The bridge of Codex.                                                    *)

\* The observer's entry is a record of three fields.
CodexEntry(c) ==
  c = [claimed |-> c.claimed, observation |-> c.observation,
       fingerprints |-> c.fingerprints]

\* Type correctness.
BridgeTypes ==
  /\ codex # Codex!NoCodex => CodexEntry(codex)
  /\ bridge \in
       [Bridges -> [stage : {"unused", "open", "refused", "finished"},
                    child : {"none", "running", "exited"}, timer : BOOLEAN]]

\* The map knows the open bridge, and only it, ...
ActiveIsOpen == \A b \in Bridges : active = b <=> bridge[b].stage = "open"

\* ... which holds the claim of the session.
OpenIsClaimed ==
  \A b \in Bridges :
    bridge[b].stage = "open" => codex # Codex!NoCodex /\ codex.claimed

\* The inductive invariant.
RuntimeInv == BridgeTypes /\ ActiveIsOpen /\ OpenIsClaimed

\* It holds when nothing was upgraded.
LEMMA RuntimeStarts == Codex!CodexInit => RuntimeInv
BY ServicesAssumption
   DEF Codex!CodexInit, Codex!NoBridge, RuntimeInv, BridgeTypes, ActiveIsOpen,
       OpenIsClaimed

\* An entry is not the absence of one.
LEMMA EntryIsSome ==
  ASSUME NEW c, CodexEntry(c) PROVE c # Codex!NoCodex
<1>1. "observation" \in DOMAIN c
  BY DEF CodexEntry
<1>2. "observation" \notin DOMAIN Codex!NoCodex
  BY DEF Codex!NoCodex
<1> QED BY <1>1, <1>2

\* An entry keeps its claim whatever health it is given.
LEMMA MarkedKeeps ==
  ASSUME BridgeTypes, NEW health
  PROVE  /\ Codex!Marked(codex, health) # Codex!NoCodex
              <=> codex # Codex!NoCodex
         /\ codex # Codex!NoCodex =>
              /\ CodexEntry(Codex!Marked(codex, health))
              /\ Codex!Marked(codex, health).claimed = codex.claimed
BY DEF BridgeTypes, CodexEntry, Codex!Marked, Codex!NoCodex

\* A bridge that ends, ends its claim.
LEMMA EndsKeeps ==
  ASSUME RuntimeInv, NEW b \in Bridges, NEW entry,
         entry # Codex!NoCodex => CodexEntry(entry),
         entry # Codex!NoCodex <=> codex # Codex!NoCodex,
         codex # Codex!NoCodex => entry.claimed = codex.claimed,
         bridge[b].stage = "open",
         active' = "none",
         codex' = Codex!Unclaimed(entry),
         NEW state \in [stage : {"finished"},
                        child : {"none", "running", "exited"},
                        timer : BOOLEAN],
         bridge' = [bridge EXCEPT ![b] = state]
  PROVE  RuntimeInv'
<1>1. codex' # Codex!NoCodex => CodexEntry(codex')
  BY DEF Codex!Unclaimed, CodexEntry
<1>2. BridgeTypes'
  BY <1>1 DEF RuntimeInv, BridgeTypes
<1>3. \A c \in Bridges : bridge'[c].stage # "open"
  BY DEF RuntimeInv, BridgeTypes, ActiveIsOpen
<1> QED BY <1>2, <1>3, ServicesAssumption
           DEF RuntimeInv, ActiveIsOpen, OpenIsClaimed

\* finish() ends an open bridge, and does nothing to another.
LEMMA EndsStep ==
  ASSUME RuntimeInv, NEW b \in Bridges, NEW entry,
         entry # Codex!NoCodex => CodexEntry(entry),
         entry # Codex!NoCodex <=> codex # Codex!NoCodex,
         codex # Codex!NoCodex => entry.claimed = codex.claimed,
         Codex!Ends(b, entry)
  PROVE  RuntimeInv'
<1>1. CASE bridge[b].stage # "open"
  BY <1>1 DEF Codex!Ends, RuntimeInv, BridgeTypes, ActiveIsOpen, OpenIsClaimed
<1>2. CASE bridge[b].stage = "open"
  <2>1. /\ active' = "none" /\ codex' = Codex!Unclaimed(entry)
        /\ bridge' = [bridge EXCEPT ![b].stage = "finished",
                                    ![b].timer = TRUE]
    BY <1>2 DEF Codex!Ends
  <2> DEFINE state ==
        [bridge[b] EXCEPT !.stage = "finished", !.timer = TRUE]
  <2>2. state \in [stage : {"finished"},
                   child : {"none", "running", "exited"}, timer : BOOLEAN]
    BY DEF RuntimeInv, BridgeTypes
  <2>3. bridge' = [bridge EXCEPT ![b] = state]
    BY <2>1 DEF RuntimeInv, BridgeTypes
  <2> HIDE DEF state
  <2> QED BY <1>2, <2>1, <2>2, <2>3, EndsKeeps
<1> QED BY <1>1, <1>2

\* The session's own steps: without an entry no bridge is open.
LEMMA SessionStep ==
  ASSUME RuntimeInv, Codex!CodexPrepare \/ Codex!CodexRelease
  PROVE  RuntimeInv'
<1>1. CASE Codex!CodexPrepare
  BY <1>1 DEF Codex!CodexPrepare, Codex!NoBridge, RuntimeInv, BridgeTypes,
              ActiveIsOpen, OpenIsClaimed, CodexEntry
<1>2. CASE Codex!CodexRelease
  <2>1. /\ codex' = Codex!NoCodex /\ active' = "none"
        /\ bridge' = [b \in Bridges |->
             IF active = b
               THEN [bridge[b] EXCEPT !.stage = "finished", !.timer = TRUE]
               ELSE bridge[b]]
    BY <1>2 DEF Codex!CodexRelease
  <2>2. BridgeTypes'
    BY <2>1 DEF RuntimeInv, BridgeTypes
  <2>3. \A b \in Bridges : bridge'[b].stage # "open"
    BY <2>1 DEF RuntimeInv, BridgeTypes, ActiveIsOpen
  <2> QED BY <2>1, <2>2, <2>3, ServicesAssumption
             DEF RuntimeInv, ActiveIsOpen, OpenIsClaimed
<1> QED BY <1>1, <1>2

\* An upgrade starts an App Server for a session that has none.
LEMMA UpgradeStep ==
  ASSUME RuntimeInv, NEW b \in Bridges,
         Codex!Upgrade(b) \/ Codex!SpawnFails(b) \/ Codex!HandshakeAborts(b)
  PROVE  RuntimeInv'
<1>1. /\ codex # Codex!NoCodex /\ ~codex.claimed
      /\ bridge[b] = Codex!NoBridge
  BY DEF Codex!Upgrade, Codex!SpawnFails, Codex!HandshakeAborts,
         Codex!MayClaim, Codex!Registered
<1>2. \A c \in Bridges : bridge[c].stage # "open" /\ active # c
  BY <1>1 DEF RuntimeInv, ActiveIsOpen, OpenIsClaimed
<1>3. CodexEntry(codex)
  BY <1>1 DEF RuntimeInv, BridgeTypes
<1>4. CASE Codex!Upgrade(b)
  <2>1. CodexEntry(codex') /\ codex'.claimed /\ codex' # Codex!NoCodex
    BY <1>3, <1>4 DEF Codex!Upgrade, CodexEntry, Codex!NoCodex
  <2>2. BridgeTypes'
    BY <1>4, <2>1 DEF Codex!Upgrade, RuntimeInv, BridgeTypes
  <2>3. \A c \in Bridges : bridge'[c].stage = "open" <=> c = b
    BY <1>2, <1>4 DEF Codex!Upgrade, RuntimeInv, BridgeTypes
  <2> QED BY <1>4, <2>1, <2>2, <2>3
             DEF Codex!Upgrade, RuntimeInv, ActiveIsOpen, OpenIsClaimed
<1>5. CASE Codex!SpawnFails(b) \/ Codex!HandshakeAborts(b)
  <2>1. active' = active /\ bridge' = [bridge EXCEPT ![b].stage = "refused"]
    BY <1>5 DEF Codex!SpawnFails, Codex!HandshakeAborts
  <2>2. CodexEntry(codex')
    BY <1>3, <1>1, <1>5, MarkedKeeps
       DEF Codex!SpawnFails, Codex!HandshakeAborts, CodexEntry, RuntimeInv
  <2>3. BridgeTypes'
    BY <2>1, <2>2 DEF RuntimeInv, BridgeTypes
  <2>4. \A c \in Bridges : bridge'[c].stage # "open"
    BY <1>2, <2>1 DEF RuntimeInv, BridgeTypes
  <2> QED BY <1>2, <2>1, <2>3, <2>4
             DEF RuntimeInv, ActiveIsOpen, OpenIsClaimed
<1> QED BY <1>4, <1>5

\* What the listeners of a bridge hear ends that bridge or none.
LEMMA ListenerStep ==
  ASSUME RuntimeInv, NEW b \in Bridges,
         \/ Codex!ClientFails(b) \/ Codex!ClientCloses(b)
         \/ Codex!ChildFails(b) \/ Codex!InvalidEvent(b)
         \/ Codex!ChildExits(b) \/ Codex!ForceTimer(b)
         \/ \E e \in Provider!CodexEvents : Codex!Observed(b, e)
  PROVE  RuntimeInv'
<1>1. BridgeTypes /\ ActiveIsOpen /\ OpenIsClaimed
  BY DEF RuntimeInv
<1>2. /\ bridge[b].stage \in {"unused", "open", "refused", "finished"}
      /\ bridge[b].child \in {"none", "running", "exited"}
      /\ bridge[b].timer \in BOOLEAN
  BY <1>1 DEF BridgeTypes
<1>3. CASE Codex!ClientFails(b) \/ Codex!ClientCloses(b) \/ Codex!ChildFails(b)
  <2>1. \/ Codex!Ends(b, codex)
        \/ Codex!Ends(b, Codex!Marked(codex, "degraded"))
        \/ Codex!Ends(b, Codex!Marked(codex, "failed"))
    BY <1>3 DEF Codex!ClientFails, Codex!ClientCloses, Codex!ChildFails
  <2>2. codex # Codex!NoCodex => CodexEntry(codex)
    BY <1>1 DEF BridgeTypes
  <2> QED BY <1>1, <2>1, <2>2, EndsStep, MarkedKeeps
<1>4. CASE Codex!ChildExits(b)
  <2> DEFINE entry == Codex!Marked(codex, "failed")
  <2>1. CASE bridge[b].stage = "open"
    <3> DEFINE state == [stage |-> "finished", child |-> "exited",
                         timer |-> TRUE]
    <3>1. /\ active' = "none" /\ codex' = Codex!Unclaimed(entry)
          /\ bridge' = [bridge EXCEPT ![b] = state]
      BY <1>1, <1>2, <1>4, <2>1 DEF Codex!ChildExits, BridgeTypes
    <3>2. state \in [stage : {"finished"},
                     child : {"none", "running", "exited"}, timer : BOOLEAN]
      OBVIOUS
    <3>3. /\ entry # Codex!NoCodex <=> codex # Codex!NoCodex
          /\ codex # Codex!NoCodex => entry.claimed = codex.claimed
          /\ entry # Codex!NoCodex => CodexEntry(entry)
      BY <1>1, MarkedKeeps
    <3> HIDE DEF entry, state
    <3> QED BY <2>1, <3>1, <3>3, <3>2, EndsKeeps
  <2>2. CASE bridge[b].stage # "open"
    <3>1. /\ UNCHANGED <<active, codex>>
          /\ bridge' = [bridge EXCEPT ![b].child = "exited",
                                      ![b].timer = FALSE]
      BY <1>4, <2>2 DEF Codex!ChildExits
    <3> QED BY ZenonT(60), <1>1, <3>1
               DEF RuntimeInv, BridgeTypes, ActiveIsOpen, OpenIsClaimed
  <2> QED BY <2>1, <2>2
<1>5. CASE Codex!ForceTimer(b)
  <2>1. /\ UNCHANGED <<active, codex>>
        /\ bridge' = [bridge EXCEPT ![b].timer = FALSE,
                                    ![b].child = "exited"]
    BY <1>5 DEF Codex!ForceTimer
  <2> QED BY ZenonT(60), <1>1, <2>1
             DEF RuntimeInv, BridgeTypes, ActiveIsOpen, OpenIsClaimed
<1>6. ASSUME UNCHANGED <<active, bridge>>, codex # Codex!NoCodex,
             CodexEntry(codex'), codex'.claimed = codex.claimed
      PROVE  RuntimeInv'
  <2>1. codex' # Codex!NoCodex
    BY <1>6, EntryIsSome
  <2>2. BridgeTypes' /\ ActiveIsOpen'
    BY <1>1, <1>6 DEF BridgeTypes, ActiveIsOpen
  <2>3. OpenIsClaimed'
    BY <1>1, <1>6, <2>1 DEF OpenIsClaimed
  <2> QED BY <2>2, <2>3 DEF RuntimeInv
<1>7. CASE Codex!InvalidEvent(b)
  BY <1>1, <1>6, <1>7, MarkedKeeps DEF Codex!InvalidEvent, Codex!Registered
<1>8. ASSUME NEW e, Codex!Observed(b, e) PROVE RuntimeInv'
  <2>1. /\ UNCHANGED <<active, bridge>> /\ codex # Codex!NoCodex
        /\ \E o, f : codex' = [codex EXCEPT !.fingerprints = f,
                                            !.observation = o]
    BY <1>8 DEF Codex!Observed, Codex!Registered
  <2>2. CodexEntry(codex') /\ codex'.claimed = codex.claimed
    BY <1>1, <2>1 DEF BridgeTypes, CodexEntry
  <2> QED BY <1>6, <2>1, <2>2
<1> QED BY <1>3, <1>4, <1>5, <1>7, <1>8

\* Every step of the observer and its bridges keeps the invariant, ...
LEMMA RuntimeStep ==
  ASSUME RuntimeInv, Codex!CodexNext PROVE RuntimeInv'
BY SessionStep, UpgradeStep, ListenerStep
   DEF Codex!CodexNext, Codex!BridgeStep

\* ... and the other services leave it alone.
LEMMA RuntimeUnchanged ==
  ASSUME RuntimeInv, UNCHANGED codexVars PROVE RuntimeInv'
BY DEF codexVars, RuntimeInv, BridgeTypes, ActiveIsOpen, OpenIsClaimed

\* So it holds in every state.
LEMMA RuntimeInvariance == ServicesSpec => []RuntimeInv
<1>1. ServicesInit => RuntimeInv
  BY RuntimeStarts DEF ServicesInit
<1>2. RuntimeInv /\ [ServicesNext]_allVars => RuntimeInv'
  BY RuntimeStep, RuntimeUnchanged
     DEF ServicesNext, ConfigMoves, ClaudeMoves, CodexMoves, BrowserMoves,
         QueueMoves, allVars
<1> QED BY <1>1, <1>2, PTL DEF ServicesSpec

\* A Codex session has one App Server at most, which the map of bridges knows
\* for as long as it is open, so that a release ends it.
THEOREM RuntimeIsOne == ServicesSpec => []OneRuntime
<1>1. RuntimeInv => OneRuntime
  BY DEF RuntimeInv, ActiveIsOpen, OpenIsClaimed, OneRuntime,
         Codex!OneRuntime, Codex!Registered
<1> QED BY <1>1, RuntimeInvariance, PTL

-----------------------------------------------------------------------------
(* The views of a browser.                                                 *)

\* What a view is.
ViewStates == [pending : Nat, acts : BOOLEAN, shown : Nat]
\* What a browser asks.
Asked ==
  [id : Nat \ {0}, view : DOMAIN view, kind : {"inspect", "run", "cancel"}]
\* What it is told.
Told ==
  [type : {"answer"}, id : Nat \ {0}, view : DOMAIN view, version : Nat]
  \cup [type : {"update"}, view : {"verification"} \cap DOMAIN view,
        version : Nat]
  \cup [type : {"error"}, id : Nat \ {0}, view : DOMAIN view]

\* Until it starts, a page has no views.
NothingBefore ==
  link = "unused" =>
    view = <<>> /\ toServer = <<>> /\ toBrowser = <<>> /\ tasks = {}

\* No view waits for a request that was not made, or shows what is to come.
ViewsFit ==
  /\ requests \in Nat /\ now \in Nat
  /\ view \in [DOMAIN view -> ViewStates]
  /\ \A v \in DOMAIN view :
       view[v].pending <= requests /\ view[v].shown <= now

\* A version that was observed for a request is not older than what its view
\* shows, if that view still waits for that request.
Fits(id, v, version) ==
  /\ id <= requests /\ version <= now
  /\ view[v].pending = id => view[v].shown <= version

\* The requests on their way.
RequestsFit ==
  /\ toServer \in Seq(Asked)
  /\ \A n \in 1 .. Len(toServer) : toServer[n].id <= requests

\* A handler has read, if anything, what fits; verification is handled
\* without a wait, unless it is run.
TaskFits(t) ==
  /\ t.request.id <= requests
  /\ t.seen # 0 => Fits(t.request.id, t.request.view, t.seen)
  /\ t.request.view = "verification" => t.request.kind = "run"

\* So do all of them.
TasksFit ==
  /\ tasks \subseteq [request : Asked, seen : Nat]
  /\ \A t \in tasks : TaskFits(t)

\* The answers on their way fit.
AnswersFit ==
  /\ toBrowser \in Seq(Told)
  /\ \A n \in 1 .. Len(toBrowser) :
       toBrowser[n].type = "answer" =>
         Fits(toBrowser[n].id, toBrowser[n].view, toBrowser[n].version)

\* The verification is told of by answers and by updates: they are told one
\* after the other, as the versions follow one another.
Tells(m) == m.type # "error" /\ m.view = "verification"

VerificationInOrder ==
  /\ \A n \in 1 .. Len(toBrowser) :
       Tells(toBrowser[n]) =>
         /\ view["verification"].shown <= toBrowser[n].version
         /\ toBrowser[n].version <= now
  /\ \A n, m \in 1 .. Len(toBrowser) :
       n <= m /\ Tells(toBrowser[n]) /\ Tells(toBrowser[m])
         => toBrowser[n].version <= toBrowser[m].version

\* The inductive invariant.
BrowserInv ==
  /\ NothingBefore /\ ViewsFit /\ RequestsFit /\ TasksFit
  /\ AnswersFit /\ VerificationInOrder

\* It holds before the page starts.
LEMMA BrowserStarts == Browser!ClientInit => BrowserInv
<1> SUFFICES ASSUME Browser!ClientInit PROVE BrowserInv
  OBVIOUS
<1>1. /\ toServer = <<>> /\ toBrowser = <<>> /\ tasks = {} /\ view = <<>>
      /\ now = 1 /\ requests = 0
  BY DEF Browser!ClientInit
<1>2. \A S : <<>> \in Seq(S)
  OBVIOUS
<1>3. DOMAIN view = {} /\ Len(toServer) = 0 /\ Len(toBrowser) = 0
  BY <1>1
<1>4. view \in [DOMAIN view -> ViewStates]
  BY <1>1
<1>5. NothingBefore /\ TasksFit
  BY <1>1 DEF NothingBefore, TasksFit
<1>6. ViewsFit
  BY <1>1, <1>3, <1>4 DEF ViewsFit
<1>7. RequestsFit /\ AnswersFit /\ VerificationInOrder
  BY <1>1, <1>2, <1>3 DEF RequestsFit, AnswersFit, VerificationInOrder
<1> QED BY <1>5, <1>6, <1>7 DEF BrowserInv

\* How a step changes the views: one that waits for another request than
\* before waits for a new one, or for none.
ViewMoves(v) ==
  /\ view'[v].pending <= requests' /\ view'[v].shown <= now'
  /\ \/ view'[v] = view[v]
     \/ view'[v].pending = 0
     \/ view'[v].pending > requests
  /\ view'[v].shown # 0 => view'[v].shown >= view[v].shown

\* All views change so, and the counters only grow.
ViewsMove ==
  /\ requests' \in Nat /\ now' \in Nat
  /\ requests <= requests' /\ now <= now'
  /\ DOMAIN view' = DOMAIN view
  /\ view' \in [DOMAIN view -> ViewStates]
  /\ \A v \in DOMAIN view : ViewMoves(v)

\* What fits goes on fitting.
LEMMA FitsOn ==
  ASSUME ViewsFit, ViewsMove, NEW v \in DOMAIN view, NEW id \in Nat \ {0},
         NEW version \in Nat, Fits(id, v, version)
  PROVE  Fits(id, v, version)'
<1>1. /\ id <= requests /\ version <= now
      /\ view[v].pending = id => view[v].shown <= version
  BY DEF Fits
<1>2. /\ requests' \in Nat /\ now' \in Nat /\ requests \in Nat /\ now \in Nat
      /\ requests <= requests' /\ now <= now'
  BY DEF ViewsFit, ViewsMove
<1>3. \/ view'[v] = view[v]
      \/ view'[v].pending = 0
      \/ view'[v].pending > requests
  BY DEF ViewsMove, ViewMoves
<1>4. view'[v].pending \in Nat
  BY DEF ViewsMove, ViewStates
<1>5. id <= requests' /\ version <= now'
  BY <1>1, <1>2
<1>6. view'[v].pending = id => view'[v].shown <= version
  BY <1>1, <1>2, <1>3, <1>4
<1> QED BY <1>5, <1>6 DEF Fits

\* What a handler has read goes on fitting, ...
LEMMA TaskFitsOn ==
  ASSUME ViewsFit, ViewsMove, NEW t \in [request : Asked, seen : Nat],
         TaskFits(t)
  PROVE  TaskFits(t)'
<1>1. /\ t.request.id \in Nat \ {0} /\ t.request.view \in DOMAIN view
      /\ t.seen \in Nat
  BY DEF Asked
<1>2. t.request.id <= requests'
  BY <1>1 DEF TaskFits, ViewsFit, ViewsMove
<1> QED BY <1>1, <1>2, FitsOn DEF TaskFits

\* ... and with it the handlers that were there.
LEMMA TasksFitOn ==
  ASSUME ViewsFit, TasksFit, ViewsMove,
         tasks' \subseteq [request : Asked, seen : Nat],
         \A t \in tasks' : t \in tasks \/ TaskFits(t)'
  PROVE  TasksFit'
<1>1. \A t \in tasks : TaskFits(t)'
  BY TaskFitsOn DEF TasksFit
<1>2. Asked' = Asked
  BY DEF Asked, ViewsMove
<1> QED BY <1>1, <1>2 DEF TasksFit

\* Messages on their way are dropped, received or sent.
LEMMA RequestsFitOn ==
  ASSUME ViewsFit, RequestsFit, ViewsMove,
         \/ toServer' = toServer
         \/ toServer' = <<>>
         \/ toServer # <<>> /\ toServer' = Tail(toServer)
         \/ \E r \in Asked :
              r.id <= requests' /\ toServer' = Append(toServer, r)
         \/ \E r \in Asked : r.id <= requests' /\ toServer' = <<r>>
  PROVE  RequestsFit'
<1>1. Asked' = Asked
  BY DEF Asked, ViewsMove
<1>2. toServer \in Seq(Asked)
  BY DEF RequestsFit
<1>3. \A n \in 1 .. Len(toServer) : toServer[n].id <= requests'
  <2> TAKE n \in 1 .. Len(toServer)
  <2>1. toServer[n].id <= requests /\ toServer[n] \in Asked
    BY <1>2 DEF RequestsFit
  <2>2. toServer[n].id \in Nat
    BY <2>1 DEF Asked
  <2> QED BY <2>1, <2>2 DEF ViewsFit, ViewsMove
<1>4. /\ toServer' \in Seq(Asked)
      /\ \A n \in 1 .. Len(toServer') : toServer'[n].id <= requests'
  <2>1. CASE toServer' = toServer
    BY <1>2, <1>3, <2>1
  <2>2. CASE toServer' = <<>>
    BY <2>2
  <2>3. CASE toServer # <<>> /\ toServer' = Tail(toServer)
    <3>1. /\ toServer' \in Seq(Asked) /\ Len(toServer') = Len(toServer) - 1
          /\ \A n \in 1 .. Len(toServer') : toServer'[n] = toServer[n + 1]
      BY <1>2, <2>3
    <3>2. \A n \in 1 .. Len(toServer') : n + 1 \in 1 .. Len(toServer)
      BY <1>2, <3>1
    <3> QED BY <1>3, <3>1, <3>2
  <2>4. ASSUME NEW r \in Asked, r.id <= requests',
               toServer' = Append(toServer, r)
        PROVE  /\ toServer' \in Seq(Asked)
               /\ \A n \in 1 .. Len(toServer') : toServer'[n].id <= requests'
    <3>1. /\ toServer' \in Seq(Asked) /\ Len(toServer') = Len(toServer) + 1
          /\ \A n \in 1 .. Len(toServer') :
               toServer'[n] = IF n = Len(toServer) + 1 THEN r ELSE toServer[n]
      BY <1>2, <2>4
    <3>2. \A n \in 1 .. Len(toServer') :
            n = Len(toServer) + 1 \/ n \in 1 .. Len(toServer)
      BY <1>2, <3>1
    <3> QED BY <1>3, <2>4, <3>1, <3>2
  <2>5. ASSUME NEW r \in Asked, r.id <= requests', toServer' = <<r>>
        PROVE  /\ toServer' \in Seq(Asked)
               /\ \A n \in 1 .. Len(toServer') : toServer'[n].id <= requests'
    BY <2>5
  <2> QED BY <2>1, <2>2, <2>3, <2>4, <2>5
<1> QED BY <1>1, <1>4 DEF RequestsFit

\* An answer in its place: it fits, and it tells of the verification what
\* comes after what is told before.
MessageFits(m) ==
  m.type = "answer" => Fits(m.id, m.view, m.version)

\* A step drops or receives what is told, or tells one thing more.
AnswersMove ==
  \/ toBrowser' = toBrowser
  \/ toBrowser' = <<>>
  \/ toBrowser # <<>> /\ toBrowser' = Tail(toBrowser)
  \/ \E m \in Told : /\ toBrowser' = Append(toBrowser, m)
                     /\ MessageFits(m)'
                     /\ Tells(m) => m.version = now'

\* The answers go on fitting.
LEMMA AnswersFitOn ==
  ASSUME ViewsFit, AnswersFit, ViewsMove, AnswersMove
  PROVE  AnswersFit'
<1>1. Told' = Told
  BY DEF Told, ViewsMove
<1>2. toBrowser \in Seq(Told)
  BY DEF AnswersFit
<1>3. ASSUME NEW n \in 1 .. Len(toBrowser)
      PROVE  \E x \in Told : x = toBrowser[n] /\ MessageFits(x)'
  <2>1. PICK x \in Told : x = toBrowser[n]
    BY <1>2
  <2>2. x.type = "answer" => Fits(x.id, x.view, x.version)
    BY <2>1 DEF AnswersFit
  <2>3. x.type = "answer" => /\ x.id \in Nat \ {0} /\ x.view \in DOMAIN view
                             /\ x.version \in Nat
    BY DEF Told
  <2>4. x.type = "answer" => Fits(x.id, x.view, x.version)'
    BY <2>2, <2>3, FitsOn
  <2> QED BY <2>1, <2>4 DEF MessageFits
<1>4. /\ toBrowser' \in Seq(Told)
      /\ \A n \in 1 .. Len(toBrowser') :
           \E x \in Told : x = toBrowser'[n] /\ MessageFits(x)'
  <2>1. CASE toBrowser' = toBrowser
    BY <1>2, <1>3, <2>1
  <2>2. CASE toBrowser' = <<>>
    BY <2>2
  <2>3. CASE toBrowser # <<>> /\ toBrowser' = Tail(toBrowser)
    <3>1. /\ toBrowser' \in Seq(Told) /\ Len(toBrowser') = Len(toBrowser) - 1
          /\ \A n \in 1 .. Len(toBrowser') : toBrowser'[n] = toBrowser[n + 1]
      BY <1>2, <2>3
    <3>2. \A n \in 1 .. Len(toBrowser') : n + 1 \in 1 .. Len(toBrowser)
      BY <1>2, <3>1
    <3> QED BY <1>3, <3>1, <3>2
  <2>4. ASSUME NEW m \in Told, toBrowser' = Append(toBrowser, m),
               MessageFits(m)'
        PROVE  /\ toBrowser' \in Seq(Told)
               /\ \A n \in 1 .. Len(toBrowser') :
                    \E x \in Told : x = toBrowser'[n] /\ MessageFits(x)'
    <3>1. /\ toBrowser' \in Seq(Told) /\ Len(toBrowser') = Len(toBrowser) + 1
          /\ \A n \in 1 .. Len(toBrowser') :
               toBrowser'[n] = IF n = Len(toBrowser) + 1 THEN m
                               ELSE toBrowser[n]
      BY <1>2, <2>4
    <3>2. \A n \in 1 .. Len(toBrowser') :
            n = Len(toBrowser) + 1 \/ n \in 1 .. Len(toBrowser)
      BY <1>2, <3>1
    <3>3. ASSUME NEW n \in 1 .. Len(toBrowser')
          PROVE  \E x \in Told : x = toBrowser'[n] /\ MessageFits(x)'
      <4>1. CASE n = Len(toBrowser) + 1
        BY <2>4, <3>1, <4>1
      <4>2. CASE n \in 1 .. Len(toBrowser)
        <5>1. toBrowser'[n] = toBrowser[n]
          BY <1>2, <3>1, <4>2
        <5> QED BY <1>3, <4>2, <5>1
      <4> QED BY <3>2, <4>1, <4>2
    <3> QED BY <3>1, <3>3
  <2> QED BY <2>1, <2>2, <2>3, <2>4 DEF AnswersMove
<1>5. \A n \in 1 .. Len(toBrowser') :
        toBrowser'[n].type = "answer" =>
          Fits(toBrowser[n].id, toBrowser[n].view, toBrowser[n].version)'
  BY <1>4 DEF MessageFits, Fits
<1> QED BY <1>1, <1>4, <1>5 DEF AnswersFit

\* The verification is told of in the order of its versions, if what is
\* shown changes as the first of them is told.
LEMMA OrderOn ==
  ASSUME ViewsFit, AnswersFit, VerificationInOrder, ViewsMove, AnswersMove,
         \/ toBrowser' = <<>>
         \/ "verification" \notin DOMAIN view
         \/ view'["verification"].shown
              \in {0, view["verification"].shown}
         \/ /\ toBrowser # <<>> /\ toBrowser' = Tail(toBrowser)
            /\ Tells(Head(toBrowser))
            /\ view'["verification"].shown = Head(toBrowser).version
  PROVE  VerificationInOrder'
<1>1. toBrowser \in Seq(Told)
  BY DEF AnswersFit
<1>2. /\ requests' \in Nat /\ now' \in Nat /\ requests \in Nat /\ now \in Nat
      /\ requests <= requests' /\ now <= now'
  BY DEF ViewsFit, ViewsMove
<1>3. \A m \in Told : Tells(m) => /\ m.version \in Nat
                                 /\ "verification" \in DOMAIN view
  BY DEF Told, Tells
<1>4. "verification" \in DOMAIN view =>
        /\ view["verification"].shown \in Nat
        /\ view'["verification"].shown \in Nat
        /\ view'["verification"].shown <= now'
  BY DEF ViewsFit, ViewsMove, ViewMoves, ViewStates
<1>5. \A n \in 1 .. Len(toBrowser) :
        Tells(toBrowser[n]) =>
          /\ toBrowser[n].version \in Nat
          /\ view["verification"].shown <= toBrowser[n].version
          /\ toBrowser[n].version <= now /\ toBrowser[n].version <= now'
          /\ "verification" \in DOMAIN view
  <2> TAKE n \in 1 .. Len(toBrowser)
  <2>1. toBrowser[n] \in Told
    BY <1>1
  <2>2. PICK x \in Told : x = toBrowser[n]
    BY <2>1
  <2> QED BY <1>2, <1>3, <2>2 DEF VerificationInOrder
<1>6. \A n, m \in 1 .. Len(toBrowser) :
        n <= m /\ Tells(toBrowser[n]) /\ Tells(toBrowser[m])
          => toBrowser[n].version <= toBrowser[m].version
  BY DEF VerificationInOrder
<1>7. CASE toBrowser' = <<>>
  BY <1>7 DEF VerificationInOrder
<1>8. CASE toBrowser' = toBrowser
  <2>1. \A n \in 1 .. Len(toBrowser) : Tells(toBrowser[n]) =>
          view'["verification"].shown <= toBrowser[n].version
    <3>1. CASE \/ "verification" \notin DOMAIN view
               \/ view'["verification"].shown
                    \in {0, view["verification"].shown}
      BY <1>4, <1>5, <3>1
    <3>2. CASE toBrowser # <<>> /\ toBrowser' = Tail(toBrowser)
      <4>1. Len(Tail(toBrowser)) = Len(toBrowser) - 1 /\ Len(toBrowser) \in Nat
        BY <1>1, <3>2
      <4> QED BY <1>8, <3>2, <4>1
    <3>3. CASE toBrowser' = <<>>
      BY <1>8, <3>3
    <3> QED BY <3>1, <3>2, <3>3
  <2> QED BY <1>5, <1>6, <1>8, <2>1 DEF VerificationInOrder, Tells
<1>9. CASE toBrowser # <<>> /\ toBrowser' = Tail(toBrowser)
  <2>1. PICK k \in Nat : k = Len(toBrowser')
    BY <1>1, <1>9
  <2>2. /\ k + 1 = Len(toBrowser) /\ Head(toBrowser) = toBrowser[1]
        /\ \A n \in 1 .. k : /\ toBrowser'[n] = toBrowser[n + 1]
                             /\ n + 1 \in 1 .. k + 1
        /\ 1 \in 1 .. k + 1
    BY <1>1, <1>9, <2>1
  <2>3. \A n \in 1 .. k : Tells(toBrowser[n + 1]) =>
          /\ view'["verification"].shown <= toBrowser[n + 1].version
          /\ toBrowser[n + 1].version <= now'
    <3> TAKE n \in 1 .. k
    <3> HAVE Tells(toBrowser[n + 1])
    <3>1. PICK i \in 1 .. k + 1 : i = n + 1
      BY <2>2
    <3>2. /\ toBrowser[i].version \in Nat /\ toBrowser[i].version <= now'
          /\ view["verification"].shown <= toBrowser[i].version
          /\ "verification" \in DOMAIN view
      BY <1>5, <2>2, <3>1
    <3>3. CASE view'["verification"].shown
                 \in {0, view["verification"].shown}
      BY <1>4, <3>1, <3>2, <3>3
    <3>4. CASE /\ Tells(Head(toBrowser))
               /\ view'["verification"].shown = Head(toBrowser).version
      <4>1. toBrowser[1].version <= toBrowser[i].version
        BY <1>6, <2>2, <3>1, <3>4
      <4> QED BY <2>2, <3>1, <3>2, <3>4, <4>1
    <3>5. CASE toBrowser' = <<>>
      BY <2>1, <3>5
    <3> QED BY <3>2, <3>3, <3>4, <3>5
  <2>4. \A n, m \in 1 .. k :
          n <= m /\ Tells(toBrowser[n + 1]) /\ Tells(toBrowser[m + 1])
            => toBrowser[n + 1].version <= toBrowser[m + 1].version
    <3> TAKE n, m \in 1 .. k
    <3>1. n + 1 \in 1 .. Len(toBrowser) /\ m + 1 \in 1 .. Len(toBrowser)
      BY <2>2
    <3>2. n <= m => n + 1 <= m + 1
      OBVIOUS
    <3> QED BY <1>6, <3>1, <3>2
  <2> QED BY <2>1, <2>2, <2>3, <2>4 DEF VerificationInOrder, Tells
<1>10. ASSUME NEW x \in Told, toBrowser' = Append(toBrowser, x),
              Tells(x) => x.version = now'
       PROVE  VerificationInOrder'
  <2>1. PICK k \in Nat : k = Len(toBrowser)
    BY <1>1
  <2>2. /\ k + 1 = Len(toBrowser') /\ toBrowser'[k + 1] = x
        /\ \A n \in 1 .. k : toBrowser'[n] = toBrowser[n]
        /\ \A n \in 1 .. k + 1 : n = k + 1 \/ n \in 1 .. k
    BY <1>1, <1>10, <2>1
  <2>3. \A n \in 1 .. k : Tells(toBrowser[n]) =>
          /\ view'["verification"].shown <= toBrowser[n].version
          /\ toBrowser[n].version <= now'
    <3>1. toBrowser' # toBrowser /\ toBrowser' # <<>>
      BY <2>1, <2>2
    <3>2. toBrowser # <<>> => toBrowser' # Tail(toBrowser)
      <4>1. toBrowser # <<>> => Len(Tail(toBrowser)) = k - 1
        BY <1>1, <2>1
      <4> QED BY <2>2, <4>1
    <3> QED BY <1>4, <1>5, <2>1, <3>1, <3>2
  <2>4. Tells(x) => view'["verification"].shown <= x.version
    BY <1>3, <1>4, <1>10
  <2>5. ASSUME NEW n \in 1 .. k + 1, NEW m \in 1 .. k + 1, n <= m,
               Tells(toBrowser'[n]), Tells(toBrowser'[m])
        PROVE  toBrowser'[n].version <= toBrowser'[m].version
    <3>1. CASE m = k + 1 /\ n = k + 1
      <4>1. toBrowser'[n].version = now' /\ toBrowser'[m].version = now'
        BY <1>10, <2>2, <2>5, <3>1
      <4> QED BY <1>2, <4>1
    <3>2. CASE m = k + 1 /\ n \in 1 .. k
      BY <1>10, <2>2, <2>3, <2>5, <3>2
    <3>3. CASE m \in 1 .. k
      <4>1. n \in 1 .. k
        BY <2>5, <3>3
      <4> QED BY <1>6, <2>1, <2>2, <2>5, <3>3, <4>1
    <3> QED BY <2>2, <3>1, <3>2, <3>3
  <2>6. \A n \in 1 .. k + 1 : Tells(toBrowser'[n]) =>
          /\ view'["verification"].shown <= toBrowser'[n].version
          /\ toBrowser'[n].version <= now'
    <3> TAKE n \in 1 .. k + 1
    <3>1. CASE n = k + 1
      <4>1. Tells(x) => x.version = now' /\ now' <= now'
        BY <1>2, <1>10
      <4> QED BY <2>2, <2>4, <3>1, <4>1
    <3>2. CASE n \in 1 .. k
      BY <2>2, <2>3, <3>2
    <3> QED BY <2>2, <3>1, <3>2
  <2> QED BY <2>2, <2>5, <2>6 DEF VerificationInOrder, Tells
<1> QED BY <1>7, <1>8, <1>9, <1>10 DEF AnswersMove

\* What a step has to do to keep the invariant.
LEMMA StepKeeps ==
  ASSUME BrowserInv, ViewsMove,
         \/ link' # "unused"
         \/ UNCHANGED <<link, toServer, toBrowser, tasks, view>>,
         \/ toServer' = toServer
         \/ toServer' = <<>>
         \/ toServer # <<>> /\ toServer' = Tail(toServer)
         \/ \E r \in Asked :
              r.id <= requests' /\ toServer' = Append(toServer, r)
         \/ \E r \in Asked : r.id <= requests' /\ toServer' = <<r>>,
         tasks' \subseteq [request : Asked, seen : Nat],
         \A t \in tasks' : t \in tasks \/ TaskFits(t)',
         AnswersMove,
         \/ toBrowser' = <<>>
         \/ "verification" \notin DOMAIN view
         \/ view'["verification"].shown
              \in {0, view["verification"].shown}
         \/ /\ toBrowser # <<>> /\ toBrowser' = Tail(toBrowser)
            /\ Tells(Head(toBrowser))
            /\ view'["verification"].shown = Head(toBrowser).version
  PROVE  BrowserInv'
<1>1. /\ NothingBefore /\ ViewsFit /\ RequestsFit /\ TasksFit /\ AnswersFit
      /\ VerificationInOrder
  BY DEF BrowserInv
<1>2. NothingBefore'
  BY <1>1 DEF NothingBefore
<1>3. ViewsFit'
  BY DEF ViewsFit, ViewsMove, ViewMoves
<1>4. RequestsFit'
  BY <1>1, RequestsFitOn
<1>5. TasksFit'
  BY <1>1, TasksFitOn
<1>6. AnswersFit'
  BY <1>1, AnswersFitOn
<1>7. VerificationInOrder'
  BY <1>1, OrderOn
<1> QED BY <1>2, <1>3, <1>4, <1>5, <1>6, <1>7 DEF BrowserInv

\* Most steps leave alone what is shown.
ShownStays ==
  "verification" \in DOMAIN view =>
    view'["verification"].shown \in {0, view["verification"].shown}

\* A step that leaves the views alone.
LEMMA SameViews ==
  ASSUME ViewsFit, UNCHANGED <<view, requests>>, now' \in Nat, now <= now'
  PROVE  ViewsMove /\ ShownStays
<1>1. /\ requests \in Nat /\ now \in Nat /\ view \in [DOMAIN view -> ViewStates]
  BY DEF ViewsFit
<1>2. ASSUME NEW v \in DOMAIN view PROVE ViewMoves(v)
  <2>1. /\ view[v].pending <= requests /\ view[v].shown <= now
        /\ view[v].shown \in Nat
    BY <1>1 DEF ViewsFit, ViewStates
  <2> QED BY <1>1, <2>1 DEF ViewMoves
<1> QED BY <1>1, <1>2 DEF ViewsMove, ShownStays

\* A step that changes one view.
LEMMA OneView ==
  ASSUME ViewsFit, NEW v \in DOMAIN view, NEW x \in ViewStates,
         view' = [view EXCEPT ![v] = x],
         requests' \in Nat, requests <= requests', UNCHANGED now,
         x.pending = 0 \/ (x.pending > requests /\ x.pending <= requests'),
         x.shown <= now,
         x.shown = 0 \/ x.shown >= view[v].shown
  PROVE  ViewsMove
<1>1. /\ requests \in Nat /\ now \in Nat /\ view \in [DOMAIN view -> ViewStates]
  BY DEF ViewsFit
<1>2. view'[v] = x /\ \A w \in DOMAIN view : w # v => view'[w] = view[w]
  BY <1>1
<1>3. ASSUME NEW w \in DOMAIN view PROVE ViewMoves(w)
  <2>1. /\ view[w].pending <= requests /\ view[w].shown <= now
        /\ view[w].pending \in Nat /\ view[w].shown \in Nat
    BY <1>1 DEF ViewsFit, ViewStates
  <2>2. CASE w = v
    BY <1>1, <1>2, <2>2 DEF ViewMoves
  <2>3. CASE w # v
    BY <1>1, <1>2, <2>1, <2>3 DEF ViewMoves
  <2> QED BY <2>2, <2>3
<1>4. DOMAIN view' = DOMAIN view /\ view' \in [DOMAIN view -> ViewStates]
  BY <1>1
<1> QED BY <1>1, <1>3, <1>4 DEF ViewsMove

\* A request is made: its view waits for it, and shows what it showed.
LEMMA BeginsMoves ==
  ASSUME ViewsFit, NEW v \in DOMAIN view, NEW acts \in BOOLEAN,
         Browser!Begins(v, acts), UNCHANGED now
  PROVE  ViewsMove /\ ShownStays /\ requests' \in Nat \ {0}
<1>1. /\ requests \in Nat /\ now \in Nat /\ view \in [DOMAIN view -> ViewStates]
      /\ view[v].shown <= now
  BY DEF ViewsFit
<1>2. requests' = requests + 1
  BY DEF Browser!Begins
<1> DEFINE x == [view[v] EXCEPT !.pending = requests', !.acts = acts]
<1>3. /\ view[v] \in ViewStates /\ requests' \in Nat /\ requests' > requests
      /\ requests <= requests' /\ requests' <= requests' /\ requests' # 0
  BY <1>1, <1>2
<1>4. view[v].shown \in Nat
  BY <1>3 DEF ViewStates
<1>5. x \in ViewStates /\ x.shown = view[v].shown /\ x.pending = requests'
  BY <1>3 DEF ViewStates
<1>6. view' = [view EXCEPT ![v] = x]
  BY <1>1 DEF Browser!Begins
<1> HIDE DEF x
<1>7. x.shown <= now /\ x.shown >= view[v].shown
  BY <1>1, <1>5, <1>4
<1>8. x.pending > requests /\ x.pending <= requests'
  BY <1>5, <1>3
<1>9. ViewsMove
  BY <1>5, <1>6, <1>7, <1>3, <1>8, OneView
<1>10. ShownStays
  BY <1>1, <1>5, <1>6 DEF ShownStays
<1> QED BY <1>9, <1>10, <1>3

\* A view that shows a version, or nothing, and waits for nothing.
LEMMA ShowsIs ==
  /\ \A v : \A n \in Nat : /\ Browser!Shows(v, n) \in ViewStates
                           /\ Browser!Shows(v, n).pending = 0
                           /\ Browser!Shows(v, n).shown = n
  /\ Browser!NoView \in ViewStates
  /\ Browser!NoView.pending = 0 /\ Browser!NoView.shown = 0
BY DEF Browser!Shows, Browser!NoView, Browser!Nothing, ViewStates

\* A view shows a version, and waits for nothing.
LEMMA ShowsMoves ==
  ASSUME ViewsFit, NEW v \in DOMAIN view, NEW version \in Nat,
         view' = [view EXCEPT ![v] = Browser!Shows(v, version)],
         UNCHANGED <<requests, now>>,
         version <= now, version # 0 => version >= view[v].shown
  PROVE  /\ ViewsMove
         /\ view'[v].shown = version
         /\ \A w \in DOMAIN view : w # v => view'[w] = view[w]
<1>1. /\ requests \in Nat /\ now \in Nat /\ view \in [DOMAIN view -> ViewStates]
  BY DEF ViewsFit
<1> DEFINE x == Browser!Shows(v, version)
<1>2. x \in ViewStates /\ x.shown = version /\ x.pending = 0
  BY ShowsIs
<1> HIDE DEF x
<1>3. view' = [view EXCEPT ![v] = x]
  BY DEF x
<1>4. requests' \in Nat /\ requests <= requests' /\ now' = now
  BY <1>1
<1>5. view' = [view EXCEPT ![v] = x] /\ x.pending = 0
  BY <1>2, <1>3
<1>6. x.shown <= now /\ (x.shown = 0 \/ x.shown >= view[v].shown)
  BY <1>2
<1>7. ViewsMove
  BY <1>2, <1>4, <1>6, <1>5, OneView
<1> QED BY <1>1, <1>2, <1>3, <1>7

\* The page starts with views that show nothing.
LEMMA StartsStep ==
  ASSUME BrowserInv, NEW S, Browser!Starts(S) PROVE BrowserInv'
<1>1. /\ toServer = <<>> /\ toBrowser = <<>> /\ tasks = {}
      /\ requests \in Nat /\ now \in Nat
  BY DEF BrowserInv, NothingBefore, ViewsFit, Browser!Starts
<1>2. /\ toServer' = <<>> /\ toBrowser' = <<>> /\ tasks' = {}
      /\ requests' \in Nat /\ now' \in Nat /\ link' = "connecting"
  BY <1>1 DEF Browser!Starts, Browser!messages
<1>3. \A T : <<>> \in Seq(T)
  OBVIOUS
<1>4. Len(toServer') = 0 /\ Len(toBrowser') = 0
  BY <1>2
<1>5. view' = [v \in S |-> Browser!NoView]
  BY DEF Browser!Starts
<1>6. Browser!NoView \in ViewStates
  BY DEF Browser!NoView, Browser!Nothing, ViewStates
<1>7. Browser!NoView.pending = 0 /\ Browser!NoView.shown = 0
  BY DEF Browser!NoView, Browser!Nothing
<1>8. ViewsFit'
  BY <1>2, <1>5, <1>6, <1>7 DEF ViewsFit
<1>9. NothingBefore' /\ TasksFit'
  BY <1>2 DEF NothingBefore, TasksFit
<1>10. RequestsFit'
  BY <1>2, <1>3, <1>4 DEF RequestsFit
<1>11. AnswersFit'
  BY <1>2, <1>3, <1>4 DEF AnswersFit
<1>12. VerificationInOrder'
  BY <1>4 DEF VerificationInOrder
<1> QED BY <1>8, <1>9, <1>10, <1>11, <1>12 DEF BrowserInv

\* Tasks that are left alone fit.
LEMMA OldTasks ==
  ASSUME TasksFit, tasks' \subseteq tasks
  PROVE  /\ tasks' \subseteq [request : Asked, seen : Nat]
         /\ \A t \in tasks' : t \in tasks \/ TaskFits(t)'
BY DEF TasksFit

\* The connection: it is made, with a request for the configuration, ...
LEMMA ConnectsStep ==
  ASSUME BrowserInv, Browser!Connects PROVE BrowserInv' /\ ViewsMove
<1>1. ViewsFit /\ TasksFit
  BY DEF BrowserInv
<1>2. /\ link' = "open" /\ UNCHANGED <<toBrowser, tasks, now>>
  BY DEF Browser!Connects
<1>3. CASE "config" \in DOMAIN view
  <2>1. /\ Browser!Begins("config", FALSE)
        /\ toServer' = <<[id |-> requests', view |-> "config",
                          kind |-> "inspect"]>>
    BY <1>3 DEF Browser!Connects, Browser!Views
  <2>2. ViewsMove /\ ShownStays /\ requests' \in Nat \ {0}
    BY <1>1, <1>2, <1>3, <2>1, BeginsMoves
  <2> DEFINE r == [id |-> requests', view |-> "config", kind |-> "inspect"]
  <2>3. r \in Asked /\ r.id <= requests'
    BY <1>3, <2>2 DEF Asked
  <2>4. toServer' = <<r>>
    BY <2>1
  <2> HIDE DEF r
  <2> QED BY <1>1, <1>2, <2>2, <2>3, <2>4, StepKeeps, OldTasks
             DEF AnswersMove, ShownStays
<1>4. CASE "config" \notin DOMAIN view
  <2>1. UNCHANGED <<requests, view, toServer>>
    BY <1>4 DEF Browser!Connects, Browser!Views
  <2>2. ViewsMove /\ ShownStays
    BY <1>1, <1>2, <2>1, SameViews DEF ViewsFit
  <2> QED BY <1>1, <1>2, <2>1, <2>2, StepKeeps, OldTasks
             DEF AnswersMove, ShownStays
<1> QED BY <1>3, <1>4

\* ... it fails, is tried again or breaks, ...
LEMMA LinkStep ==
  ASSUME BrowserInv,
         Browser!ConnectFails \/ Browser!Reconnects \/ Browser!Breaks
  PROVE  BrowserInv' /\ ViewsMove
<1>1. ViewsFit /\ TasksFit
  BY DEF BrowserInv
<1>2. /\ link' # "unused"
      /\ UNCHANGED <<toServer, toBrowser, tasks, view, now, requests>>
  BY DEF Browser!ConnectFails, Browser!Reconnects, Browser!Breaks,
         Browser!messages
<1>3. ViewsMove /\ ShownStays
  BY <1>1, <1>2, SameViews DEF ViewsFit
<1> QED BY <1>1, <1>2, <1>3, StepKeeps, OldTasks DEF AnswersMove, ShownStays

\* ... and it is closed: what was on its way is lost.
LEMMA ClosedStep ==
  ASSUME BrowserInv, Browser!Closed PROVE BrowserInv' /\ ViewsMove
<1>1. ViewsFit /\ TasksFit
  BY DEF BrowserInv
<1>2. /\ link' # "unused" /\ UNCHANGED <<now, requests>>
      /\ toServer' = <<>> /\ toBrowser' = <<>> /\ tasks' = {}
      /\ view' = [v \in DOMAIN view |->
           IF v = "verification" THEN Browser!NoView
           ELSE Browser!Shows(v, view[v].shown)]
  BY DEF Browser!Closed, Browser!Interrupted, Browser!Views
<1>3. /\ requests \in Nat /\ now \in Nat /\ view \in [DOMAIN view -> ViewStates]
  BY <1>1 DEF ViewsFit
<1>4. ASSUME NEW v \in DOMAIN view
      PROVE  /\ view'[v] \in ViewStates /\ view'[v].pending = 0
             /\ view'[v].shown \in {0, view[v].shown}
             /\ view[v].shown \in Nat /\ view[v].shown <= now
  <2>1. view[v].shown \in Nat /\ view[v].shown <= now
    BY <1>1, <1>3 DEF ViewsFit, ViewStates
  <2>2. view'[v] = Browser!NoView \/ view'[v] = Browser!Shows(v, view[v].shown)
    BY <1>2
  <2> QED BY <2>1, <2>2, ShowsIs
<1>5. \A v \in DOMAIN view : ViewMoves(v)
  BY <1>2, <1>3, <1>4 DEF ViewMoves
<1>6. DOMAIN view' = DOMAIN view /\ view' \in [DOMAIN view -> ViewStates]
  BY <1>2, <1>4
<1>7. ViewsMove
  BY <1>2, <1>3, <1>5, <1>6 DEF ViewsMove
<1> QED BY <1>1, <1>2, <1>7, StepKeeps DEF AnswersMove

\* A view asks: send() drops what a socket that is not open cannot take.
LEMMA AsksStep ==
  ASSUME BrowserInv, NEW v \in DOMAIN view, NEW acts \in BOOLEAN,
         NEW kind \in {"inspect", "run", "cancel"},
         Browser!Begins(v, acts),
         Browser!Sent([id |-> requests', view |-> v, kind |-> kind]),
         Browser!Connected, UNCHANGED <<link, toBrowser, tasks, now>>
  PROVE  BrowserInv' /\ ViewsMove
<1>1. ViewsFit /\ TasksFit
  BY DEF BrowserInv
<1>2. link' # "unused"
  BY DEF Browser!Connected
<1>3. ViewsMove /\ ShownStays /\ requests' \in Nat \ {0}
  BY <1>1, BeginsMoves
<1> DEFINE r == [id |-> requests', view |-> v, kind |-> kind]
<1>4. r \in Asked /\ r.id <= requests'
  BY <1>3 DEF Asked
<1>5. toServer' = toServer \/ toServer' = Append(toServer, r)
  BY DEF Browser!Sent
<1> HIDE DEF r
<1> QED BY <1>1, <1>2, <1>3, <1>4, <1>5, StepKeeps, OldTasks
           DEF AnswersMove, ShownStays

\* Panels and dialogs ask, and verification is run or cancelled.
LEMMA AskStep ==
  ASSUME BrowserInv,
         \/ \E v \in Browser!Views : Browser!Ask(v)
         \/ \E kind \in {"run", "cancel"} : Browser!Act(kind)
  PROVE  BrowserInv' /\ ViewsMove
<1>1. ASSUME NEW v \in Browser!Views, Browser!Ask(v)
      PROVE  BrowserInv' /\ ViewsMove
  <2>1. v \in DOMAIN view
    BY DEF Browser!Views
  <2>2. /\ Browser!Begins(v, FALSE)
        /\ Browser!Sent([id |-> requests', view |-> v, kind |-> "inspect"])
        /\ Browser!Connected /\ UNCHANGED <<link, toBrowser, tasks, now>>
    BY <1>1 DEF Browser!Ask, Browser!MayAsk
  <2> QED BY <2>1, <2>2, AsksStep
<1>2. ASSUME NEW kind \in {"run", "cancel"}, Browser!Act(kind)
      PROVE  BrowserInv' /\ ViewsMove
  <2>1. "verification" \in DOMAIN view
    BY <1>2 DEF Browser!Act, Browser!Views
  <2>2. /\ Browser!Begins("verification", TRUE)
        /\ Browser!Sent([id |-> requests', view |-> "verification",
                         kind |-> kind])
        /\ Browser!Connected /\ UNCHANGED <<link, toBrowser, tasks, now>>
    BY <1>2 DEF Browser!Act
  <2> QED BY <2>1, <2>2, AsksStep
<1> QED BY <1>1, <1>2

\* The diff is forgotten.
LEMMA CloseDiffStep ==
  ASSUME BrowserInv, Browser!CloseDiff PROVE BrowserInv' /\ ViewsMove
<1>1. ViewsFit /\ TasksFit
  BY DEF BrowserInv
<1>2. /\ "diff" \in DOMAIN view
      /\ view' = [view EXCEPT !["diff"] = Browser!NoView]
      /\ UNCHANGED <<link, toServer, toBrowser, tasks, now, requests>>
  BY DEF Browser!CloseDiff, Browser!Views, Browser!messages
<1>3. Browser!NoView = Browser!Shows("diff", 0)
  BY DEF Browser!NoView, Browser!Shows, Browser!Nothing
<1>4. view' = [view EXCEPT !["diff"] = Browser!Shows("diff", 0)]
  BY <1>2, <1>3
<1>5. /\ ViewsMove
      /\ \A w \in DOMAIN view : w # "diff" => view'[w] = view[w]
  <2>1. 0 <= now
    BY <1>1 DEF ViewsFit
  <2> QED BY <1>1, <1>2, <1>4, <2>1, ShowsMoves
<1>6. link' # "unused"
  <2>1. link # "unused"
    BY <1>2 DEF BrowserInv, NothingBefore
  <2> QED BY <1>2, <2>1
<1>7. ShownStays
  BY <1>5 DEF ShownStays
<1> QED BY <1>1, <1>2, <1>5, <1>6, <1>7, StepKeeps, OldTasks
           DEF AnswersMove, ShownStays

\* A message of the browser is at the head of the queue.
LEMMA RequestHead ==
  ASSUME RequestsFit, ViewsFit, toServer # <<>>
  PROVE  Head(toServer) \in Asked /\ Head(toServer).id <= requests
<1>1. toServer \in Seq(Asked)
  BY DEF RequestsFit
<1>2. 1 \in 1 .. Len(toServer) /\ Head(toServer) = toServer[1]
  BY <1>1
<1> QED BY <1>1, <1>2 DEF RequestsFit

\* It is answered, handled or refused.
LEMMA ReceivedStep ==
  ASSUME BrowserInv, Browser!Received PROVE BrowserInv' /\ ViewsMove
<1>1. ViewsFit /\ TasksFit /\ RequestsFit
  BY DEF BrowserInv
<1>2. /\ toServer # <<>> /\ toServer' = Tail(toServer)
      /\ UNCHANGED <<link, view, now, requests>>
  BY DEF Browser!Received
<1>3. ViewsMove /\ ShownStays
  BY <1>1, <1>2, SameViews DEF ViewsFit
<1>4. link' # "unused"
  <2>1. link # "unused"
    BY <1>2 DEF BrowserInv, NothingBefore
  <2> QED BY <1>2, <2>1
<1>5. PICK r \in Asked : r = Head(toServer) /\ r.id <= requests
  BY <1>1, <1>2, RequestHead
<1>6. requests \in Nat /\ now \in Nat
  BY <1>1 DEF ViewsFit
<1>7. r.id \in Nat \ {0} /\ r.view \in DOMAIN view
  BY DEF Asked
<1>8. CASE Browser!Immediate(r)
  <2>1. toBrowser' = Append(toBrowser, Browser!Answer(r, now))
        /\ UNCHANGED tasks
    BY <1>5, <1>8 DEF Browser!Received
  <2>2. PICK m : m = Browser!Answer(r, now)
    OBVIOUS
  <2>3. /\ m \in Told /\ m.type = "answer" /\ m.id = r.id /\ m.view = r.view
        /\ m.version = now
    BY <1>6, <1>7, <2>2 DEF Told, Browser!Answer
  <2>4. Fits(r.id, r.view, m.version)'
    BY <1>1, <1>2, <1>5, <1>6, <1>7, <2>3 DEF Fits, ViewsFit
  <2>5. toBrowser' = Append(toBrowser, m)
    BY <2>1, <2>2
  <2>6. MessageFits(m)' /\ m.version = now'
    BY <1>2, <2>3, <2>4 DEF MessageFits
  <2>7. AnswersMove
    BY <2>3, <2>5, <2>6 DEF AnswersMove
  <2> QED BY <1>1, <1>2, <1>3, <1>4, <2>1, <2>7, StepKeeps, OldTasks
             DEF ShownStays
<1>9. CASE ~Browser!Immediate(r)
  <2> DEFINE t == [request |-> r, seen |-> Browser!Nothing]
  <2>1. tasks' = tasks \cup {t} /\ UNCHANGED toBrowser
    BY <1>5, <1>9 DEF Browser!Received
  <2>2. /\ t \in [request : Asked, seen : Nat] /\ t.seen = 0
        /\ t.request = r
    BY DEF Browser!Nothing
  <2> HIDE DEF t
  <2>3. TaskFits(t)'
    BY <1>2, <1>5, <1>9, <2>2 DEF TaskFits, Browser!Immediate
  <2>4. tasks' \subseteq [request : Asked, seen : Nat]
    BY <1>1, <2>1, <2>2 DEF TasksFit
  <2> QED BY <1>2, <1>3, <1>4, <2>1, <2>3, <2>4, StepKeeps
             DEF AnswersMove, ShownStays
<1> QED BY <1>8, <1>9

\* INVALID_MESSAGE: an error tells of no version.
LEMMA RefusedStep ==
  ASSUME BrowserInv, Browser!Refused PROVE BrowserInv' /\ ViewsMove
<1>1. ViewsFit /\ TasksFit /\ RequestsFit
  BY DEF BrowserInv
<1>2. /\ toServer # <<>> /\ toServer' = Tail(toServer)
      /\ toBrowser' = Append(toBrowser, Browser!Error(Head(toServer)))
      /\ UNCHANGED <<link, tasks, view, now, requests>>
  BY DEF Browser!Refused
<1>3. ViewsMove /\ ShownStays
  BY <1>1, <1>2, SameViews DEF ViewsFit
<1>4. link' # "unused"
  <2>1. link # "unused"
    BY <1>2 DEF BrowserInv, NothingBefore
  <2> QED BY <1>2, <2>1
<1>5. PICK r \in Asked : r = Head(toServer)
  BY <1>1, <1>2, RequestHead
<1> DEFINE m == Browser!Error(r)
<1>6. m \in Told /\ m.type = "error"
  BY DEF Told, Asked, Browser!Error
<1>7. toBrowser' = Append(toBrowser, m)
  BY <1>2, <1>5
<1> HIDE DEF m
<1>8. MessageFits(m)' /\ ~Tells(m)
  BY <1>6 DEF MessageFits, Tells
<1>9. AnswersMove
  BY <1>6, <1>7, <1>8 DEF AnswersMove
<1> QED BY <1>1, <1>2, <1>3, <1>4, <1>9, StepKeeps, OldTasks DEF ShownStays

\* A handler reads, answers or fails.
LEMMA ServesStep ==
  ASSUME BrowserInv, NEW t \in tasks,
         Browser!Reads(t) \/ Browser!Answers(t) \/ Browser!Fails(t)
  PROVE  BrowserInv' /\ ViewsMove
<1>1. ViewsFit /\ TasksFit
  BY DEF BrowserInv
<1>2. UNCHANGED <<link, toServer, view, now, requests>>
  BY DEF Browser!Reads, Browser!Answers, Browser!Fails
<1>3. ViewsMove /\ ShownStays
  BY <1>1, <1>2, SameViews DEF ViewsFit
<1>4. link' # "unused"
  <2>1. link # "unused"
    BY DEF BrowserInv, NothingBefore
  <2> QED BY <1>2, <2>1
<1>5. requests \in Nat /\ now \in Nat
  BY <1>1 DEF ViewsFit
<1>6. PICK r \in Asked, seen \in Nat : t = [request |-> r, seen |-> seen]
  BY <1>1 DEF TasksFit
<1>7. /\ r.id \in Nat \ {0} /\ r.view \in DOMAIN view
      /\ t.request = r /\ t.seen = seen
  BY <1>6 DEF Asked
<1>8. /\ TaskFits(t) /\ r.id <= requests
      /\ r.view = "verification" => r.kind = "run"
  BY <1>1, <1>7 DEF TasksFit, TaskFits
<1>9. view[r.view].shown <= now
  BY <1>1, <1>7 DEF ViewsFit
<1>10. Fits(r.id, r.view, now)'
  BY <1>2, <1>5, <1>8, <1>9 DEF Fits
<1>11. CASE Browser!Reads(t)
  <2>1. PICK u \in [request : Asked, seen : Nat] :
          u = [request |-> r, seen |-> now]
    BY <1>5
  <2>2. tasks' = (tasks \ {t}) \cup {u} /\ UNCHANGED toBrowser
    BY <1>6, <1>11, <2>1 DEF Browser!Reads
  <2>3. u.request = r /\ u.seen = now
    BY <2>1
  <2>4. Fits(u.request.id, u.request.view, u.seen)'
    BY <1>2, <1>10, <2>3 DEF Fits
  <2>5. TaskFits(u)'
    BY <1>2, <1>8, <2>3, <2>4 DEF TaskFits
  <2>6. tasks' \subseteq [request : Asked, seen : Nat]
    BY <1>1, <2>1, <2>2 DEF TasksFit
  <2> QED BY <1>2, <1>3, <1>4, <2>2, <2>5, <2>6, StepKeeps
             DEF AnswersMove, ShownStays
<1>12. CASE Browser!Answers(t)
  <2> DEFINE version == IF r.kind = "run" THEN now ELSE seen
  <2>1. PICK m : m = Browser!Answer(r, version)
    OBVIOUS
  <2>2. tasks' = tasks \ {t} /\ toBrowser' = Append(toBrowser, m)
    BY <1>7, <1>12, <2>1 DEF Browser!Answers
  <2>3. /\ m \in Told /\ m.type = "answer" /\ m.id = r.id /\ m.view = r.view
        /\ m.version = version
    BY <1>5, <1>7, <2>1 DEF Told, Browser!Answer
  <2>4. CASE r.kind = "run"
    <3>1. m.version = now
      BY <2>3, <2>4
    <3>2. Fits(r.id, r.view, m.version)'
      BY <1>2, <1>10, <3>1 DEF Fits
    <3>3. MessageFits(m)' /\ m.version = now'
      BY <1>2, <2>3, <3>1, <3>2 DEF MessageFits
    <3>4. AnswersMove
      BY <2>2, <2>3, <3>3 DEF AnswersMove
    <3> QED BY <1>1, <1>2, <1>3, <1>4, <2>2, <3>4, StepKeeps, OldTasks
               DEF ShownStays
  <2>5. CASE r.kind # "run"
    <3>1. m.version = seen /\ seen # 0
      BY <1>7, <1>12, <2>3, <2>5 DEF Browser!Answers, Browser!Nothing
    <3>2. Fits(r.id, r.view, m.version)
      BY <1>7, <1>8, <3>1 DEF TaskFits
    <3>3. Fits(r.id, r.view, m.version)'
      BY <1>2, <3>2 DEF Fits
    <3>4. MessageFits(m)'
      BY <2>3, <3>3 DEF MessageFits
    <3>5. ~Tells(m)
      BY <1>8, <2>3, <2>5 DEF Tells
    <3>6. AnswersMove
      BY <2>2, <2>3, <3>4, <3>5 DEF AnswersMove
    <3> QED BY <1>1, <1>2, <1>3, <1>4, <2>2, <3>6, StepKeeps, OldTasks
               DEF ShownStays
  <2> QED BY <2>4, <2>5
<1>13. CASE Browser!Fails(t)
  <2> DEFINE m == Browser!Error(r)
  <2>1. m \in Told /\ m.type = "error"
    BY <1>7 DEF Told, Browser!Error
  <2>2. tasks' = tasks \ {t} /\ toBrowser' = Append(toBrowser, m)
    BY <1>7, <1>13 DEF Browser!Fails
  <2> HIDE DEF m
  <2>3. AnswersMove
    BY <2>1, <2>2 DEF AnswersMove, MessageFits, Tells
  <2> QED BY <1>1, <1>2, <1>3, <1>4, <2>2, <2>3, StepKeeps, OldTasks
             DEF ShownStays
<1> QED BY <1>11, <1>12, <1>13

\* What is observed changes; of a verification every browser is told.
LEMMA ChangesStep ==
  ASSUME BrowserInv, Browser!VerificationChanges \/ Browser!WorldChanges
  PROVE  BrowserInv' /\ ViewsMove
<1>1. ViewsFit /\ TasksFit
  BY DEF BrowserInv
<1>2. /\ UNCHANGED <<link, toServer, tasks, view, requests>>
      /\ now' = now + 1
  BY DEF Browser!VerificationChanges, Browser!WorldChanges, Browser!messages
<1>3. now' \in Nat /\ now <= now'
  BY <1>1, <1>2 DEF ViewsFit
<1>4. ViewsMove /\ ShownStays
  BY <1>1, <1>2, <1>3, SameViews
<1>5. CASE UNCHANGED toBrowser
  BY <1>1, <1>2, <1>4, <1>5, StepKeeps, OldTasks DEF AnswersMove, ShownStays
<1>6. CASE Browser!VerificationChanges /\ link \in {"open", "closing"}
  <2>1. PICK m : m = [type |-> "update", view |-> "verification",
                      version |-> now']
    OBVIOUS
  <2>2. /\ "verification" \in DOMAIN view
        /\ toBrowser' = Append(toBrowser, m) /\ link' # "unused"
    BY <1>2, <1>6, <2>1 DEF Browser!VerificationChanges, Browser!Views
  <2>3. m \in Told /\ m.type = "update" /\ m.version = now'
    BY <1>3, <2>1, <2>2 DEF Told
  <2>4. MessageFits(m)'
    BY <2>3 DEF MessageFits
  <2>5. AnswersMove
    BY <2>2, <2>3, <2>4 DEF AnswersMove
  <2> QED BY <1>1, <1>2, <1>4, <2>2, <2>5, StepKeeps, OldTasks DEF ShownStays
<1> QED BY <1>5, <1>6 DEF Browser!VerificationChanges, Browser!WorldChanges,
                          Browser!messages

\* A view takes a version that is not older than what it shows, or goes on
\* showing what it shows.
LEMMA TakesStep ==
  ASSUME BrowserInv, UNCHANGED <<link, toServer, tasks, now, requests>>,
         toBrowser # <<>>, toBrowser' = Tail(toBrowser),
         NEW v \in DOMAIN view, NEW version \in Nat,
         view' = [view EXCEPT ![v] = Browser!Shows(v, version)],
         version <= now, version # 0 => version >= view[v].shown,
         v = "verification" =>
           \/ version \in {0, view[v].shown}
           \/ Tells(Head(toBrowser)) /\ Head(toBrowser).version = version
  PROVE  BrowserInv' /\ ViewsMove
<1>1. ViewsFit /\ TasksFit
  BY DEF BrowserInv
<1>2. /\ ViewsMove /\ view'[v].shown = version
      /\ \A w \in DOMAIN view : w # v => view'[w] = view[w]
  BY <1>1, ShowsMoves
<1>3. link' # "unused"
  <2>1. link # "unused"
    BY DEF BrowserInv, NothingBefore
  <2> QED BY <2>1
<1>4. \/ "verification" \notin DOMAIN view
      \/ view'["verification"].shown \in {0, view["verification"].shown}
      \/ /\ toBrowser # <<>> /\ toBrowser' = Tail(toBrowser)
         /\ Tells(Head(toBrowser))
         /\ view'["verification"].shown = Head(toBrowser).version
  BY <1>2
<1>5. AnswersMove
  BY DEF AnswersMove
<1> QED BY <1>1, <1>2, <1>3, <1>4, <1>5, StepKeeps, OldTasks

\* A message that no view waits for changes no view.
LEMMA NothingTaken ==
  ASSUME BrowserInv, UNCHANGED <<link, toServer, tasks, now, requests, view>>,
         toBrowser # <<>>, toBrowser' = Tail(toBrowser)
  PROVE  BrowserInv' /\ ViewsMove
<1>1. ViewsFit /\ TasksFit
  BY DEF BrowserInv
<1>2. ViewsMove /\ ShownStays
  BY <1>1, SameViews DEF ViewsFit
<1>3. link' # "unused"
  <2>1. link # "unused"
    BY DEF BrowserInv, NothingBefore
  <2> QED BY <2>1
<1>4. AnswersMove
  BY DEF AnswersMove
<1> QED BY <1>1, <1>2, <1>3, <1>4, StepKeeps, OldTasks DEF ShownStays

\* A message arrives at the browser.
LEMMA DeliveredStep ==
  ASSUME BrowserInv, Browser!Delivered PROVE BrowserInv' /\ ViewsMove
<1>1. ViewsFit /\ AnswersFit /\ VerificationInOrder
  BY DEF BrowserInv
<1>2. /\ toBrowser # <<>> /\ toBrowser' = Tail(toBrowser)
      /\ UNCHANGED <<link, toServer, tasks, now, requests>>
  BY DEF Browser!Delivered
<1>3. /\ 1 \in 1 .. Len(toBrowser) /\ Head(toBrowser) = toBrowser[1]
      /\ Head(toBrowser) \in Told
  BY <1>1, <1>2 DEF AnswersFit
<1>4. PICK m \in Told : m = Head(toBrowser)
  BY <1>3
<1>5. /\ m.type = "answer" => Fits(m.id, m.view, m.version)
      /\ Tells(m) => /\ view["verification"].shown <= m.version
                     /\ m.version <= now
  BY <1>1, <1>3, <1>4 DEF AnswersFit, VerificationInOrder
<1>6. /\ requests \in Nat /\ now \in Nat /\ view \in [DOMAIN view -> ViewStates]
  BY <1>1 DEF ViewsFit
<1>7. view' = CASE m.type = "answer" -> Browser!Accept(m)
                [] m.type = "update" -> Browser!AcceptUpdate(m)
                [] m.type = "error"  -> Browser!Reject(m)
  BY <1>4 DEF Browser!Delivered
<1>8. CASE view' = view
  BY <1>2, <1>8, NothingTaken
<1>9. CASE m.type = "answer" /\ view' # view
  <2>1. /\ view[m.view].pending = m.id
        /\ view' = [view EXCEPT ![m.view] = Browser!Shows(m.view, m.version)]
    BY <1>7, <1>9 DEF Browser!Accept, Browser!Accepts
  <2>2. m.view \in DOMAIN view /\ m.version \in Nat
    BY <1>9 DEF Told
  <2>3. m.version <= now /\ view[m.view].shown <= m.version
    BY <1>5, <1>9, <2>1 DEF Fits
  <2>4. m.version >= view[m.view].shown
    <3>1. view[m.view].shown \in Nat
      BY <1>6, <2>2 DEF ViewStates
    <3> QED BY <2>2, <2>3, <3>1
  <2>5. m.view = "verification" => Tells(Head(toBrowser))
    BY <1>4, <1>9 DEF Tells
  <2> QED BY <1>2, <1>4, <2>1, <2>2, <2>3, <2>4, <2>5, TakesStep
<1>10. CASE m.type = "update" /\ view' # view
  <2>1. view' = [view EXCEPT ![m.view] = Browser!Shows(m.view, m.version)]
    BY <1>7, <1>10 DEF Browser!AcceptUpdate
  <2>2. /\ m.view = "verification" /\ m.view \in DOMAIN view
        /\ m.version \in Nat
    BY <1>10 DEF Told
  <2>3. Tells(m)
    BY <1>10, <2>2 DEF Tells
  <2>4. m.version <= now /\ m.version >= view[m.view].shown
    <3>1. view[m.view].shown \in Nat
      BY <1>6, <2>2 DEF ViewStates
    <3> QED BY <1>5, <2>2, <2>3, <3>1
  <2> QED BY <1>2, <1>4, <2>1, <2>2, <2>3, <2>4, TakesStep
<1>11. CASE m.type = "error" /\ view' # view
  <2>1. view' = [view EXCEPT ![m.view] =
                   Browser!Shows(m.view, view[m.view].shown)]
    BY <1>7, <1>11 DEF Browser!Reject
  <2>2. m.view \in DOMAIN view
    BY <1>11 DEF Told
  <2>3. PICK n \in Nat : n = view[m.view].shown
    BY <1>6, <2>2 DEF ViewStates
  <2>4. n <= now /\ n >= view[m.view].shown
    BY <1>1, <2>2, <2>3 DEF ViewsFit
  <2>5. view' = [view EXCEPT ![m.view] = Browser!Shows(m.view, n)]
    BY <2>1, <2>3
  <2> QED BY <1>2, <2>2, <2>3, <2>4, <2>5, TakesStep
<1> QED BY <1>8, <1>9, <1>10, <1>11 DEF Told

\* Every step keeps the invariant, and no view goes back, ...
LEMMA BrowserStep ==
  ASSUME BrowserInv, Browser!ClientNext
  PROVE  BrowserInv' /\ (ViewsMove \/ DOMAIN view = {})
<1>1. ASSUME NEW S, Browser!Starts(S)
      PROVE  BrowserInv' /\ DOMAIN view = {}
  <2>1. view = <<>>
    BY <1>1 DEF BrowserInv, NothingBefore, Browser!Starts
  <2> QED BY <1>1, <2>1, StartsStep
<1>2. ASSUME NEW i, Browser!Serves(i) PROVE BrowserInv' /\ ViewsMove
  BY <1>2, ServesStep DEF Browser!Serves
<1> QED BY <1>1, <1>2, ConnectsStep, LinkStep, ClosedStep, AskStep,
           CloseDiffStep, ReceivedStep, RefusedStep, DeliveredStep,
           ChangesStep
        DEF Browser!ClientNext

\* ... and a step of another service changes nothing of it.
LEMMA BrowserUnchanged ==
  ASSUME BrowserInv, UNCHANGED clientVars PROVE BrowserInv'
BY DEF clientVars, BrowserInv, NothingBefore, ViewsFit, RequestsFit, Asked,
       TasksFit, TaskFits, Fits, AnswersFit, Told, VerificationInOrder

\* So the invariant holds in every state.
LEMMA BrowserInvariance == ServicesSpec => []BrowserInv
<1>1. ServicesInit => BrowserInv
  BY BrowserStarts DEF ServicesInit
<1>2. BrowserInv /\ [ServicesNext]_allVars => BrowserInv'
  BY BrowserStep, BrowserUnchanged
     DEF ServicesNext, ConfigMoves, ClaudeMoves, CodexMoves, BrowserMoves,
         QueueMoves, allVars
<1> QED BY <1>1, <1>2, PTL DEF ServicesSpec

\* No view of a browser goes back to an older observation, whatever order the
\* answers come in and over however many connections.
THEOREM ViewsGoOn == ServicesSpec => ViewsNeverGoBack
<1>1. ASSUME BrowserInv, [ServicesNext]_allVars
      PROVE  \/ UNCHANGED clientVars
             \/ \A v \in DOMAIN view :
                  view'[v].shown # 0 => view'[v].shown >= view[v].shown
  BY <1>1, BrowserStep
     DEF ServicesNext, ConfigMoves, ClaudeMoves, CodexMoves, BrowserMoves,
         QueueMoves, allVars, ViewsMove, ViewMoves
<1> QED BY <1>1, BrowserInvariance, PTL
        DEF ServicesSpec, ViewsNeverGoBack, Browser!ViewsNeverGoBack,
            Browser!Views, Browser!Nothing, Browser!clientVars, clientVars
=============================================================================
