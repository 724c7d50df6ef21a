---------------------------- MODULE CodexRuntime ----------------------------
(***************************************************************************)
(* The observer of a Codex session and the bridge between its terminal     *)
(* client and a private App Server process: each upgraded WebSocket starts *)
(* a child, forwards its frames and lines, observes the lines, and ends    *)
(* with whatever fails first.  One session stands for all.                 *)
(***************************************************************************)
EXTENDS ProviderObservation

CONSTANTS
  CodexInputs,  \* the events the App Server may send
  Bridges       \* the upgrades of the session, in any order

VARIABLES
  codex,    \* the observer's entry for the session
  active,   \* the session's entry in the map of active bridges
  bridge,   \* the closure that start() makes for each upgrade
  crashed   \* an exception reached the event loop

codexVars == <<codex, active, bridge, crashed>>

NoCodex == [claimed |-> "no entry"]
NoBridge == [stage |-> "unused", child |-> "none", timer |-> FALSE]

CodexInit ==
  /\ codex = NoCodex
  /\ active = "none"
  /\ bridge = [b \in Bridges |-> NoBridge]
  /\ crashed = FALSE

Registered == codex # NoCodex

\* The health that markTransportFailure gives, if the session is known still.
Marked(entry, health) ==
  IF entry = NoCodex THEN entry
  ELSE [entry EXCEPT !.observation = Degraded(@, health)]
Unclaimed(entry) ==
  IF entry = NoCodex THEN entry ELSE [entry EXCEPT !.claimed = FALSE]

\* Faulty variant: each listener that fires ends the session's bridge.
EndsAgain(b, entry) ==
  /\ active' = "none"
  /\ codex' = Unclaimed(entry)
  /\ bridge' = [bridge EXCEPT ![b].stage = "finished", ![b].timer = TRUE]

\* finish(): the first reason counts.  The child is sent SIGTERM.
Ends(b, entry) ==
  IF bridge[b].stage # "open"
    THEN UNCHANGED active /\ codex' = codex /\ UNCHANGED bridge
    ELSE /\ active' = "none"
         /\ codex' = Unclaimed(entry)
         /\ bridge' = [bridge EXCEPT ![b].stage = "finished",
                                     ![b].timer = TRUE]

-----------------------------------------------------------------------------
(* The session.                                                            *)

\* Without the capability Codex is launched directly, and not registered.
CodexPrepare ==
  /\ codex = NoCodex /\ \A b \in Bridges : bridge[b] = NoBridge
  /\ codex' = [claimed |-> FALSE, observation |-> NoEvidence,
               fingerprints |-> <<>>]
  /\ UNCHANGED <<active, bridge, crashed>>

\* The process exits, the session is removed or the server shuts down: the
\* bridge is told first.
CodexRelease ==
  /\ Registered
  /\ codex' = NoCodex
  /\ active' = "none"
  /\ bridge' = [b \in Bridges |->
       IF active = b THEN [bridge[b] EXCEPT !.stage = "finished",
                                            !.timer = TRUE]
       ELSE bridge[b]]
  /\ UNCHANGED crashed

-----------------------------------------------------------------------------
(* handleUpgrade() and start()                                             *)

MayClaim(b) ==
  /\ Registered /\ ~codex.claimed
  /\ bridge[b] = NoBridge

\* The child runs and its listeners are in place.
Upgrade(b) ==
  /\ MayClaim(b)
  /\ codex' = [codex EXCEPT !.claimed = TRUE]
  /\ active' = b
  /\ bridge' = [bridge EXCEPT ![b] = [stage |-> "open", child |-> "running",
                                      timer |-> FALSE]]
  /\ UNCHANGED crashed

\* codex.spawn_failed
SpawnFails(b) ==
  /\ MayClaim(b)
  /\ codex' = Marked(codex, "failed")
  /\ bridge' = [bridge EXCEPT ![b].stage = "refused"]
  /\ UNCHANGED <<active, crashed>>

\* The WebSocket library answers the handshake with an error, and calls
\* nobody back: the claim stays.
HandshakeAborts(b) ==
  /\ MayClaim(b)
  /\ codex' = [codex EXCEPT !.claimed = TRUE]
  /\ bridge' = [bridge EXCEPT ![b].stage = "refused"]
  /\ UNCHANGED <<active, crashed>>

-----------------------------------------------------------------------------
(* The listeners of a bridge.                                              *)

Listens(b) == bridge[b].child # "none" /\ ~crashed

\* A frame the client must not send, or its connection breaks.
ClientFails(b) ==
  /\ Listens(b)
  /\ Ends(b, Marked(codex, "degraded"))
  /\ UNCHANGED crashed

\* The client closes its connection with 1000.
ClientCloses(b) ==
  /\ Listens(b)
  /\ Ends(b, codex)
  /\ UNCHANGED crashed

\* Lines the client is too slow for or that are malformed, stdio errors.
ChildFails(b) ==
  /\ Listens(b)
  /\ Ends(b, Marked(codex, "failed"))
  /\ UNCHANGED crashed

Speaks(b) == bridge[b].stage = "open" /\ bridge[b].child = "running"

\* A line is observed: an event without activity and without attention, and
\* an observation that the schema rejects, throw.
Observed(b, e) ==
  LET o == Observe(codex.observation, e, CodexEvent(e))
      seen == Remember(codex.fingerprints, e)
      throws == \/ CodexEvent(e) = Shows("none", "as it was", {})
                \/ ~ValidObservation(o)
  IN /\ Speaks(b) /\ Registered /\ ~crashed
     /\ ~Known(codex.fingerprints, e)
     /\ codex' = [codex EXCEPT !.fingerprints = seen,
                               !.observation = IF throws THEN @ ELSE o]
     /\ crashed' = throws
     /\ UNCHANGED <<active, bridge>>

\* invalid_event: the line is forwarded all the same.
InvalidEvent(b) ==
  /\ Speaks(b) /\ Registered /\ ~crashed
  /\ codex' = Marked(codex, "degraded")
  /\ UNCHANGED <<active, bridge, crashed>>

\* The child exits, by itself or by a signal, and the timer is cleared first.
ChildExits(b) ==
  /\ bridge[b].child = "running" /\ ~crashed
  /\ LET entry == Marked(codex, "failed")
     IN IF bridge[b].stage = "open"
          THEN /\ active' = "none"
               /\ codex' = Unclaimed(entry)
               /\ bridge' = [bridge EXCEPT ![b].stage = "finished",
                               ![b].child = "exited", ![b].timer = TRUE]
          ELSE /\ bridge' = [bridge EXCEPT ![b].child = "exited",
                                           ![b].timer = FALSE]
               /\ UNCHANGED <<active, codex>>
  /\ UNCHANGED crashed

\* Faulty variant: the timer asks a second time.
ForceTimerAsks(b) ==
  /\ bridge[b].timer /\ ~crashed
  /\ bridge' = [bridge EXCEPT ![b].timer = FALSE]
  /\ UNCHANGED <<codex, active, crashed>>

\* SIGKILL, 2 seconds after the SIGTERM.
ForceTimer(b) ==
  /\ bridge[b].timer /\ ~crashed
  /\ bridge' = [bridge EXCEPT ![b].timer = FALSE, ![b].child = "exited"]
  /\ UNCHANGED <<codex, active, crashed>>

BridgeStep(b) ==
  \/ Upgrade(b) \/ SpawnFails(b) \/ HandshakeAborts(b)
  \/ ClientFails(b) \/ ClientCloses(b) \/ ChildFails(b)
  \/ InvalidEvent(b) \/ ChildExits(b) \/ ForceTimer(b)
  \/ \E e \in CodexInputs : Observed(b, e)

CodexNext == CodexPrepare \/ CodexRelease \/ \E b \in Bridges : BridgeStep(b)

\* The timer of the event loop fires.
CodexFairness == \A b \in Bridges : WF_codexVars(ForceTimer(b))

CodexSpec == CodexInit /\ [][CodexNext]_codexVars /\ CodexFairness

-----------------------------------------------------------------------------
\* A session has one App Server at most, and as long as its bridge is open
\* the map knows it, so that a release ends it: what an earlier bridge
\* still hears does not disturb the one that replaced it.
OneRuntime ==
  \A b \in Bridges :
    bridge[b].stage = "open" <=> active = b /\ Registered /\ codex.claimed

\* Once the bridge ended, its process ends, even one that ignores SIGTERM.
EveryChildEnds ==
  \A b \in Bridges :
    bridge[b].stage = "finished"
      ~> bridge[b].child = "exited" \/ crashed

\* An event of a provider never ends the server: the terminals are
\* independent of the observers.
ServerSurvives == ~crashed
=============================================================================
