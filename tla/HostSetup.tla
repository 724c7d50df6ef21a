----------------------------- MODULE HostSetup -----------------------------
(***************************************************************************)
(* Remote access to the Meta session: the setup that enables Tailscale     *)
(* Serve, stores its document and changes the running configuration, and   *)
(* the attachment of the configured Meta tmux session that it, the start   *)
(* and every session.list request ask for.                                 *)
(*                                                                         *)
(* The document is the name of the tmux session it configures.  Values of  *)
(* the environment override it at the start; what a setup changes in the   *)
(* running configuration overrides both until the next start.  An          *)
(* environment that the server refuses to start with is left out.          *)
(***************************************************************************)
EXTENDS Naturals, FiniteSets

CONSTANTS
  Requests,    \* requests for setup or for the list of sessions
  Names,       \* names of tmux sessions
  NoName,
  Environments,  \* what the variables of the environment set, see below
  MaxClients     \* bound: tmux clients made

VARIABLES
  serve,        \* the host's Serve mapping: "off", "pacium" or "other"
  document,     \* host-setup.json
  environment,  \* the environment this process was started with
  metaName,     \* config.metaTmuxSessionName
  remote,       \* config.tailscaleServe: "off", "setup" as the document or
                \* a setup has it, or the origin the environment names
  request,      \* the requests under way
  applying,     \* applyInFlight
  attaching,    \* metaAttachInFlight
  metaSession,  \* the client that is Meta, or none
  tmuxClients   \* clients of tmux targets: what each is attached to

setupVars ==
  <<serve, document, environment, metaName, remote, request, applying,
    attaching, metaSession, tmuxClients>>

\* Whether it sets tmux, and the Meta session it names then; a Tailscale
\* origin, the node's own or another one; and no other port.
AllEnvironments ==
  [tmux : BOOLEAN, meta : Names \cup {NoName},
   serve : {"unset", "own", "other"}, defaultPort : BOOLEAN]

\* The configuration a server starts with.
MetaAtStart(e, d) == IF e.tmux THEN e.meta ELSE d

RemoteAtStart(e, d) ==
  IF e.serve # "unset" THEN e.serve
  ELSE IF d # NoName /\ e.defaultPort THEN "setup" ELSE "off"

NoRequest == [stage |-> "none"]
At(stage, name) == [stage |-> stage, name |-> name]
Nobody == "nobody"
NoMeta == 0  \* unconfigured or unavailable
ClientIds == 1..MaxClients
NoClient == [state |-> "none", name |-> NoName, meta |-> FALSE]

SetupInit ==
  /\ serve = "off" /\ document = NoName
  /\ environment \in Environments
  /\ metaName = MetaAtStart(environment, document)
  /\ remote = RemoteAtStart(environment, document)
  /\ request = [r \in Requests |-> NoRequest]
  /\ applying = Nobody /\ attaching = Nobody
  /\ metaSession = NoMeta
  /\ tmuxClients = [k \in ClientIds |-> NoClient]

host == <<serve, document, environment>>
config == <<metaName, remote>>
meta == <<attaching, metaSession, tmuxClients>>

-----------------------------------------------------------------------------
(* attachConfiguredMetaTmux()                                              *)

\* metaSessionCapability(): the client must be live still.
MetaReady ==
  metaSession # NoMeta /\ tmuxClients[metaSession].state = "live"

\* An operation ends for all who joined it, a setup with its attachment.
Answer(done) ==
  LET ends == applying \in done
  IN /\ applying' = IF ends THEN Nobody ELSE applying
     /\ request' = [q \in Requests |->
          IF q \in done \/ (ends /\ request[q].stage = "joins apply")
            THEN NoRequest ELSE request[q]]

\* Faulty variant: every caller attaches a client of its own.
AlwaysAttaches == TRUE

MayAttach == attaching = Nobody

\* The request's next step once it asks for the session of that name.
AskMeta(r, name) ==
  \/ /\ name = NoName
     /\ metaSession' = NoMeta
     /\ Answer({r})
     /\ UNCHANGED <<attaching, tmuxClients>>
  \/ /\ name # NoName /\ MetaReady
     /\ Answer({r})
     /\ UNCHANGED meta
  \/ /\ name # NoName /\ ~MetaReady /\ ~MayAttach
     /\ request' = [request EXCEPT ![r] = At("joins meta", name)]
     /\ UNCHANGED <<meta, applying>>
  \/ /\ name # NoName /\ ~MetaReady /\ MayAttach
     /\ attaching' = r
     /\ request' = [request EXCEPT ![r] = At("discovers", name)]
     /\ UNCHANGED <<metaSession, tmuxClients, applying>>

MetaDone(r) ==
  /\ attaching' = IF attaching = r THEN Nobody ELSE attaching
  /\ Answer({r} \cup {q \in Requests : request[q].stage = "joins meta"})

\* Exactly one session has the name; a live client of it is used as it is.
Discovered(r) ==
  /\ request[r].stage = "discovers"
  /\ LET live == {k \in ClientIds : /\ tmuxClients[k].state = "live"
                                    /\ tmuxClients[k].name = request[r].name}
     IN IF live = {}
          THEN /\ request' = [request EXCEPT ![r].stage = "attaches"]
               /\ UNCHANGED <<meta, applying>>
          ELSE /\ metaSession' \in live
               /\ MetaDone(r)
               /\ UNCHANGED tmuxClients
  /\ UNCHANGED <<host, config>>

\* attachTmux() ends: a client, its manifest and its session.
Attached(r) ==
  /\ request[r].stage = "attaches"
  /\ \E k \in ClientIds :
       /\ tmuxClients[k] = NoClient
       /\ tmuxClients' = [tmuxClients EXCEPT ![k] =
            [state |-> "live", name |-> request[r].name, meta |-> TRUE]]
       /\ metaSession' = k
  /\ MetaDone(r)
  /\ UNCHANGED <<host, config>>

\* tmux is unconfigured or does not answer, the name is not there or twice,
\* the client cannot start.
MetaFails(r) ==
  /\ request[r].stage \in {"discovers", "attaches"}
  /\ metaSession' = NoMeta
  /\ MetaDone(r)
  /\ UNCHANGED <<host, config, tmuxClients>>

-----------------------------------------------------------------------------
(* session.list, and the clients of tmux.                                  *)

ListSessions(r) ==
  /\ request[r] = NoRequest
  /\ AskMeta(r, metaName)
  /\ UNCHANGED <<host, config>>

\* The operator attaches a client by hand: nothing is shared with Meta.
UserAttaches(n) ==
  /\ \E k \in ClientIds :
       /\ tmuxClients[k] = NoClient
       /\ tmuxClients' = [tmuxClients EXCEPT ![k] =
            [state |-> "live", name |-> n, meta |-> FALSE]]
  /\ UNCHANGED <<host, config, request, applying, attaching, metaSession>>

CloseClient(k) ==
  /\ tmuxClients[k].state = "live"
  /\ tmuxClients' = [tmuxClients EXCEPT ![k].state = "closing"]
  /\ UNCHANGED <<host, config, request, applying, attaching, metaSession>>

ClientEnds(k) ==
  /\ tmuxClients[k].state \in {"live", "closing"}
  /\ tmuxClients' = [tmuxClients EXCEPT ![k].state = "ended"]
  /\ UNCHANGED <<host, config, request, applying, attaching, metaSession>>

-----------------------------------------------------------------------------
(* apply() and applyOnce()                                                 *)

\* Faulty variant: every request applies its own choice.
AlwaysApplies == TRUE

MayApply == applying = Nobody

\* The running server grants the origin of the document.
Configured == document # NoName /\ remote \in {"setup", "own"}

\* A request that comes during another joins it, whatever it chose.
Apply(r, n) ==
  /\ request[r] = NoRequest
  /\ IF MayApply
       THEN /\ applying' = r
            /\ request' = [request EXCEPT ![r] = At("inspects", n)]
       ELSE /\ request' = [request EXCEPT ![r] = At("joins apply", n)]
            /\ UNCHANGED applying
  /\ UNCHANGED <<host, config, meta>>

\* configured, or refused: another port, another mapping, no identity, no such
\* session
Inspected(r) ==
  /\ request[r].stage = "inspects"
  /\ \/ ~Configured /\ environment.defaultPort /\ serve = "off"
        /\ request' = [request EXCEPT ![r].stage = "serves"]
        /\ UNCHANGED applying
     \/ Answer({r})
  /\ UNCHANGED <<host, config, meta>>

ServeEnabled(r) ==
  /\ request[r].stage = "serves"
  /\ serve' = "pacium"
  /\ request' = [request EXCEPT ![r].stage = "stores"]
  /\ UNCHANGED <<document, environment, config, applying, meta>>

\* approval_required or failed; a command that timed out may have worked.
ServeFails(r) ==
  /\ request[r].stage = "serves"
  /\ serve' \in {serve, "pacium"}
  /\ Answer({r})
  /\ UNCHANGED <<document, environment, config, meta>>

Stored(r) ==
  /\ request[r].stage = "stores"
  /\ document' = request[r].name
  /\ request' = [request EXCEPT ![r].stage = "stored"]
  /\ UNCHANGED <<serve, environment, config, applying, meta>>

\* Not written, or written and not synced.
NotStored(r) ==
  /\ request[r].stage = "stores"
  /\ document' \in {document, request[r].name}
  /\ request' = [request EXCEPT ![r].stage = "rolls back"]
  /\ UNCHANGED <<serve, environment, config, applying, meta>>

\* failed, or unknown when Serve cannot be disabled
RolledBack(r) ==
  /\ request[r].stage = "rolls back"
  /\ serve' \in {"off", serve}
  /\ Answer({r})
  /\ UNCHANGED <<document, environment, config, meta>>

\* The running server takes the setup over, and attaches to Meta.
Adopted(r) ==
  /\ request[r].stage = "stored"
  /\ metaName' = request[r].name
  /\ remote' = "setup"
  /\ AskMeta(r, request[r].name)
  /\ UNCHANGED host

\* Somebody changes Serve by hand.
ServeChanges ==
  /\ serve' \in {"off", "other"} \ {serve}
  /\ UNCHANGED <<document, environment, config, request, applying, meta>>

\* The server restarts with what its environment sets and what is stored.
Restart ==
  /\ environment' \in Environments
  /\ metaName' = MetaAtStart(environment', document)
  /\ remote' = RemoteAtStart(environment', document)
  /\ request' = [r \in Requests |-> NoRequest]
  /\ applying' = Nobody /\ attaching' = Nobody
  /\ metaSession' = NoMeta
  /\ tmuxClients' = [k \in ClientIds |->
       IF tmuxClients[k] = NoClient THEN NoClient
       ELSE [tmuxClients[k] EXCEPT !.state = "ended"]]
  /\ UNCHANGED <<serve, document>>

SetupNext ==
  \/ ServeChanges \/ Restart
  \/ \E n \in Names : UserAttaches(n)
  \/ \E k \in ClientIds : CloseClient(k) \/ ClientEnds(k)
  \/ \E r \in Requests :
       \/ ListSessions(r) \/ Discovered(r) \/ Attached(r) \/ MetaFails(r)
       \/ Inspected(r) \/ ServeEnabled(r) \/ ServeFails(r)
       \/ Stored(r) \/ NotStored(r) \/ RolledBack(r)
       \/ Adopted(r)
       \/ \E n \in Names : Apply(r, n)

-----------------------------------------------------------------------------
\* However the start, the lists and the setup overlap, Pacium attaches one
\* client to Meta and no second one beside it.
OneMetaClient ==
  \A k, l \in ClientIds :
    /\ tmuxClients[k].meta /\ tmuxClients[k].state = "live"
    /\ tmuxClients[l].meta /\ tmuxClients[l].state = "live"
    => k = l

\* Remote access that the running server grants is what the environment of
\* its process grants, or is recorded: then a restart that the environment
\* leaves alone grants it again, for the same Meta session, and at no moment do
\* the setups of two browsers leave a mixture.  The exceptions are what the
\* environment overrides: an origin it names needs no record, and the session
\* it names stays Meta although another one is recorded.
RemoteIsRecorded ==
  /\ remote = "setup" =>
       /\ document # NoName
       /\ metaName # document => environment.tmux /\ metaName = environment.meta
  /\ remote \in {"own", "other"} => remote = environment.serve
=============================================================================
