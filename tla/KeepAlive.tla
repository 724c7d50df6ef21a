----------------------------- MODULE KeepAlive -----------------------------
(***************************************************************************)
(* Keep-alive terminals: tmux sessions that outlive the server, the        *)
(* catalog of manifests that finds them again, and their restoration when  *)
(* the server starts.                                                      *)
(*                                                                         *)
(* A session of tmux is the launch that made it; tmux numbers its sessions *)
(* from the first again when it restarts.  The number of a create() is its *)
(* createdAt, the identity of its session and that of its manifest.  The   *)
(* resume reference that a manifest may get later is left out: it changes  *)
(* neither its target nor its place.                                       *)
(***************************************************************************)
EXTENDS Naturals, Sequences, SequencesExt, FiniteSets

CONSTANTS
  Launches,      \* the create() calls that may be under way together
  MaxManifests,  \* MAX_RELAUNCH_MANIFESTS
  MaxRestored,   \* MAX_STARTUP_TMUX_REATTACHMENTS
  MaxCreated,    \* bound: calls of create()
  MaxTmux        \* bound: sessions of one tmux server

VARIABLES
  tmux,       \* the session at each tmux id
  catalog,    \* the manifests in memory
  stored,     \* and in the file
  server,     \* "down", "restoring" or "listening"
  toRestore,  \* the manifests still to be restored at start-up
  launch,     \* the create() calls under way
  clients,    \* the attached client processes
  created,    \* the calls of create() so far
  unsure      \* history: sessions whose write failed after the rename

keepVars ==
  <<tmux, catalog, stored, server, toRestore, launch, clients, created, unsure>>

NoTarget == 0      \* a direct terminal has none
Ended == 0         \* the session of a tmux id is gone
Foreign == 100     \* a session that Pacium did not make
NoLaunch == [stage |-> "none"]

KeepInit ==
  /\ tmux = <<>> /\ catalog = <<>> /\ stored = <<>>
  /\ server = "down" /\ toRestore = <<>>
  /\ launch = [c \in Launches |-> NoLaunch]
  /\ clients = {} /\ created = 0 /\ unsure = {}

-----------------------------------------------------------------------------
(* The catalog.                                                            *)

\* RelaunchManifestStateSchema: a document that violates it is not written,
\* and a file that does stops the start.
ValidCatalog(s) ==
  /\ Len(s) <= MaxManifests
  /\ \A i, j \in DOMAIN s : i < j => s[i].session > s[j].session

\* The manifests of a set, the newest first.
NewestFirst(S) ==
  [n \in 1..Cardinality(S) |->
     CHOOSE m \in S : Cardinality({k \in S : k.session > m.session}) = n - 1]

First(n, s) == SubSeq(s, 1, IF Len(s) < n THEN Len(s) ELSE n)

\* The manifest replaces that of its session, and may drop the oldest.
Upserted(m) ==
  First(MaxManifests, NewestFirst(
    {m} \cup {n \in Range(catalog) : n.session # m.session}))

Manifest(l) ==
  [session |-> l.session, target |-> l.target, name |-> l.name,
   keep |-> l.keep]

\* What create() of launch l writes becomes the catalog, in the file and in
\* memory.
UpsertOk(l) ==
  /\ ValidCatalog(l.next)
  /\ catalog' = l.next /\ stored' = l.next
  /\ UNCHANGED unsure

\* The document is refused or cannot be written; or it is, but the directory
\* cannot be synced: the memory stays behind the file.
UpsertFails(l) ==
  /\ \/ UNCHANGED <<stored, unsure>>
     \/ /\ ValidCatalog(l.next)
        /\ stored' = l.next
        /\ unsure' = unsure \cup {l.session}
  /\ UNCHANGED catalog

-----------------------------------------------------------------------------
(* tmux                                                                    *)

Alive(i) == i \in DOMAIN tmux /\ tmux[i] # Ended

ForeignSession ==
  /\ Len(tmux) < MaxTmux
  /\ tmux' = Append(tmux, Foreign)
  /\ UNCHANGED <<catalog, stored, server, toRestore, launch, clients,
                 created, unsure>>

\* The program of a session ends, and with it the clients of the session.
TmuxEnds(i) ==
  /\ Alive(i)
  /\ tmux' = [tmux EXCEPT ![i] = Ended]
  /\ clients' = {k \in clients : k.target # i}
  /\ UNCHANGED <<catalog, stored, server, toRestore, launch, created, unsure>>

TmuxRestarts ==
  /\ tmux # <<>>
  /\ tmux' = <<>>
  /\ clients' = {k \in clients : k.target = NoTarget}
  /\ UNCHANGED <<catalog, stored, server, toRestore, launch, created, unsure>>

-----------------------------------------------------------------------------
(* create(): a target, a manifest and a client.                            *)

Begins(c, target, name, keep, was) ==
  /\ created' = created + 1
  /\ launch' = [launch EXCEPT ![c] =
       [stage |-> "target", session |-> created', target |-> target,
        name |-> name, keep |-> keep, was |-> was, next |-> <<>>]]

Ready(c) ==
  server = "listening" /\ launch[c] = NoLaunch /\ created < MaxCreated

\* new-session answers, or times out and its target is found by its name.
LaunchKeepAlive(c) ==
  /\ Ready(c) /\ Len(tmux) < MaxTmux
  /\ tmux' = Append(tmux, created + 1)
  /\ Begins(c, Len(tmux'), created + 1, TRUE, 0)
  /\ UNCHANGED <<catalog, stored, server, toRestore, clients, unsure>>

\* The launch timed out and discovery fails too: the target runs on.
LaunchLost(c) ==
  /\ Ready(c) /\ Len(tmux) < MaxTmux
  /\ created' = created + 1
  /\ tmux' = Append(tmux, created')
  /\ UNCHANGED <<catalog, stored, server, toRestore, launch, clients, unsure>>

CreateDirect(c) ==
  /\ Ready(c)
  /\ Begins(c, NoTarget, 0, FALSE, 0)
  /\ UNCHANGED <<tmux, catalog, stored, server, toRestore, clients, unsure>>

\* attachTmux(), of a target the browser chose
Attach(c, i) ==
  /\ Ready(c) /\ Alive(i)
  /\ Begins(c, i, tmux[i], FALSE, 0)
  /\ UNCHANGED <<tmux, catalog, stored, server, toRestore, clients, unsure>>

\* reattachKeepAliveManifest(): the session with the manifest's tmux id.
Reattach(c, m) == Alive(m.target) /\ Begins(c, m.target, tmux[m.target],
                                            TRUE, m.name)

\* relaunch()
Relaunch(c, m) ==
  /\ Ready(c)
  /\ \/ m.keep /\ Reattach(c, m)
     \/ /\ ~m.keep /\ Alive(m.target)
        /\ Begins(c, m.target, tmux[m.target], FALSE, m.name)
     \/ m.target = NoTarget /\ Begins(c, NoTarget, 0, FALSE, 0)
  /\ UNCHANGED <<tmux, catalog, stored, server, toRestore, clients, unsure>>

\* attach-session finds whatever session has the id by now.
Spawned(l) ==
  IF l.target = NoTarget \/ Alive(l.target)
    THEN clients \cup {[session |-> l.session, target |-> l.target,
                        name |-> IF l.target = NoTarget THEN 0
                                 ELSE tmux[l.target],
                        keep |-> l.keep, was |-> l.was]}
    ELSE clients

\* A direct or attached client runs before its manifest is stored.
WriteBegins(c) ==
  /\ launch[c].stage = "target"
  /\ launch' = [launch EXCEPT ![c].stage = "writing",
                             ![c].next = Upserted(Manifest(launch[c]))]
  /\ clients' = IF launch[c].keep THEN clients ELSE Spawned(launch[c])
  /\ UNCHANGED <<tmux, catalog, stored, server, toRestore, created, unsure>>

\* Faulty variant: the writes do not wait for each other.
StoreBeginsAtOnce(c) == WriteBegins(c)

\* upsert() reads the catalog once the writes before it have ended.
StoreBegins(c) ==
  /\ \A d \in Launches : launch[d].stage # "writing"
  /\ WriteBegins(c)

\* A keep-alive client starts only now; the others are complete.
StoreManifest(c) ==
  /\ launch[c].stage = "writing"
  /\ UpsertOk(launch[c])
  /\ launch' = IF launch[c].keep THEN [launch EXCEPT ![c].stage = "stored"]
                                 ELSE [launch EXCEPT ![c] = NoLaunch]
  /\ UNCHANGED <<tmux, server, toRestore, clients, created>>

StartClient(c) ==
  /\ launch[c].stage = "stored"
  /\ clients' = Spawned(launch[c])
  /\ launch' = [launch EXCEPT ![c] = NoLaunch]
  /\ UNCHANGED <<tmux, catalog, stored, server, toRestore, created, unsure>>

\* Faulty variant: a file that was replaced passes for a stored manifest.
StoreFailsUnlessReplaced(c) ==
  /\ launch[c].stage = "writing"
  /\ UpsertFails(launch[c])
  /\ launch' = IF launch[c].keep /\ stored' # stored
                 THEN [launch EXCEPT ![c].stage = "stored"]
                 ELSE [launch EXCEPT ![c] = NoLaunch]
  /\ clients' = {k \in clients : k.session # launch[c].session}
  /\ UNCHANGED <<tmux, server, toRestore, created>>

\* TMUX_MANIFEST_WRITE_FAILED, or RELAUNCH_MANIFEST_WRITE_FAILED: the client
\* that runs already is told to end.
StoreFails(c) ==
  /\ launch[c].stage = "writing"
  /\ UpsertFails(launch[c])
  /\ launch' = [launch EXCEPT ![c] = NoLaunch]
  /\ clients' = {k \in clients : k.session # launch[c].session}
  /\ UNCHANGED <<tmux, server, toRestore, created>>

\* TMUX_CLIENT_SPAWN_FAILED
SpawnFails(c) ==
  /\ launch[c].stage = "stored"
  /\ launch' = [launch EXCEPT ![c] = NoLaunch]
  /\ UNCHANGED <<tmux, catalog, stored, server, toRestore, clients, created,
                 unsure>>

-----------------------------------------------------------------------------
(* The server stops and starts.                                            *)

\* The clients end with the server, the sessions of tmux do not.
Stop ==
  /\ server # "down"
  /\ server' = "down" /\ toRestore' = <<>> /\ clients' = {}
  /\ launch' = [c \in Launches |-> NoLaunch]
  /\ UNCHANGED <<tmux, catalog, stored, created, unsure>>

KeptAlive(s) == {m \in Range(s) : m.keep}

\* Faulty variant: every manifest of a target.
SelectedAll(s) == NewestFirst(KeptAlive(s))

\* The newest manifest of each target.
Selected(s) == NewestFirst(
  {m \in KeptAlive(s) :
     \A n \in KeptAlive(s) : n.target = m.target => n.session <= m.session})

Start ==
  /\ server = "down"
  /\ ValidCatalog(stored)
  /\ catalog' = stored /\ unsure' = {}
  /\ toRestore' = First(MaxRestored, Selected(stored))
  /\ server' = "restoring"
  /\ UNCHANGED <<tmux, stored, launch, clients, created>>

Quiet == \A c \in Launches : launch[c] = NoLaunch

\* One after the other, each a create() of its own.
Restore(c) ==
  /\ server = "restoring" /\ Quiet /\ toRestore # <<>>
  /\ created < MaxCreated
  /\ Reattach(c, Head(toRestore))
  /\ toRestore' = Tail(toRestore)
  /\ UNCHANGED <<tmux, catalog, stored, server, clients, unsure>>

\* The target is gone, or cannot be found: its manifest stays.
RestoreUnavailable ==
  /\ server = "restoring" /\ Quiet /\ toRestore # <<>>
  /\ toRestore' = Tail(toRestore)
  /\ UNCHANGED <<tmux, catalog, stored, server, launch, clients,
                 created, unsure>>

Listen ==
  /\ server = "restoring" /\ Quiet /\ toRestore = <<>>
  /\ server' = "listening"
  /\ UNCHANGED <<tmux, catalog, stored, toRestore, launch, clients,
                 created, unsure>>

KeepNext ==
  \/ ForeignSession \/ TmuxRestarts \/ Stop \/ Start
  \/ RestoreUnavailable \/ Listen
  \/ \E i \in DOMAIN tmux : TmuxEnds(i)
  \/ \E c \in Launches :
       \/ LaunchKeepAlive(c) \/ LaunchLost(c) \/ CreateDirect(c)
       \/ StoreBegins(c) \/ StoreManifest(c) \/ StartClient(c)
       \/ StoreFails(c) \/ SpawnFails(c) \/ Restore(c)
       \/ \E i \in DOMAIN tmux : Attach(c, i)
       \/ \E i \in DOMAIN catalog : Relaunch(c, catalog[i])

KeepSpec == KeepInit /\ [][KeepNext]_keepVars

-----------------------------------------------------------------------------
\* Session k's manifest is in catalog s, or was dropped for newer ones.
Found(k, s) ==
  \/ \E n \in Range(s) :
       n.session = k.session /\ n.target = k.target /\ n.keep = k.keep
  \/ Len(s) = MaxManifests /\ \A n \in Range(s) : n.session > k.session

\* Whatever writes fail, overlap or meet a restart, a manifest leaves the file
\* only for newer ones at the limit, or when its own write was answered as
\* failed although it reached the file.
ManifestsAreKept ==
  [][\A n \in Range(stored) :
       Found(n, stored') \/ n.session \in unsure]_keepVars

\* A keep-alive client runs only while the file holds the manifest by which a
\* restarted server finds its target, unless newer ones fill it.
TargetsRecoverable == \A k \in clients : k.keep => Found(k, stored)

\* A restart attaches one client to each target that it keeps alive, however
\* long the lineage of its manifests.
RestoredOnce ==
  server = "restoring" =>
    \A k, l \in clients : k.target = l.target => k = l

\* What a start restores is the session that was kept alive: the one of
\* which its manifest holds the name.
RestoredIsExact ==
  server = "restoring" => \A k \in clients : k.name = k.was
=============================================================================
