--------------------------- MODULE QueueObserver ---------------------------
(***************************************************************************)
(* The queue observer and the part of the WebSocket hub that publishes     *)
(* what it observes: sources come and go with configurations, their files  *)
(* are watched and read, reads overlap and are retried, and an observation *)
(* is enriched, which takes time, before clients receive it.               *)
(*                                                                         *)
(* A file is the sequence of what it was: "stable" with new bytes, or      *)
(* "missing".  Its length is its version, which stands for device, inode,  *)
(* size and modification time.  Other degraded states (oversized, invalid, *)
(* unsafe) behave as "stable" does.  Each source has a directory of its    *)
(* own.  A step of the model is a piece of code between two awaits.        *)
(***************************************************************************)
EXTENDS Naturals, Sequences, FiniteSets

CONSTANTS
  Sources,       \* queue sources a configuration may name
  Requests,      \* requests of clients that can be under way at once
  Clients,       \* connected clients
  MaxVersions,   \* bound on the versions of a file
  MaxConfigs,    \* bound on the configurations taken
  MaxStarts      \* bound on the requests started

ASSUME ObserverAssumption ==
  {MaxVersions, MaxConfigs, MaxStarts} \subseteq Nat

MaxAttempts == 3
Kinds == {"stable", "missing"}
NoConfig == 0
NoView == [revision |-> NoConfig, shown |-> <<>>]

VARIABLES
  file,        \* what each file was, up to now
  generation,
  revision,    \* workspaceRevision, or NoConfig
  states,      \* what was observed of each source
  readSequences,
  timers,      \* sources with a debounced read scheduled
  watched,     \* sources whose directory is watched
  events,      \* sources with a watch event on its way
  reads,       \* observeSource() calls that await a read
  aggregate,   \* the snapshot
  request,     \* the place of each request in its handler
  broadcasts,  \* publications that are being enriched
  view,        \* what each client shows
  disposed,
  starts       \* number of requests started

observer == <<generation, revision, states, readSequences, timers, watched,
              events, reads, aggregate, disposed>>
hub  == <<request, broadcasts, view, starts>>
vars == <<file, observer, hub>>

Version(s) == Len(file[s])
Configured == {s \in Sources : states[s].status # "absent"}

Absent  == [status |-> "absent", version |-> 0, generation |-> 0]
\* A source of the new configuration; its generation is history.
Pending == [status |-> "pending", version |-> 0, generation |-> generation + 1]

\* sameQueueEvidence: a missing file has no modification time.
SameEvidence(e, f) ==
  e.status = f.status /\ (e.status = "stable" => e.version = f.version)

Init ==
  /\ file = [s \in Sources |-> <<"stable">>]
  /\ generation = 0 /\ revision = NoConfig
  /\ states = [s \in Sources |-> Absent]
  /\ readSequences = [s \in Sources |-> 0]
  /\ timers = {} /\ watched = {} /\ events = {} /\ reads = {}
  /\ aggregate = [revision |-> NoConfig, shown |-> states]
  /\ request = [r \in Requests |-> [stage |-> "idle"]]
  /\ broadcasts = {}
  /\ view = [c \in Clients |-> NoView]
  /\ disposed = FALSE
  /\ starts = 0

-----------------------------------------------------------------------------
(* Publication.                                                            *)

\* The listener of the hub starts to enrich the observation; it is sent only
\* if it still is the snapshot then.  The snapshot is replaced by every
\* rebuild, whether anything changed or not.
Published(a) == [revision |-> a.revision, shown |-> a.shown, current |-> TRUE]
Outdated == {[b EXCEPT !.current = FALSE] : b \in broadcasts}

Rebuild(st) == aggregate' = [revision |-> revision, shown |-> st]

\* rebuildAggregate(), with publish() if something changed.
RebuildAndPublish(st, changed) ==
  IF revision = NoConfig
    THEN UNCHANGED <<aggregate, broadcasts>>
    ELSE /\ Rebuild(st)
         /\ broadcasts' = Outdated \cup
              IF changed /\ ~disposed THEN {Published(aggregate')} ELSE {}

\* The enrichment has read the configuration and the decisions.
Broadcast(b) ==
  /\ b \in broadcasts
  /\ broadcasts' = broadcasts \ {b}
  /\ IF b.current
       THEN view' = [c \in Clients |->
                      [revision |-> b.revision, shown |-> b.shown]]
       ELSE UNCHANGED view
  /\ UNCHANGED <<file, observer, request, starts>>

-----------------------------------------------------------------------------
(* Reads.                                                                  *)

\* The calls of observeSource() for the sources S, and their sequences.
Reading(S, seqs, gen, by) ==
  {[source |-> s, sequence |-> seqs[s] + 1, generation |-> gen, by |-> by,
    attempt |-> 1, since |-> Version(s)] : s \in S}

Counted(S, seqs) ==
  [s \in Sources |-> IF s \in S THEN seqs[s] + 1 ELSE seqs[s]]

\* readStableQueueFile: the file is inspected, opened, read and inspected
\* again at some time between the beginning of the read and the step that
\* takes its result, so the result is some version of that time, or that the
\* file was changing.
Results(r) ==
  LET s == r.source
      At(v) == [status |-> file[s][v], version |-> v,
                generation |-> r.generation]
  IN {At(v) : v \in r.since .. Version(s)}
       \cup IF Version(s) > r.since
              THEN {[At(Version(s)) EXCEPT !.status = "changing"]} ELSE {}

\* Faulty variant: reads that ended late are taken.
FreshInGeneration(r) == ~disposed /\ r.generation = generation

\* A read whose result is still wanted: of this generation, and the last
\* that was begun for its source.
Fresh(r) ==
  /\ ~disposed
  /\ r.generation = generation
  /\ readSequences[r.source] = r.sequence

\* Faulty variant: reads of an earlier configuration are taken.
TakenBySequence(r, e) ==
  IF readSequences[r.source] = r.sequence /\ states[r.source].status # "absent"
    THEN [states EXCEPT ![r.source] = e] ELSE states

Taken(r, e) ==
  IF Fresh(r) THEN [states EXCEPT ![r.source] = e] ELSE states

Retry(r) ==
  /\ r \in reads
  /\ Version(r.source) > r.since /\ r.attempt < MaxAttempts
  /\ reads' = (reads \ {r}) \cup
       IF Fresh(r)
         THEN {[r EXCEPT !.attempt = @ + 1, !.since = Version(r.source)]}
         ELSE {}
  /\ UNCHANGED <<file, generation, revision, states, readSequences, timers,
                 watched, events, aggregate, disposed, hub>>

\* A read ends.  That of a timer publishes what it changed; that of a
\* refresh leaves it to the refresh.
ReadEnds(r) ==
  /\ r \in reads
  /\ reads' = reads \ {r}
  /\ \E e \in Results(r) :
       /\ e.status = "changing" => r.attempt = MaxAttempts
       /\ states' = Taken(r, e)
       /\ LET changed == Fresh(r) /\ ~SameEvidence(states[r.source], e)
          IN IF r.by = "timer"
               THEN /\ IF changed THEN RebuildAndPublish(states', TRUE)
                                  ELSE UNCHANGED <<aggregate, broadcasts>>
                    /\ UNCHANGED request
               ELSE /\ request' = [request EXCEPT
                          ![r.by].changed = @ \/ changed]
                    /\ UNCHANGED <<aggregate, broadcasts>>
  /\ UNCHANGED <<file, generation, revision, readSequences, timers, watched,
                 events, view, disposed, starts>>

-----------------------------------------------------------------------------
(* Requests: "observe" is answered, "config" only takes a configuration.   *)

Begin(q, place) ==
  /\ request[q].stage = "idle" /\ starts < MaxStarts
  /\ starts' = starts + 1
  /\ request' = [request EXCEPT ![q] = place]

Refreshing(op) == [stage |-> "refreshing", op |-> op, changed |-> FALSE]

\* syncConfig() returned the snapshot a.
Synced(op, a) ==
  IF op = "observe" THEN [stage |-> "answering", answer |-> a]
                    ELSE [stage |-> "idle"]

\* syncConfig() with the configuration that is observed already.
RefreshConfig(q, op) ==
  /\ ~disposed /\ revision # NoConfig
  /\ Begin(q, Refreshing(op))
  /\ reads' = reads \cup Reading(Configured, readSequences, generation, q)
  /\ readSequences' = Counted(Configured, readSequences)
  /\ UNCHANGED <<file, generation, revision, states, timers, watched, events,
                 aggregate, broadcasts, view, disposed>>

\* syncConfig() with another one: a ready configuration with sources S, of
\* which those in W can be watched.  Timers and watchers of the earlier one
\* are cleared and its reads outdated.
TakeConfig(q, op, n, S, W) ==
  /\ ~disposed /\ generation < MaxConfigs
  /\ n \in 1 .. MaxConfigs /\ n # revision /\ W \subseteq S
  /\ generation' = generation + 1
  /\ revision' = n
  /\ timers' = {} /\ events' = {} /\ watched' = W
  /\ states' = [s \in Sources |->
       IF s \in W THEN Pending
       ELSE IF s \in S THEN [Pending EXCEPT !.status = "watch_error"]
       ELSE Absent]
  /\ LET unwatched == [s \in Sources |-> IF s \in S \ W THEN 1 ELSE 0]
     IN /\ readSequences' = Counted(S, unwatched)
        /\ reads' = reads \cup Reading(S, unwatched, generation + 1, q)
  /\ aggregate' = [revision |-> n, shown |-> states']
  /\ broadcasts' = Outdated \cup
       IF S = {} \/ S # W THEN {Published(aggregate')} ELSE {}
  /\ Begin(q, IF S = {} THEN Synced(op, aggregate') ELSE Refreshing(op))
  /\ UNCHANGED <<file, view, disposed>>

\* syncConfig() with an unusable configuration.
TakeNoConfig(q, op) ==
  /\ ~disposed /\ generation < MaxConfigs
  /\ generation' = generation + 1
  /\ revision' = NoConfig
  /\ timers' = {} /\ events' = {} /\ watched' = {}
  /\ states' = [s \in Sources |-> Absent]
  /\ readSequences' = [s \in Sources |-> 0]
  /\ aggregate' = [revision |-> NoConfig, shown |-> states']
  /\ broadcasts' = Outdated \cup {Published(aggregate')}
  /\ Begin(q, Synced(op, aggregate'))
  /\ UNCHANGED <<file, reads, view, disposed>>

\* All the reads of a refresh have ended.  An answer is enriched as well, but
\* sent whatever happened meanwhile.
RefreshEnds(q) ==
  /\ request[q].stage = "refreshing"
  /\ \A r \in reads : r.by # q
  /\ RebuildAndPublish(states, request[q].changed)
  /\ request' = [request EXCEPT ![q] = Synced(request[q].op, aggregate')]
  /\ UNCHANGED <<file, generation, revision, states, readSequences, timers,
                 watched, events, reads, view, disposed, starts>>

Answer(q, c) ==
  /\ request[q].stage = "answering"
  /\ view' = [view EXCEPT ![c] = request[q].answer]
  /\ request' = [request EXCEPT ![q] = [stage |-> "idle"]]
  /\ UNCHANGED <<file, observer, broadcasts, starts>>

-----------------------------------------------------------------------------
(* Files, watchers and timers.                                             *)

Write(s) ==
  /\ Version(s) < MaxVersions
  /\ \E k \in Kinds :
       /\ k = "missing" => file[s][Version(s)] # "missing"
       /\ file' = [file EXCEPT ![s] = Append(@, k)]
  /\ events' = IF s \in watched THEN events \cup {s} ELSE events
  /\ UNCHANGED <<generation, revision, states, readSequences, timers, watched,
                 reads, aggregate, disposed, hub>>

\* Faulty variant: a source that is being read is not scheduled.
WatchEventUnlessReading(s) ==
  /\ s \in events
  /\ events' = events \ {s}
  /\ timers' = IF \E r \in reads : r.source = s THEN timers
                                              ELSE timers \cup {s}
  /\ UNCHANGED <<file, generation, revision, states, readSequences, watched,
                 reads, aggregate, disposed, hub>>

\* handleWatchEvent(): the read is debounced.
WatchEvent(s) ==
  /\ s \in events
  /\ events' = events \ {s}
  /\ timers' = timers \cup {s}
  /\ UNCHANGED <<file, generation, revision, states, readSequences, watched,
                 reads, aggregate, disposed, hub>>

\* handleWatchError(): the watcher is closed, and reads are outdated.
WatchError(s) ==
  /\ s \in watched
  /\ watched' = watched \ {s}
  /\ events' = events \ {s} /\ timers' = timers \ {s}
  /\ readSequences' = [readSequences EXCEPT ![s] = @ + 1]
  /\ states' = [states EXCEPT ![s].status = "watch_error"]
  /\ RebuildAndPublish(states', states[s].status # "watch_error")
  /\ UNCHANGED <<file, generation, revision, reads, disposed, request, view,
                 starts>>

Timer(s) ==
  /\ s \in timers
  /\ timers' = timers \ {s}
  /\ reads' = reads \cup Reading({s}, readSequences, generation, "timer")
  /\ readSequences' = Counted({s}, readSequences)
  /\ UNCHANGED <<file, generation, revision, states, watched, events,
                 aggregate, disposed, hub>>

\* The server shuts down.
Dispose ==
  /\ ~disposed
  /\ disposed' = TRUE
  /\ generation' = generation + 1
  /\ timers' = {} /\ events' = {} /\ watched' = {}
  /\ states' = [s \in Sources |-> Absent]
  /\ readSequences' = [s \in Sources |-> 0]
  /\ UNCHANGED <<file, revision, reads, aggregate, hub>>

-----------------------------------------------------------------------------

Sync(q) ==
  \E op \in {"observe", "config"} :
    \/ RefreshConfig(q, op)
    \/ TakeNoConfig(q, op)
    \/ \E n \in 1 .. MaxConfigs, S \in SUBSET Sources :
         \E W \in SUBSET S : TakeConfig(q, op, n, S, W)

Next ==
  \/ \E q \in Requests : Sync(q) \/ RefreshEnds(q)
  \/ \E q \in Requests, c \in Clients : Answer(q, c)
  \/ \E r \in reads : Retry(r) \/ ReadEnds(r)
  \/ \E b \in broadcasts : Broadcast(b)
  \/ \E s \in Sources : Write(s) \/ WatchEvent(s) \/ WatchError(s) \/ Timer(s)
  \/ Dispose

Spec == Init /\ [][Next]_vars

-----------------------------------------------------------------------------
(* Properties.                                                             *)

Statuses == {"absent", "pending", "stable", "missing", "changing",
             "watch_error"}
Evidence == [status : Statuses, version : Nat, generation : Nat]
Snapshots == [revision : Nat, shown : [Sources -> Evidence]]
ReadCalls ==
  [source : Sources, sequence : Nat, generation : Nat,
   by : Requests \cup {"timer"}, attempt : 1 .. MaxAttempts, since : Nat]
Places ==
  [stage : {"idle"}]
    \cup [stage : {"refreshing"}, op : {"observe", "config"},
          changed : BOOLEAN]
    \cup [stage : {"answering"}, answer : Snapshots]

TypeOK ==
  /\ file \in [Sources -> Seq(Kinds) \ {<<>>}]
  /\ generation \in Nat /\ revision \in Nat
  /\ states \in [Sources -> Evidence]
  /\ readSequences \in [Sources -> Nat]
  /\ watched \subseteq Configured
  /\ timers \subseteq watched /\ events \subseteq watched
  /\ reads \subseteq ReadCalls
  /\ aggregate \in Snapshots
  /\ request \in [Requests -> Places]
  /\ disposed \in BOOLEAN

\* Nothing is under way in the observer.
Quiet ==
  /\ timers = {} /\ events = {} /\ reads = {}
  /\ \A q \in Requests : request[q].stage # "refreshing"

\* Once nothing is under way, the snapshot shows the evidence observed, and
\* a watched source is shown as its file is: however reads, retries, events
\* and configurations overlapped, no change is missed.
ShownWhenQuiet ==
  Quiet /\ ~disposed =>
    /\ aggregate.revision = revision
    /\ \A s \in Sources : SameEvidence(aggregate.shown[s], states[s])
    /\ \A s \in watched :
         /\ states[s].status = file[s][Version(s)]
         /\ states[s].status = "stable" => states[s].version = Version(s)

\* No update leaks from a prior configuration into the current one.
NoUpdateLeaks ==
  \A s \in Configured : states[s].generation = generation

\* A source is never shown as it was before what was already shown.
NeverBack ==
  [][\A s \in Sources :
       generation' = generation => states'[s].version >= states[s].version]_vars

-----------------------------------------------------------------------------
(* A claim of the repository that the code does not keep.                  *)

\* Clients receive a complete snapshot when evidence changes: once nothing is
\* under way, what a client was shown of this configuration is the snapshot.
ChangesReachClients ==
  Quiet /\ ~disposed /\ broadcasts = {}
    /\ (\A q \in Requests : request[q].stage = "idle") =>
    \A c \in Clients : view[c].revision = revision /\ revision # NoConfig
                         => view[c] = aggregate
=============================================================================
