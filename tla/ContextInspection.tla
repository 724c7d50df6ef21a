------------------------- MODULE ContextInspection -------------------------
(***************************************************************************)
(* The control context of a workspace: the objective and the plan, read    *)
(* from the files the configuration names, and the recent decisions.  The  *)
(* two files and the queue state are read side by side, between two looks  *)
(* at the configuration, while editors write the files, the configuration  *)
(* is replaced and a decision is being delivered.                          *)
(*                                                                         *)
(* Both sources name one path.  A byte is the version of the text it       *)
(* belongs to, or NotText; one delivery, of the decision Delivered, is     *)
(* followed.  The service keeps no state, so that one request is followed. *)
(* It reads the files, the configuration and the queue state apart, and a  *)
(* behaviour is one in which one of these changes.                         *)
(***************************************************************************)
EXTENDS Naturals, FiniteSets, SequencesExt

CONSTANTS
  MaxBytes,      \* MAX_PACIUM_CONTEXT_SOURCE_BYTES
  Ticks,         \* how far the clock of the file system goes on in a write
  MaxChanges,    \* bound: steps of the editors, the configuration, the queue
  SourceSets,    \* the sources that a configuration may name, sets of Kinds
  Decisions,     \* decisions that may be recorded: id and time
  Delivered,     \* the id of one of them
  MaxRecent,     \* MAX_PACIUM_RECENT_DECISIONS
  Null

VARIABLES
  setting,       \* the configuration: the sources it names
  node,          \* what the path names: a file of nodes, or 0
  nodes,         \* the files there are or were, in the order of creation
  rest,          \* what the editor has still to write
  clock,         \* of the file system
  part,          \* the part of what is read that changes
  changes,
  decisions,     \* those recorded
  delivery,      \* attempts made, the outcome of the last, and its stage
  context,       \* the request
  reading,       \* for each source: how far its reader is
  answer,        \* the observation sent last
  seen           \* what was true at some time since the request began

fileVars == <<node, nodes, rest, clock>>
queueVars == <<decisions, delivery>>
requestVars == <<context, reading, answer>>
contextVars ==
  <<setting, fileVars, queueVars, part, changes, requestVars, seen>>

Kinds == {"objective", "plan"}
NotText == 0

-----------------------------------------------------------------------------
(* What the request reads.                                                 *)

Bytes == IF node = 0 THEN Null ELSE nodes[node].bytes

\* A stat; the size is of the bytes there are.
Stat(n) ==
  [kind |-> nodes[n].kind, node |-> n, size |-> Len(nodes[n].bytes),
   time |-> nodes[n].time]

\* Faulty variant: the time of the last write is not compared.
SameFile(left, right) ==
  /\ right.kind = "file"
  /\ <<left.node, left.size>> = <<right.node, right.size>>

SameIdentity(left, right) ==
  /\ right.kind = "file"
  /\ <<left.node, left.size, left.time>>
       = <<right.node, right.size, right.time>>

IsActive(d) == d.stage \in {"active", "finished"}

\* The status of the last attempt, from what was read of the queue state
\* and from what is active.
Status(recorded, active) ==
  IF recorded.outcome # Null THEN recorded.outcome
  ELSE IF active THEN "delivering" ELSE "unknown"

Now == [bytes |-> {Bytes}, revisions |-> {setting.revision},
        statuses |-> {Status(delivery, IsActive(delivery))}]

\* What becomes true while the request runs joins what was seen; what is
\* read is read before the second look at the configuration.
Joined(now) ==
  [bytes |-> IF context.step = "reading" THEN seen.bytes \cup now.bytes
             ELSE seen.bytes,
   revisions |-> IF context.step = "reading"
                   THEN seen.revisions \cup now.revisions
                   ELSE seen.revisions,
   statuses |-> IF context.step = "idle" THEN seen.statuses
                ELSE seen.statuses \cup now.statuses]

Sees == seen' = Joined(Now')

-----------------------------------------------------------------------------
(* readPaciumContextSource.                                                *)

NoReading == [step |-> "none", handle |-> 0, stat |-> Null, bytes |-> << >>,
              result |-> Null]

Observation(status, bytes) == [status |-> status, bytes |-> bytes]
Unconfigured == Observation("unconfigured", Null)

Step(k, step) ==
  /\ context.step = "reading"
  /\ reading[k].step = step

GoesOn(k, next) == reading' = [reading EXCEPT ![k] = next]

Done(k, observation) ==
  GoesOn(k, [NoReading EXCEPT !.result = observation])

Degraded(k, status) == Done(k, Observation(status, Null))

OnlyReads ==
  UNCHANGED <<setting, fileVars, queueVars, context, answer, seen>>

\* lstat of the path: ENOENT, or what it found.
Lstat(k) ==
  /\ Step(k, "lstat")
  /\ IF node = 0 THEN Degraded(k, "missing")
     ELSE IF nodes[node].kind # "file" THEN Degraded(k, "unsafe_type")
     ELSE GoesOn(k, [reading[k] EXCEPT !.step = "open", !.stat = Stat(node)])
  /\ OnlyReads

\* open, which follows no symbolic link: ELOOP.
Open(k) ==
  /\ Step(k, "open")
  /\ IF node = 0 THEN Degraded(k, "missing")
     ELSE IF nodes[node].kind = "symlink" THEN Degraded(k, "unsafe_type")
     ELSE GoesOn(k, [reading[k] EXCEPT !.step = "stat", !.handle = node])
  /\ OnlyReads

OpenStat(k) ==
  /\ Step(k, "stat")
  /\ LET stat == Stat(reading[k].handle)
     IN IF ~SameIdentity(reading[k].stat, stat) THEN Degraded(k, "changing")
        ELSE GoesOn(k, [reading[k] EXCEPT !.step =
               IF stat.size > MaxBytes THEN "oversized" ELSE "read"])
  /\ OnlyReads

OversizedPath(k) ==
  /\ Step(k, "oversized")
  /\ Degraded(k,
       IF node = 0 THEN "missing"
       ELSE IF SameIdentity(reading[k].stat, Stat(node)) THEN "oversized"
       ELSE "changing")
  /\ OnlyReads

\* One read: a byte, as far as there is one and the buffer has room for it.
Read(k) ==
  /\ Step(k, "read")
  /\ LET text == nodes[reading[k].handle].bytes
         got  == reading[k].bytes
     IN GoesOn(k,
          IF Len(got) <= MaxBytes /\ Len(got) < Len(text)
            THEN [reading[k] EXCEPT !.bytes = Append(got, text[Len(got) + 1])]
            ELSE [reading[k] EXCEPT !.step = "final"])
  /\ OnlyReads

\* The handle's stat again: it must be that of the open, with the bytes read.
FinalStat(k) ==
  /\ Step(k, "final")
  /\ GoesOn(k, [reading[k] EXCEPT
       !.step = "path",
       !.stat = IF /\ SameIdentity(@, Stat(reading[k].handle))
                   /\ @.size = Len(reading[k].bytes)
                  THEN @ ELSE Null])
  /\ OnlyReads

FinalPath(k) ==
  /\ Step(k, "path")
  /\ LET stat == reading[k].stat
         text == reading[k].bytes
     IN IF node = 0 THEN Degraded(k, "missing")
        ELSE IF stat = Null \/ ~SameIdentity(stat, Stat(node))
          THEN Degraded(k, "changing")
        ELSE IF NotText \in ToSet(text) THEN Degraded(k, "invalid_utf8")
        ELSE IF text = << >> THEN Done(k, Observation("empty", Null))
        ELSE Done(k, Observation("ready", text))
  /\ OnlyReads

\* EACCES, EIO, ...
ReadFails(k) ==
  /\ context.step = "reading" /\ reading[k].step # "none"
  /\ Degraded(k, "unreadable")
  /\ OnlyReads

-----------------------------------------------------------------------------
(* PaciumContextService.inspect.                                           *)

NoContext == [step |-> "idle", revision |-> Null, state |-> Null,
              after |-> Null]

Unavailable(code) ==
  [status |-> "unavailable", revision |-> Null, error |-> code]

\* The first look at the configuration, and the start of the readers.
Inspect ==
  /\ context.step = "idle" /\ answer = Null
  /\ seen' = Now
  /\ IF ~setting.ready
       THEN /\ answer' = Unavailable("config_unavailable")
            /\ UNCHANGED <<context, reading>>
       ELSE /\ context' = [NoContext EXCEPT !.step = "reading",
                                            !.revision = setting.revision]
            /\ reading' = [k \in Kinds |->
                 IF k \in setting.sources
                   THEN [NoReading EXCEPT !.step = "lstat"]
                   ELSE [NoReading EXCEPT !.result = Unconfigured]]
            /\ answer' = Null
  /\ UNCHANGED <<setting, fileVars, queueVars>>

\* The queue state is read, or cannot be.
ReadState ==
  /\ context.step = "reading" /\ context.state = Null
  /\ \E state \in {[status |-> "ready", decisions |-> decisions,
                    delivery |-> delivery],
                   [status |-> "error"]} :
       context' = [context EXCEPT !.state = state]
  /\ UNCHANGED <<setting, fileVars, queueVars, reading, answer, seen>>

\* The second look at the configuration.
LookAgain ==
  /\ context.step = "reading" /\ context.state # Null
  /\ \A k \in Kinds : reading[k].result # Null
  /\ context' = [context EXCEPT !.step = "looked", !.after =
                   [ready |-> setting.ready, revision |-> setting.revision]]
  /\ UNCHANGED <<setting, fileVars, queueVars, reading, answer, seen>>

\* Newest first, equal times by id.
Newer(d, e) ==
  \/ d.at > e.at
  \/ d.at = e.at /\ d.id < e.id
Recent(all) ==
  {d \in all : Cardinality({e \in all : Newer(e, d)}) < MaxRecent}

\* projectDecision: what is active is asked for only now.
Summary(recorded) ==
  IF recorded.attempts = 0 THEN Null
  ELSE [attempts  |-> recorded.attempts,
        status    |-> Status(recorded, IsActive(delivery)),
        completed |-> recorded.outcome # Null]

RecentDecisions(state) ==
  IF state.status = "error"
    THEN [status |-> "unavailable", shown |-> {}, truncated |-> FALSE,
          delivery |-> Null]
    ELSE LET shown == {d.id : d \in Recent(state.decisions)}
         IN [status |-> "ready", shown |-> shown,
             truncated |-> Recent(state.decisions) # state.decisions,
             delivery |-> IF Delivered \in shown
                            THEN Summary(state.delivery) ELSE Null]

Available(observation) ==
  observation.status \in {"ready", "empty", "unconfigured"}

Drifted(revision, after) == ~after.ready \/ after.revision # revision

Observed(recent) ==
  [status |-> IF /\ \A k \in Kinds : Available(reading[k].result)
                 /\ recent.status = "ready"
                THEN "ready" ELSE "partial",
   revision |-> context.revision,
   sources |-> [k \in Kinds |-> reading[k].result],
   recent |-> recent, error |-> Null]

Answers ==
  /\ context.step = "looked"
  /\ answer' = IF Drifted(context.revision, context.after)
                 THEN Unavailable("config_drift")
                 ELSE Observed(RecentDecisions(context.state))
  /\ context' = NoContext
  /\ reading' = [k \in Kinds |-> NoReading]
  /\ UNCHANGED <<setting, fileVars, queueVars, seen>>

-----------------------------------------------------------------------------
(* What goes on meanwhile.                                                 *)

Texts(version) ==
  {[n \in 1 .. size |-> version] : size \in {0, MaxBytes, MaxBytes + 1}}
    \cup {<<NotText>>}

Node(kind, bytes) == [kind |-> kind, bytes |-> bytes, time |-> clock']

Passes == \E t \in Ticks : clock' = clock + t

OnlyFiles == UNCHANGED <<setting, queueVars, requestVars>>

\* An editor replaces the file, or puts a link or a directory in its place.
Replaces(kind, text) ==
  /\ rest = << >>
  /\ Passes
  /\ nodes' = Append(nodes, Node(kind, text))
  /\ node' = Len(nodes')
  /\ UNCHANGED rest /\ OnlyFiles /\ Sees

\* An editor truncates the file and writes it piece by piece.
Rewrites(text) ==
  /\ rest = << >> /\ node # 0 /\ nodes[node].kind = "file"
  /\ Passes
  /\ nodes' = [nodes EXCEPT ![node] = Node("file", << >>)]
  /\ rest' = text
  /\ UNCHANGED node /\ OnlyFiles /\ Sees

WritesOn ==
  /\ rest # << >>
  /\ Passes
  /\ \E size \in 1 .. Len(rest) :
       /\ nodes' = [nodes EXCEPT
            ![node] = Node("file", @.bytes \o SubSeq(rest, 1, size))]
       /\ rest' = SubSeq(rest, size + 1, Len(rest))
  /\ UNCHANGED node /\ OnlyFiles /\ Sees

Removes ==
  /\ rest = << >> /\ node # 0
  /\ node' = 0
  /\ UNCHANGED <<nodes, rest, clock>> /\ OnlyFiles /\ Sees

\* The configuration is replaced, cannot be read, or can be again.
Configures(sources) ==
  /\ setting.ready
  /\ setting' = [setting EXCEPT !.revision = @ + 1, !.sources = sources]
  /\ UNCHANGED <<fileVars, queueVars, requestVars>>
  /\ Sees

ConfigBreaks ==
  /\ setting' = [setting EXCEPT !.ready = ~@]
  /\ UNCHANGED <<fileVars, queueVars, requestVars, seen>>

Decides(d) ==
  /\ d \notin decisions
  /\ decisions' = decisions \cup {d}
  /\ UNCHANGED <<setting, fileVars, delivery, requestVars, seen>>

\* A delivery is recorded, becomes active, ends with a recorded outcome or
\* without, and is no longer active.
DeliveryStep(next) ==
  /\ delivery' = next
  /\ UNCHANGED <<setting, fileVars, decisions, requestVars>>
  /\ Sees

Delivers ==
  \/ /\ delivery.stage = "idle" /\ delivery.attempts < 2
     /\ \E d \in decisions : d.id = Delivered
     /\ delivery.attempts = 0 \/ delivery.outcome \in {"failed", "unknown"}
     /\ DeliveryStep([attempts |-> delivery.attempts + 1, outcome |-> Null,
                      stage |-> "recorded"])
  \/ /\ delivery.stage = "recorded"
     /\ DeliveryStep([delivery EXCEPT !.stage = "active"])
  \/ /\ delivery.stage = "active"
     /\ \E outcome \in {"delivered", "failed", "unknown", Null} :
          DeliveryStep([delivery EXCEPT !.stage = "finished",
                                        !.outcome = outcome])
  \/ /\ delivery.stage = "finished"
     /\ DeliveryStep([delivery EXCEPT !.stage = "idle"])

-----------------------------------------------------------------------------

ContextInit ==
  /\ setting \in [ready : {TRUE}, revision : {1}, sources : SourceSets]
  /\ nodes \in {<< >>} \cup
       {<<[kind |-> "file", bytes |-> text, time |-> 0]>> : text \in Texts(1)}
  /\ node = Len(nodes)
  /\ rest = << >> /\ clock = 0 /\ changes = 0
  /\ part \in {"files", "configuration", "queue"}
  /\ decisions \in {{}, Decisions}
  /\ delivery \in
       {[attempts |-> 0, outcome |-> Null, stage |-> "idle"],
        [attempts |-> 1, outcome |-> Null, stage |-> "active"],
        [attempts |-> 1, outcome |-> "failed", stage |-> "idle"]}
  /\ context = NoContext
  /\ reading = [k \in Kinds |-> NoReading]
  /\ part # "queue" => decisions = {} /\ delivery.attempts = 0
  /\ part = "queue" => nodes = << >>
  /\ answer = Null
  /\ seen = [bytes |-> {}, revisions |-> {}, statuses |-> {}]

Reader(k) ==
  \/ Lstat(k) \/ Open(k) \/ OpenStat(k) \/ OversizedPath(k)
  \/ Read(k) \/ FinalStat(k) \/ FinalPath(k) \/ ReadFails(k)

Requests ==
  /\ \/ Inspect \/ ReadState \/ LookAgain \/ Answers
     \/ \E k \in Kinds : Reader(k)
  /\ UNCHANGED <<part, changes>>

FilesChange ==
  \/ \E kind \in {"symlink", "directory"} : Replaces(kind, << >>)
  \/ \E text \in Texts(changes + 2) : Replaces("file", text) \/ Rewrites(text)
  \/ WritesOn
  \/ Removes

Meanwhile ==
  /\ context.step # "idle"
  /\ changes < MaxChanges /\ changes' = changes + 1
  /\ \/ part = "files" /\ FilesChange
     \/ part = "configuration"
          /\ (ConfigBreaks \/ \E sources \in SourceSets : Configures(sources))
     \/ part = "queue" /\ (Delivers \/ \E d \in Decisions : Decides(d))
  /\ UNCHANGED part

ContextNext == Requests \/ Meanwhile

ContextSpec == ContextInit /\ [][ContextNext]_contextVars

-----------------------------------------------------------------------------
(* PaciumContextObservationSchema, which the answer is made with: an       *)
(* answer it rejects ends the request with an error.                       *)

ValidSource(o) == (o.status = "ready") = (o.bytes # Null /\ o.bytes # << >>)

ValidDelivery(d) ==
  /\ d.attempts \in 1 .. 2
  /\ d.status \in {"delivered", "failed"} => d.completed
  /\ d.status = "delivering" => ~d.completed

ValidContext(o) ==
  o.status # "unavailable" =>
    /\ \A k \in Kinds : ValidSource(o.sources[k])
    /\ o.recent.delivery # Null => ValidDelivery(o.recent.delivery)
    /\ Cardinality(o.recent.shown) <= MaxRecent
    /\ (o.status = "ready")
         = ((\A k \in Kinds : Available(o.sources[k]))
            /\ o.recent.status = "ready")

ContextsAreValid == answer # Null => ValidContext(answer)

\* What an answer shows existed: the text of a source is the whole text that
\* the file had at one time while it was read, never parts of two, and it is
\* the file of the one configuration that was accepted all the while
\* (docs/execution/worker-objective-context-issue.md: reads are stable, and
\* no text of a different accepted workspace revision is displayed).
ContextIsWhole ==
  (answer # Null /\ answer.status # "unavailable") =>
    /\ \A k \in Kinds :
         answer.sources[k].status = "ready"
           => answer.sources[k].bytes \in seen.bytes
    /\ seen.revisions = {answer.revision}

\* The status shown for a delivery is one that it had since the request
\* began.  It does not hold: the queue state is read first, what is active
\* only at the end, so that a delivery that ends in between is shown as
\* unknown, whatever its outcome.
StatusWasTrue ==
  (answer # Null /\ answer.status # "unavailable"
     /\ answer.recent.delivery # Null) =>
    answer.recent.delivery.status \in seen.statuses
=============================================================================
