--------------------------- MODULE QueueDelivery ---------------------------
(***************************************************************************)
(* Recording, delivering and resolving queue decisions: the decision,      *)
(* delivery and reconciliation services above one QueueDecisionStore.      *)
(*                                                                         *)
(* The server is one process: each caller is a client request whose        *)
(* handler runs up to its next await and is then interleaved with the      *)
(* others.  Store mutations run one at a time, in the order they were      *)
(* asked for (writeTail); reads are not serialised with them.  A mutation  *)
(* reads the file, decides on what it read, writes a temporary file,       *)
(* renames it over queue-state.json, syncs the directory and reads the     *)
(* file back: each an await of its own, which only the write queue keeps   *)
(* apart from the other mutations.  The process may be killed, and the     *)
(* machine may lose power, between any two steps.                          *)
(***************************************************************************)
EXTENDS QueueDocument

CONSTANTS
  Callers,        \* concurrent client requests
  Labels,         \* the attempt labels that clients ask for
  MaxAttemptIds,  \* bound on the delivery ids drawn (randomUUID in the code)
  MaxRestarts     \* bound on process and power failures

ASSUME DeliveryAssumption ==
  /\ Labels \subseteq AttemptActions
  /\ MaxAttemptIds \in Nat
  /\ MaxRestarts \in Nat

VARIABLES
  file,       \* the visible queue-state.json
  durable,    \* every document the file may hold after a power loss
  writeTail,  \* callers whose store mutation is queued, first one running
  read,       \* pairs of a caller and the document its mutation read
  renamed,    \* has the running mutation replaced the file?
  call,       \* what each caller's handler is doing
  active,     \* QueueDeliveryService.activeDeliveries
  nextId,     \* the next delivery id
  restarts,   \* failures so far
  sent        \* history: what the transport did for each attempt

diskVars == <<file, durable>>
vars == <<file, durable, writeTail, read, renamed, call, active, nextId,
          restarts, sent>>

Idle     == [op |-> "idle"]
Recorded == [op |-> "recorded"]  \* idle, after a request answered as recorded
Existing == [op |-> "existing"]  \* idle, after one answered with a record
                                 \* that was there before
Call == {Idle, Recorded, Existing}
  \* append(decision) queued
  \cup [op : {"append"}, item : Items, intent : Intents]
  \* resolve() found the decision deliverable; checking source and target
  \cup [op : {"checking"}, item : Items]
  \* beginDelivery(intent) queued
  \cup [op : {"begin"}, item : Items, id : Nat]
  \* the intent is recorded and the delivery active; invoking the transport
  \cup [op : {"invoke"}, item : Items, id : Nat]
  \* finishDelivery(id, outcome) queued
  \cup [op : {"finish"}, item : Items, id : Nat, outcome : Outcomes]
  \* finishDelivery failed; rereading the state before answering
  \cup [op : {"recover"}, id : Nat]
  \* beginDelivery failed; rereading the state before answering
  \cup [op : {"reread"}, item : Items]
  \* the state was read; about to check that the delivery is not active
  \cup [op : {"resolving"}, item : Items, resolution : Resolution]
  \* appendResolution(resolution) queued
  \cup [op : {"resolve"}, item : Items, resolution : Resolution]

Init ==
  /\ file = EmptyDocument
  /\ durable = {EmptyDocument}
  /\ writeTail = << >>
  /\ read = {}
  /\ renamed = FALSE
  /\ call = [c \in Callers |-> Idle]
  /\ active = {}
  /\ nextId = 0
  /\ restarts = 0
  /\ sent = {}

Free(c) == call[c] \in {Idle, Recorded, Existing}

Becomes(c, next) == call' = [call EXCEPT ![c] = next]
Enqueue(c, op)   == Becomes(c, op) /\ writeTail' = Append(writeTail, c)

-----------------------------------------------------------------------------
(* QueueDecisionService.record: the source is read and revalidated and the *)
(* append queued without an await in between.                              *)

RecordDecision(c, i, v) ==
  /\ Free(c)
  /\ Enqueue(c, [op |-> "append", item |-> i, intent |-> v])
  /\ UNCHANGED <<diskVars, read, renamed, active, nextId, restarts, sent>>

-----------------------------------------------------------------------------
(* QueueDeliveryService.deliver.                                           *)

\* resolve(): the state read allows a first attempt, or the one retry.
DeliverInspect(c, i) ==
  /\ Free(c)
  /\ i \in Decided(file)
  /\ \/ file.attempts[i] = << >>
     \/ /\ Len(file.attempts[i]) = 1
        /\ file.attempts[i][1].outcome # "delivered"
        /\ Unlocked(file, i)
  /\ Becomes(c, [op |-> "checking", item |-> i])
  /\ UNCHANGED <<diskVars, writeTail, read, renamed, active, nextId, restarts,
                 sent>>

\* The source is stale, the configuration changed or the target is not
\* usable: the request is rejected and nothing is recorded.
DeliverUnavailable(c) ==
  /\ call[c].op = "checking"
  /\ Becomes(c, Idle)
  /\ UNCHANGED <<diskVars, writeTail, read, renamed, active, nextId, restarts,
                 sent>>

\* Source and target hold: the intent is built under a new id and queued.
DeliverBegin(c) ==
  /\ call[c].op = "checking"
  /\ nextId < MaxAttemptIds
  /\ Enqueue(c, [op |-> "begin", item |-> call[c].item, id |-> nextId])
  /\ nextId' = nextId + 1
  /\ UNCHANGED <<diskVars, read, renamed, active, restarts, sent>>

\* Faulty variant: an error of the transport is not told from success.
InvokeUnchecked(c, o) ==
  /\ call[c].op = "invoke"
  /\ LET i == call[c].item
         a == call[c].id
     IN /\ sent' = sent \cup {[item |-> i, id |-> a, outcome |-> o]}
        /\ Enqueue(c, [op |-> "finish", item |-> i, id |-> a,
                       outcome |-> "delivered"])
  /\ UNCHANGED <<diskVars, read, renamed, active, nextId, restarts>>

\* The transport accepts the payload, or refuses it or leaves it unknown, and
\* the outcome is queued for recording.
Invoke(c, o) ==
  /\ call[c].op = "invoke"
  /\ LET i == call[c].item
         a == call[c].id
     IN /\ sent' = sent \cup {[item |-> i, id |-> a, outcome |-> o]}
        /\ Enqueue(c, [op |-> "finish", item |-> i, id |-> a, outcome |-> o])
  /\ UNCHANGED <<diskVars, read, renamed, active, nextId, restarts>>

\* Faulty variant: waits for the delivery to end before it answers.
RecoverWaiting(c) ==
  /\ call[c].op = "recover"
  /\ call[c].id \notin active
  /\ Becomes(c, Idle)
  /\ UNCHANGED <<diskVars, writeTail, read, renamed, active, nextId, restarts,
                 sent>>

\* Whatever the reread state shows, the answer is unknown or rejected, and
\* the delivery is no longer active.
Recover(c) ==
  /\ call[c].op = "recover"
  /\ active' = active \ {call[c].id}
  /\ Becomes(c, Idle)
  /\ UNCHANGED <<diskVars, writeTail, read, renamed, nextId, restarts, sent>>

\* beginFailure(): an attempt that the reread state shows is answered as an
\* existing one, else the request is rejected.
BeginFails(c) ==
  /\ call[c].op = "reread"
  /\ \/ file.attempts[call[c].item] # << >> /\ Becomes(c, Existing)
     \/ Becomes(c, Idle)
  /\ UNCHANGED <<diskVars, writeTail, read, renamed, active, nextId, restarts,
                 sent>>

-----------------------------------------------------------------------------
(* QueueReconciliationService.resolve.                                     *)

\* The state read knows the decision, the attempt (id and hash) or the
\* related decision, and the lifecycle allows the action.
ResolveInspect(c, i, r) ==
  /\ Free(c)
  /\ i \in Decided(file)
  /\ ValidReference(file, i, r)
  /\ ~HasAction(file, i, r.action)
  /\ LET history == file.resolutions[i]
     IN history # << >> => MayFollow(history[Len(history)].action, r.action)
  /\ Becomes(c, [op |-> "resolving", item |-> i, resolution |-> r])
  /\ UNCHANGED <<diskVars, writeTail, read, renamed, active, nextId, restarts,
                 sent>>

\* The attempt read as unfinished belongs to a running delivery.
InFlight(r) ==
  /\ r.action # "superseded"
  /\ r.delivery.outcome = Pending
  /\ r.delivery.id \in active

ResolveRejected(c) ==
  /\ call[c].op = "resolving"
  /\ InFlight(call[c].resolution)
  /\ Becomes(c, Idle)
  /\ UNCHANGED <<diskVars, writeTail, read, renamed, active, nextId, restarts,
                 sent>>

ResolveAppend(c) ==
  /\ call[c].op = "resolving"
  /\ ~InFlight(call[c].resolution)
  /\ Enqueue(c, [call[c] EXCEPT !.op = "resolve"])
  /\ UNCHANGED <<diskVars, read, renamed, active, nextId, restarts, sent>>

-----------------------------------------------------------------------------
(* QueueDecisionStore: the running mutation.                               *)

\* What a mutation asks for, in a document that holds it.
Holds(op, d) ==
  \/ op.op = "append"  /\ d.decided[op.item] = op.intent
  \/ op.op = "begin"   /\ HasAttempt(d, op.item, [id |-> op.id,
                                                 outcome |-> Pending])
  \/ op.op = "finish"  /\ HasAttempt(d, op.item, [id |-> op.id,
                                                 outcome |-> op.outcome])
  \/ op.op = "resolve" /\ \E n \in 1 .. Len(d.resolutions[op.item]) :
                           d.resolutions[op.item][n] = op.resolution

\* The store's own checks of a mutation against the document it read, and
\* the document it writes if they pass.
IsExisting(op, d) ==
  IF op.op = "begin" THEN HasBegun(d, op.item, op.id) ELSE Holds(op, d)

Accepts(op, d) ==
  \/ op.op = "append"  /\ CanDecide(d, op.item)
  \/ op.op = "begin"   /\ CanBegin(d, op.item, op.id)
  \/ op.op = "finish"  /\ CanFinish(d, op.item, op.id)
  \/ op.op = "resolve" /\ CanResolve(d, op.item, op.resolution)

Updated(op, d) ==
  CASE op.op = "append"  -> WithDecision(d, op.item, op.intent)
    [] op.op = "begin"   -> WithAttempt(d, op.item, op.id)
    [] op.op = "finish"  -> WithOutcome(d, op.item, op.id, op.outcome)
    [] op.op = "resolve" -> WithResolution(d, op.item, op.resolution)

\* The schema parses what is to be written.
Writable(op, d) == Accepts(op, d) /\ ValidDocument(Updated(op, d))

Running     == Head(writeTail)
ReadBy(c)   == {x[2] : x \in {y \in read : y[1] = c}}
Forgotten(c) == {x \in read : x[1] # c}

\* Faulty variant: the file is read when the mutation is asked for, before
\* it is its turn.
StoreReadEarly ==
  \E n \in 1 .. Len(writeTail) :
    /\ ReadBy(writeTail[n]) = {}
    /\ read' = read \cup {<<writeTail[n], file>>}
    /\ UNCHANGED <<diskVars, writeTail, renamed, call, active, nextId,
                   restarts, sent>>

\* The file is read.
StoreRead ==
  /\ writeTail # << >>
  /\ ReadBy(Running) = {}
  /\ read' = read \cup {<<Running, file>>}
  /\ UNCHANGED <<diskVars, writeTail, renamed, call, active, nextId, restarts,
                 sent>>

\* The document that follows from the one that was read replaces the file,
\* whatever that holds by now.
StoreRename ==
  /\ writeTail # << >>
  /\ ~renamed
  /\ \E d \in ReadBy(Running) :
       Writable(call[Running], d) /\ file' = Updated(call[Running], d)
  /\ durable' = durable \cup {file'}
  /\ renamed' = TRUE
  /\ UNCHANGED <<writeTail, read, call, active, nextId, restarts, sent>>

\* The mutation ends and its caller's handler runs on.  A recorded intent
\* makes the delivery active before the handler awaits the transport; a
\* recorded outcome ends it; a delivery whose mutation failed rereads the
\* state first.  The other mutations are answered.
Settle(result) ==
  LET c  == Running
      op == call[c]
  IN /\ writeTail' = Tail(writeTail)
     /\ read' = Forgotten(c)
     /\ renamed' = FALSE
     /\ active' = CASE op.op = "begin" /\ result = Recorded
                         -> active \cup {op.id}
                    [] op.op = "finish" /\ result # Idle
                         -> active \ {op.id}
                    [] OTHER -> active
     /\ Becomes(c,
          CASE op.op = "begin" /\ result = Recorded ->
                 [op |-> "invoke", item |-> op.item, id |-> op.id]
            [] op.op = "begin" /\ result = Idle ->
                 [op |-> "reread", item |-> op.item]
            [] op.op = "finish" /\ result = Idle ->
                 [op |-> "recover", id |-> op.id]
            [] OTHER -> result)
     /\ UNCHANGED <<file, nextId, restarts, sent>>

\* The directory is synced, and the file read back shows the record.
StoreSync ==
  /\ renamed
  /\ Holds(call[Running], file)
  /\ durable' = {file}
  /\ Settle(Recorded)

\* Faulty variant: a failed directory sync is ignored.
StoreUnsureIgnored ==
  /\ renamed
  /\ durable' \in {durable, {file}}
  /\ Settle(Recorded)

\* The sync fails (durability_unknown), or the read back does
\* (invalid_result): the new document stays in place, the caller gets an
\* error.
StoreUnsure ==
  /\ renamed
  /\ durable' \in {durable, {file}}
  /\ Settle(Idle)

\* Faulty variant: an existing record is taken for a new one.
StoreExistsAsRecorded ==
  /\ writeTail # << >>
  /\ ~renamed
  /\ \E d \in ReadBy(Running) : IsExisting(call[Running], d)
  /\ Settle(Recorded)
  /\ UNCHANGED durable

\* Nothing to write: the document that was read holds the record, which is
\* the answer, whether or not a power loss can still take it back.
StoreExists ==
  /\ writeTail # << >>
  /\ ~renamed
  /\ \E d \in ReadBy(Running) : IsExisting(call[Running], d)
  /\ Settle(Existing)
  /\ UNCHANGED durable

\* The mutation is refused, by the checks or by the schema.
StoreRefuses ==
  /\ writeTail # << >>
  /\ ~renamed
  /\ \E d \in ReadBy(Running) :
       ~IsExisting(call[Running], d) /\ ~Writable(call[Running], d)
  /\ Settle(Idle)
  /\ UNCHANGED durable

\* The state could not be read, or the write failed before the rename.
StoreFails ==
  /\ writeTail # << >>
  /\ ~renamed
  /\ \A d \in ReadBy(Running) :
       ~IsExisting(call[Running], d) /\ Writable(call[Running], d)
  /\ Settle(Idle)
  /\ UNCHANGED durable

-----------------------------------------------------------------------------
(* Failures of the environment.                                            *)

Restart ==
  /\ restarts < MaxRestarts
  /\ restarts' = restarts + 1
  /\ call' = [c \in Callers |-> Idle]
  /\ writeTail' = << >>
  /\ read' = {}
  /\ renamed' = FALSE
  /\ active' = {}
  /\ UNCHANGED <<nextId, sent>>

\* The process is killed: the renamed file survives in the page cache.
Crash == Restart /\ UNCHANGED diskVars

\* The machine loses power: the directory entry may be an older document.
PowerLoss ==
  /\ Restart
  /\ file' \in durable
  /\ durable' = {file'}

-----------------------------------------------------------------------------

Handler(c) ==
  \/ DeliverUnavailable(c)
  \/ DeliverBegin(c)
  \/ \E o \in Outcomes : Invoke(c, o)
  \/ Recover(c)
  \/ BeginFails(c)
  \/ ResolveRejected(c)
  \/ ResolveAppend(c)

StoreStep == StoreRead \/ StoreRename \/ StoreSync \/ StoreUnsure
             \/ StoreExists \/ StoreRefuses \/ StoreFails

\* The resolutions a client can ask for: about an attempt it was shown, or
\* about another decision.
Requestable(i) ==
  [action : Labels,
   delivery : {file.attempts[i][n] : n \in 1 .. Len(file.attempts[i])}]
  \cup [action : {"superseded"}, related : Items \ {i}]

Request(c) ==
  \/ \E i \in Items, v \in Intents : RecordDecision(c, i, v)
  \/ \E i \in Items : DeliverInspect(c, i)
  \/ \E i \in Items : \E r \in Requestable(i) : ResolveInspect(c, i, r)

Next ==
  \/ \E c \in Callers : Request(c) \/ Handler(c)
  \/ StoreStep
  \/ Crash
  \/ PowerLoss

Spec == Init /\ [][Next]_vars

\* Awaited file operations settle and continuations run, so a handler never
\* stops half way.  Nothing obliges a client to send a request, nor the
\* store's operations to succeed.
QueueFairness ==
  /\ WF_vars(StoreStep)
  /\ \A c \in Callers : WF_vars(Handler(c))

-----------------------------------------------------------------------------
(* Properties.                                                             *)

TypeOK ==
  /\ file \in Document
  /\ durable \subseteq Document
  /\ writeTail \in Seq(Callers)
  /\ read \subseteq Callers \X Document
  /\ renamed \in BOOLEAN
  /\ call \in [Callers -> Call]
  /\ active \subseteq Nat
  /\ nextId \in Nat
  /\ restarts \in Nat
  /\ sent \subseteq [item : Items, id : Nat, outcome : Outcomes]

\* The checks of append(), beginDelivery() and finishDelivery() let nothing
\* through to the schema that it would refuse, whatever was recorded before
\* and whoever is queued: their parse() fails with no error code of the
\* store, and an outcome that cannot be recorded leaves what was sent
\* unknown for ever.  The one exception is an outcome whose attempt was
\* labelled while it was under way (see ActiveNotConfirmed): the label names
\* the attempt by a hash that the outcome changes.
ChecksSuffice ==
  \A c \in Callers :
    LET op == call[c]
    IN op.op \in {"append", "begin", "finish"} /\ Accepts(op, file) =>
         \/ ValidDocument(Updated(op, file))
         \/ op.op = "finish" /\ LabelsPending(file, op.item, op.id)

\* The transport is invoked only for an attempt whose intent no power loss
\* can take back: what was sent is always known to have been attempted.
IntentBeforeEffect ==
  \A s \in sent : \A d \in durable : HasAttemptId(d, s.item, s.id)

\* A decision is sent at most twice, whatever races, fails or restarts, and
\* the second time only on a durable confirmation that the first attempt,
\* with exactly the outcome recorded for it, was not delivered.
SendsOf(i) == {s.id : s \in {t \in sent : t.item = i}}

SentAtMostTwice ==
  \A i \in Items :
    /\ Cardinality(SendsOf(i)) <= 2
    /\ Cardinality(SendsOf(i)) = 2 => \A d \in durable : Unlocked(d, i)

\* An outcome in the state is the one the transport reported, and an attempt
\* recorded as delivered is the last one.
OutcomeIsEvidence ==
  \A d \in durable : \A i \in Items : \A n \in 1 .. Len(d.attempts[i]) :
    LET r == d.attempts[i][n]
    IN r.outcome # Pending =>
         /\ [item |-> i, id |-> r.id, outcome |-> r.outcome] \in sent
         /\ r.outcome = "delivered" => n = Len(d.attempts[i])

\* A client is told that its decision, the outcome of its delivery or its
\* label is recorded only when no power loss can take it back; by
\* HistoryIsKept it then stays.  It is told of an existing record only when
\* the visible document holds it, with the very intent it asked for, or, for
\* a delivery, an attempt: that document may be one that a failed sync left,
\* and a power loss take back (see ExistingIsDurable).
Shows(op, d) ==
  IF op.op \in {"begin", "reread"} THEN d.attempts[op.item] # << >>
                                   ELSE Holds(op, d)

Answers(c, a) == call[c] # a /\ call'[c] = a

AnswersAreTrue ==
  [][\A c \in Callers :
       /\ Answers(c, Recorded) => \A d \in durable' : Holds(call[c], d)
       /\ Answers(c, Existing) => Shows(call[c], file')]_vars

\* No step, of any caller, nor a power loss, loses or rewrites a record that
\* every possible document already holds: concurrent mutations never
\* overwrite each other.
HistoryIsKept ==
  [][\A e \in durable' : \E d \in durable : Extends(d, e)]_vars

\* Every request is answered (or its server restarted): a failed mutation
\* does not block the ones queued behind it.
EveryCallReturns == \A c \in Callers : ~Free(c) ~> Free(c)

-----------------------------------------------------------------------------
(* What does not hold: two claims of the repository, and one that none of  *)
(* its documents makes.                                                    *)

\* No attempt is labelled confirmed_not_delivered while its delivery is
\* active: the reconciliation service rejects active attempts.
ActiveNotConfirmed ==
  \A i \in Items : \A n \in 1 .. Len(file.resolutions[i]) :
    LET r == file.resolutions[i][n]
    IN r.action = "confirmed_not_delivered" => r.delivery.id \notin active

\* A second attempt is recorded only while the reconciliation view shows the
\* retry as ready: a final label ends the lifecycle of a decision.
RetryOnlyWhenReady ==
  [][\A i \in Items :
       Len(file.attempts[i]) = 1 /\ Len(file'.attempts[i]) = 2
         => RetryStatus(file, i) = "ready"]_vars

\* An existing record is one that no power loss can take back: a request
\* that is repeated after durability_unknown is answered with what was
\* renamed and not synced.
ExistingIsDurable ==
  [][\A c \in Callers :
       Answers(c, Existing) => \A d \in durable' : Shows(call[c], d)]_vars
=============================================================================
