--------------------------- MODULE ClientRequests ---------------------------
(***************************************************************************)
(* The requests of one browser and the views they fill: each view shows an *)
(* observation that the server makes, and knows the one request that may   *)
(* replace it.  The server handles requests beside one another, so that    *)
(* answers overtake each other; the connection breaks and is made anew.    *)
(*                                                                         *)
(* An observation is its version: how many changes of the observed thing   *)
(* it has seen.                                                            *)
(***************************************************************************)
EXTENDS Naturals, Sequences

CONSTANTS
  ViewSets,     \* the views that the browser may have, of AllViews
  MaxRequests,  \* bound: requests before a further connection
  MaxVersion    \* bound: changes of what is observed

\* The changed files of a session, the diff of one, the verification of the
\* session, the configuration, the tmux sessions, and the terminal that is
\* being attached or launched.
Panels == {"changes", "diff", "verification"}
AllViews == Panels \cup {"config", "tmux", "launch"}

VARIABLES
  link,       \* the transport's connection, as the browser knows it
  toServer,   \* messages on their way
  toBrowser,
  tasks,      \* the requests whose handler has not answered yet
  view,       \* what each view shows, and the request it waits for
  now,        \* the version of what is observed
  requests    \* the requests so far

clientVars == <<link, toServer, toBrowser, tasks, view, now, requests>>

Nothing == 0    \* no observation, or no request
Ids == 1 .. MaxRequests + 1
Views == DOMAIN view
NoView == [pending |-> Nothing, acts |-> FALSE, shown |-> Nothing]

ClientInit ==
  /\ link = "unused"
  /\ toServer = <<>> /\ toBrowser = <<>> /\ tasks = {}
  /\ view = <<>>
  /\ now = 1 /\ requests = 0

messages == <<toServer, toBrowser, tasks>>

-----------------------------------------------------------------------------
(* The views.                                                              *)

Begins(v, acts) ==
  /\ requests' = requests + 1
  /\ view' = [view EXCEPT ![v].pending = requests', ![v].acts = acts]

Shows(v, version) == [NoView EXCEPT !.shown = version]

\* Faulty variant: any answer will do for a view that waits for one.
AcceptsAny(m) == view[m.view].pending # Nothing

\* The answer of the latest request.
Accepts(m) == view[m.view].pending = m.id

Accept(m) ==
  IF Accepts(m) THEN [view EXCEPT ![m.view] = Shows(m.view, m.version)]
  ELSE view

\* A verification that is shown, or asked for, takes the pushed one.
AcceptUpdate(m) ==
  IF view[m.view] = NoView THEN view
  ELSE [view EXCEPT ![m.view] = Shows(m.view, m.version)]

\* Faulty variant: only the configuration is told.
RejectOne(m) ==
  IF m.view = "config" /\ view[m.view].pending = m.id
    THEN [view EXCEPT ![m.view] = Shows(m.view, view[m.view].shown)]
    ELSE view

\* An error ends the request; the changes and the diff are not told.
Reject(m) ==
  IF m.view \notin {"changes", "diff"} /\ view[m.view].pending = m.id
    THEN [view EXCEPT ![m.view] = Shows(m.view, view[m.view].shown)]
    ELSE view

\* The connection is lost: verification is forgotten, the others show what
\* they showed.
Interrupted ==
  [v \in Views |-> IF v = "verification" THEN NoView
                   ELSE Shows(v, view[v].shown)]

-----------------------------------------------------------------------------
(* The transport.                                                          *)

\* start(), from a page with these views.
Starts(S) ==
  /\ link = "unused"
  /\ link' = "connecting"
  /\ view' = [v \in S |-> NoView]
  /\ UNCHANGED <<messages, now, requests>>

\* The socket opens: the configuration is asked for.
Connects ==
  /\ link = "connecting"
  /\ link' = "open"
  /\ IF "config" \in Views
       THEN /\ requests <= MaxRequests
            /\ Begins("config", FALSE)
            /\ toServer' = <<[id |-> requests', view |-> "config",
                              kind |-> "inspect"]>>
       ELSE UNCHANGED <<requests, view, toServer>>
  /\ UNCHANGED <<toBrowser, tasks, now>>

\* The bootstrap fails or the socket closes before it opens.
ConnectFails ==
  /\ link = "connecting"
  /\ link' = "waiting"
  /\ UNCHANGED <<messages, view, now, requests>>

\* The retry timer.
Reconnects ==
  /\ link = "waiting"
  /\ link' = "connecting"
  /\ UNCHANGED <<messages, view, now, requests>>

\* The socket is closing, and the browser has not been told.
Breaks ==
  /\ link = "open"
  /\ link' = "closing"
  /\ UNCHANGED <<messages, view, now, requests>>

\* The close event.  Handlers go on and answer nobody.
Closed ==
  /\ link = "closing"
  /\ link' = "waiting"
  /\ toServer' = <<>> /\ toBrowser' = <<>> /\ tasks' = {}
  /\ view' = Interrupted
  /\ UNCHANGED <<now, requests>>

\* send() drops what a socket that is not open cannot take.
Sent(message) ==
  toServer' = IF link = "open" THEN Append(toServer, message) ELSE toServer

Connected == link \in {"open", "closing"} /\ requests < MaxRequests

\* The refresh button of a panel is disabled while it loads; the
\* configuration is asked for on connecting only.
MayAsk(v) ==
  /\ Connected /\ v # "config"
  /\ v \in Panels => view[v].pending = Nothing \/ view[v].acts

\* requestRepositoryChanges() and its like, openTmuxDialog(), ...
Ask(v) ==
  /\ MayAsk(v)
  /\ Begins(v, FALSE)
  /\ Sent([id |-> requests', view |-> v, kind |-> "inspect"])
  /\ UNCHANGED <<link, toBrowser, tasks, now>>

\* A run or its cancellation, from a verification that is loaded.
Act(kind) ==
  /\ "verification" \in Views
  /\ Connected
  /\ LET v == view["verification"]
     IN v.shown # Nothing /\ (v.pending = Nothing \/ v.acts)
  /\ Begins("verification", TRUE)
  /\ Sent([id |-> requests', view |-> "verification", kind |-> kind])
  /\ UNCHANGED <<link, toBrowser, tasks, now>>

\* closeSelectedRepositoryDiff(), openSelectedRepositoryDiff(): the diff is
\* forgotten, and the request for it goes on.
CloseDiff ==
  /\ "diff" \in Views /\ view["diff"] # NoView
  /\ view' = [view EXCEPT !["diff"] = NoView]
  /\ UNCHANGED <<link, messages, now, requests>>

-----------------------------------------------------------------------------
(* The hub.                                                                *)

Answer(r, version) ==
  [type |-> "answer", id |-> r.id, view |-> r.view, version |-> version]
Error(r) == [type |-> "error", id |-> r.id, view |-> r.view]

\* Verification is inspected and cancelled at once; the other handlers wait.
Immediate(r) == r.view = "verification" /\ r.kind # "run"

Received ==
  /\ toServer # <<>>
  /\ toServer' = Tail(toServer)
  /\ LET r == Head(toServer)
     IN IF Immediate(r)
          THEN /\ toBrowser' = Append(toBrowser, Answer(r, now))
               /\ UNCHANGED tasks
          ELSE /\ tasks' = tasks \cup {[request |-> r, seen |-> Nothing]}
               /\ UNCHANGED toBrowser
  /\ UNCHANGED <<link, view, now, requests>>

\* INVALID_MESSAGE, or the error of a handler that does not wait.
Refused ==
  /\ toServer # <<>>
  /\ toServer' = Tail(toServer)
  /\ toBrowser' = Append(toBrowser, Error(Head(toServer)))
  /\ UNCHANGED <<link, tasks, view, now, requests>>

\* git, tmux or a file is read.
Reads(t) ==
  /\ t.seen = Nothing /\ t.request.kind # "run"
  /\ tasks' = (tasks \ {t}) \cup {[t EXCEPT !.seen = now]}
  /\ UNCHANGED <<link, toServer, toBrowser, view, now, requests>>

\* A run answers with the state as it is once the run started.
Answers(t) ==
  /\ t.seen # Nothing \/ t.request.kind = "run"
  /\ tasks' = tasks \ {t}
  /\ toBrowser' = Append(toBrowser,
       Answer(t.request, IF t.request.kind = "run" THEN now ELSE t.seen))
  /\ UNCHANGED <<link, toServer, view, now, requests>>

\* SessionError, PACIUM_CONFIG_..., INTERNAL_ERROR
Fails(t) ==
  /\ tasks' = tasks \ {t}
  /\ toBrowser' = Append(toBrowser, Error(t.request))
  /\ UNCHANGED <<link, toServer, view, now, requests>>

\* A run changes: every browser is told.
VerificationChanges ==
  /\ "verification" \in Views
  /\ now < MaxVersion /\ now' = now + 1
  /\ toBrowser' = IF link \in {"open", "closing"}
       THEN Append(toBrowser, [type |-> "update", view |-> "verification",
                               version |-> now'])
       ELSE toBrowser
  /\ UNCHANGED <<link, toServer, tasks, view, requests>>

\* Files, sessions or the configuration change: nobody is told.
WorldChanges ==
  /\ now < MaxVersion /\ now' = now + 1
  /\ UNCHANGED <<link, messages, view, requests>>

-----------------------------------------------------------------------------
(* onTransportEvent()                                                      *)

Delivered ==
  /\ toBrowser # <<>>
  /\ toBrowser' = Tail(toBrowser)
  /\ LET m == Head(toBrowser)
     IN view' = CASE m.type = "answer" -> Accept(m)
                  [] m.type = "update" -> AcceptUpdate(m)
                  [] m.type = "error"  -> Reject(m)
  /\ UNCHANGED <<link, toServer, tasks, now, requests>>

Serves(i) ==
  \E t \in tasks : t.request.id = i /\ (Reads(t) \/ Answers(t) \/ Fails(t))

ClientNext ==
  \/ \E S \in ViewSets : Starts(S)
  \/ Connects \/ ConnectFails \/ Reconnects \/ Breaks \/ Closed
  \/ \E v \in Views : Ask(v)
  \/ \E kind \in {"run", "cancel"} : Act(kind)
  \/ CloseDiff
  \/ Received \/ Refused \/ Delivered
  \/ \E i \in Ids : Serves(i)
  \/ VerificationChanges \/ WorldChanges

\* Messages arrive, handlers end and a socket that closes is closed.
ClientFairness ==
  /\ WF_clientVars(Received \/ Refused) /\ WF_clientVars(Delivered)
  /\ WF_clientVars(Closed)
  /\ \A i \in Ids : WF_clientVars(Serves(i))

ClientSpec == ClientInit /\ [][ClientNext]_clientVars /\ ClientFairness

-----------------------------------------------------------------------------
\* Whatever order the answers come in, over however many connections, no
\* view goes back to an older observation.
ViewsNeverGoBack ==
  [][\A v \in Views :
       view'[v].shown # Nothing => view'[v].shown >= view[v].shown]_clientVars

Loading(v) == v \in Views /\ view[v].pending # Nothing

\* A view that can be told of an error never waits forever, whether its
\* request was answered, refused, dropped or lost with its connection.
EveryViewSettles ==
  \A v \in UNION ViewSets \ {"changes", "diff"} : Loading(v) ~> ~Loading(v)

\* The changes and the diff too end as loaded or as failed.
PanelsSettle ==
  \A v \in {"changes", "diff"} : Loading(v) ~> ~Loading(v)
=============================================================================
