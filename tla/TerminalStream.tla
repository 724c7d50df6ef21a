--------------------------- MODULE TerminalStream ---------------------------
(***************************************************************************)
(* Terminal output from the PTYs to one browser client: the sequence of    *)
(* chunks a session numbers, the snapshot that starts a view of it, the    *)
(* hub's subscriptions and the client's cursor.                            *)
(*                                                                         *)
(* A chunk is its sequence number, and a snapshot taken at sequence n      *)
(* shows the chunks 1 to n: what it cuts off when it is too long is left   *)
(* out.  The epoch of a session never changes.  The connection is FIFO in  *)
(* both directions and may be lost at any time; a server that finds too    *)
(* much output buffered closes it.                                         *)
(***************************************************************************)
EXTENDS Naturals, Sequences, SequencesExt, FiniteSets

CONSTANTS
  Sessions,       \* terminal sessions of the server
  None,           \* stands for no session and for no cursor
  MaxChunks,      \* bound on the output of a session
  PendingLimit,   \* frames a cursor keeps before its snapshot (1000)
  BufferLimit,    \* messages buffered before the hub gives up (4 MiB)
  MaxSelects,     \* bound on the views the operator opens
  MaxLosses       \* bound on lost connections

ASSUME StreamAssumption ==
  /\ None \notin Sessions
  /\ {MaxChunks, PendingLimit, BufferLimit, MaxSelects, MaxLosses} \subseteq Nat

VARIABLES
  sequence,       \* chunks numbered and emitted, per session
  parsed,         \* chunks the headless terminal has parsed (writeChain)
  ended,          \* sessions removed from the registry
  link,           \* the socket: open, closing (by the server) or down
  subscriptions,  \* sessions whose chunks the hub sends to the client
  attaches,       \* snapshots awaited: session and sequence, in order asked
  toServer,       \* terminal.attach messages under way
  toClient,       \* frames, snapshots and closings under way
  selected,       \* the session the client shows
  sync,           \* the client's cursor for it (syncRefs), or None
  screen,         \* the chunks its surface shows
  selects, losses \* how often the two happened

serverVars == <<sequence, parsed, ended>>
hubVars    == <<subscriptions, attaches>>
counters   == <<selects, losses>>
vars == <<serverVars, link, hubVars, toServer, toClient, selected, sync,
          screen, counters>>

UpTo(n) == [k \in 1 .. n |-> k]

\* What a sequence holds at these places, in its order.
AtPlaces(s, P) ==
  [k \in 1 .. Cardinality(P) |->
     s[CHOOSE p \in P : Cardinality({q \in P : q < p}) = k - 1]]

\* A snapshot holds the first "data" chunks.
Message == [type : {"frame"}, session : Sessions, sequence : Nat]
  \cup [type : {"snapshot"}, session : Sessions, sequence : Nat, data : Nat]
  \cup [type : {"closed"}, session : Sessions]

\* "alone" and "overflowed" are history: was no other snapshot of the session
\* under way when the cursor was made, and has it dropped a frame?
Cursor == [session : Sessions, sequence : Nat, snapshotApplied : BOOLEAN,
           pending : Seq(Nat), alone : BOOLEAN, overflowed : BOOLEAN]

Init ==
  /\ sequence = [s \in Sessions |-> 0]
  /\ parsed = [s \in Sessions |-> 0]
  /\ ended = {}
  /\ link = "open"
  /\ subscriptions = {}
  /\ attaches = << >>
  /\ toServer = << >>
  /\ toClient = << >>
  /\ selected = None
  /\ sync = None
  /\ screen = << >>
  /\ selects = 0
  /\ losses = 0

\* The hub sends on an open socket only.
Send(m) == toClient' = IF link = "open" THEN Append(toClient, m) ELSE toClient

-----------------------------------------------------------------------------
(* The server.                                                             *)

\* Faulty variant: a frame for a slow client is dropped.
SendBinaryOrDrop(m) ==
  /\ toClient' = IF link = "open" /\ Len(toClient) <= BufferLimit
                   THEN Append(toClient, m) ELSE toClient
  /\ UNCHANGED link

\* A client that falls behind is disconnected; the frame is not sent.
SendBinary(m) ==
  IF link = "open" /\ Len(toClient) > BufferLimit
    THEN link' = "closing" /\ UNCHANGED toClient
    ELSE Send(m) /\ UNCHANGED link

\* The n-th snapshot can be taken: the chunks it awaits are parsed, and those
\* asked for earlier for its session are answered.
Ready(n) ==
  /\ parsed[attaches[n].session] >= attaches[n].target
  /\ \A m \in 1 .. n - 1 : attaches[m].session # attaches[n].session

\* A continuation runs before the next event of the server.
Settled == \A n \in DOMAIN attaches : ~Ready(n)

\* The PTY emits a chunk: it is numbered, queued for the headless terminal
\* and sent to the subscribed client.
HandleDataChunk(s) ==
  /\ Settled
  /\ s \notin ended
  /\ sequence[s] < MaxChunks
  /\ sequence' = [sequence EXCEPT ![s] = @ + 1]
  /\ IF s \in subscriptions
       THEN SendBinary([type |-> "frame", session |-> s,
                        sequence |-> sequence'[s]])
       ELSE UNCHANGED <<toClient, link>>
  /\ UNCHANGED <<parsed, ended, hubVars, toServer, selected, sync, screen,
                 counters>>

\* The headless terminal parses the next chunk.
Parse(s) ==
  /\ Settled
  /\ s \notin ended
  /\ parsed[s] < sequence[s]
  /\ parsed' = [parsed EXCEPT ![s] = @ + 1]
  /\ UNCHANGED <<sequence, ended, link, hubVars, toServer, toClient, selected,
                 sync, screen, counters>>

\* Faulty variant: the client is not subscribed before the snapshot is awaited.
HandleAttachOnly ==
  /\ Settled /\ toServer # << >>
  /\ toServer' = Tail(toServer)
  /\ LET s == Head(toServer)
     IN attaches' = IF s \in ended THEN attaches
                      ELSE Append(attaches, [session |-> s,
                                             target |-> sequence[s]])
  /\ UNCHANGED <<serverVars, link, subscriptions, toClient, selected, sync,
                 screen, counters>>

\* terminal.attach: the client is subscribed, then the chunks numbered so far
\* are awaited.  An unknown session is an error and ends the subscription.
HandleAttach ==
  /\ Settled /\ toServer # << >>
  /\ toServer' = Tail(toServer)
  /\ LET s == Head(toServer)
     IN IF s \in ended
          THEN UNCHANGED hubVars
          ELSE /\ subscriptions' = subscriptions \cup {s}
               /\ attaches' = Append(attaches, [session |-> s,
                                                target |-> sequence[s]])
  /\ UNCHANGED <<serverVars, link, toClient, selected, sync, screen, counters>>

\* Faulty variant: the sequence is read when the snapshot is taken.
SnapshotNumberedLate(n) ==
  LET s == attaches[n].session
  IN /\ Ready(n)
     /\ attaches' = RemoveAt(attaches, n)
     /\ Send([type |-> "snapshot", session |-> s, sequence |-> sequence[s],
              data |-> parsed[s]])
     /\ UNCHANGED <<serverVars, link, subscriptions, toServer, selected, sync,
                    screen, counters>>

\* The screen is serialized and sent under the sequence captured by the
\* attach.
Snapshot(n) ==
  LET s == attaches[n].session
  IN /\ Ready(n)
     /\ attaches' = RemoveAt(attaches, n)
     /\ Send([type |-> "snapshot", session |-> s,
              sequence |-> attaches[n].target, data |-> parsed[s]])
     /\ UNCHANGED <<serverVars, link, subscriptions, toServer, selected, sync,
                    screen, counters>>

\* removeSession: the hub drops the subscriptions and tells the client.
RemoveSession(s) ==
  /\ Settled
  /\ s \notin ended
  /\ ended' = ended \cup {s}
  /\ subscriptions' = subscriptions \ {s}
  /\ Send([type |-> "closed", session |-> s])
  /\ UNCHANGED <<sequence, parsed, link, attaches, toServer, selected, sync,
                 screen, counters>>

-----------------------------------------------------------------------------
(* The client.                                                             *)

\* Snapshots of a session asked for and not yet received.
Outstanding(s) ==
  \/ s \in Range(toServer)
  \/ \E n \in DOMAIN attaches : attaches[n].session = s
  \/ \E n \in DOMAIN toClient : /\ toClient[n].type = "snapshot"
                                /\ toClient[n].session = s

NewCursor(s) == [session |-> s, sequence |-> 0, snapshotApplied |-> FALSE,
                 pending |-> << >>, alone |-> ~Outstanding(s),
                 overflowed |-> FALSE]

\* The sessions of the client's list: it has not yet heard that they closed.
Listed(messages) ==
  {s \in Sessions : s \notin ended
                      \/ [type |-> "closed", session |-> s] \in Range(messages)}

\* A session is shown: its surface is mounted or cleared, the other cursors
\* are dropped, and if the client believes itself connected it makes a cursor
\* and attaches.
Show(s, connection) ==
  /\ selected' = s
  /\ screen' = << >>
  /\ IF connection = "down"
       THEN sync' = None /\ UNCHANGED toServer
       ELSE sync' = NewCursor(s) /\ toServer' = Append(toServer, s)

\* The operator opens another session.
Select(s) ==
  /\ selects < MaxSelects
  /\ selected # s
  /\ s \in Listed(toClient)
  /\ selects' = selects + 1
  /\ Show(s, link)
  /\ UNCHANGED <<serverVars, link, hubVars, toClient, losses>>

\* The operator closes the view and the session runs on.  Its cursor stays
\* behind, but a surface mounted later never uses it.
CloseView ==
  /\ selected # None
  /\ selected' = None
  /\ sync' = None
  /\ screen' = << >>
  /\ UNCHANGED <<serverVars, link, hubVars, toServer, toClient, counters>>

\* Frames and snapshots of other sessions are ignored.
Shows(s) == sync # None /\ sync.session = s

\* Faulty variant: every frame is kept until the snapshot.
FrameKept(m) ==
  /\ Shows(m.session)
  /\ ~sync.snapshotApplied
  /\ sync' = [sync EXCEPT !.pending = Append(@, m.sequence)]
  /\ UNCHANGED screen

\* A frame that comes before the snapshot is kept, up to a limit.
FrameBefore(m) ==
  /\ Shows(m.session)
  /\ ~sync.snapshotApplied
  /\ sync' = IF Len(sync.pending) < PendingLimit
               THEN [sync EXCEPT !.pending = Append(@, m.sequence)]
               ELSE [sync EXCEPT !.overflowed = TRUE]
  /\ UNCHANGED screen

\* A later one is written unless it is old.
FrameAfter(m) ==
  /\ Shows(m.session)
  /\ sync.snapshotApplied
  /\ IF m.sequence > sync.sequence
       THEN /\ screen' = Append(screen, m.sequence)
            /\ sync' = [sync EXCEPT !.sequence = m.sequence]
       ELSE UNCHANGED <<screen, sync>>

\* Faulty variant: all the frames kept are written again.
ApplySnapshotAll(m) ==
  /\ Shows(m.session)
  /\ screen' = UpTo(m.data) \o sync.pending
  /\ sync' = [sync EXCEPT !.snapshotApplied = TRUE, !.pending = << >>,
                          !.sequence = IF sync.pending = << >> THEN m.sequence
                                       ELSE Last(sync.pending)]

\* The places of the frames that are newer than a number and those before.
Newer(frames, number) ==
  {n \in DOMAIN frames : /\ frames[n] > number
                         /\ \A k \in 1 .. n - 1 : frames[k] < frames[n]}

\* A snapshot of the session, whichever attach it answers, replaces the
\* screen and is followed by the newer frames kept.
ApplySnapshot(m) ==
  /\ Shows(m.session)
  /\ LET newer == AtPlaces(sync.pending, Newer(sync.pending, m.sequence))
     IN /\ screen' = UpTo(m.data) \o newer
        /\ sync' = [sync EXCEPT !.snapshotApplied = TRUE, !.pending = << >>,
                     !.sequence = IF newer = << >> THEN m.sequence
                                                   ELSE Last(newer)]

\* A session is gone: if it was shown, the client shows another one of its
\* list, the first in an order left open here.
SessionClosed(m) ==
  LET remaining == Listed(Tail(toClient)) \ {m.session}
  IN CASE selected # m.session ->
            UNCHANGED <<selected, sync, screen, toServer>>
       [] selected = m.session /\ remaining # {} ->
            \E s \in remaining : Show(s, link)
       [] OTHER ->
            /\ selected' = None
            /\ sync' = None
            /\ screen' = << >>
            /\ UNCHANGED toServer

Receive ==
  /\ toClient # << >>
  /\ toClient' = Tail(toClient)
  /\ LET m == Head(toClient)
     IN \/ m.type = "closed" /\ SessionClosed(m)
        \/ /\ m.type # "closed"
           /\ \/ m.type = "frame" /\ FrameBefore(m)
              \/ m.type = "frame" /\ FrameAfter(m)
              \/ m.type = "snapshot" /\ ApplySnapshot(m)
              \/ ~Shows(m.session) /\ UNCHANGED <<sync, screen>>
           /\ UNCHANGED <<selected, toServer>>
  /\ UNCHANGED <<serverVars, link, hubVars, counters>>

\* The connection ends: nothing under way arrives, and the client drops its
\* cursors.
Disconnect ==
  /\ link' = "down"
  /\ subscriptions' = {}
  /\ attaches' = << >>
  /\ toServer' = << >>
  /\ toClient' = << >>
  /\ sync' = None
  /\ UNCHANGED <<serverVars, selected, screen, selects>>

\* The network fails, or the close by the server reaches the client after
\* what it had sent.
Lose ==
  /\ link # "down"
  /\ losses < MaxLosses
  /\ losses' = losses + 1
  /\ Disconnect

Close ==
  /\ link = "closing"
  /\ toClient = << >>
  /\ Disconnect
  /\ UNCHANGED losses

\* The transport's timer connects again.  The effect attaches to the session
\* shown, and session.list tells whether it still exists; a client that shows
\* none shows the first of that list.
Reconnect ==
  /\ link = "down"
  /\ link' = "open"
  /\ LET next == IF selected = None THEN Sessions \ ended ELSE {selected}
     IN \/ \E s \in next :
             /\ Show(s, link')
             /\ toClient' = IF s \in ended
                              THEN <<[type |-> "closed", session |-> s]>>
                              ELSE << >>
        \/ next = {} /\ UNCHANGED <<selected, sync, screen, toServer, toClient>>
  /\ UNCHANGED <<serverVars, hubVars, counters>>

-----------------------------------------------------------------------------

Next ==
  \/ \E s \in Sessions : HandleDataChunk(s) \/ Parse(s) \/ RemoveSession(s)
                         \/ Select(s)
  \/ CloseView
  \/ HandleAttach
  \/ \E n \in DOMAIN attaches : Snapshot(n)
  \/ Receive
  \/ Lose
  \/ Close
  \/ Reconnect

Spec == Init /\ [][Next]_vars

\* Messages arrive or the connection is lost, chunks are parsed, awaited
\* snapshots are taken and the transport keeps reconnecting.
FairSpec ==
  /\ Spec
  /\ \A s \in Sessions : WF_vars(Parse(s))
  /\ WF_vars(HandleAttach)
  /\ WF_vars(\E n \in DOMAIN attaches : Snapshot(n))
  /\ WF_vars(Receive)
  /\ WF_vars(Close)
  /\ WF_vars(Reconnect)

-----------------------------------------------------------------------------
(* Properties.                                                             *)

TypeOK ==
  /\ sequence \in [Sessions -> Nat]
  /\ parsed \in [Sessions -> Nat]
  /\ ended \subseteq Sessions
  /\ link \in {"open", "closing", "down"}
  /\ subscriptions \subseteq Sessions
  /\ attaches \in Seq([session : Sessions, target : Nat])
  /\ toServer \in Seq(Sessions)
  /\ toClient \in Seq(Message)
  /\ selected \in Sessions \cup {None}
  /\ sync \in Cursor \cup {None}
  /\ sync # None => Len(sync.pending) <= PendingLimit
  /\ screen \in Seq(Nat)
  /\ selects \in Nat /\ losses \in Nat

\* Whatever is lost, reselected or reconnected, the screen never shows a
\* chunk twice, nor an older one below a newer one.
ScreenInOrder ==
  \A m, n \in DOMAIN screen : m < n => screen[m] < screen[n]

\* A view whose attach was the only one under way shows everything up to its
\* cursor, unless it received too much before its snapshot.
ScreenComplete ==
  sync # None /\ sync.snapshotApplied /\ sync.alone /\ ~sync.overflowed
    => screen = UpTo(sync.sequence)

\* Nor will it ever miss a chunk while the hub sends: those it does not show
\* yet are on their way.
FramesOf(s) ==
  {n \in DOMAIN toClient :
     toClient[n].type = "frame" /\ toClient[n].session = s}

NothingSkipped ==
  sync # None /\ sync.snapshotApplied /\ sync.alone /\ ~sync.overflowed
    /\ link = "open"
    => sequence[sync.session] = sync.sequence
                                   + Cardinality(FramesOf(sync.session))

\* A view that stays open ends up showing all the output of its session, if
\* its attach was the only one under way and nothing overflowed: lost
\* connections and a client that fell behind are made good by the next
\* snapshot.
Watching(s) ==
  /\ selected = s
  /\ s \notin ended
  /\ sync # None => sync.alone /\ ~sync.overflowed

EventuallyCurrent ==
  \A s \in Sessions :
    <>[]Watching(s) => <>[](screen = UpTo(sequence[s]))

-----------------------------------------------------------------------------
(* A claim of the repository that the code does not keep.                  *)

\* The snapshot of a view is applied once and the output after it is kept in
\* order: when all that was sent has arrived, the view is complete.
ReselectedViewComplete ==
  /\ sync # None
  /\ sync.snapshotApplied /\ ~sync.overflowed
  /\ link = "open" /\ toClient = << >> /\ ~Outstanding(sync.session)
  /\ sync.session \notin ended
  => screen = UpTo(sequence[sync.session])
=============================================================================
