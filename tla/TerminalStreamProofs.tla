------------------------ MODULE TerminalStreamProofs ------------------------
(***************************************************************************)
(* Proofs about the terminal stream, for any sessions, bounds and limits.  *)
(*                                                                         *)
(* None of the properties is inductive.  What makes them so is a cut       *)
(* through the connection: for each session there are two numbers, "low"   *)
(* and "high", such that the frames on their way to the client are exactly *)
(* low + 1 .. high, the client needs nothing up to low any more, and the   *)
(* hub has sent everything up to high.  What the client "has reached" is   *)
(* its cursor once it applied a snapshot, and before that the last frame   *)
(* it kept; the one snapshot that is awaited or on its way is then never   *)
(* too old to be joined by the frames kept ("HasReached").                 *)
(***************************************************************************)
EXTENDS TerminalStream, FiniteSetTheorems, SequenceTheorems, TLAPS

-----------------------------------------------------------------------------
(* The invariant.                                                          *)

\* The snapshots of a session on their way, those awaited, and the attaches
\* that ask for one.
Snapshots(s) ==
  {n \in DOMAIN toClient :
     toClient[n].type = "snapshot" /\ toClient[n].session = s}
Awaited(s) == {n \in DOMAIN attaches : attaches[n].session = s}
Asked(s)   == {n \in DOMAIN toServer : toServer[n] = s}

\* The numbers of the frames of a session that are on their way.
Numbers(s) == {toClient[n].sequence : n \in FramesOf(s)}

\* A lost connection leaves nothing behind.
DownIsEmpty ==
  link = "down" =>
    /\ subscriptions = {} /\ attaches = <<>>
    /\ toServer = <<>> /\ toClient = <<>> /\ sync = None

\* What is awaited of a session is parsed in the order it was asked for, and
\* not yet.
AttachesInOrder ==
  /\ \A n \in DOMAIN attaches :
       /\ parsed[attaches[n].session] <= attaches[n].target
       /\ attaches[n].target <= sequence[attaches[n].session]
  /\ \A m, n \in DOMAIN attaches :
       m < n /\ attaches[m].session = attaches[n].session =>
         attaches[m].target <= attaches[n].target
  /\ \A s \in Sessions : parsed[s] <= sequence[s]

\* Messages hold what was numbered; the frames of a session are in order, and
\* follow its snapshots.
MessagesInOrder ==
  /\ \A n \in DOMAIN toClient :
       /\ toClient[n].type # "closed" =>
            toClient[n].sequence <= sequence[toClient[n].session]
       /\ toClient[n].type = "snapshot" =>
            toClient[n].data = toClient[n].sequence
  /\ \A m, n \in DOMAIN toClient :
       /\ m < n /\ toClient[m].session = toClient[n].session
       /\ toClient[m].type # "closed" /\ toClient[n].type = "frame"
       => toClient[m].sequence < toClient[n].sequence

\* The frames kept are in order and before those on their way; once the
\* snapshot is applied the screen shows none past the cursor.
CursorInOrder ==
  sync # None =>
    /\ sync.session = selected
    /\ \A m, n \in DOMAIN sync.pending :
         m < n => sync.pending[m] < sync.pending[n]
    /\ \A m \in DOMAIN sync.pending :
         /\ sync.pending[m] <= sequence[sync.session]
         /\ \A k \in Numbers(sync.session) : sync.pending[m] < k
    /\ sync.snapshotApplied =>
         /\ sync.pending = <<>>
         /\ \A n \in DOMAIN screen : screen[n] <= sync.sequence

\* Only of a subscribed session is there anything on its way.
SubscribedFirst ==
  \A s \in Sessions \ (ended \cup subscriptions) :
    /\ FramesOf(s) = {} /\ Snapshots(s) = {} /\ Awaited(s) = {}
    /\ sync # None /\ sync.session = s =>
         sync.pending = <<>> /\ ~sync.snapshotApplied

\* A cursor whose attach is alone awaits one snapshot, or has applied it.
OneSnapshot ==
  sync # None /\ sync.alone =>
    LET s == sync.session
    IN IF sync.snapshotApplied
         THEN Asked(s) = {} /\ Awaited(s) = {} /\ Snapshots(s) = {}
         ELSE /\ \A m, n \in Asked(s) : m = n
              /\ \A m, n \in Awaited(s) : m = n
              /\ \A m, n \in Snapshots(s) : m = n
              /\ Asked(s) # {} => Awaited(s) = {} /\ Snapshots(s) = {}
              /\ Awaited(s) # {} => Snapshots(s) = {}

\* The client has what it needs of the chunks up to "low".
HasReached(low) ==
  LET s == sync.session
      kept == Len(sync.pending)
  IN IF sync.snapshotApplied
       THEN sync.alone => low = sync.sequence /\ screen = UpTo(low)
       ELSE /\ \A n \in DOMAIN sync.pending :
                 sync.pending[n] + kept = low + n
            /\ kept <= low
            /\ sync.alone =>
                 /\ \A n \in Awaited(s) : low <= attaches[n].target + kept
                 /\ \A n \in Snapshots(s) : low <= toClient[n].sequence + kept

\* The frames of a session on their way are all those between what the client
\* has reached and what the hub sent.
Stream(s, low, high) ==
  /\ Numbers(s) = low + 1 .. high
  /\ low <= high /\ high <= sequence[s]
  /\ link = "open" => high = sequence[s]
  /\ \A n \in Snapshots(s) : toClient[n].sequence <= high
  /\ sync # None /\ sync.session = s /\ ~sync.overflowed => HasReached(low)

NoGap == \A s \in Sessions : \E low, high \in Nat : Stream(s, low, high)

\* The inductive invariant.
StreamInv ==
  /\ TypeOK /\ ScreenInOrder
  /\ DownIsEmpty /\ AttachesInOrder /\ MessagesInOrder /\ CursorInOrder
  /\ SubscribedFirst /\ OneSnapshot /\ NoGap

-----------------------------------------------------------------------------
(* Sequences.                                                              *)

\* "place" lists the places of P in their order, and AtPlaces what is there.
InOrder(s, P, place) ==
  /\ place \in [1 .. Cardinality(P) -> P]
  /\ \A k \in 1 .. Cardinality(P) :
       /\ AtPlaces(s, P)[k] = s[place[k]]
       /\ Cardinality({q \in P : q < place[k]}) = k - 1
  /\ \A k, l \in 1 .. Cardinality(P) : k < l => place[k] < place[l]

\* AtPlaces numbers the places of a finite set in their order.
LEMMA PlacesInOrder ==
  ASSUME NEW S, NEW s \in Seq(S), NEW P \in SUBSET DOMAIN s
  PROVE  /\ Cardinality(P) \in Nat
         /\ AtPlaces(s, P) \in Seq(S)
         /\ Len(AtPlaces(s, P)) = Cardinality(P)
         /\ \E place : InOrder(s, P, place)
<1> DEFINE N == Cardinality(P)
           Below(p) == {q \in P : q < p}
           rank == [p \in P |-> Cardinality(Below(p))]
<1>1. IsFiniteSet(P) /\ N \in Nat /\ P \subseteq Nat
  <2>1. IsFiniteSet(1 .. Len(s)) /\ P \subseteq 1 .. Len(s)
    BY FS_Interval
  <2> QED BY <2>1, FS_Subset, FS_CardinalityType
<1>2. ASSUME NEW p \in P
      PROVE  IsFiniteSet(Below(p)) /\ Cardinality(Below(p)) \in 0 .. N - 1
  <2>1. Below(p) \in SUBSET P /\ p \notin Below(p)
    BY <1>1
  <2>2. /\ IsFiniteSet(Below(p))
        /\ Cardinality(Below(p)) <= N /\ Cardinality(Below(p)) # N
    BY <1>1, <2>1, FS_Subset
  <2> QED BY <1>1, <2>2, FS_CardinalityType
<1>3. ASSUME NEW p \in P, NEW q \in P, p < q
      PROVE  Cardinality(Below(p)) < Cardinality(Below(q))
  <2>1. Below(p) \in SUBSET Below(q) /\ p \in Below(q) /\ p \notin Below(p)
    BY <1>1, <1>3
  <2> HIDE DEF Below
  <2>2. /\ Cardinality(Below(p)) \in 0 .. N - 1
        /\ Cardinality(Below(q)) \in 0 .. N - 1
        /\ IsFiniteSet(Below(q))
    BY <1>2
  <2>3. /\ IsFiniteSet(Below(q)) /\ Cardinality(Below(q)) \in Nat
        /\ Cardinality(Below(p)) \in Nat
    BY <1>1, <2>2
  <2>4. /\ Cardinality(Below(p)) <= Cardinality(Below(q))
        /\ Cardinality(Below(p)) # Cardinality(Below(q))
    BY <2>1, <2>3, FS_Subset
  <2> QED BY <2>3, <2>4
<1> HIDE DEF Below
<1>4. rank \in [P -> 0 .. N - 1]
  BY <1>2
<1>5. \A p, q \in P : rank[p] = rank[q] => p = q
  <2> SUFFICES ASSUME NEW p \in P, NEW q \in P, p # q
               PROVE  rank[p] # rank[q]
    OBVIOUS
  <2>1. p < q \/ q < p
    BY <1>1
  <2> QED BY <1>1, <1>2, <1>3, <2>1
<1>6. IsFiniteSet(0 .. N - 1) /\ Cardinality(0 .. N - 1) = N
  <2>1. N \in Nat
    BY <1>1
  <2> HIDE DEF N
  <2> QED BY <2>1, FS_Interval
<1>7. rank \in Injection(P, 0 .. N - 1)
  BY <1>4, <1>5 DEF Injection, IsInjective
<1>8. rank \in Surjection(P, 0 .. N - 1)
  BY <1>6, <1>7, FS_Injection
<1> DEFINE Place(k) == CHOOSE p \in P : Cardinality(Below(p)) = k - 1
           place == [k \in 1 .. N |-> Place(k)]
<1>9. ASSUME NEW k \in 1 .. N
      PROVE  Place(k) \in P /\ Cardinality(Below(Place(k))) = k - 1
  <2>1. k - 1 \in 0 .. N - 1
    BY <1>1
  <2>2. \E p \in P : rank[p] = k - 1
    BY <1>8, <2>1 DEF Surjection
  <2> QED BY <2>2
<1>10. AtPlaces(s, P) = [k \in 1 .. N |-> s[Place(k)]]
  BY DEF AtPlaces, Below
<1> HIDE DEF Place
<1>11. place \in [1 .. N -> P]
  BY <1>9
<1>12. AtPlaces(s, P) \in [1 .. N -> S]
  BY <1>9, <1>10
<1>13. AtPlaces(s, P) \in Seq(S) /\ Len(AtPlaces(s, P)) = N
  BY <1>1, <1>12
<1>14. ASSUME NEW k \in 1 .. N, NEW l \in 1 .. N, k < l
       PROVE  place[k] < place[l]
  <2>1. ~(Place(l) < Place(k)) /\ Place(k) # Place(l)
    BY <1>3, <1>9, <1>14
  <2> QED BY <1>1, <1>9, <2>1
<1>15. \A k \in 1 .. N : /\ AtPlaces(s, P)[k] = s[place[k]]
                         /\ Cardinality(Below(place[k])) = k - 1
  BY <1>9, <1>10
<1>16. InOrder(s, P, place)
  BY <1>11, <1>14, <1>15 DEF InOrder, Below
<1> QED BY <1>1, <1>13, <1>16

-----------------------------------------------------------------------------
(* Messages.                                                               *)

\* The fields of a message.
LEMMA MessageFields ==
  ASSUME NEW m \in Message
  PROVE  /\ m.type \in {"frame", "snapshot", "closed"}
         /\ m.session \in Sessions
         /\ m.type # "closed" => m.sequence \in Nat
         /\ m.type = "snapshot" => m.data \in Nat
BY DEF Message

\* The places of the messages, and what they hold.
LEMMA OnTheWay ==
  ASSUME TypeOK, NEW n \in DOMAIN toClient
  PROVE  /\ n \in 1 .. Len(toClient) /\ n \in Nat
         /\ toClient[n] \in Message
         /\ toClient[n].type \in {"frame", "snapshot", "closed"}
         /\ toClient[n].session \in Sessions
         /\ toClient[n].type # "closed" => toClient[n].sequence \in Nat
         /\ toClient[n].type = "snapshot" => toClient[n].data \in Nat
<1>1. n \in 1 .. Len(toClient) /\ n \in Nat /\ toClient[n] \in Message
  BY DEF TypeOK
<1> QED BY <1>1, MessageFields

\* The snapshots awaited.
LEMMA InAttaches ==
  ASSUME TypeOK, NEW n \in DOMAIN attaches
  PROVE  /\ n \in 1 .. Len(attaches) /\ n \in Nat
         /\ attaches[n] \in [session : Sessions, target : Nat]
         /\ attaches[n].session \in Sessions /\ attaches[n].target \in Nat
<1> DEFINE Attach == [session : Sessions, target : Nat]
<1>1. attaches \in Seq(Attach)
  BY DEF TypeOK
<1> HIDE DEF Attach
<1>2. n \in 1 .. Len(attaches) /\ n \in Nat /\ attaches[n] \in Attach
  BY <1>1
<1> QED BY <1>2 DEF Attach

\* A stream is as before when nothing is sent or received.
LEMMA SameStream ==
  ASSUME NEW s \in Sessions, NEW low \in Nat, NEW high \in Nat,
         Stream(s, low, high), toClient' = toClient,
         high <= sequence'[s], link' = "open" => high = sequence'[s],
         sync' # None /\ sync'.session = s /\ ~sync'.overflowed =>
           HasReached(low)'
  PROVE  Stream(s, low, high)'
BY DEF Stream, Numbers, FramesOf, Snapshots

\* A step that no message takes part in changes none of them.
LEMMA SameMessages ==
  ASSUME toClient' = toClient
  PROVE  \A s \in Sessions : /\ FramesOf(s)' = FramesOf(s)
                             /\ Snapshots(s)' = Snapshots(s)
                             /\ Numbers(s)' = Numbers(s)
BY DEF FramesOf, Snapshots, Numbers

\* A message that is sent is the last of those on their way.
LEMMA Sent ==
  ASSUME TypeOK, NEW m \in Message, toClient' = Append(toClient, m)
  PROVE  /\ toClient' \in Seq(Message)
         /\ \A n \in DOMAIN toClient :
              n \in DOMAIN toClient' /\ toClient'[n] = toClient[n]
         /\ Len(toClient) + 1 \in DOMAIN toClient'
         /\ toClient'[Len(toClient) + 1] = m
         /\ \A n \in DOMAIN toClient' :
              n \in DOMAIN toClient \/ n = Len(toClient) + 1
         /\ Len(toClient) \in Nat
BY DEF TypeOK

\* Which sets of places it extends.
LEMMA SentPlaces ==
  ASSUME TypeOK, NEW m \in Message, toClient' = Append(toClient, m),
         NEW s \in Sessions
  PROVE  /\ FramesOf(s)' = IF m.type = "frame" /\ m.session = s
                             THEN FramesOf(s) \cup {Len(toClient) + 1}
                             ELSE FramesOf(s)
         /\ Snapshots(s)' = IF m.type = "snapshot" /\ m.session = s
                              THEN Snapshots(s) \cup {Len(toClient) + 1}
                              ELSE Snapshots(s)
         /\ Numbers(s)' = IF m.type = "frame" /\ m.session = s
                            THEN Numbers(s) \cup {m.sequence} ELSE Numbers(s)
<1>1. /\ \A n \in DOMAIN toClient :
           n \in DOMAIN toClient' /\ toClient'[n] = toClient[n]
      /\ Len(toClient) + 1 \in DOMAIN toClient'
      /\ toClient'[Len(toClient) + 1] = m
      /\ \A n \in DOMAIN toClient' :
           n \in DOMAIN toClient \/ n = Len(toClient) + 1
      /\ Len(toClient) + 1 \notin DOMAIN toClient
  BY Sent DEF TypeOK
<1>2. FramesOf(s)' = IF m.type = "frame" /\ m.session = s
                       THEN FramesOf(s) \cup {Len(toClient) + 1}
                       ELSE FramesOf(s)
  BY <1>1 DEF FramesOf
<1>3. Snapshots(s)' = IF m.type = "snapshot" /\ m.session = s
                        THEN Snapshots(s) \cup {Len(toClient) + 1}
                        ELSE Snapshots(s)
  BY <1>1 DEF Snapshots
<1>4. \A n \in FramesOf(s) : n \in DOMAIN toClient
  BY DEF FramesOf
<1>5. Numbers(s)' = IF m.type = "frame" /\ m.session = s
                      THEN Numbers(s) \cup {m.sequence} ELSE Numbers(s)
  BY <1>1, <1>2, <1>4 DEF Numbers
<1> QED BY <1>2, <1>3, <1>5

\* The step of a message that is sent when it may be.
LEMMA SendEither ==
  ASSUME NEW m, Send(m)
  PROVE  \/ link = "open" /\ toClient' = Append(toClient, m)
         \/ link # "open" /\ toClient' = toClient
BY DEF Send

-----------------------------------------------------------------------------
(* The server.                                                             *)

\* A chunk that no frame carries: nobody is subscribed, or the connection is
\* or becomes one that is closing.
LEMMA UnsentChunk ==
  ASSUME StreamInv, NEW s \in Sessions,
         sequence' = [sequence EXCEPT ![s] = @ + 1],
         toClient' = toClient,
         link' \in {"open", "closing", "down"},
         link' = "down" => link = "down",
         link' = "open" => link = "open" /\ s \notin subscriptions,
         s \notin ended,
         UNCHANGED <<parsed, ended, hubVars, toServer, selected, sync, screen,
                     counters>>
  PROVE  StreamInv'
<1>1. /\ TypeOK /\ ScreenInOrder /\ DownIsEmpty /\ AttachesInOrder
      /\ MessagesInOrder /\ CursorInOrder /\ SubscribedFirst /\ OneSnapshot
      /\ NoGap
  BY DEF StreamInv
<1>2. /\ sequence \in [Sessions -> Nat] /\ sequence' \in [Sessions -> Nat]
      /\ sequence'[s] = sequence[s] + 1
      /\ \A x \in Sessions : sequence'[x] >= sequence[x]
      /\ \A x \in Sessions \ {s} : sequence'[x] = sequence[x]
      /\ parsed \in [Sessions -> Nat]
      /\ \A n \in DOMAIN attaches : attaches[n].session \in Sessions
                                      /\ attaches[n].target \in Nat
  <2>1. sequence \in [Sessions -> Nat] /\ parsed \in [Sessions -> Nat]
    BY <1>1 DEF TypeOK
  <2> QED BY <1>1, <2>1, InAttaches
<1>3. TypeOK'
  BY <1>1, <1>2 DEF TypeOK, hubVars, counters
<1>4. ScreenInOrder' /\ DownIsEmpty'
  BY <1>1 DEF ScreenInOrder, DownIsEmpty, hubVars
<1>5. AttachesInOrder'
  BY <1>1, <1>2 DEF AttachesInOrder, hubVars
<1>6. MessagesInOrder'
  <2>1. ASSUME NEW n \in DOMAIN toClient, toClient[n].type # "closed"
        PROVE  toClient[n].sequence <= sequence'[toClient[n].session]
    BY <1>1, <1>2, <2>1, OnTheWay DEF MessagesInOrder
  <2> QED BY <1>1, <2>1 DEF MessagesInOrder
<1>7. CursorInOrder'
  <2>1. sync # None => /\ sync.session \in Sessions
                       /\ \A n \in DOMAIN sync.pending : sync.pending[n] \in Nat
    BY SMTT(30), <1>1 DEF TypeOK, Cursor
  <2> QED BY <1>1, <1>2, <2>1, SameMessages DEF CursorInOrder
<1>8. SubscribedFirst'
  BY <1>1 DEF SubscribedFirst, FramesOf, Snapshots, Awaited, hubVars
<1>9. OneSnapshot'
  BY <1>1 DEF OneSnapshot, Asked, Awaited, Snapshots, hubVars
<1>10. NoGap'
  <2> SUFFICES ASSUME NEW x \in Sessions
               PROVE  \E low, high \in Nat : Stream(x, low, high)'
    BY DEF NoGap
  <2>1. PICK low \in Nat, high \in Nat : Stream(x, low, high)
    BY <1>1 DEF NoGap
  <2>2. HasReached(low)' <=> HasReached(low)
    BY DEF HasReached, Awaited, Snapshots, hubVars
  <2>3. CASE x # s \/ link' # "open"
    <3>1. high <= sequence'[x]
      BY <1>2, <2>1 DEF Stream
    <3>2. link' = "open" => high = sequence'[x]
      BY <1>2, <2>1, <2>3 DEF Stream
    <3>3. Stream(x, low, high)'
      BY <2>1, <2>2, <3>1, <3>2, SameStream DEF Stream
    <3> QED BY <3>3
  <2>4. CASE x = s /\ link' = "open"
    <3>1. /\ FramesOf(s)' = {} /\ Snapshots(s)' = {} /\ Awaited(s)' = {}
          /\ sync' # None /\ sync'.session = s =>
               sync'.pending = <<>> /\ ~sync'.snapshotApplied
      BY <1>8, <2>4 DEF SubscribedFirst, hubVars
    <3>2. PICK new \in Nat : new = sequence'[s]
      BY <1>2
    <3>3. new + 1 .. new = {} /\ new <= new
      OBVIOUS
    <3>4. sync' # None /\ sync'.session = s => HasReached(new)'
      BY <3>1, <3>3 DEF HasReached
    <3>5. Stream(s, new, new)'
      BY <3>1, <3>3, <3>4, <3>2 DEF Stream, Numbers
    <3> QED BY <2>4, <3>5
  <2> QED BY <2>3, <2>4
<1> QED BY <1>3, <1>4, <1>5, <1>6, <1>7, <1>8, <1>9, <1>10 DEF StreamInv

\* A frame that is sent follows all those of its session.
LEMMA SentFrame ==
  ASSUME StreamInv, NEW s \in Sessions, NEW m \in Message,
         m.type = "frame", m.session = s, m.sequence = sequence[s] + 1,
         sequence' = [sequence EXCEPT ![s] = @ + 1],
         toClient' = Append(toClient, m),
         link = "open", s \in subscriptions,
         UNCHANGED <<parsed, ended, link, hubVars, toServer, selected, sync,
                     screen, counters>>
  PROVE  StreamInv'
<1>1. /\ TypeOK /\ ScreenInOrder /\ DownIsEmpty /\ AttachesInOrder
      /\ MessagesInOrder /\ CursorInOrder /\ SubscribedFirst /\ OneSnapshot
      /\ NoGap
  BY DEF StreamInv
<1>2. /\ sequence \in [Sessions -> Nat] /\ sequence' \in [Sessions -> Nat]
      /\ sequence'[s] = sequence[s] + 1
      /\ \A x \in Sessions : sequence'[x] >= sequence[x]
      /\ \A x \in Sessions \ {s} : sequence'[x] = sequence[x]
      /\ parsed \in [Sessions -> Nat]
      /\ \A n \in DOMAIN attaches : attaches[n].session \in Sessions
                                      /\ attaches[n].target \in Nat
  <2>1. sequence \in [Sessions -> Nat] /\ parsed \in [Sessions -> Nat]
    BY <1>1 DEF TypeOK
  <2> QED BY <1>1, <2>1, InAttaches
<1> DEFINE last == Len(toClient) + 1
<1>3. /\ toClient' \in Seq(Message)
      /\ \A n \in DOMAIN toClient :
           n \in DOMAIN toClient' /\ toClient'[n] = toClient[n]
      /\ last \in DOMAIN toClient' /\ toClient'[last] = m
      /\ \A n \in DOMAIN toClient' : n \in DOMAIN toClient \/ n = last
      /\ \A n \in DOMAIN toClient : n \in Nat /\ n < last
      /\ last \in Nat
  BY <1>1, Sent DEF TypeOK
<1>4. \A x \in Sessions :
        /\ FramesOf(x)' = IF x = s THEN FramesOf(x) \cup {last} ELSE FramesOf(x)
        /\ Snapshots(x)' = Snapshots(x)
        /\ Numbers(x)' = IF x = s THEN Numbers(x) \cup {sequence[s] + 1}
                                  ELSE Numbers(x)
  BY <1>1, SentPlaces
<1> HIDE DEF last
<1>5. TypeOK'
  BY <1>1, <1>2, <1>3 DEF TypeOK, hubVars, counters
<1>6. ScreenInOrder' /\ DownIsEmpty'
  BY <1>1 DEF ScreenInOrder, DownIsEmpty, hubVars
<1>7. AttachesInOrder'
  BY <1>1, <1>2 DEF AttachesInOrder, hubVars
<1>8. MessagesInOrder'
  <2>1. \A n \in DOMAIN toClient : toClient[n].type # "closed" =>
          toClient[n].sequence <= sequence[toClient[n].session]
            /\ toClient[n].sequence <= sequence'[toClient[n].session]
    BY <1>1, <1>2, OnTheWay DEF MessagesInOrder
  <2>2. \A n \in DOMAIN toClient' :
          /\ toClient'[n].type # "closed" =>
               toClient'[n].sequence <= sequence'[toClient'[n].session]
          /\ toClient'[n].type = "snapshot" =>
               toClient'[n].data = toClient'[n].sequence
    BY <1>1, <1>2, <1>3, <2>1 DEF MessagesInOrder
  <2>3. ASSUME NEW k \in DOMAIN toClient', NEW n \in DOMAIN toClient', k < n,
               toClient'[k].session = toClient'[n].session,
               toClient'[k].type # "closed", toClient'[n].type = "frame"
        PROVE  toClient'[k].sequence < toClient'[n].sequence
    <3>1. k \in DOMAIN toClient /\ toClient'[k] = toClient[k]
      BY <1>3, <2>3
    <3>2. CASE n \in DOMAIN toClient
      BY <1>1, <1>3, <2>3, <3>1, <3>2 DEF MessagesInOrder
    <3>3. CASE n = last
      BY <1>1, <1>2, <1>3, <2>1, <2>3, <3>1, <3>3, OnTheWay
    <3> QED BY <1>3, <3>2, <3>3
  <2> QED BY <2>2, <2>3 DEF MessagesInOrder
<1>9. CursorInOrder'
  <2>1. sync # None => /\ sync.session \in Sessions
                       /\ \A n \in DOMAIN sync.pending : sync.pending[n] \in Nat
    BY SMTT(30), <1>1 DEF TypeOK, Cursor
  <2> QED BY <1>1, <1>2, <1>4, <2>1 DEF CursorInOrder
<1>10. SubscribedFirst'
  BY <1>1, <1>4 DEF SubscribedFirst, Awaited, hubVars
<1>11. OneSnapshot'
  <2>1. sync # None => sync.session \in Sessions
    BY <1>1 DEF TypeOK, Cursor
  <2> QED BY <1>1, <1>4, <2>1 DEF OneSnapshot, Asked, Awaited, hubVars
<1>12. NoGap'
  <2> SUFFICES ASSUME NEW x \in Sessions
               PROVE  \E low, high \in Nat : Stream(x, low, high)'
    BY DEF NoGap
  <2>1. PICK low \in Nat, high \in Nat : Stream(x, low, high)
    BY <1>1 DEF NoGap
  <2>2. \A n \in Snapshots(x) : toClient'[n] = toClient[n]
    BY <1>3 DEF Snapshots
  <2>3. sync # None /\ sync.session = x /\ HasReached(low) => HasReached(low)'
    BY <1>4, <2>2 DEF HasReached, Awaited, hubVars
  <2>4. CASE x # s
    <3>1. Stream(x, low, high)'
      BY <1>2, <1>4, <2>1, <2>2, <2>3, <2>4 DEF Stream
    <3> QED BY <3>1
  <2>5. CASE x = s
    <3>1. high = sequence[x] /\ Numbers(x) = low + 1 .. high /\ low <= high
      BY <2>1, <2>5 DEF Stream
    <3>2. PICK new \in Nat : new = high + 1 /\ new = sequence'[x]
      BY <1>2, <2>5, <3>1
    <3>3. /\ Numbers(x)' = Numbers(x) \cup {new}
          /\ Snapshots(x)' = Snapshots(x)
      BY <1>4, <2>5, <3>1, <3>2
    <3>4. low + 1 .. new = (low + 1 .. high) \cup {new}
      BY <3>1, <3>2
    <3>5. Numbers(x)' = low + 1 .. new
      BY <3>1, <3>3, <3>4
    <3>6. ASSUME NEW n \in Snapshots(x)
          PROVE  toClient'[n].sequence <= new
      <4>1. toClient[n].sequence \in Nat /\ toClient[n].sequence <= high
        BY <1>1, <2>1, OnTheWay DEF Snapshots, Stream
      <4>2. toClient'[n] = toClient[n]
        BY <2>2
      <4> QED BY <3>2, <4>1, <4>2
    <3>7. sync' # None /\ sync'.session = x /\ ~sync'.overflowed =>
            HasReached(low)'
      BY <2>1, <2>3 DEF Stream
    <3>8. low <= new /\ new <= sequence'[x]
      BY <3>1, <3>2
    <3>9. Stream(x, low, new)'
      BY <3>2, <3>3, <3>5, <3>6, <3>7, <3>8 DEF Stream
    <3> QED BY <3>9
  <2> QED BY <2>4, <2>5
<1> QED BY <1>5, <1>6, <1>7, <1>8, <1>9, <1>10, <1>11, <1>12 DEF StreamInv

\* The PTY emits a chunk.
LEMMA ChunkStep ==
  ASSUME StreamInv, NEW s \in Sessions, HandleDataChunk(s)
  PROVE  StreamInv'
<1> DEFINE m == [type |-> "frame", session |-> s, sequence |-> sequence'[s]]
<1>1. /\ TypeOK /\ DownIsEmpty /\ sequence \in [Sessions -> Nat]
      /\ link \in {"open", "closing", "down"}
  BY DEF StreamInv, TypeOK
<1>2. /\ s \notin ended
      /\ sequence' = [sequence EXCEPT ![s] = @ + 1]
      /\ IF s \in subscriptions THEN SendBinary(m)
                                ELSE UNCHANGED <<toClient, link>>
      /\ UNCHANGED <<parsed, ended, hubVars, toServer, selected, sync, screen,
                     counters>>
  BY DEF HandleDataChunk
<1>3. m \in Message /\ m.type = "frame" /\ m.session = s
      /\ m.sequence = sequence[s] + 1
  BY <1>1, <1>2 DEF Message
<1> HIDE DEF m
<1>4. CASE s \notin subscriptions
  BY <1>1, <1>2, <1>4, UnsentChunk
<1>5. CASE s \in subscriptions /\ link = "open" /\ Len(toClient) > BufferLimit
  BY <1>1, <1>2, <1>5, UnsentChunk DEF SendBinary
<1>6. CASE s \in subscriptions /\ link # "open"
  BY <1>1, <1>2, <1>6, UnsentChunk DEF SendBinary, Send
<1>7. CASE /\ s \in subscriptions /\ link = "open"
           /\ ~(Len(toClient) > BufferLimit)
  BY <1>1, <1>2, <1>3, <1>7, SentFrame DEF SendBinary, Send
<1> QED BY <1>4, <1>5, <1>6, <1>7

\* A set of numbers has a least one.
LEMMA LeastNumber ==
  ASSUME NEW P \in SUBSET Nat, P # {}
  PROVE  \E p \in P : \A q \in P : ~(q < p)
<1>1. \E p \in P : \A q \in P : ~(<<q, p>> \in OpToRel(<, Nat))
  BY NatLessThanWellFounded, WFMin
<1> QED BY <1>1 DEF OpToRel

\* The headless terminal never gets past a snapshot that is awaited: the
\* first of its session would be ready before.
LEMMA NotYetParsed ==
  ASSUME TypeOK, AttachesInOrder, Settled, NEW n \in DOMAIN attaches
  PROVE  parsed[attaches[n].session] < attaches[n].target
<1> DEFINE s == attaches[n].session
           P == Awaited(s)
           Attach == [session : Sessions, target : Nat]
<1>1. /\ attaches \in Seq(Attach)
      /\ \A k \in DOMAIN attaches : k \in Nat /\ attaches[k].target \in Nat
                                      /\ attaches[k].session \in Sessions
      /\ n \in P /\ P \subseteq DOMAIN attaches
      /\ parsed \in [Sessions -> Nat]
  BY InAttaches DEF TypeOK, Awaited
<1>2. \E first \in P : \A q \in P : ~(q < first)
  <2> HIDE DEF P, Attach
  <2>1. P \subseteq Nat /\ P # {}
    BY <1>1
  <2> QED BY <2>1, LeastNumber
<1>3. PICK first \in P : \A q \in P : ~(q < first)
  BY <1>2
<1>4. first \in DOMAIN attaches /\ attaches[first].session = s
  BY DEF Awaited
<1>5. ~Ready(first)
  BY <1>4 DEF Settled
<1>6. \A k \in 1 .. first - 1 : attaches[k].session # s
  BY SMTT(30), <1>1, <1>3, <1>4 DEF Awaited
<1>7. ~(parsed[s] >= attaches[first].target)
  BY <1>4, <1>5, <1>6 DEF Ready
<1>8. attaches[first].target <= attaches[n].target
  <2>1. first = n \/ first < n
    BY <1>1, <1>3, <1>4
  <2> QED BY <1>1, <1>4, <2>1 DEF AttachesInOrder
<1> QED BY <1>1, <1>4, <1>7, <1>8

\* The headless terminal parses a chunk.
LEMMA ParseStep ==
  ASSUME StreamInv, NEW s \in Sessions, Parse(s)
  PROVE  StreamInv'
<1>1. /\ TypeOK /\ ScreenInOrder /\ DownIsEmpty /\ AttachesInOrder
      /\ MessagesInOrder /\ CursorInOrder /\ SubscribedFirst /\ OneSnapshot
      /\ NoGap
  BY DEF StreamInv
<1>2. /\ Settled /\ parsed[s] < sequence[s]
      /\ parsed' = [parsed EXCEPT ![s] = @ + 1]
      /\ UNCHANGED <<sequence, ended, link, hubVars, toServer, toClient,
                     selected, sync, screen, counters>>
  BY DEF Parse
<1>3. /\ parsed \in [Sessions -> Nat] /\ sequence \in [Sessions -> Nat]
      /\ parsed' \in [Sessions -> Nat]
      /\ parsed'[s] = parsed[s] + 1
      /\ \A x \in Sessions \ {s} : parsed'[x] = parsed[x]
  BY <1>1, <1>2 DEF TypeOK
<1>4. TypeOK'
  BY <1>1, <1>2, <1>3 DEF TypeOK, hubVars, counters
<1>5. AttachesInOrder'
  <2>1. \A n \in DOMAIN attaches :
          /\ parsed[attaches[n].session] < attaches[n].target
          /\ attaches[n].session \in Sessions /\ attaches[n].target \in Nat
    BY <1>1, <1>2, NotYetParsed, InAttaches
  <2> QED BY <1>1, <1>2, <1>3, <2>1 DEF AttachesInOrder, hubVars
<1>6. ScreenInOrder' /\ DownIsEmpty' /\ MessagesInOrder' /\ CursorInOrder'
  BY <1>1, <1>2 DEF ScreenInOrder, DownIsEmpty, MessagesInOrder,
     CursorInOrder, Numbers, FramesOf, hubVars
<1>7. SubscribedFirst' /\ OneSnapshot'
  BY <1>1, <1>2 DEF SubscribedFirst, OneSnapshot, FramesOf, Snapshots,
     Awaited, Asked, hubVars
<1>8. NoGap'
  BY SMTT(30), <1>1, <1>2
     DEF NoGap, Stream, HasReached, Numbers, FramesOf, Snapshots, Awaited,
         hubVars
<1> QED BY <1>4, <1>5, <1>6, <1>7, <1>8 DEF StreamInv

\* What is asked of the server first is no longer asked for.
LEMMA AskedNext ==
  ASSUME TypeOK, toServer # <<>>, toServer' = Tail(toServer)
  PROVE  /\ toServer' \in Seq(Sessions)
         /\ 1 \in Asked(Head(toServer)) /\ Head(toServer) \in Sessions
         /\ \A s \in Sessions : \A n \in Asked(s)' :
              n + 1 \in Asked(s) /\ n \in Nat /\ n # 0
<1>1. toServer \in Seq(Sessions) /\ 1 \in DOMAIN toServer
  BY DEF TypeOK
<1>2. /\ toServer' \in Seq(Sessions)
      /\ Head(toServer) = toServer[1] /\ Head(toServer) \in Sessions
      /\ \A n \in DOMAIN toServer' : /\ n + 1 \in DOMAIN toServer
                                     /\ toServer'[n] = toServer[n + 1]
                                     /\ n \in Nat /\ n # 0
  BY <1>1, HeadTailProperties
<1> QED BY <1>1, <1>2 DEF Asked

\* An attach of a session that ended is refused; another one subscribes the
\* client, and awaits the chunks numbered so far.
LEMMA AttachStep ==
  ASSUME StreamInv, HandleAttach
  PROVE  StreamInv'
<1> DEFINE s == Head(toServer)
           a == [session |-> s, target |-> sequence[s]]
           Attach == [session : Sessions, target : Nat]
<1>1. /\ TypeOK /\ ScreenInOrder /\ DownIsEmpty /\ AttachesInOrder
      /\ MessagesInOrder /\ CursorInOrder /\ SubscribedFirst /\ OneSnapshot
      /\ NoGap
  BY DEF StreamInv
<1>2. /\ toServer # <<>> /\ toServer' = Tail(toServer)
      /\ \/ s \in ended /\ UNCHANGED <<subscriptions, attaches>>
         \/ /\ s \notin ended
            /\ subscriptions' = subscriptions \cup {s}
            /\ attaches' = Append(attaches, a)
      /\ UNCHANGED <<sequence, parsed, ended, link, toClient, selected, sync,
                     screen, selects, losses>>
  BY DEF HandleAttach, hubVars, serverVars, counters
<1>3. /\ toServer' \in Seq(Sessions)
      /\ s \in Sessions /\ 1 \in Asked(s)
      /\ \A x \in Sessions : \A n \in Asked(x)' :
           n + 1 \in Asked(x) /\ n \in Nat /\ n # 0
  BY <1>1, <1>2, AskedNext
<1>4. /\ sequence \in [Sessions -> Nat] /\ parsed \in [Sessions -> Nat]
      /\ a \in Attach /\ a.session = s /\ a.target = sequence[s]
      /\ attaches \in Seq(Attach)
      /\ sync # None => sync.session \in Sessions
  BY <1>1, <1>3 DEF TypeOK, Cursor
<1> HIDE DEF a, Attach, s
<1>5. /\ attaches' \in Seq(Attach)
      /\ \A n \in DOMAIN attaches :
           /\ n \in DOMAIN attaches' /\ attaches'[n] = attaches[n]
           /\ n \in Nat /\ n < Len(attaches) + 1
      /\ \A n \in DOMAIN attaches' :
           \/ n \in DOMAIN attaches
           \/ /\ s \notin ended /\ n = Len(attaches) + 1 /\ attaches'[n] = a
      /\ Len(attaches) + 1 \in Nat
  <2>1. CASE attaches' = attaches
    BY <1>4, <2>1
  <2>2. CASE s \notin ended /\ attaches' = Append(attaches, a)
    BY <1>4, <2>2
  <2> QED BY <1>2, <2>1, <2>2
<1>6. \A x \in Sessions :
        \/ Awaited(x)' = Awaited(x)
        \/ /\ x = s /\ s \notin ended /\ s \in subscriptions'
           /\ Awaited(x)' = Awaited(x) \cup {Len(attaches) + 1}
           /\ attaches'[Len(attaches) + 1] = a
  <2>1. CASE attaches' = attaches
    BY <2>1 DEF Awaited
  <2>2. CASE s \notin ended /\ attaches' = Append(attaches, a)
    <3>1. Len(attaches) + 1 \in DOMAIN attaches'
          /\ attaches'[Len(attaches) + 1] = a
      BY <1>4, <2>2
    <3>2. s \in subscriptions'
      BY <1>2, <2>2
    <3> QED BY <1>4, <1>5, <3>1, <3>2 DEF Awaited
  <2> QED BY <1>2, <2>1, <2>2
<1>7. TypeOK'
  BY <1>1, <1>2, <1>3, <1>5 DEF TypeOK, Attach
<1>8. ScreenInOrder' /\ MessagesInOrder' /\ CursorInOrder'
  BY <1>1, <1>2 DEF ScreenInOrder, MessagesInOrder, CursorInOrder, Numbers,
     FramesOf
<1>9. DownIsEmpty'
  BY <1>1, <1>2 DEF DownIsEmpty
<1>10. AttachesInOrder'
  <2>1. \A n \in DOMAIN attaches :
          /\ attaches[n].session \in Sessions /\ attaches[n].target \in Nat
          /\ attaches[n].target <= sequence[attaches[n].session]
          /\ parsed[attaches[n].session] <= attaches[n].target
    BY <1>1, InAttaches DEF AttachesInOrder
  <2>2. parsed[s] <= sequence[s]
    BY <1>1, <1>3 DEF AttachesInOrder
  <2>3. ASSUME NEW n \in DOMAIN attaches'
        PROVE  /\ parsed[attaches'[n].session] <= attaches'[n].target
               /\ attaches'[n].target <= sequence[attaches'[n].session]
    <3>1. CASE n \in DOMAIN attaches
      BY <1>5, <2>1, <3>1
    <3>2. CASE attaches'[n] = a
      BY <1>3, <1>4, <2>2, <3>2
    <3> QED BY <1>5, <3>1, <3>2
  <2>4. ASSUME NEW k \in DOMAIN attaches', NEW n \in DOMAIN attaches', k < n,
               attaches'[k].session = attaches'[n].session
        PROVE  attaches'[k].target <= attaches'[n].target
    <3>1. k \in DOMAIN attaches /\ attaches'[k] = attaches[k]
      BY <1>5, <2>4
    <3>2. CASE n \in DOMAIN attaches
      BY <1>1, <1>5, <2>4, <3>1, <3>2 DEF AttachesInOrder
    <3>3. CASE attaches'[n] = a
      BY <1>4, <2>1, <2>4, <3>1, <3>3
    <3> QED BY <1>5, <3>2, <3>3
  <2> QED BY <1>1, <1>2, <2>3, <2>4 DEF AttachesInOrder
<1>11. SubscribedFirst'
  <2> SUFFICES ASSUME NEW x \in Sessions,
                      x \notin ended', x \notin subscriptions'
               PROVE  /\ FramesOf(x)' = {} /\ Snapshots(x)' = {}
                      /\ Awaited(x)' = {}
                      /\ sync' # None /\ sync'.session = x =>
                           sync'.pending = <<>> /\ ~sync'.snapshotApplied
    BY DEF SubscribedFirst
  <2>1. x \notin ended /\ x \notin subscriptions
    BY <1>2
  <2>2. Awaited(x)' = Awaited(x)
    BY <1>6
  <2>3. FramesOf(x)' = FramesOf(x) /\ Snapshots(x)' = Snapshots(x)
    BY <1>2, SameMessages
  <2> QED BY <1>1, <1>2, <2>1, <2>2, <2>3 DEF SubscribedFirst
<1>12. OneSnapshot'
  <2> SUFFICES ASSUME sync # None, sync.alone, NEW x \in Sessions,
                      x = sync.session
               PROVE  IF sync.snapshotApplied
         THEN Asked(x)' = {} /\ Awaited(x)' = {} /\ Snapshots(x)' = {}
         ELSE /\ \A m, n \in Asked(x)' : m = n
              /\ \A m, n \in Awaited(x)' : m = n
              /\ \A m, n \in Snapshots(x)' : m = n
              /\ Asked(x)' # {} => Awaited(x)' = {} /\ Snapshots(x)' = {}
              /\ Awaited(x)' # {} => Snapshots(x)' = {}
    BY <1>2, <1>4 DEF OneSnapshot
  <2>1. Snapshots(x)' = Snapshots(x)
    BY <1>2, SameMessages
  <2>2. \A n \in Asked(x)' : n + 1 \in Asked(x) /\ n \in Nat /\ n # 0
    BY <1>3, <2>1
  <2>3. \/ Awaited(x)' = Awaited(x)
        \/ x = s /\ \E k : Awaited(x)' = Awaited(x) \cup {k}
    BY <1>6, <2>1
  <2>4. IF sync.snapshotApplied
          THEN Asked(x) = {} /\ Awaited(x) = {} /\ Snapshots(x) = {}
          ELSE /\ \A m, n \in Asked(x) : m = n
               /\ \A m, n \in Awaited(x) : m = n
               /\ \A m, n \in Snapshots(x) : m = n
               /\ Asked(x) # {} => Awaited(x) = {} /\ Snapshots(x) = {}
               /\ Awaited(x) # {} => Snapshots(x) = {}
    BY <1>1 DEF OneSnapshot
  <2>5. CASE x = s
    <3>1. ~sync.snapshotApplied /\ Awaited(x) = {} /\ Snapshots(x) = {}
      BY <1>3, <2>4, <2>5
    <3>2. Asked(x)' = {}
      <4> SUFFICES ASSUME NEW n \in Asked(x)' PROVE FALSE
        OBVIOUS
      <4>1. n + 1 = 1
        BY <1>3, <2>2, <2>4, <2>5, <3>1
      <4> QED BY <2>2, <4>1
    <3> QED BY <2>1, <2>3, <3>1, <3>2
  <2>6. CASE x # s
    <3>1. Awaited(x)' = Awaited(x)
      BY <2>3, <2>6
    <3>2. \A m, n \in Asked(x)' : m + 1 = n + 1 => m = n
      BY <2>2
    <3> QED BY <2>1, <2>2, <2>4, <3>1, <3>2
  <2> QED BY <2>5, <2>6
<1>13. NoGap'
  <2> SUFFICES ASSUME NEW x \in Sessions
               PROVE  \E low, high \in Nat : Stream(x, low, high)'
    BY DEF NoGap
  <2>1. PICK low \in Nat, high \in Nat : Stream(x, low, high)
    BY <1>1 DEF NoGap
  <2>2. high <= sequence[x] /\ low <= high /\ sequence[x] \in Nat
        /\ (link = "open" => high = sequence[x])
    BY <1>4, <2>1 DEF Stream
  <2>3. ASSUME sync # None, sync.session = x, HasReached(low)
        PROVE  HasReached(low)'
    <3>1. Snapshots(x)' = Snapshots(x)
      BY <1>2, SameMessages
    <3>2. Len(sync.pending) \in Nat
      BY <1>1, <2>3 DEF TypeOK, Cursor
    <3>3. ASSUME ~sync.snapshotApplied, sync.alone, NEW n \in Awaited(x)'
          PROVE  low <= attaches'[n].target + Len(sync.pending)
      <4>1. CASE n \in Awaited(x)
        <5>1. attaches'[n] = attaches[n]
          BY <1>5, <4>1 DEF Awaited
        <5> QED BY <2>3, <3>3, <4>1, <5>1 DEF HasReached
      <4>2. CASE x = s /\ attaches'[n] = a
        BY <1>4, <2>2, <3>2, <4>2
      <4> QED BY <1>6, <3>3, <4>1, <4>2
    <3> QED BY <1>2, <2>3, <3>1, <3>3 DEF HasReached
  <2>4. sync' # None /\ sync'.session = x /\ ~sync'.overflowed =>
          HasReached(low)'
    BY <1>2, <2>1, <2>3 DEF Stream
  <2>5. Stream(x, low, high)'
    BY <1>2, <2>1, <2>2, <2>4, SameStream
  <2> QED BY <2>5
<1> QED BY <1>7, <1>8, <1>9, <1>10, <1>11, <1>12, <1>13 DEF StreamInv

\* The place an element had before another one was removed.
Before(n, k) == IF k < n THEN k ELSE k + 1

\* The snapshots still awaited keep their order.
LEMMA Answered ==
  ASSUME TypeOK, NEW n \in DOMAIN attaches, attaches' = RemoveAt(attaches, n)
  PROVE  /\ attaches' \in Seq([session : Sessions, target : Nat])
         /\ \A k \in DOMAIN attaches' :
              /\ k \in Nat
              /\ Before(n, k) \in DOMAIN attaches /\ Before(n, k) # n
              /\ attaches'[k] = attaches[Before(n, k)]
<1> DEFINE Attach == [session : Sessions, target : Nat]
           a == SubSeq(attaches, 1, n - 1)
           b == SubSeq(attaches, n + 1, Len(attaches))
<1>1. attaches \in Seq(Attach)
  BY DEF TypeOK
<1> HIDE DEF Attach
<1>2. /\ Len(attaches) \in Nat /\ n \in 1 .. Len(attaches)
      /\ \A k \in 1 .. Len(attaches) : attaches[k] \in Attach
  BY <1>1
<1>3. /\ a \in Seq(Attach) /\ Len(a) = n - 1
      /\ \A k \in 1 .. n - 1 : a[k] = attaches[k]
  <2>1. /\ 1 \in Int /\ n - 1 \in Int
        /\ \A k \in 1 .. n - 1 : attaches[k] \in Attach
    BY <1>2
  <2>2. /\ SubSeq(attaches, 1, n - 1) \in Seq(Attach)
        /\ Len(SubSeq(attaches, 1, n - 1)) =
             IF 1 <= n - 1 THEN n - 1 - 1 + 1 ELSE 0
        /\ \A k \in 1 .. n - 1 - 1 + 1 :
             SubSeq(attaches, 1, n - 1)[k] = attaches[1 + k - 1]
    BY <2>1, SubSeqProperties
  <2> QED BY <1>2, <2>2
<1>4. /\ b \in Seq(Attach) /\ Len(b) = Len(attaches) - n
      /\ \A k \in 1 .. Len(attaches) - n : b[k] = attaches[n + k]
  <2>1. /\ n + 1 \in Int /\ Len(attaches) \in Int
        /\ \A k \in n + 1 .. Len(attaches) : attaches[k] \in Attach
    BY <1>2
  <2>2. /\ b \in Seq(Attach)
        /\ Len(b) = IF n + 1 <= Len(attaches)
                      THEN Len(attaches) - (n + 1) + 1 ELSE 0
        /\ \A k \in 1 .. Len(attaches) - (n + 1) + 1 :
             b[k] = attaches[n + 1 + k - 1]
    BY SMTT(30), <2>1, SubSeqProperties
  <2> QED BY <1>2, <2>2
<1>5. attaches' = a \o b
  BY DEF RemoveAt
<1> HIDE DEF a, b
<1>6. /\ attaches' \in Seq(Attach)
      /\ Len(attaches') = Len(attaches) - 1
      /\ \A k \in 1 .. Len(attaches') :
           attaches'[k] = IF k <= Len(a) THEN a[k] ELSE b[k - Len(a)]
  BY <1>2, <1>3, <1>4, <1>5
<1>7. ASSUME NEW k \in DOMAIN attaches'
      PROVE  /\ k \in Nat
             /\ Before(n, k) \in DOMAIN attaches /\ Before(n, k) # n
             /\ attaches'[k] = attaches[Before(n, k)]
  <2>1. k \in 1 .. Len(attaches) - 1
    BY <1>6
  <2>2. CASE k < n
    <3>1. attaches'[k] = a[k] /\ k \in 1 .. n - 1
      BY <1>2, <1>3, <1>6, <2>1, <2>2
    <3> QED BY <1>1, <1>2, <1>3, <2>1, <2>2, <3>1 DEF Before
  <2>3. CASE ~(k < n)
    <3>1. /\ k \in 1 .. Len(attaches') /\ ~(k <= Len(a)) /\ Len(a) = n - 1
          /\ k - (n - 1) \in 1 .. Len(attaches) - n
      BY <1>2, <1>3, <1>6, <2>1, <2>3
    <3>2. /\ attaches'[k] = b[k - (n - 1)]
          /\ k - (n - 1) \in 1 .. Len(attaches) - n
      BY <1>6, <3>1
    <3>3. b[k - (n - 1)] = attaches[n + (k - (n - 1))]
      BY <1>4, <3>2
    <3>4. n + (k - (n - 1)) = k + 1
      BY <1>2, <2>1
    <3> QED BY <1>1, <1>2, <2>1, <2>3, <3>2, <3>3, <3>4 DEF Before
  <2> QED BY <2>2, <2>3
<1> QED BY <1>6, <1>7 DEF Attach

\* A snapshot holds exactly the chunks its number tells.
LEMMA SnapshotStep ==
  ASSUME StreamInv, NEW n \in DOMAIN attaches, Snapshot(n)
  PROVE  StreamInv'
<1> DEFINE s == attaches[n].session
           m == [type |-> "snapshot", session |-> s,
                 sequence |-> attaches[n].target, data |-> parsed[s]]
           last == Len(toClient) + 1
<1>1. /\ TypeOK /\ ScreenInOrder /\ DownIsEmpty /\ AttachesInOrder
      /\ MessagesInOrder /\ CursorInOrder /\ SubscribedFirst /\ OneSnapshot
      /\ NoGap
  BY DEF StreamInv
<1>2. /\ Ready(n) /\ attaches' = RemoveAt(attaches, n) /\ Send(m)
      /\ UNCHANGED <<sequence, parsed, ended, link, subscriptions, toServer,
                     selected, sync, screen, selects, losses>>
  BY DEF Snapshot, serverVars, counters
<1>3. /\ n \in Nat /\ s \in Sessions /\ attaches[n].target \in Nat
      /\ sequence \in [Sessions -> Nat] /\ parsed \in [Sessions -> Nat]
      /\ sync # None => sync.session \in Sessions
  BY <1>1, InAttaches DEF TypeOK, Cursor
<1>4. parsed[s] = attaches[n].target /\ attaches[n].target <= sequence[s]
  BY <1>1, <1>2, <1>3 DEF AttachesInOrder, Ready
<1>5. /\ m \in Message /\ m.type = "snapshot" /\ m.session = s
      /\ m.sequence = attaches[n].target /\ m.data = m.sequence
  BY <1>3, <1>4 DEF Message
<1>6. /\ attaches' \in Seq([session : Sessions, target : Nat])
      /\ \A k \in DOMAIN attaches' :
           /\ k \in Nat
           /\ Before(n, k) \in DOMAIN attaches /\ Before(n, k) # n
           /\ attaches'[k] = attaches[Before(n, k)]
  BY <1>1, <1>2, Answered
<1>7. n \in Awaited(s) /\ link # "down" /\ (s \in ended \/ s \in subscriptions)
  <2>1. n \in Awaited(s)
    BY DEF Awaited
  <2>2. link # "down"
    BY <1>1 DEF DownIsEmpty
  <2> QED BY <1>1, <1>3, <2>1, <2>2 DEF SubscribedFirst
<1> HIDE DEF m, s
<1>8. \/ link # "open" /\ toClient' = toClient
      \/ link = "open" /\ toClient' = Append(toClient, m)
  BY <1>2, SendEither
<1>9. /\ toClient' \in Seq(Message)
      /\ \A k \in DOMAIN toClient :
           k \in DOMAIN toClient' /\ toClient'[k] = toClient[k]
      /\ \A k \in DOMAIN toClient' :
           \/ k \in DOMAIN toClient
           \/ link = "open" /\ k = last /\ toClient'[k] = m
      /\ \A k \in DOMAIN toClient : k \in Nat /\ k < last
      /\ last \in Nat
  <2>1. CASE toClient' = toClient
    BY SMTT(30), <1>1, <2>1 DEF TypeOK
  <2>2. CASE link = "open" /\ toClient' = Append(toClient, m)
    <3>1. /\ toClient' \in Seq(Message)
          /\ \A k \in DOMAIN toClient :
               k \in DOMAIN toClient' /\ toClient'[k] = toClient[k]
          /\ toClient'[last] = m
          /\ \A k \in DOMAIN toClient' : k \in DOMAIN toClient \/ k = last
      BY <1>1, <1>5, <2>2, Sent
    <3>2. /\ \A k \in DOMAIN toClient : k \in Nat /\ k < last
          /\ last \in Nat
      BY SMTT(30), <1>1 DEF TypeOK
    <3> HIDE DEF last
    <3> QED BY <2>2, <3>1, <3>2
  <2> QED BY <1>8, <2>1, <2>2
<1>10. \A x \in Sessions :
         /\ FramesOf(x)' = FramesOf(x) /\ Numbers(x)' = Numbers(x)
         /\ \/ Snapshots(x)' = Snapshots(x)
            \/ /\ x = s /\ link = "open" /\ toClient'[last] = m
               /\ Snapshots(x)' = Snapshots(x) \cup {last}
  <2>1. CASE toClient' = toClient
    BY <2>1, SameMessages
  <2>2. CASE link = "open" /\ toClient' = Append(toClient, m)
    BY <1>1, <1>5, <2>2, Sent, SentPlaces
  <2> QED BY <1>8, <2>1, <2>2
<1> HIDE DEF last
<1>11. \A x \in Sessions : \A k \in Awaited(x)' :
         /\ k \in Nat /\ Before(n, k) \in Awaited(x) /\ Before(n, k) # n
         /\ attaches'[k] = attaches[Before(n, k)]
  BY <1>6 DEF Awaited
<1>12. \A j, k \in Nat : /\ j < k => Before(n, j) < Before(n, k)
                         /\ Before(n, j) = Before(n, k) => j = k
  BY <1>3 DEF Before
<1>13. TypeOK'
  BY <1>1, <1>2, <1>6, <1>9 DEF TypeOK
<1>14. ScreenInOrder' /\ DownIsEmpty'
  BY <1>1, <1>2, <1>7 DEF ScreenInOrder, DownIsEmpty
<1>15. AttachesInOrder'
  BY <1>1, <1>2, <1>6, <1>12 DEF AttachesInOrder
<1>16. MessagesInOrder'
  <2>1. \A k \in DOMAIN toClient' :
          /\ toClient'[k].type # "closed" =>
               toClient'[k].sequence <= sequence[toClient'[k].session]
          /\ toClient'[k].type = "snapshot" =>
               toClient'[k].data = toClient'[k].sequence
    BY <1>1, <1>4, <1>5, <1>9 DEF MessagesInOrder, s
  <2>2. ASSUME NEW j \in DOMAIN toClient', NEW k \in DOMAIN toClient', j < k,
               toClient'[j].session = toClient'[k].session,
               toClient'[j].type # "closed", toClient'[k].type = "frame"
        PROVE  toClient'[j].sequence < toClient'[k].sequence
    <3>1. k \in DOMAIN toClient /\ toClient'[k] = toClient[k]
      BY <1>5, <1>9, <2>2
    <3>2. j \in DOMAIN toClient /\ toClient'[j] = toClient[j]
      BY <1>9, <2>2, <3>1
    <3> QED BY <1>1, <2>2, <3>1, <3>2 DEF MessagesInOrder
  <2> QED BY <1>2, <2>1, <2>2 DEF MessagesInOrder
<1>17. CursorInOrder'
  BY <1>1, <1>2, <1>3, <1>10 DEF CursorInOrder
<1>18. SubscribedFirst'
  <2> SUFFICES ASSUME NEW x \in Sessions, x \notin ended, x \notin subscriptions
               PROVE  /\ FramesOf(x)' = {} /\ Snapshots(x)' = {}
                      /\ Awaited(x)' = {}
                      /\ sync # None /\ sync.session = x =>
                           sync.pending = <<>> /\ ~sync.snapshotApplied
    BY <1>2 DEF SubscribedFirst
  <2>1. x # s
    BY <1>7
  <2> QED BY <1>1, <1>10, <1>11, <2>1 DEF SubscribedFirst
<1>19. OneSnapshot'
  <2> SUFFICES ASSUME sync # None, sync.alone, NEW x \in Sessions,
                      x = sync.session
               PROVE  IF sync.snapshotApplied
         THEN Asked(x)' = {} /\ Awaited(x)' = {} /\ Snapshots(x)' = {}
         ELSE /\ \A i, k \in Asked(x)' : i = k
              /\ \A i, k \in Awaited(x)' : i = k
              /\ \A i, k \in Snapshots(x)' : i = k
              /\ Asked(x)' # {} => Awaited(x)' = {} /\ Snapshots(x)' = {}
              /\ Awaited(x)' # {} => Snapshots(x)' = {}
    BY <1>2, <1>3 DEF OneSnapshot
  <2>1. Asked(x)' = Asked(x)
    BY <1>2 DEF Asked
  <2>2. IF sync.snapshotApplied
          THEN Asked(x) = {} /\ Awaited(x) = {} /\ Snapshots(x) = {}
          ELSE /\ \A i, k \in Asked(x) : i = k
               /\ \A i, k \in Awaited(x) : i = k
               /\ \A i, k \in Snapshots(x) : i = k
               /\ Asked(x) # {} => Awaited(x) = {} /\ Snapshots(x) = {}
               /\ Awaited(x) # {} => Snapshots(x) = {}
    BY <1>1 DEF OneSnapshot
  <2>3. CASE x = s
    <3>1. /\ ~sync.snapshotApplied /\ Asked(x) = {} /\ Snapshots(x) = {}
          /\ \A k \in Awaited(x) : k = n
      BY <1>7, <2>2, <2>3
    <3>2. Awaited(x)' = {}
      BY <1>11, <3>1
    <3> QED BY <1>10, <2>1, <3>1, <3>2
  <2>4. CASE x # s
    <3>1. Snapshots(x)' = Snapshots(x)
      BY <1>10, <2>4
    <3>2. /\ Awaited(x) = {} => Awaited(x)' = {}
          /\ \A i, k \in Awaited(x)' : Before(n, i) = Before(n, k) => i = k
      BY <1>11, <1>12
    <3>3. \A k \in Awaited(x)' : Before(n, k) \in Awaited(x)
      BY <1>11
    <3> QED BY <2>1, <2>2, <3>1, <3>2, <3>3
  <2> QED BY <2>3, <2>4
<1>20. NoGap'
  <2> SUFFICES ASSUME NEW x \in Sessions
               PROVE  \E low, high \in Nat : Stream(x, low, high)'
    BY DEF NoGap
  <2>1. PICK low \in Nat, high \in Nat : Stream(x, low, high)
    BY <1>1 DEF NoGap
  <2>2. \A k \in Snapshots(x) : toClient'[k] = toClient[k]
    BY <1>9 DEF Snapshots
  <2>3. \A k \in Snapshots(x)' : toClient'[k].sequence <= high
    <3>1. \A k \in Snapshots(x) : toClient'[k].sequence <= high
      BY <2>1, <2>2 DEF Stream
    <3>2. x = s /\ link = "open" => m.sequence <= high
      BY <1>4, <1>5, <2>1 DEF Stream
    <3> QED BY <1>10, <3>1, <3>2
  <2>4. ASSUME sync # None, sync.session = x, HasReached(low)
        PROVE  HasReached(low)'
    <3>1. ASSUME ~sync.snapshotApplied, sync.alone, NEW k \in Awaited(x)'
          PROVE  low <= attaches'[k].target + Len(sync.pending)
      BY <1>11, <2>4, <3>1 DEF HasReached
    <3>2. ASSUME ~sync.snapshotApplied, sync.alone, NEW k \in Snapshots(x)'
          PROVE  low <= toClient'[k].sequence + Len(sync.pending)
      <4>1. CASE k \in Snapshots(x)
        <5>1. toClient'[k] = toClient[k]
          BY <2>2, <4>1
        <5> QED BY <2>4, <3>2, <4>1, <5>1 DEF HasReached
      <4>2. CASE x = s /\ toClient'[k] = m
        <5>1. low <= attaches[n].target + Len(sync.pending)
          BY <1>7, <2>4, <3>2, <4>2 DEF HasReached
        <5> QED BY <1>5, <4>2, <5>1
      <4> QED BY <1>10, <3>2, <4>1, <4>2
    <3> QED BY <1>2, <2>4, <3>1, <3>2 DEF HasReached
  <2>5. sync' # None /\ sync'.session = x /\ ~sync'.overflowed =>
          HasReached(low)'
    BY <1>2, <2>1, <2>4 DEF Stream
  <2>6. Stream(x, low, high)'
    BY <1>2, <1>10, <2>1, <2>3, <2>5 DEF Stream
  <2> QED BY <2>6
<1> QED BY <1>13, <1>14, <1>15, <1>16, <1>17, <1>18, <1>19, <1>20 DEF StreamInv

\* A session that is removed ends its subscription.
LEMMA RemoveStep ==
  ASSUME StreamInv, NEW s \in Sessions, RemoveSession(s)
  PROVE  StreamInv'
<1> DEFINE m == [type |-> "closed", session |-> s]
<1>1. /\ TypeOK /\ ScreenInOrder /\ DownIsEmpty /\ AttachesInOrder
      /\ MessagesInOrder /\ CursorInOrder /\ SubscribedFirst /\ OneSnapshot
      /\ NoGap
  BY DEF StreamInv
<1>2. /\ ended' = ended \cup {s} /\ subscriptions' = subscriptions \ {s}
      /\ Send(m)
      /\ UNCHANGED <<sequence, parsed, link, attaches, toServer, selected, sync,
                     screen, selects, losses>>
  BY DEF RemoveSession, counters
<1>3. m \in Message /\ m.type = "closed"
  BY DEF Message
<1> HIDE DEF m
<1>4. \/ toClient' = toClient
      \/ link = "open" /\ toClient' = Append(toClient, m)
  BY <1>2, SendEither
<1>5. /\ toClient' \in Seq(Message)
      /\ \A k \in DOMAIN toClient :
           k \in DOMAIN toClient' /\ toClient'[k] = toClient[k]
      /\ \A k \in DOMAIN toClient' :
           k \in DOMAIN toClient \/ toClient'[k].type = "closed"
  <2>1. CASE toClient' = toClient
    BY <1>1, <2>1 DEF TypeOK
  <2>2. CASE link = "open" /\ toClient' = Append(toClient, m)
    BY <1>1, <1>3, <2>2, Sent DEF TypeOK
  <2> QED BY <1>4, <2>1, <2>2
<1>6. \A x \in Sessions :
        /\ FramesOf(x)' = FramesOf(x) /\ Snapshots(x)' = Snapshots(x)
        /\ Numbers(x)' = Numbers(x)
        /\ Awaited(x)' = Awaited(x) /\ Asked(x)' = Asked(x)
  <2>1. CASE toClient' = toClient
    BY <1>2, <2>1, SameMessages DEF Awaited, Asked
  <2>2. CASE link = "open" /\ toClient' = Append(toClient, m)
    BY <1>1, <1>2, <1>3, <2>2, SentPlaces DEF Awaited, Asked
  <2> QED BY <1>4, <2>1, <2>2
<1>7. sync # None => sync.session \in Sessions
  BY <1>1 DEF TypeOK, Cursor
<1>8. TypeOK'
  BY <1>1, <1>2, <1>5 DEF TypeOK
<1>9. ScreenInOrder' /\ AttachesInOrder'
  BY <1>1, <1>2 DEF ScreenInOrder, AttachesInOrder
<1>10. DownIsEmpty'
  BY <1>1, <1>2, <1>4 DEF DownIsEmpty, Send
<1>11. MessagesInOrder'
  BY <1>1, <1>2, <1>5 DEF MessagesInOrder
<1>12. CursorInOrder'
  BY <1>1, <1>2, <1>6, <1>7 DEF CursorInOrder
<1>13. SubscribedFirst'
  BY <1>1, <1>2, <1>6 DEF SubscribedFirst
<1>14. OneSnapshot'
  BY <1>1, <1>2, <1>6, <1>7 DEF OneSnapshot
<1>15. NoGap'
  <2> SUFFICES ASSUME NEW x \in Sessions
               PROVE  \E low, high \in Nat : Stream(x, low, high)'
    BY DEF NoGap
  <2>1. PICK low \in Nat, high \in Nat : Stream(x, low, high)
    BY <1>1 DEF NoGap
  <2>2. \A k \in Snapshots(x) : toClient'[k] = toClient[k]
    BY <1>5 DEF Snapshots
  <2>3. sync # None /\ sync.session = x /\ HasReached(low) => HasReached(low)'
    BY <1>2, <1>6, <2>2 DEF HasReached
  <2>4. Stream(x, low, high)'
    BY <1>2, <1>6, <2>1, <2>2, <2>3 DEF Stream
  <2> QED BY <2>4
<1> QED BY <1>8, <1>9, <1>10, <1>11, <1>12, <1>13, <1>14, <1>15 DEF StreamInv

-----------------------------------------------------------------------------
(* The client.                                                             *)

\* The fields of a cursor.
LEMMA CursorFields ==
  ASSUME TypeOK, sync # None
  PROVE  /\ sync \in Cursor
         /\ sync.session \in Sessions /\ sync.sequence \in Nat
         /\ sync.pending \in Seq(Nat) /\ Len(sync.pending) \in Nat
         /\ Len(sync.pending) <= PendingLimit
         /\ sync.snapshotApplied \in BOOLEAN
         /\ sync.alone \in BOOLEAN /\ sync.overflowed \in BOOLEAN
BY DEF TypeOK, Cursor

\* The messages that remain when the first d were received.
Rest(d) ==
  /\ toClient' \in Seq(Message)
  /\ \A n \in DOMAIN toClient' :
       /\ n \in Nat /\ n # 0
       /\ n + d \in DOMAIN toClient /\ toClient'[n] = toClient[n + d]

\* The first message is received.
LEMMA Received ==
  ASSUME TypeOK, toClient # <<>>, toClient' = Tail(toClient)
  PROVE  /\ Rest(1)
         /\ 1 \in DOMAIN toClient /\ Head(toClient) = toClient[1]
         /\ Head(toClient) \in Message
         /\ \A n \in DOMAIN toClient :
              n # 1 => /\ n - 1 \in DOMAIN toClient' /\ 1 < n
                       /\ toClient'[n - 1] = toClient[n]
<1>1. toClient \in Seq(Message) /\ Len(toClient) \in Nat /\ Len(toClient) # 0
  BY DEF TypeOK
<1>2. /\ toClient' \in Seq(Message) /\ Len(toClient') = Len(toClient) - 1
      /\ Head(toClient) = toClient[1] /\ Head(toClient) \in Message
      /\ \A n \in 1 .. Len(toClient') : toClient'[n] = toClient[n + 1]
  BY <1>1, HeadTailProperties
<1>3. \A n \in DOMAIN toClient' :
        /\ n \in Nat /\ n # 0
        /\ n + 1 \in DOMAIN toClient /\ toClient'[n] = toClient[n + 1]
  BY <1>1, <1>2
<1>4. ASSUME NEW n \in DOMAIN toClient, n # 1
      PROVE  n - 1 \in DOMAIN toClient' /\ toClient'[n - 1] = toClient[n]
             /\ 1 < n
  <2>1. n - 1 \in 1 .. Len(toClient') /\ (n - 1) + 1 = n /\ 1 < n
    BY <1>1, <1>2, <1>4
  <2>2. toClient'[n - 1] = toClient[(n - 1) + 1]
    BY <1>2, <2>1
  <2> QED BY <1>2, <2>1, <2>2
<1>5. 1 \in DOMAIN toClient
  BY <1>1
<1> QED BY <1>2, <1>3, <1>4, <1>5 DEF Rest

\* Nothing received: all of them remain.
LEMMA NoneReceived ==
  ASSUME TypeOK, toClient' = toClient
  PROVE  Rest(0)
BY DEF Rest, TypeOK

\* They are in order, and none of them is new.
LEMMA RestInOrder ==
  ASSUME TypeOK, MessagesInOrder, NEW d \in Nat, Rest(d), sequence' = sequence
  PROVE  MessagesInOrder'
<1>1. \A n \in DOMAIN toClient' :
        /\ n \in Nat /\ n + d \in DOMAIN toClient
        /\ toClient'[n] = toClient[n + d]
  BY DEF Rest
<1>2. \A n \in DOMAIN toClient' :
        /\ toClient'[n].type # "closed" =>
             toClient'[n].sequence <= sequence[toClient'[n].session]
        /\ toClient'[n].type = "snapshot" =>
             toClient'[n].data = toClient'[n].sequence
  BY <1>1 DEF MessagesInOrder
<1>3. ASSUME NEW m \in DOMAIN toClient', NEW n \in DOMAIN toClient', m < n,
             toClient'[m].session = toClient'[n].session,
             toClient'[m].type # "closed", toClient'[n].type = "frame"
      PROVE  toClient'[m].sequence < toClient'[n].sequence
  <2>1. m + d < n + d
    BY <1>1, <1>3
  <2>2. /\ m + d \in DOMAIN toClient /\ toClient'[m] = toClient[m + d]
        /\ n + d \in DOMAIN toClient /\ toClient'[n] = toClient[n + d]
    BY <1>1
  <2> QED BY <1>3, <2>1, <2>2 DEF MessagesInOrder
<1> QED BY <1>2, <1>3 DEF MessagesInOrder

\* The places of those that remain are d lower.
LEMMA RestPlaces ==
  ASSUME NEW d \in Nat, Rest(d), NEW s \in Sessions
  PROVE  /\ \A n \in FramesOf(s)' :
              n \in Nat /\ n # 0 /\ n + d \in FramesOf(s)
              /\ toClient'[n] = toClient[n + d]
         /\ \A n \in Snapshots(s)' :
              n \in Nat /\ n # 0 /\ n + d \in Snapshots(s)
              /\ toClient'[n] = toClient[n + d]
         /\ Numbers(s)' \subseteq Numbers(s)
<1>1. \A n \in FramesOf(s)' :
        n \in Nat /\ n # 0 /\ n + d \in FramesOf(s)
        /\ toClient'[n] = toClient[n + d]
  BY DEF FramesOf, Rest
<1>2. \A n \in Snapshots(s)' :
        n \in Nat /\ n # 0 /\ n + d \in Snapshots(s)
        /\ toClient'[n] = toClient[n + d]
  BY DEF Snapshots, Rest
<1> QED BY <1>1, <1>2 DEF Numbers

\* Only a frame takes its number away.
LEMMA SameNumbers ==
  ASSUME TypeOK, toClient # <<>>, toClient' = Tail(toClient),
         NEW s \in Sessions,
         ~(Head(toClient).type = "frame" /\ Head(toClient).session = s)
  PROVE  Numbers(s)' = Numbers(s)
<1>1. /\ Rest(1) /\ Head(toClient) = toClient[1]
      /\ \A n \in DOMAIN toClient :
           n # 1 => /\ n - 1 \in DOMAIN toClient' /\ 1 < n
                    /\ toClient'[n - 1] = toClient[n]
  BY Received
<1>2. Numbers(s)' \subseteq Numbers(s)
  BY <1>1, RestPlaces
<1>3. ASSUME NEW n \in FramesOf(s)
      PROVE  n - 1 \in FramesOf(s)' /\ toClient'[n - 1] = toClient[n]
  <2>1. n \in DOMAIN toClient /\ n # 1
    BY <1>1 DEF FramesOf
  <2> QED BY <1>1, <2>1 DEF FramesOf
<1>4. Numbers(s) \subseteq Numbers(s)'
  BY <1>3 DEF Numbers
<1> QED BY <1>2, <1>4

\* The frame that is received is the one the client awaits.
LEMMA HeadFrame ==
  ASSUME TypeOK, MessagesInOrder, toClient # <<>>, toClient' = Tail(toClient),
         NEW s \in Sessions, NEW low \in Nat, NEW high \in Nat,
         Numbers(s) = low + 1 .. high,
         Head(toClient).type = "frame", Head(toClient).session = s
  PROVE  /\ Head(toClient).sequence = low + 1 /\ low + 1 <= high
         /\ Numbers(s)' = low + 2 .. high
<1> DEFINE f == Head(toClient).sequence
<1>1. /\ Rest(1) /\ 1 \in DOMAIN toClient /\ Head(toClient) = toClient[1]
      /\ Head(toClient) \in Message
      /\ \A n \in DOMAIN toClient :
           n # 1 => /\ n - 1 \in DOMAIN toClient' /\ 1 < n
                    /\ toClient'[n - 1] = toClient[n]
      /\ f = toClient[1].sequence
  BY Received
<1>2. f \in Nat
  BY <1>1, MessageFields
<1>3. 1 \in FramesOf(s)
  BY <1>1 DEF FramesOf
<1>4. f \in Numbers(s)
  BY <1>1, <1>3 DEF Numbers
<1>5. \A n \in FramesOf(s) : n # 1 => f < toClient[n].sequence
  BY <1>1 DEF FramesOf, MessagesInOrder
<1>6. f = low + 1 /\ low + 1 <= high
  <2>1. low + 1 <= f /\ f <= high
    BY <1>2, <1>4
  <2>2. low + 1 \in Numbers(s)
    BY <1>2, <2>1
  <2>3. PICK n \in FramesOf(s) : toClient[n].sequence = low + 1
    BY <2>2 DEF Numbers
  <2>4. CASE n = 1
    BY <1>1, <2>1, <2>3, <2>4
  <2>5. CASE n # 1
    BY <1>2, <1>5, <2>1, <2>3, <2>5
  <2> QED BY <2>4, <2>5
<1>7. \A n \in FramesOf(s)' : n \in Nat /\ n # 0 /\ n + 1 \in FramesOf(s)
                              /\ toClient'[n] = toClient[n + 1]
  BY <1>1, RestPlaces
<1> HIDE DEF f
<1>8. ASSUME NEW k \in Numbers(s)' PROVE k \in low + 2 .. high
  <2>1. PICK n \in FramesOf(s)' : k = toClient'[n].sequence
    BY DEF Numbers
  <2>2. n \in Nat /\ n # 0 /\ n + 1 \in FramesOf(s)
        /\ toClient'[n] = toClient[n + 1]
    BY <1>7, <2>1
  <2>3. f < k
    <3>1. n + 1 # 1
      BY <2>2
    <3>2. k = toClient[n + 1].sequence
      BY <2>1, <2>2
    <3>3. f < toClient[n + 1].sequence
      BY <1>5, <2>2, <3>1
    <3> QED BY <3>2, <3>3
  <2>4. k \in low + 1 .. high
    <3>1. toClient[n + 1].sequence \in Numbers(s)
      BY <2>2 DEF Numbers
    <3> QED BY <2>1, <2>2, <3>1
  <2> QED BY <1>6, <2>3, <2>4
<1>9. ASSUME NEW k \in low + 2 .. high PROVE k \in Numbers(s)'
  <2>1. k \in low + 1 .. high /\ k # f
    BY <1>6
  <2>2. PICK n \in FramesOf(s) : toClient[n].sequence = k
    BY <2>1 DEF Numbers
  <2>3. n \in DOMAIN toClient /\ n # 1
    BY <1>1, <2>1, <2>2 DEF FramesOf
  <2>4. n - 1 \in FramesOf(s)' /\ toClient'[n - 1] = toClient[n]
    BY <1>1, <2>2, <2>3 DEF FramesOf
  <2> QED BY <2>2, <2>4 DEF Numbers
<1> QED BY <1>6, <1>8, <1>9 DEF f

\* The last chunk the client needs no more once it received a message.
Reached(s, low) ==
  IF Head(toClient).type = "frame" /\ Head(toClient).session = s
    THEN low + 1 ELSE low

\* The stream of a session after any message.
LEMMA NextStream ==
  ASSUME TypeOK, MessagesInOrder, toClient # <<>>, toClient' = Tail(toClient),
         UNCHANGED <<sequence, link>>,
         NEW s \in Sessions, NEW low \in Nat, NEW high \in Nat,
         Stream(s, low, high),
         NEW reached \in Nat, reached = Reached(s, low),
         sync' # None /\ sync'.session = s /\ ~sync'.overflowed =>
           HasReached(reached)'
  PROVE  Stream(s, reached, high)'
<1>1. /\ Numbers(s) = low + 1 .. high
      /\ low <= high /\ high <= sequence[s]
      /\ link = "open" => high = sequence[s]
      /\ \A n \in Snapshots(s) : toClient[n].sequence <= high
  BY DEF Stream
<1>2. Numbers(s)' = reached + 1 .. high /\ reached <= high
  <2>1. CASE Head(toClient).type = "frame" /\ Head(toClient).session = s
    <3>1. /\ low + 1 <= high /\ Numbers(s)' = low + 2 .. high
      BY <1>1, <2>1, HeadFrame
    <3>2. reached = low + 1 /\ reached + 1 = low + 2
      BY <2>1 DEF Reached
    <3> QED BY <3>1, <3>2
  <2>2. CASE ~(Head(toClient).type = "frame" /\ Head(toClient).session = s)
    BY <1>1, <2>2, SameNumbers DEF Reached
  <2> QED BY <2>1, <2>2
<1>3. \A n \in Snapshots(s)' : toClient'[n].sequence <= high
  <2>1. Rest(1)
    BY Received
  <2>2. \A n \in Snapshots(s)' : n + 1 \in Snapshots(s)
                                   /\ toClient'[n] = toClient[n + 1]
    BY <2>1, RestPlaces
  <2> QED BY <1>1, <2>2
<1> QED BY <1>1, <1>2, <1>3 DEF Stream

\* The client shows no session, or is not connected: it has no cursor.
LEMMA NoCursor ==
  ASSUME StreamInv, NEW d \in Nat, Rest(d),
         toClient = <<>> => toClient' = <<>>,
         \A s \in Sessions : Numbers(s)' = Numbers(s),
         sync' = None, screen' = <<>>, selected' \in Sessions \cup {None},
         selects' \in Nat,
         UNCHANGED <<sequence, parsed, ended, link, subscriptions, attaches,
                     toServer, losses>>
  PROVE  StreamInv'
<1>1. /\ TypeOK /\ ScreenInOrder /\ DownIsEmpty /\ AttachesInOrder
      /\ MessagesInOrder /\ CursorInOrder /\ SubscribedFirst /\ OneSnapshot
      /\ NoGap
  BY DEF StreamInv
<1>2. TypeOK'
  BY <1>1 DEF TypeOK, Rest
<1>3. ScreenInOrder' /\ CursorInOrder' /\ OneSnapshot'
  BY DEF ScreenInOrder, CursorInOrder, OneSnapshot
<1>4. DownIsEmpty' /\ AttachesInOrder'
  BY <1>1 DEF DownIsEmpty, AttachesInOrder
<1>5. MessagesInOrder'
  BY <1>1, RestInOrder
<1>6. SubscribedFirst'
  <2> SUFFICES ASSUME NEW x \in Sessions, x \notin ended, x \notin subscriptions
               PROVE  FramesOf(x)' = {} /\ Snapshots(x)' = {}
                        /\ Awaited(x)' = {}
    BY DEF SubscribedFirst
  <2>1. FramesOf(x) = {} /\ Snapshots(x) = {} /\ Awaited(x) = {}
    BY <1>1 DEF SubscribedFirst
  <2>2. /\ \A n \in FramesOf(x)' : n + d \in FramesOf(x)
        /\ \A n \in Snapshots(x)' : n + d \in Snapshots(x)
    BY RestPlaces
  <2> QED BY <2>1, <2>2 DEF Awaited
<1>7. NoGap'
  <2> SUFFICES ASSUME NEW x \in Sessions
               PROVE  \E low, high \in Nat : Stream(x, low, high)'
    BY DEF NoGap
  <2>1. PICK low \in Nat, high \in Nat : Stream(x, low, high)
    BY <1>1 DEF NoGap
  <2>2. \A n \in Snapshots(x)' : n + d \in Snapshots(x)
                                   /\ toClient'[n] = toClient[n + d]
    BY RestPlaces
  <2>3. Stream(x, low, high)'
    BY <2>1, <2>2 DEF Stream
  <2> QED BY <2>3
<1> QED BY <1>1, <1>2, <1>3, <1>4, <1>5, <1>6, <1>7 DEF StreamInv

\* A new cursor is alone when nothing is asked for, awaited or on its way.
LEMMA Alone ==
  ASSUME NEW s \in Sessions, ~Outstanding(s)
  PROVE  Asked(s) = {} /\ Awaited(s) = {} /\ Snapshots(s) = {}
BY DEF Outstanding, Asked, Awaited, Snapshots, Range

\* What is asked for last.
LEMMA AskedLast ==
  ASSUME TypeOK, NEW s \in Sessions, toServer' = Append(toServer, s)
  PROVE  /\ toServer' \in Seq(Sessions)
         /\ Asked(s) = {} => Asked(s)' = {Len(toServer) + 1}
<1>1. toServer \in Seq(Sessions)
  BY DEF TypeOK
<1>2. /\ toServer' \in Seq(Sessions) /\ Len(toServer) \in Nat
      /\ DOMAIN toServer' = 1 .. Len(toServer) + 1
      /\ DOMAIN toServer = 1 .. Len(toServer)
      /\ toServer'[Len(toServer) + 1] = s
      /\ \A n \in 1 .. Len(toServer) : toServer'[n] = toServer[n]
  BY <1>1
<1>3. ASSUME Asked(s) = {} PROVE Asked(s)' = {Len(toServer) + 1}
  <2>1. \A n \in 1 .. Len(toServer) : toServer[n] # s
    BY <1>2, <1>3 DEF Asked
  <2>2. \A n \in DOMAIN toServer' :
          toServer'[n] = s <=> n = Len(toServer) + 1
    BY <1>2, <2>1
  <2>3. Len(toServer) + 1 \in DOMAIN toServer'
    BY <1>2
  <2> QED BY <2>2, <2>3 DEF Asked
<1> QED BY <1>2, <1>3

\* The fields of a new cursor.
LEMMA NewCursorFields ==
  ASSUME NEW s \in Sessions, sync' = NewCursor(s)
  PROVE  /\ sync' \in Cursor /\ sync'.session = s /\ sync'.pending = <<>>
         /\ ~sync'.snapshotApplied
         /\ sync'.alone => ~Outstanding(s)
<1> DEFINE quiet == ~Outstanding(s)
<1>1. quiet \in BOOLEAN
  OBVIOUS
<1>2. sync' = [session |-> s, sequence |-> 0, snapshotApplied |-> FALSE,
               pending |-> << >>, alone |-> quiet, overflowed |-> FALSE]
  BY DEF NewCursor
<1>3. quiet => ~Outstanding(s)
  OBVIOUS
<1> HIDE DEF quiet
<1>4. sync' \in Cursor
  BY <1>1, <1>2 DEF Cursor
<1>5. /\ sync'.session = s /\ sync'.pending = <<>>
      /\ ~sync'.snapshotApplied /\ sync'.alone = quiet
  BY <1>2
<1> QED BY <1>3, <1>4, <1>5

\* A client that is connected makes a cursor and attaches.
LEMMA OpenView ==
  ASSUME StreamInv, NEW d \in Nat, Rest(d), NEW s \in Sessions,
         \A x \in Sessions : Numbers(x)' = Numbers(x),
         link # "down",
         selected' = s, screen' = <<>>, sync' = NewCursor(s),
         toServer' = Append(toServer, s), selects' \in Nat,
         UNCHANGED <<sequence, parsed, ended, link, subscriptions, attaches,
                     losses>>
  PROVE  StreamInv'
<1>1. /\ TypeOK /\ ScreenInOrder /\ DownIsEmpty /\ AttachesInOrder
      /\ MessagesInOrder /\ CursorInOrder /\ SubscribedFirst /\ OneSnapshot
      /\ NoGap
  BY DEF StreamInv
<1>2. /\ sync' \in Cursor /\ sync'.session = s /\ sync'.pending = <<>>
      /\ ~sync'.snapshotApplied
      /\ sync'.alone => ~Outstanding(s)
  BY NewCursorFields
<1>3. Awaited(s)' = Awaited(s)
  BY DEF Awaited
<1>4. \A x \in Sessions :
        /\ \A n \in FramesOf(x)' : n + d \in FramesOf(x)
        /\ \A n \in Snapshots(x)' : n + d \in Snapshots(x)
                                      /\ toClient'[n] = toClient[n + d]
  BY RestPlaces
<1>5. sync'.alone => /\ Asked(s)' = {Len(toServer) + 1}
                     /\ Awaited(s)' = {} /\ Snapshots(s)' = {}
  BY <1>1, <1>2, <1>3, <1>4, Alone, AskedLast
<1>6. TypeOK'
  <2>1. toServer' \in Seq(Sessions)
    BY <1>1, AskedLast
  <2>2. Len(<<>>) <= PendingLimit
    BY StreamAssumption
  <2> QED BY <1>1, <1>2, <2>1, <2>2 DEF TypeOK, Rest
<1>7. ScreenInOrder' /\ CursorInOrder'
  BY <1>2 DEF ScreenInOrder, CursorInOrder
<1>8. DownIsEmpty' /\ AttachesInOrder'
  BY <1>1 DEF DownIsEmpty, AttachesInOrder
<1>9. MessagesInOrder'
  BY <1>1, RestInOrder
<1>10. SubscribedFirst'
  <2> SUFFICES ASSUME NEW x \in Sessions, x \notin ended, x \notin subscriptions
               PROVE  FramesOf(x)' = {} /\ Snapshots(x)' = {}
                        /\ Awaited(x)' = {}
    BY <1>2 DEF SubscribedFirst
  <2>1. FramesOf(x) = {} /\ Snapshots(x) = {} /\ Awaited(x) = {}
    BY <1>1 DEF SubscribedFirst
  <2> QED BY <1>4, <2>1 DEF Awaited
<1>11. OneSnapshot'
  BY <1>2, <1>5 DEF OneSnapshot
<1>12. NoGap'
  <2> SUFFICES ASSUME NEW x \in Sessions
               PROVE  \E low, high \in Nat : Stream(x, low, high)'
    BY DEF NoGap
  <2>1. PICK low \in Nat, high \in Nat : Stream(x, low, high)
    BY <1>1 DEF NoGap
  <2>2. HasReached(low)'
    BY <1>2, <1>5 DEF HasReached
  <2>3. Stream(x, low, high)'
    BY <1>4, <2>1, <2>2 DEF Stream
  <2> QED BY <2>3
<1> QED BY <1>6, <1>7, <1>8, <1>9, <1>10, <1>11, <1>12 DEF StreamInv

\* A session is shown.
LEMMA ShowStep ==
  ASSUME StreamInv, NEW d \in Nat, Rest(d), NEW s \in Sessions,
         toClient = <<>> => toClient' = <<>>,
         \A x \in Sessions : Numbers(x)' = Numbers(x),
         Show(s, link), selects' \in Nat,
         UNCHANGED <<sequence, parsed, ended, link, subscriptions, attaches,
                     losses>>
  PROVE  StreamInv'
<1>1. selected' = s /\ screen' = <<>>
  BY DEF Show
<1>2. CASE link = "down"
  <2>1. sync' = None /\ toServer' = toServer
    BY <1>2 DEF Show
  <2> QED BY <1>1, <2>1, NoCursor
<1>3. CASE link # "down"
  <2>1. sync' = NewCursor(s) /\ toServer' = Append(toServer, s)
    BY <1>3 DEF Show
  <2> QED BY <1>1, <1>3, <2>1, OpenView
<1> QED BY <1>2, <1>3

\* The operator opens another session.
LEMMA SelectStep ==
  ASSUME StreamInv, NEW s \in Sessions, Select(s)
  PROVE  StreamInv'
<1>1. TypeOK /\ selects \in Nat
  BY DEF StreamInv, TypeOK
<1>2. /\ Show(s, link) /\ toClient' = toClient /\ selects' = selects + 1
      /\ UNCHANGED <<sequence, parsed, ended, link, subscriptions, attaches,
                     losses>>
  BY DEF Select, serverVars, hubVars
<1>3. Rest(0) /\ \A x \in Sessions : Numbers(x)' = Numbers(x)
  BY <1>1, <1>2, NoneReceived, SameMessages
<1>4. selects' \in Nat
  BY <1>1, <1>2
<1> QED BY <1>2, <1>3, <1>4, ShowStep

\* The operator closes the view.
LEMMA CloseViewStep ==
  ASSUME StreamInv, CloseView
  PROVE  StreamInv'
<1>1. TypeOK /\ selects \in Nat
  BY DEF StreamInv, TypeOK
<1>2. /\ selected' = None /\ sync' = None /\ screen' = <<>>
      /\ toClient' = toClient /\ selects' = selects
      /\ UNCHANGED <<sequence, parsed, ended, link, subscriptions, attaches,
                     toServer, losses>>
  BY DEF CloseView, serverVars, hubVars, counters
<1>3. Rest(0) /\ \A x \in Sessions : Numbers(x)' = Numbers(x)
  BY <1>1, <1>2, NoneReceived, SameMessages
<1> QED BY <1>1, <1>2, <1>3, NoCursor

\* What the client ignores is gone.
LEMMA IgnoredStep ==
  ASSUME StreamInv, toClient # <<>>, toClient' = Tail(toClient),
         sync # None => \/ Head(toClient).type = "closed"
                        \/ Head(toClient).session # sync.session,
         UNCHANGED <<sequence, parsed, ended, link, subscriptions, attaches,
                     toServer, selected, sync, screen, selects, losses>>
  PROVE  StreamInv'
<1>1. /\ TypeOK /\ ScreenInOrder /\ DownIsEmpty /\ AttachesInOrder
      /\ MessagesInOrder /\ CursorInOrder /\ SubscribedFirst /\ OneSnapshot
      /\ NoGap
  BY DEF StreamInv
<1>2. Rest(1)
  BY <1>1, Received
<1>3. \A x \in Sessions :
        /\ \A n \in FramesOf(x)' : n + 1 \in FramesOf(x)
        /\ \A n \in Snapshots(x)' : n \in Nat /\ n + 1 \in Snapshots(x)
                                      /\ toClient'[n] = toClient[n + 1]
        /\ Numbers(x)' \subseteq Numbers(x)
        /\ Awaited(x)' = Awaited(x) /\ Asked(x)' = Asked(x)
  BY <1>2, RestPlaces DEF Awaited, Asked
<1>4. sync # None => sync.session \in Sessions
  BY <1>1, CursorFields
<1>5. TypeOK'
  BY <1>1, <1>2 DEF TypeOK, Rest
<1>6. ScreenInOrder' /\ AttachesInOrder'
  BY <1>1 DEF ScreenInOrder, AttachesInOrder
<1>7. DownIsEmpty'
  BY <1>1 DEF DownIsEmpty
<1>8. MessagesInOrder'
  BY <1>1, <1>2, RestInOrder
<1>9. CursorInOrder'
  BY <1>1, <1>3, <1>4 DEF CursorInOrder
<1>10. SubscribedFirst'
  BY <1>1, <1>3 DEF SubscribedFirst
<1>11. OneSnapshot'
  <2>1. \A x \in Sessions :
          /\ Snapshots(x) = {} => Snapshots(x)' = {}
          /\ (\A m, n \in Snapshots(x) : m = n) =>
               \A m, n \in Snapshots(x)' : m = n
    <3> SUFFICES ASSUME NEW x \in Sessions
                 PROVE  /\ Snapshots(x) = {} => Snapshots(x)' = {}
                        /\ (\A m, n \in Snapshots(x) : m = n) =>
                             \A m, n \in Snapshots(x)' : m = n
      OBVIOUS
    <3>1. \A n \in Snapshots(x)' : n \in Nat /\ n + 1 \in Snapshots(x)
      BY <1>3
    <3>2. \A m, n \in Snapshots(x)' : m + 1 = n + 1 => m = n
      BY <3>1
    <3> QED BY <3>1, <3>2
  <2> QED BY <1>1, <1>3, <1>4, <2>1 DEF OneSnapshot
<1>12. NoGap'
  <2> SUFFICES ASSUME NEW x \in Sessions
               PROVE  \E low, high \in Nat : Stream(x, low, high)'
    BY DEF NoGap
  <2>1. PICK low \in Nat, high \in Nat : Stream(x, low, high)
    BY <1>1 DEF NoGap
  <2>2. PICK reached \in Nat : reached = Reached(x, low)
    BY DEF Reached
  <2>3. ASSUME sync # None, sync.session = x, HasReached(low)
        PROVE  HasReached(low)'
    <3>1. \A n \in Snapshots(x)' : n + 1 \in Snapshots(x)
                                     /\ toClient'[n] = toClient[n + 1]
      BY <1>3
    <3> QED BY <1>3, <2>3, <3>1 DEF HasReached
  <2>4. sync # None /\ sync.session = x => reached = low
    BY <2>2 DEF Reached
  <2>5. sync' # None /\ sync'.session = x /\ ~sync'.overflowed =>
          HasReached(reached)'
    BY <2>1, <2>3, <2>4 DEF Stream
  <2>6. Stream(x, reached, high)'
    BY <1>1, <2>1, <2>2, <2>5, NextStream
  <2> QED BY <2>6
<1> QED BY <1>5, <1>6, <1>7, <1>8, <1>9, <1>10, <1>11, <1>12 DEF StreamInv

\* What follows of a message of the session shown, whatever it does to the
\* cursor: the facts every step that takes it shares.
LEMMA TakenForView ==
  ASSUME StreamInv, toClient # <<>>, toClient' = Tail(toClient),
         sync # None, Head(toClient).session = sync.session,
         Head(toClient).type # "closed",
         sync' \in Cursor, sync'.session = sync.session,
         Len(sync'.pending) <= PendingLimit,
         screen' \in Seq(Nat), ScreenInOrder',
         UNCHANGED <<sequence, parsed, ended, link, subscriptions, attaches,
                     toServer, selected, selects, losses>>
  PROVE  /\ TypeOK' /\ DownIsEmpty' /\ AttachesInOrder' /\ MessagesInOrder'
         /\ SubscribedFirst'
         /\ \A x \in Sessions :
              /\ \A n \in Snapshots(x)' :
                   n \in Nat /\ n # 0 /\ n + 1 \in Snapshots(x)
                   /\ toClient'[n] = toClient[n + 1]
              /\ Numbers(x)' \subseteq Numbers(x)
              /\ Awaited(x)' = Awaited(x) /\ Asked(x)' = Asked(x)
<1>1. /\ TypeOK /\ DownIsEmpty /\ AttachesInOrder /\ MessagesInOrder
      /\ SubscribedFirst
  BY DEF StreamInv
<1>2. /\ Rest(1) /\ 1 \in DOMAIN toClient /\ Head(toClient) = toClient[1]
      /\ Head(toClient) \in Message
  BY <1>1, Received
<1>3. \A x \in Sessions :
        /\ \A n \in FramesOf(x)' : n + 1 \in FramesOf(x)
        /\ \A n \in Snapshots(x)' : n \in Nat /\ n # 0
                                      /\ n + 1 \in Snapshots(x)
                                      /\ toClient'[n] = toClient[n + 1]
        /\ Numbers(x)' \subseteq Numbers(x)
        /\ Awaited(x)' = Awaited(x) /\ Asked(x)' = Asked(x)
  BY <1>2, RestPlaces DEF Awaited, Asked
<1>4. TypeOK'
  BY <1>1, <1>2 DEF TypeOK, Rest
<1>5. DownIsEmpty' /\ AttachesInOrder'
  BY <1>1 DEF DownIsEmpty, AttachesInOrder
<1>6. MessagesInOrder'
  BY <1>1, <1>2, RestInOrder
<1>7. SubscribedFirst'
  <2> SUFFICES ASSUME NEW x \in Sessions, x \notin ended, x \notin subscriptions
               PROVE  /\ FramesOf(x)' = {} /\ Snapshots(x)' = {}
                      /\ Awaited(x)' = {}
                      /\ x # sync.session
    BY DEF SubscribedFirst
  <2>1. FramesOf(x) = {} /\ Snapshots(x) = {} /\ Awaited(x) = {}
    BY <1>1 DEF SubscribedFirst
  <2>2. ASSUME x = sync.session PROVE FALSE
    <3>1. toClient[1].type \in {"frame", "snapshot"}
      BY <1>2, MessageFields
    <3>2. 1 \in FramesOf(x) \/ 1 \in Snapshots(x)
      BY <1>2, <2>2, <3>1 DEF FramesOf, Snapshots
    <3> QED BY <2>1, <3>2
  <2> QED BY <1>3, <2>1, <2>2
<1> QED BY <1>3, <1>4, <1>5, <1>6, <1>7

\* A frame of the session shown is awaited: its number is the next one, and
\* those after it have greater numbers.
LEMMA FrameOfView ==
  ASSUME StreamInv, toClient # <<>>, toClient' = Tail(toClient),
         NEW s \in Sessions,
         Head(toClient).type = "frame", Head(toClient).session = s
  PROVE  /\ Head(toClient).sequence \in Nat
         /\ Head(toClient).sequence \in Numbers(s)
         /\ Head(toClient).sequence <= sequence[s]
         /\ \A k \in Numbers(s)' : Head(toClient).sequence < k
         /\ \A low, high \in Nat :
              Stream(s, low, high) =>
                /\ Head(toClient).sequence = low + 1
                /\ Reached(s, low) = low + 1
<1>1. TypeOK /\ MessagesInOrder /\ NoGap
  BY DEF StreamInv
<1>2. ASSUME NEW low \in Nat, NEW high \in Nat, Stream(s, low, high)
      PROVE  /\ Head(toClient).sequence = low + 1 /\ low + 1 <= high
             /\ Numbers(s)' = low + 2 .. high
             /\ Numbers(s) = low + 1 .. high
             /\ high <= sequence[s]
  <2>1. Numbers(s) = low + 1 .. high /\ high <= sequence[s]
    BY <1>2 DEF Stream
  <2> QED BY <1>1, <1>2, <2>1, HeadFrame
<1>3. PICK low \in Nat, high \in Nat : Stream(s, low, high)
  BY <1>1 DEF NoGap
<1>4. sequence[s] \in Nat
  BY <1>1 DEF TypeOK
<1>5. /\ Head(toClient).sequence = low + 1 /\ low + 1 <= high
      /\ Numbers(s)' = low + 2 .. high
      /\ Numbers(s) = low + 1 .. high /\ high <= sequence[s]
  BY <1>2, <1>3
<1>6. \A k \in Numbers(s)' : Head(toClient).sequence < k
  BY <1>5
<1>7. \A l, h \in Nat : Stream(s, l, h) => /\ Head(toClient).sequence = l + 1
                                           /\ Reached(s, l) = l + 1
  BY <1>2 DEF Reached
<1>8. /\ Head(toClient).sequence \in Nat
      /\ Head(toClient).sequence \in Numbers(s)
      /\ Head(toClient).sequence <= sequence[s]
  BY <1>4, <1>5
<1> QED BY <1>6, <1>7, <1>8

\* The streams after a message of the view, once what the cursor has reached
\* is known.
LEMMA ViewStreams ==
  ASSUME StreamInv, toClient # <<>>, toClient' = Tail(toClient),
         sync # None, sync'.session = sync.session,
         UNCHANGED <<sequence, link>>,
         \A low, high, reached \in Nat :
           /\ Stream(sync.session, low, high) /\ ~sync'.overflowed
           /\ reached = Reached(sync.session, low)
           => HasReached(reached)'
  PROVE  NoGap'
<1>1. TypeOK /\ MessagesInOrder /\ NoGap
  BY DEF StreamInv
<1> SUFFICES ASSUME NEW x \in Sessions
             PROVE  \E low, high \in Nat : Stream(x, low, high)'
  BY DEF NoGap
<1>2. PICK low \in Nat, high \in Nat : Stream(x, low, high)
  BY <1>1 DEF NoGap
<1>3. PICK reached \in Nat : reached = Reached(x, low)
  BY DEF Reached
<1>4. ASSUME sync'.session = x, ~sync'.overflowed PROVE HasReached(reached)'
  <2>1. x = sync.session
    BY <1>4
  <2> QED BY <1>2, <1>3, <1>4, <2>1
<1>5. Stream(x, reached, high)'
  BY <1>1, <1>2, <1>3, <1>4, NextStream
<1> QED BY <1>5

\* A step that keeps what "OneSnapshot" says of a view: it may only take
\* messages away.
LEMMA StillOneSnapshot ==
  ASSUME TypeOK, OneSnapshot, sync # None,
         sync'.session = sync.session, sync'.alone => sync.alone,
         sync'.snapshotApplied <=> sync.snapshotApplied,
         \A x \in Sessions :
           /\ \A n \in Snapshots(x)' : n \in Nat /\ n + 1 \in Snapshots(x)
           /\ Awaited(x)' = Awaited(x) /\ Asked(x)' = Asked(x)
  PROVE  OneSnapshot'
<1>1. PICK s \in Sessions : s = sync.session
  BY CursorFields
<1>2. /\ \A n \in Snapshots(s)' : n \in Nat /\ n + 1 \in Snapshots(s)
      /\ Awaited(s)' = Awaited(s) /\ Asked(s)' = Asked(s)
  OBVIOUS
<1>3. \A m, n \in Snapshots(s)' : m + 1 = n + 1 => m = n
  BY <1>2
<1>4. /\ Snapshots(s) = {} => Snapshots(s)' = {}
      /\ (\A m, n \in Snapshots(s) : m = n) =>
           \A m, n \in Snapshots(s)' : m = n
  BY <1>2, <1>3
<1>5. sync.alone =>
        IF sync.snapshotApplied
          THEN Asked(s) = {} /\ Awaited(s) = {} /\ Snapshots(s) = {}
          ELSE /\ \A m, n \in Asked(s) : m = n
               /\ \A m, n \in Awaited(s) : m = n
               /\ \A m, n \in Snapshots(s) : m = n
               /\ Asked(s) # {} => Awaited(s) = {} /\ Snapshots(s) = {}
               /\ Awaited(s) # {} => Snapshots(s) = {}
  BY <1>1 DEF OneSnapshot
<1>6. sync'.alone =>
        IF sync'.snapshotApplied
          THEN Asked(s)' = {} /\ Awaited(s)' = {} /\ Snapshots(s)' = {}
          ELSE /\ \A m, n \in Asked(s)' : m = n
               /\ \A m, n \in Awaited(s)' : m = n
               /\ \A m, n \in Snapshots(s)' : m = n
               /\ Asked(s)' # {} => Awaited(s)' = {} /\ Snapshots(s)' = {}
               /\ Awaited(s)' # {} => Snapshots(s)' = {}
  BY <1>2, <1>4, <1>5
<1>7. s = sync'.session
  BY <1>1
<1> QED BY <1>6, <1>7 DEF OneSnapshot

\* A frame before the snapshot is kept, or is one too many.
LEMMA FrameBeforeStep ==
  ASSUME StreamInv, toClient # <<>>, toClient' = Tail(toClient),
         Head(toClient).type = "frame", FrameBefore(Head(toClient)),
         UNCHANGED <<sequence, parsed, ended, link, subscriptions, attaches,
                     toServer, selected, selects, losses>>
  PROVE  StreamInv'
<1>1. /\ TypeOK /\ ScreenInOrder /\ CursorInOrder /\ OneSnapshot
  BY DEF StreamInv
<1>2. /\ sync # None /\ sync.session = Head(toClient).session
      /\ ~sync.snapshotApplied /\ screen' = screen
      /\ sync' = IF Len(sync.pending) < PendingLimit
                   THEN [sync EXCEPT !.pending
                           = Append(@, Head(toClient).sequence)]
                   ELSE [sync EXCEPT !.overflowed = TRUE]
  BY DEF FrameBefore, Shows
<1>3. PICK s \in Sessions, p \in Seq(Nat) :
        s = sync.session /\ p = sync.pending
  BY <1>1, <1>2, CursorFields
<1>4. PICK f \in Nat :
        /\ f = Head(toClient).sequence /\ f \in Numbers(s) /\ f <= sequence[s]
        /\ \A k \in Numbers(s)' : f < k
        /\ \A low, high \in Nat :
             Stream(s, low, high) => f = low + 1 /\ Reached(s, low) = low + 1
  <2>1. Head(toClient).session = s
    BY <1>2, <1>3
  <2>2. Head(toClient).sequence \in Nat
    BY <2>1, FrameOfView
  <2> QED BY <2>1, <2>2, FrameOfView
<1>5. /\ sync' \in Cursor /\ sync'.session = s /\ ~sync'.snapshotApplied
      /\ sync'.alone = sync.alone /\ Len(sync'.pending) <= PendingLimit
      /\ \/ sync'.pending = p /\ sync'.overflowed
         \/ sync'.pending = Append(p, f) /\ sync'.overflowed = sync.overflowed
  <2>1. sync \in Cursor /\ Len(p) <= PendingLimit /\ PendingLimit \in Nat
    BY <1>1, <1>2, <1>3, CursorFields, StreamAssumption
  <2>2. CASE Len(p) < PendingLimit
    <3>1. sync' = [sync EXCEPT !.pending = Append(p, f)]
      BY <1>2, <1>3, <1>4, <2>2
    <3>2. /\ Append(p, f) \in Seq(Nat) /\ Len(Append(p, f)) <= PendingLimit
      BY <1>3, <1>4, <2>1, <2>2
    <3>3. /\ sync' \in Cursor /\ sync'.session = s
          /\ sync'.snapshotApplied = sync.snapshotApplied
          /\ sync'.alone = sync.alone /\ sync'.pending = Append(p, f)
          /\ sync'.overflowed = sync.overflowed
      BY <1>3, <2>1, <3>1, <3>2 DEF Cursor
    <3> QED BY <1>2, <3>2, <3>3
  <2>3. CASE ~(Len(p) < PendingLimit)
    <3>1. sync' = [sync EXCEPT !.overflowed = TRUE]
      BY <1>2, <1>3, <2>3
    <3>2. /\ sync' \in Cursor /\ sync'.session = s
          /\ sync'.snapshotApplied = sync.snapshotApplied
          /\ sync'.alone = sync.alone /\ sync'.pending = p
          /\ sync'.overflowed
      BY <1>3, <2>1, <3>1 DEF Cursor
    <3> QED BY <1>2, <2>1, <3>2
  <2> QED BY <2>2, <2>3
<1>6. /\ TypeOK' /\ DownIsEmpty' /\ AttachesInOrder' /\ MessagesInOrder'
      /\ SubscribedFirst'
      /\ \A x \in Sessions :
           /\ \A n \in Snapshots(x)' :
                n \in Nat /\ n # 0 /\ n + 1 \in Snapshots(x)
                /\ toClient'[n] = toClient[n + 1]
           /\ Numbers(x)' \subseteq Numbers(x)
           /\ Awaited(x)' = Awaited(x) /\ Asked(x)' = Asked(x)
  <2>1. screen' \in Seq(Nat) /\ ScreenInOrder'
    BY <1>1, <1>2 DEF TypeOK, ScreenInOrder
  <2> QED BY <1>2, <1>3, <1>5, <2>1, TakenForView
<1>7. CursorInOrder'
  <2>1. /\ s = selected
        /\ \A m, n \in DOMAIN p : m < n => p[m] < p[n]
        /\ \A m \in DOMAIN p :
             p[m] <= sequence[s] /\ \A k \in Numbers(s) : p[m] < k
    BY <1>1, <1>2, <1>3 DEF CursorInOrder
  <2>2. PICK q : q = sync'.pending
    OBVIOUS
  <2>3. /\ Len(p) \in Nat
        /\ \A n \in DOMAIN q :
             \/ n \in DOMAIN p /\ q[n] = p[n] /\ n <= Len(p) /\ n \in Nat
             \/ n = Len(p) + 1 /\ q[n] = f
    BY <1>3, <1>4, <1>5, <2>2
  <2>4. ASSUME NEW m \in DOMAIN q, NEW n \in DOMAIN q, m < n
        PROVE  q[m] < q[n]
    <3>1. m \in DOMAIN p /\ q[m] = p[m]
      BY <2>3, <2>4
    <3>2. CASE n \in DOMAIN p /\ q[n] = p[n]
      BY <2>1, <2>4, <3>1, <3>2
    <3>3. CASE q[n] = f
      BY <1>4, <2>1, <3>1, <3>3
    <3> QED BY <2>3, <3>2, <3>3
  <2>5. \A m \in DOMAIN q :
          q[m] <= sequence[s] /\ \A k \in Numbers(s)' : q[m] < k
    BY <1>4, <1>6, <2>1, <2>3
  <2>6. /\ sync'.session = selected'
        /\ \A m, n \in DOMAIN sync'.pending :
             m < n => sync'.pending[m] < sync'.pending[n]
    BY <1>5, <2>1, <2>2, <2>4
  <2>7. \A m \in DOMAIN sync'.pending :
          /\ sync'.pending[m] <= sequence'[sync'.session]
          /\ \A k \in Numbers(s)' : sync'.pending[m] < k
    BY <1>5, <2>2, <2>5
  <2>8. Numbers(s)' = Numbers(sync.session)'
    BY <1>5 DEF Numbers, FramesOf
  <2> QED BY <1>5, <2>6, <2>7, <2>8 DEF CursorInOrder
<1>8. OneSnapshot'
  BY <1>1, <1>2, <1>3, <1>5, <1>6, StillOneSnapshot
<1>9. NoGap'
  <2>1. ASSUME NEW low \in Nat, NEW high \in Nat, NEW reached \in Nat,
               Stream(s, low, high), ~sync'.overflowed,
               reached = Reached(s, low)
        PROVE  HasReached(reached)'
    <3>1. /\ sync'.pending = Append(p, f) /\ ~sync.overflowed
          /\ f = low + 1 /\ reached = low + 1
      BY <1>4, <1>5, <2>1
    <3>2. HasReached(low)
      BY <1>2, <1>3, <2>1, <3>1 DEF Stream
    <3>3. /\ \A n \in DOMAIN p : p[n] + Len(p) = low + n
          /\ Len(p) <= low
          /\ sync.alone =>
               /\ \A n \in Awaited(s) : low <= attaches[n].target + Len(p)
               /\ \A n \in Snapshots(s) :
                    low <= toClient[n].sequence + Len(p)
      BY <1>2, <1>3, <3>2 DEF HasReached
    <3>4. PICK q : q = Append(p, f)
      OBVIOUS
    <3>5. /\ Len(p) \in Nat /\ Len(q) = Len(p) + 1
          /\ \A n \in DOMAIN q :
               \/ n \in DOMAIN p /\ q[n] = p[n] /\ n \in Nat /\ p[n] \in Nat
               \/ n = Len(p) + 1 /\ q[n] = f
      BY <1>3, <1>4, <3>4
    <3>6. ASSUME NEW n \in DOMAIN q
          PROVE  q[n] + Len(q) = reached + n
      <4>1. CASE n = Len(p) + 1 /\ q[n] = f
        BY <3>1, <3>5, <4>1
      <4>2. CASE n \in DOMAIN p /\ q[n] = p[n] /\ n \in Nat /\ p[n] \in Nat
        <5>1. PICK v \in Nat : v = p[n] /\ v = q[n]
          BY <4>2
        <5>2. v + Len(p) = low + n
          BY <3>3, <4>2, <5>1
        <5>3. PICK kept \in Nat : kept = Len(p) /\ Len(q) = kept + 1
          BY <3>5
        <5>4. PICK i \in Nat : i = n
          BY <4>2
        <5>5. v + kept = low + i
          BY <5>2, <5>3, <5>4
        <5>6. v + (kept + 1) = low + 1 + i
          BY <5>5
        <5> QED BY <3>1, <5>1, <5>3, <5>4, <5>6
      <4> QED BY <3>5, <4>1, <4>2
    <3>7. Len(q) <= reached
      BY <3>1, <3>3, <3>5
    <3>8. ASSUME sync.alone, NEW n \in Awaited(s)
          PROVE  reached <= attaches[n].target + Len(q)
      <4>1. attaches[n].target \in Nat
        BY <1>1, InAttaches DEF Awaited
      <4> QED BY <3>1, <3>3, <3>5, <3>8, <4>1
    <3>9. ASSUME sync.alone, NEW n \in Snapshots(s)'
          PROVE  reached <= toClient'[n].sequence + Len(q)
      <4>1. n + 1 \in Snapshots(s) /\ toClient'[n] = toClient[n + 1]
        BY <1>6
      <4>2. toClient[n + 1].sequence \in Nat
        BY <1>1, <4>1, OnTheWay DEF Snapshots
      <4>3. PICK v \in Nat : v = toClient[n + 1].sequence
        BY <4>2
      <4>4. low <= v + Len(p)
        BY <3>3, <3>9, <4>1, <4>3
      <4>5. reached <= v + Len(q)
        BY <3>1, <3>5, <4>4
      <4> QED BY <4>1, <4>3, <4>5
    <3>10. /\ sync'.pending = q /\ sync'.session = s /\ ~sync'.snapshotApplied
           /\ sync'.alone = sync.alone /\ Awaited(s)' = Awaited(s)
      BY <1>5, <1>6, <3>1, <3>4
    <3> QED BY <3>6, <3>7, <3>8, <3>9, <3>10 DEF HasReached
  <2>2. s = sync.session /\ sync'.session = sync.session
    BY <1>3, <1>5
  <2> QED BY <1>2, <2>1, <2>2, ViewStreams
<1>10. ScreenInOrder'
  BY <1>1, <1>2 DEF ScreenInOrder
<1> QED BY <1>6, <1>7, <1>8, <1>9, <1>10 DEF StreamInv

\* One more chunk.
LEMMA UpToNext ==
  ASSUME NEW n \in Nat
  PROVE  /\ UpTo(n) \in Seq(Nat) /\ Len(UpTo(n)) = n
         /\ Append(UpTo(n), n + 1) = UpTo(n + 1)
<1>1. UpTo(n) \in Seq(Nat) /\ Len(UpTo(n)) = n
  BY DEF UpTo
<1>2. UpTo(n + 1) \in Seq(Nat) /\ Len(UpTo(n + 1)) = n + 1
  BY DEF UpTo
<1>3. Append(UpTo(n), n + 1) \in Seq(Nat)
      /\ Len(Append(UpTo(n), n + 1)) = n + 1
  BY <1>1
<1>4. \A k \in 1 .. n + 1 : Append(UpTo(n), n + 1)[k] = UpTo(n + 1)[k]
  BY <1>1 DEF UpTo
<1> QED BY <1>1, <1>2, <1>3, <1>4, SeqEqual

\* A later frame is written, or it is old.
LEMMA FrameAfterStep ==
  ASSUME StreamInv, toClient # <<>>, toClient' = Tail(toClient),
         Head(toClient).type = "frame", FrameAfter(Head(toClient)),
         UNCHANGED <<sequence, parsed, ended, link, subscriptions, attaches,
                     toServer, selected, selects, losses>>
  PROVE  StreamInv'
<1>1. /\ TypeOK /\ ScreenInOrder /\ CursorInOrder /\ OneSnapshot
  BY DEF StreamInv
<1>2. /\ sync # None /\ sync.session = Head(toClient).session
      /\ sync.snapshotApplied
      /\ IF Head(toClient).sequence > sync.sequence
           THEN /\ screen' = Append(screen, Head(toClient).sequence)
                /\ sync' = [sync EXCEPT !.sequence = Head(toClient).sequence]
           ELSE UNCHANGED <<screen, sync>>
  BY DEF FrameAfter, Shows
<1>3. PICK s \in Sessions, c \in Nat : s = sync.session /\ c = sync.sequence
  BY <1>1, <1>2, CursorFields
<1>4. PICK f \in Nat :
        /\ f = Head(toClient).sequence
        /\ \A low, high \in Nat :
             Stream(s, low, high) => f = low + 1 /\ Reached(s, low) = low + 1
  <2>1. Head(toClient).session = s
    BY <1>2, <1>3
  <2>2. Head(toClient).sequence \in Nat
    BY <2>1, FrameOfView
  <2> QED BY <2>1, <2>2, FrameOfView
<1>5. /\ sync.pending = <<>> /\ s = selected
      /\ \A n \in DOMAIN screen : screen[n] <= c
      /\ screen \in Seq(Nat) /\ sync \in Cursor
      /\ Len(sync.pending) <= PendingLimit
  BY <1>1, <1>2, <1>3, CursorFields DEF CursorInOrder, TypeOK
<1>6. /\ sync' \in Cursor /\ sync'.session = s /\ sync'.snapshotApplied
      /\ sync'.alone = sync.alone /\ sync'.overflowed = sync.overflowed
      /\ sync'.pending = <<>>
      /\ \/ f > c /\ sync'.sequence = f /\ screen' = Append(screen, f)
         \/ f <= c /\ sync'.sequence = c /\ screen' = screen
  <2>1. CASE f > c
    <3>1. /\ sync' = [sync EXCEPT !.sequence = f]
          /\ screen' = Append(screen, f)
      BY <1>2, <1>3, <1>4, <2>1
    <3>2. /\ sync' \in Cursor /\ sync'.session = s
          /\ sync'.snapshotApplied = sync.snapshotApplied
          /\ sync'.alone = sync.alone /\ sync'.overflowed = sync.overflowed
          /\ sync'.pending = <<>> /\ sync'.sequence = f
      BY <1>3, <1>4, <1>5, <3>1 DEF Cursor
    <3> QED BY <1>2, <2>1, <3>1, <3>2
  <2>2. CASE ~(f > c)
    BY <1>2, <1>3, <1>4, <1>5, <2>2
  <2> QED BY <2>1, <2>2
<1>7. /\ screen' \in Seq(Nat) /\ ScreenInOrder'
      /\ \A n \in DOMAIN screen' : screen'[n] <= sync'.sequence
  <2>1. CASE f <= c /\ sync'.sequence = c /\ screen' = screen
    BY <1>1, <1>5, <2>1 DEF ScreenInOrder
  <2>2. CASE f > c /\ sync'.sequence = f /\ screen' = Append(screen, f)
    <3>1. /\ screen' \in Seq(Nat) /\ Len(screen) \in Nat
          /\ \A n \in DOMAIN screen' :
               \/ /\ n \in DOMAIN screen /\ screen'[n] = screen[n]
                  /\ n \in Nat /\ n <= Len(screen) /\ screen[n] \in Nat
               \/ n = Len(screen) + 1 /\ screen'[n] = f
      BY <1>4, <1>5, <2>2
    <3>2. \A m, n \in DOMAIN screen : m < n => screen[m] < screen[n]
      BY <1>1 DEF ScreenInOrder
    <3>3. \A m, n \in DOMAIN screen' : m < n => screen'[m] < screen'[n]
      BY <1>3, <1>4, <1>5, <2>2, <3>1, <3>2
    <3>4. \A n \in DOMAIN screen' : screen'[n] <= f
      BY <1>3, <1>4, <1>5, <2>2, <3>1
    <3> QED BY <2>2, <3>1, <3>3, <3>4 DEF ScreenInOrder
  <2> QED BY <1>6, <2>1, <2>2
<1>8. /\ TypeOK' /\ DownIsEmpty' /\ AttachesInOrder' /\ MessagesInOrder'
      /\ SubscribedFirst'
      /\ \A x \in Sessions :
           /\ \A n \in Snapshots(x)' :
                n \in Nat /\ n # 0 /\ n + 1 \in Snapshots(x)
                /\ toClient'[n] = toClient[n + 1]
           /\ Numbers(x)' \subseteq Numbers(x)
           /\ Awaited(x)' = Awaited(x) /\ Asked(x)' = Asked(x)
  <2>1. Len(sync'.pending) <= PendingLimit /\ Head(toClient).type # "closed"
    BY <1>5, <1>6
  <2> QED BY <1>2, <1>3, <1>6, <1>7, <2>1, TakenForView
<1>9. CursorInOrder'
  BY <1>5, <1>6, <1>7 DEF CursorInOrder
<1>10. OneSnapshot'
  BY <1>1, <1>2, <1>3, <1>6, <1>8, StillOneSnapshot
<1>11. NoGap'
  <2>1. ASSUME NEW low \in Nat, NEW high \in Nat, NEW reached \in Nat,
               Stream(s, low, high), ~sync'.overflowed,
               reached = Reached(s, low)
        PROVE  HasReached(reached)'
    <3> SUFFICES ASSUME sync.alone
                 PROVE  reached = sync'.sequence /\ screen' = UpTo(reached)
      BY <1>6 DEF HasReached
    <3>1. f = low + 1 /\ reached = low + 1
      BY <1>4, <2>1
    <3>2. low = c /\ screen = UpTo(low)
      BY <1>2, <1>3, <1>6, <2>1 DEF Stream, HasReached
    <3>3. sync'.sequence = f /\ screen' = Append(screen, f)
      BY <1>6, <3>1, <3>2
    <3> QED BY <3>1, <3>2, <3>3, UpToNext
  <2>2. s = sync.session /\ sync'.session = sync.session
    BY <1>3, <1>6
  <2> QED BY <1>2, <2>1, <2>2, ViewStreams
<1> QED BY <1>7, <1>8, <1>9, <1>10, <1>11 DEF StreamInv

\* The frames kept that are newer than a snapshot, in the order they came.
LEMMA NewerFrames ==
  ASSUME NEW p \in Seq(Nat), NEW n \in Nat,
         \A j, k \in DOMAIN p : j < k => p[j] < p[k],
         NEW newer, newer = AtPlaces(p, Newer(p, n))
  PROVE  /\ newer \in Seq(Nat) /\ Len(newer) \in Nat
         /\ \A k \in DOMAIN newer : n < newer[k]
         /\ \A j, k \in DOMAIN newer : j < k => newer[j] < newer[k]
<1>1. PICK P \in SUBSET DOMAIN p : P = Newer(p, n)
  BY DEF Newer
<1>2. PICK N \in Nat : N = Cardinality(P)
  BY PlacesInOrder
<1>3. PICK place : InOrder(p, P, place)
  BY <1>1, PlacesInOrder
<1>4. /\ place \in [1 .. N -> P]
      /\ \A k \in 1 .. N : newer[k] = p[place[k]]
      /\ \A k, l \in 1 .. N : k < l => place[k] < place[l]
  BY <1>1, <1>2, <1>3 DEF InOrder
<1>5. newer \in Seq(Nat) /\ Len(newer) = N
  BY <1>1, <1>2, PlacesInOrder
<1>6. DOMAIN newer = 1 .. N
  BY <1>5
<1>7. \A k \in 1 .. N : n < newer[k]
  BY <1>1, <1>4 DEF Newer
<1>8. \A j, k \in 1 .. N : j < k => newer[j] < newer[k]
  BY <1>1, <1>4
<1> QED BY <1>2, <1>5, <1>6, <1>7, <1>8

\* How many of an interval are below one of its members.
LEMMA BelowInInterval ==
  ASSUME NEW d \in Nat, NEW kept \in Nat, NEW r \in d + 1 .. kept
  PROVE  Cardinality({q \in d + 1 .. kept : q < r}) = r - 1 - d
<1>1. {q \in d + 1 .. kept : q < r} = d + 1 .. r - 1
  OBVIOUS
<1>2. /\ r \in Int /\ d + 1 <= r
      /\ d + 1 \in Int /\ r - 1 \in Int
  OBVIOUS
<1>3. Cardinality(d + 1 .. r - 1) =
        IF d + 1 > r - 1 THEN 0 ELSE r - 1 - (d + 1) + 1
  BY <1>2, FS_Interval
<1>4. Cardinality(d + 1 .. r - 1) = r - 1 - d
  BY <1>2, <1>3
<1> QED BY <1>1, <1>4

\* The frames kept are consecutive, and "low" is the last one.
LastBefore(frames, low) ==
  \A k \in DOMAIN frames : frames[k] + Len(frames) = low + k

\* When the frames kept are the last ones before a number, those newer than
\* the snapshot are exactly the chunks it lacks.
LEMMA NewerFramesComplete ==
  ASSUME NEW p \in Seq(Nat), NEW n \in Nat, NEW low \in Nat,
         LastBefore(p, low),
         low <= n + Len(p), n <= low,
         NEW newer, newer = AtPlaces(p, Newer(p, n))
  PROVE  Len(newer) = low - n /\ \A k \in 1 .. low - n : newer[k] = n + k
<1>1. PICK kept \in Nat : kept = Len(p) /\ DOMAIN p = 1 .. kept
  BY DEF Newer
<1>2. PICK d \in Nat : d + low = n + kept /\ d <= kept
  <2>1. n + kept - low \in Nat /\ n + kept - low <= kept
        /\ n + kept - low + low = n + kept
    BY <1>1
  <2> QED BY <2>1
<1>3. ASSUME NEW k \in 1 .. kept
      PROVE  p[k] \in Nat /\ p[k] + kept = low + k
  <2>1. k \in DOMAIN p
    BY <1>1
  <2>2. p[k] + Len(p) = low + k
    BY <2>1 DEF LastBefore
  <2> QED BY <1>1, <2>1, <2>2
<1>4. Newer(p, n) = d + 1 .. kept
  <2>1. \A k \in 1 .. kept : p[k] > n <=> d + 1 <= k
    BY <1>2, <1>3
  <2>2. ASSUME NEW k \in 1 .. kept, NEW j \in 1 .. k - 1
        PROVE  p[j] < p[k]
    <3>1. j \in 1 .. kept /\ k \in Nat /\ j < k
      OBVIOUS
    <3>2. p[k] \in Nat /\ p[k] + kept = low + k
      BY <1>3
    <3>3. p[j] \in Nat /\ p[j] + kept = low + j
      BY <1>3, <3>1
    <3> QED BY SMTT(30), <3>1, <3>2, <3>3
  <2>3. \A k \in 1 .. kept : k \in Newer(p, n) <=> k \in d + 1 .. kept
    BY <1>1, <1>2, <2>1, <2>2 DEF Newer
  <2>4. Newer(p, n) \subseteq 1 .. kept /\ d + 1 .. kept \subseteq 1 .. kept
    BY <1>1, <1>2 DEF Newer
  <2> QED BY <2>3, <2>4
<1>5. PICK N \in Nat : N = low - n /\ N = kept - d
  BY <1>2
<1>6. Cardinality(d + 1 .. kept) = N
  <2>1. d + 1 \in Int /\ kept \in Int
    OBVIOUS
  <2>2. Cardinality(d + 1 .. kept) =
          IF d + 1 > kept THEN 0 ELSE kept - (d + 1) + 1
    BY <2>1, FS_Interval
  <2> QED BY <1>2, <1>5, <2>2
<1>7. PICK P \in SUBSET DOMAIN p : P = Newer(p, n) /\ P = d + 1 .. kept
  BY <1>4 DEF Newer
<1>8. /\ Len(AtPlaces(p, P)) = Cardinality(P)
      /\ \E place : InOrder(p, P, place)
  BY <1>7, PlacesInOrder
<1>9. PICK place : InOrder(p, P, place)
  BY <1>8
<1>10. /\ place \in [1 .. N -> P]
      /\ \A k \in 1 .. N :
           /\ newer[k] = p[place[k]]
           /\ Cardinality({q \in P : q < place[k]}) = k - 1
  BY <1>6, <1>7, <1>9 DEF InOrder
<1>11. ASSUME NEW k \in 1 .. N PROVE newer[k] = n + k
  <2>1. PICK r \in P : r = place[k]
    BY <1>10
  <2>2. r \in Nat /\ d + 1 <= r /\ r <= kept
    BY <1>7
  <2>3. Cardinality({q \in P : q < r}) = r - 1 - d
    BY <1>7, BelowInInterval
  <2>4. Cardinality({q \in P : q < r}) = k - 1
    BY <1>10, <2>1
  <2>5. r = d + k
    BY <2>2, <2>3, <2>4
  <2>6. newer[k] = p[r] /\ r \in 1 .. kept
    <3>1. newer[k] = p[place[k]]
      BY <1>10
    <3>2. r \in 1 .. kept
      BY <2>2
    <3> QED BY <2>1, <3>1, <3>2
  <2>7. p[r] \in Nat /\ p[r] + kept = low + r
    BY <1>3, <2>6
  <2>8. PICK i \in Nat : i = k
    OBVIOUS
  <2>9. PICK v \in Nat : v = p[r]
    BY <2>7
  <2>10. v + kept = low + (d + i)
    BY <2>5, <2>7, <2>8, <2>9
  <2>11. v = n + i
    BY <1>2, <2>10
  <2> QED BY <2>6, <2>8, <2>9, <2>11
<1> QED BY <1>5, <1>6, <1>7, <1>8, <1>11

\* A snapshot of the session shown, whatever was received before it.
LEMMA SnapshotOfView ==
  ASSUME StreamInv, toClient # <<>>, toClient' = Tail(toClient),
         NEW s \in Sessions,
         Head(toClient).type = "snapshot", Head(toClient).session = s
  PROVE  /\ Head(toClient).sequence \in Nat
         /\ Head(toClient).data = Head(toClient).sequence
         /\ 1 \in Snapshots(s) /\ toClient[1] = Head(toClient)
         /\ \A low, high \in Nat :
              Stream(s, low, high) => /\ Head(toClient).sequence <= low
                                      /\ Reached(s, low) = low
<1>1. TypeOK /\ MessagesInOrder
  BY DEF StreamInv
<1>2. /\ 1 \in DOMAIN toClient /\ Head(toClient) = toClient[1]
      /\ Head(toClient) \in Message
  BY <1>1, Received
<1>3. PICK n \in Nat : n = Head(toClient).sequence
  BY <1>2, MessageFields
<1>4. Head(toClient).data = n
  BY <1>1, <1>2, <1>3 DEF MessagesInOrder
<1>5. 1 \in Snapshots(s)
  BY <1>2 DEF Snapshots
<1>6. ASSUME NEW low \in Nat, NEW high \in Nat, Stream(s, low, high)
      PROVE  n <= low
  <2>1. /\ Numbers(s) = low + 1 .. high /\ low <= high
        /\ n <= high
    BY <1>2, <1>3, <1>5, <1>6 DEF Stream
  <2>2. CASE low = high
    BY <2>1, <2>2
  <2>3. CASE low # high
    <3>1. low + 1 \in Numbers(s)
      BY <2>1, <2>3
    <3>2. PICK k \in FramesOf(s) : toClient[k].sequence = low + 1
      BY <3>1 DEF Numbers
    <3>3. k \in DOMAIN toClient /\ toClient[k].type = "frame"
          /\ toClient[k].session = s
      BY <3>2 DEF FramesOf
    <3>4. k # 1 /\ k \in Nat /\ k # 0
      BY <1>1, <1>2, <3>3, OnTheWay
    <3>5. toClient[1].sequence < toClient[k].sequence
      BY <1>1, <1>2, <3>3, <3>4 DEF MessagesInOrder
    <3>6. n < low + 1
      BY <1>2, <1>3, <3>2, <3>5
    <3> QED BY <3>6
  <2> QED BY <2>2, <2>3
<1> QED BY <1>2, <1>3, <1>4, <1>5, <1>6 DEF Reached

\* A whole that starts with the chunks up to n.
StartsUpTo(whole, n, newer) ==
  /\ whole \in Seq(Nat) /\ Len(whole) = n + Len(newer)
  /\ \A k \in DOMAIN whole : whole[k] = IF k <= n THEN k ELSE newer[k - n]

\* A snapshot and the frames after it make such a whole.
LEMMA JoinedUpTo ==
  ASSUME NEW n \in Nat, NEW newer \in Seq(Nat)
  PROVE  StartsUpTo(UpTo(n) \o newer, n, newer)
<1>1. PICK a \in Seq(Nat) : a = UpTo(n) /\ Len(a) = n
  BY UpToNext
<1>2. PICK N \in Nat : N = Len(newer)
  OBVIOUS
<1>3. /\ a \o newer \in Seq(Nat)
      /\ Len(a \o newer) = Len(a) + Len(newer)
      /\ \A k \in 1 .. Len(a) + Len(newer) :
           (a \o newer)[k] = IF k <= Len(a) THEN a[k] ELSE newer[k - Len(a)]
  BY ConcatProperties
<1>4. /\ a \o newer \in Seq(Nat) /\ Len(a \o newer) = n + N
      /\ \A k \in 1 .. n + N :
           (a \o newer)[k] = IF k <= n THEN a[k] ELSE newer[k - n]
  BY <1>1, <1>2, <1>3
<1>5. \A k \in 1 .. n : a[k] = k
  BY <1>1 DEF UpTo
<1>6. ASSUME NEW k \in 1 .. n + N
      PROVE  (a \o newer)[k] = IF k <= n THEN k ELSE newer[k - n]
  BY <1>4, <1>5
<1>7. DOMAIN (a \o newer) = 1 .. n + N
  BY <1>4
<1>8. StartsUpTo(a \o newer, n, newer)
  BY <1>2, <1>4, <1>6, <1>7 DEF StartsUpTo
<1> QED BY <1>1, <1>8

\* A snapshot and the newer frames are in order, and end with the new cursor.
LEMMA SnapshotInOrder ==
  ASSUME NEW n \in Nat, NEW newer \in Seq(Nat),
         \A k \in DOMAIN newer : n < newer[k],
         \A j, k \in DOMAIN newer : j < k => newer[j] < newer[k],
         NEW c, c = IF newer = <<>> THEN n ELSE Last(newer),
         NEW shown, shown = UpTo(n) \o newer
  PROVE  /\ c \in Nat /\ shown \in Seq(Nat)
         /\ \A j, k \in DOMAIN shown : j < k => shown[j] < shown[k]
         /\ \A k \in DOMAIN shown : shown[k] <= c
<1>1. PICK N \in Nat : N = Len(newer) /\ DOMAIN newer = 1 .. N
  OBVIOUS
<1>2. \A k \in 1 .. N : newer[k] \in Nat
  BY <1>1
<1>3. c \in Nat /\ \A k \in 1 .. N : newer[k] <= c
  <2>1. CASE newer = <<>>
    BY <1>1, <2>1
  <2>2. CASE newer # <<>>
    <3>1. N # 0 /\ c = newer[N]
      BY <1>1, <2>2 DEF Last
    <3>2. N \in 1 .. N
      BY <3>1
    <3>3. c \in Nat
      BY <1>2, <3>1, <3>2
    <3>4. ASSUME NEW k \in 1 .. N PROVE newer[k] <= c
      <4>1. CASE k = N
        BY <3>1, <3>3, <4>1
      <4>2. CASE k # N
        <5>1. k < N
          BY <4>2
        <5>2. newer[k] < newer[N]
          BY <1>1, <3>2, <5>1
        <5> QED BY <1>2, <3>1, <3>3, <5>2
      <4> QED BY <4>1, <4>2
    <3> QED BY <3>3, <3>4
  <2> QED BY <2>1, <2>2
<1>4. n <= c
  <2>1. CASE newer = <<>>
    BY <2>1
  <2>2. CASE newer # <<>>
    <3>1. 1 \in 1 .. N
      BY <1>1, <2>2
    <3>2. n < newer[1] /\ newer[1] <= c /\ newer[1] \in Nat
      BY <1>1, <1>2, <1>3, <3>1
    <3> QED BY <1>3, <3>2
  <2> QED BY <2>1, <2>2
<1>5. StartsUpTo(shown, n, newer)
  BY JoinedUpTo
<1>6. shown \in Seq(Nat) /\ DOMAIN shown = 1 .. n + N
  BY <1>1, <1>5 DEF StartsUpTo
<1>7. ASSUME NEW k \in 1 .. n + N
      PROVE  \/ k <= n /\ shown[k] = k
             \/ k > n /\ k - n \in 1 .. N /\ shown[k] = newer[k - n]
  <2>1. shown[k] = IF k <= n THEN k ELSE newer[k - n]
    BY <1>5, <1>6 DEF StartsUpTo
  <2> QED BY <2>1
<1>8. ASSUME NEW j \in 1 .. n + N, NEW k \in 1 .. n + N, j < k
      PROVE  shown[j] < shown[k]
  <2>1. CASE k <= n /\ shown[k] = k
    BY <1>7, <1>8, <2>1
  <2>2. CASE k > n /\ k - n \in 1 .. N /\ shown[k] = newer[k - n]
    <3>1. CASE j <= n /\ shown[j] = j
      <4>1. n < newer[k - n] /\ newer[k - n] \in Nat
        BY <1>1, <1>2, <2>2
      <4> QED BY <2>2, <3>1, <4>1
    <3>2. CASE j > n /\ j - n \in 1 .. N /\ shown[j] = newer[j - n]
      <4>1. j - n < k - n
        BY <1>8
      <4> QED BY <1>1, <2>2, <3>2, <4>1
    <3> QED BY <1>7, <3>1, <3>2
  <2> QED BY <1>7, <2>1, <2>2
<1>9. ASSUME NEW k \in 1 .. n + N PROVE shown[k] <= c
  <2>1. CASE k <= n /\ shown[k] = k
    BY <1>3, <1>4, <2>1
  <2>2. CASE k > n /\ k - n \in 1 .. N /\ shown[k] = newer[k - n]
    BY <1>3, <2>2
  <2> QED BY <1>7, <2>1, <2>2
<1> QED BY <1>3, <1>6, <1>8, <1>9

\* What follows a number.
Consecutive(frames, n) == \A k \in DOMAIN frames : frames[k] = n + k

\* Together they are all the chunks up to the last one.
LEMMA SnapshotComplete ==
  ASSUME NEW n \in Nat, NEW low \in Nat, n <= low, NEW newer \in Seq(Nat),
         Len(newer) = low - n, Consecutive(newer, n)
  PROVE  /\ UpTo(n) \o newer = UpTo(low)
         /\ low = IF newer = <<>> THEN n ELSE Last(newer)
<1>1. PICK N \in Nat : N = low - n /\ low = n + N
  OBVIOUS
<1>2. PICK whole : whole = UpTo(n) \o newer
  OBVIOUS
<1>3. UpTo(low) \in Seq(Nat) /\ Len(UpTo(low)) = low
  BY UpToNext
<1>4. StartsUpTo(whole, n, newer)
  BY <1>2, JoinedUpTo
<1>5. whole \in Seq(Nat) /\ Len(whole) = low /\ DOMAIN whole = 1 .. low
  BY <1>1, <1>4 DEF StartsUpTo
<1>6. ASSUME NEW k \in 1 .. low
      PROVE  whole[k] = UpTo(low)[k]
  <2>1. UpTo(low)[k] = k
    BY DEF UpTo
  <2>2. whole[k] = IF k <= n THEN k ELSE newer[k - n]
    BY <1>4, <1>5 DEF StartsUpTo
  <2>3. ASSUME ~(k <= n) PROVE newer[k - n] = k
    <3>1. k - n \in 1 .. low - n /\ n + (k - n) = k
      BY <2>3
    <3>2. newer[k - n] = n + (k - n)
      BY <3>1 DEF Consecutive
    <3> QED BY <3>1, <3>2
  <2> QED BY <2>1, <2>2, <2>3
<1>7. UpTo(n) \o newer = UpTo(low)
  BY <1>2, <1>3, <1>5, <1>6, SeqEqual
<1>8. low = IF newer = <<>> THEN n ELSE Last(newer)
  <2>1. CASE newer = <<>>
    BY <2>1
  <2>2. CASE newer # <<>>
    <3>1. Len(newer) = N /\ N # 0
      BY <1>1, <2>2
    <3>2. N \in 1 .. low - n
      BY <1>1, <3>1
    <3>3. newer[N] = n + N
      BY <3>1, <3>2 DEF Consecutive
    <3> QED BY <1>1, <2>2, <3>1, <3>3 DEF Last
  <2> QED BY <2>1, <2>2
<1> QED BY <1>7, <1>8

\* A snapshot replaces the screen, and the newer frames follow.
LEMMA ApplySnapshotStep ==
  ASSUME StreamInv, toClient # <<>>, toClient' = Tail(toClient),
         Head(toClient).type = "snapshot", ApplySnapshot(Head(toClient)),
         UNCHANGED <<sequence, parsed, ended, link, subscriptions, attaches,
                     toServer, selected, selects, losses>>
  PROVE  StreamInv'
<1>1. /\ TypeOK /\ ScreenInOrder /\ CursorInOrder /\ OneSnapshot
  BY DEF StreamInv
<1>2. sync # None /\ sync.session = Head(toClient).session
  BY DEF ApplySnapshot, Shows
<1>3. PICK s \in Sessions, p \in Seq(Nat) :
        s = sync.session /\ p = sync.pending
  BY <1>1, <1>2, CursorFields
<1>4. PICK n \in Nat :
        /\ n = Head(toClient).sequence /\ n = Head(toClient).data
        /\ 1 \in Snapshots(s) /\ toClient[1].sequence = n
        /\ \A low, high \in Nat :
             Stream(s, low, high) => n <= low /\ Reached(s, low) = low
  <2>1. Head(toClient).session = s
    BY <1>2, <1>3
  <2>2. Head(toClient).sequence \in Nat
    BY <2>1, SnapshotOfView
  <2> QED BY <2>1, <2>2, SnapshotOfView
<1>5. PICK newer : newer = AtPlaces(p, Newer(p, n))
  OBVIOUS
<1>6. PICK c : c = IF newer = <<>> THEN n ELSE Last(newer)
  OBVIOUS
<1>7. /\ screen' = UpTo(n) \o newer
      /\ sync' = [sync EXCEPT !.snapshotApplied = TRUE, !.pending = <<>>,
                              !.sequence = c]
  BY <1>3, <1>4, <1>5, <1>6 DEF ApplySnapshot
<1>8. /\ newer \in Seq(Nat) /\ Len(newer) \in Nat
      /\ \A k \in DOMAIN newer : n < newer[k]
      /\ \A j, k \in DOMAIN newer : j < k => newer[j] < newer[k]
  <2>1. \A j, k \in DOMAIN p : j < k => p[j] < p[k]
    BY <1>1, <1>2, <1>3 DEF CursorInOrder
  <2> QED BY <1>5, <2>1, NewerFrames
<1>9. /\ c \in Nat /\ screen' \in Seq(Nat)
      /\ \A j, k \in DOMAIN screen' : j < k => screen'[j] < screen'[k]
      /\ \A k \in DOMAIN screen' : screen'[k] <= c
  <2>1. PICK shown : shown = UpTo(n) \o newer
    OBVIOUS
  <2>2. /\ c \in Nat /\ shown \in Seq(Nat)
        /\ \A j, k \in DOMAIN shown : j < k => shown[j] < shown[k]
        /\ \A k \in DOMAIN shown : shown[k] <= c
    BY <1>6, <1>8, <2>1, SnapshotInOrder
  <2> QED BY <1>7, <2>1, <2>2
<1>10. /\ sync' \in Cursor /\ sync'.session = s /\ sync'.snapshotApplied
       /\ sync'.alone = sync.alone /\ sync'.overflowed = sync.overflowed
       /\ sync'.pending = <<>> /\ sync'.sequence = c
  <2>1. sync \in Cursor
    BY <1>1, <1>2, CursorFields
  <2>2. sync' \in Cursor
    <3>1. <<>> \in Seq(Nat)
      OBVIOUS
    <3>2. PICK e \in Seq(Nat) : e = <<>>
      BY <3>1
    <3>3. sync' = [sync EXCEPT !.snapshotApplied = TRUE, !.pending = e,
                               !.sequence = c]
      BY <1>7, <3>2
    <3> QED BY <1>9, <2>1, <3>3 DEF Cursor
  <2>3. /\ sync'.session = sync.session /\ sync'.snapshotApplied
        /\ sync'.alone = sync.alone /\ sync'.overflowed = sync.overflowed
        /\ sync'.pending = <<>> /\ sync'.sequence = c
    BY <1>7, <2>1 DEF Cursor
  <2> QED BY <1>3, <2>2, <2>3
<1>11. ScreenInOrder'
  BY <1>9 DEF ScreenInOrder
<1>12. /\ TypeOK' /\ DownIsEmpty' /\ AttachesInOrder' /\ MessagesInOrder'
       /\ SubscribedFirst'
       /\ \A x \in Sessions :
            /\ \A k \in Snapshots(x)' :
                 k \in Nat /\ k # 0 /\ k + 1 \in Snapshots(x)
                 /\ toClient'[k] = toClient[k + 1]
            /\ Numbers(x)' \subseteq Numbers(x)
            /\ Awaited(x)' = Awaited(x) /\ Asked(x)' = Asked(x)
  <2>1. Len(sync'.pending) <= PendingLimit /\ Head(toClient).type # "closed"
    BY <1>10, StreamAssumption
  <2> QED BY <1>2, <1>3, <1>9, <1>10, <1>11, <2>1, TakenForView
<1>13. CursorInOrder'
  <2>1. s = selected
    BY <1>1, <1>2, <1>3 DEF CursorInOrder
  <2> QED BY <1>9, <1>10, <2>1 DEF CursorInOrder
<1>14. ASSUME sync.alone
       PROVE  /\ ~sync.snapshotApplied
              /\ Asked(s) = {} /\ Awaited(s) = {} /\ Snapshots(s)' = {}
  <2>1. /\ ~sync.snapshotApplied /\ Asked(s) = {} /\ Awaited(s) = {}
        /\ \A k \in Snapshots(s) : k = 1
    BY <1>1, <1>2, <1>3, <1>4, <1>14 DEF OneSnapshot
  <2>2. ASSUME NEW k \in Snapshots(s)' PROVE FALSE
    <3>1. k \in Nat /\ k # 0 /\ k + 1 = 1
      BY <1>12, <2>1
    <3> QED BY <3>1
  <2> QED BY <2>1, <2>2
<1>15. OneSnapshot'
  BY <1>10, <1>12, <1>14 DEF OneSnapshot
<1>16. NoGap'
  <2>1. ASSUME NEW low \in Nat, NEW high \in Nat, NEW reached \in Nat,
               Stream(s, low, high), ~sync'.overflowed,
               reached = Reached(s, low)
        PROVE  HasReached(reached)'
    <3> SUFFICES ASSUME sync.alone
                 PROVE  reached = sync'.sequence /\ screen' = UpTo(reached)
      BY <1>10 DEF HasReached
    <3>1. n <= low /\ reached = low
      BY <1>4, <2>1
    <3>2. HasReached(low)
      BY <1>2, <1>3, <1>10, <2>1 DEF Stream
    <3>3. LastBefore(p, low)
      BY <1>3, <1>14, <3>2 DEF HasReached, LastBefore
    <3>4. low <= n + Len(p)
      BY <1>3, <1>4, <1>14, <3>2 DEF HasReached
    <3>5. /\ Len(newer) = low - n
          /\ \A k \in 1 .. low - n : newer[k] = n + k
      BY <1>5, <3>1, <3>3, <3>4, NewerFramesComplete
    <3>6. Consecutive(newer, n)
      BY <1>8, <3>5 DEF Consecutive
    <3>7. UpTo(n) \o newer = UpTo(low)
          /\ low = IF newer = <<>> THEN n ELSE Last(newer)
      BY <1>8, <3>1, <3>5, <3>6, SnapshotComplete
    <3> QED BY <1>6, <1>7, <1>10, <3>1, <3>7
  <2>2. s = sync.session /\ sync'.session = sync.session
    BY <1>3, <1>10
  <2> QED BY <1>2, <2>1, <2>2, ViewStreams
<1> QED BY <1>11, <1>12, <1>13, <1>15, <1>16 DEF StreamInv

\* The client hears that a session is gone.
LEMMA SessionClosedStep ==
  ASSUME StreamInv, toClient # <<>>, toClient' = Tail(toClient),
         Head(toClient).type = "closed", SessionClosed(Head(toClient)),
         UNCHANGED <<sequence, parsed, ended, link, subscriptions, attaches,
                     selects, losses>>
  PROVE  StreamInv'
<1> DEFINE remaining == Listed(Tail(toClient)) \ {Head(toClient).session}
<1>1. TypeOK /\ selects \in Nat
  BY DEF StreamInv, TypeOK
<1>2. Rest(1) /\ \A x \in Sessions : Numbers(x)' = Numbers(x)
  BY <1>1, Received, SameNumbers
<1>3. remaining \subseteq Sessions
  BY DEF Listed
<1>4. \/ UNCHANGED <<selected, sync, screen, toServer>>
      \/ \E s \in remaining : Show(s, link)
      \/ selected' = None /\ sync' = None /\ screen' = <<>>
         /\ UNCHANGED toServer
  BY DEF SessionClosed
<1> HIDE DEF remaining
<1>5. CASE UNCHANGED <<selected, sync, screen, toServer>>
  BY <1>5, IgnoredStep
<1>6. CASE \E s \in remaining : Show(s, link)
  BY <1>1, <1>2, <1>3, <1>6, ShowStep
<1>7. CASE selected' = None /\ sync' = None /\ screen' = <<>>
           /\ UNCHANGED toServer
  BY <1>1, <1>2, <1>7, NoCursor
<1> QED BY <1>4, <1>5, <1>6, <1>7

\* The client receives a message.
LEMMA ReceiveStep ==
  ASSUME StreamInv, Receive
  PROVE  StreamInv'
<1> DEFINE m == Head(toClient)
<1>1. /\ toClient # <<>> /\ toClient' = Tail(toClient)
      /\ UNCHANGED <<sequence, parsed, ended, link, subscriptions, attaches,
                     selects, losses>>
      /\ \/ m.type = "closed" /\ SessionClosed(m)
         \/ /\ m.type # "closed"
            /\ \/ m.type = "frame" /\ FrameBefore(m)
               \/ m.type = "frame" /\ FrameAfter(m)
               \/ m.type = "snapshot" /\ ApplySnapshot(m)
               \/ ~Shows(m.session) /\ UNCHANGED <<sync, screen>>
            /\ UNCHANGED <<selected, toServer>>
  BY DEF Receive, serverVars, hubVars, counters
<1>2. CASE m.type = "closed" /\ SessionClosed(m)
  BY <1>1, <1>2, SessionClosedStep
<1>3. CASE /\ m.type = "frame" /\ FrameBefore(m)
           /\ UNCHANGED <<selected, toServer>>
  BY <1>1, <1>3, FrameBeforeStep
<1>4. CASE /\ m.type = "frame" /\ FrameAfter(m)
           /\ UNCHANGED <<selected, toServer>>
  BY <1>1, <1>4, FrameAfterStep
<1>5. CASE /\ m.type = "snapshot" /\ ApplySnapshot(m)
           /\ UNCHANGED <<selected, toServer>>
  BY <1>1, <1>5, ApplySnapshotStep
<1>6. CASE ~Shows(m.session) /\ UNCHANGED <<sync, screen, selected, toServer>>
  <2>1. sync # None => m.session # sync.session
    BY <1>6 DEF Shows
  <2> QED BY <1>1, <1>6, <2>1, IgnoredStep
<1> QED BY <1>1, <1>2, <1>3, <1>4, <1>5, <1>6

\* Nothing is under way.
LEMMA EmptyStreams ==
  ASSUME toClient' = <<>>, sequence' = sequence,
         sequence \in [Sessions -> Nat],
         \A n \in Nat : sync' # None => HasReached(n)'
  PROVE  NoGap'
<1> SUFFICES ASSUME NEW x \in Sessions
             PROVE  \E low, high \in Nat : Stream(x, low, high)'
  BY DEF NoGap
<1>1. PICK n \in Nat : n = sequence[x]
  OBVIOUS
<1>2. n + 1 .. n = {}
  BY <1>1
<1>3. FramesOf(x)' = {} /\ Snapshots(x)' = {}
  BY DEF FramesOf, Snapshots
<1>4. Numbers(x)' = {}
  BY <1>3 DEF Numbers
<1>5. Stream(x, n, n)'
  BY <1>1, <1>2, <1>3, <1>4 DEF Stream
<1> QED BY <1>5

\* A lost connection takes everything with it.
LEMMA DisconnectStep ==
  ASSUME StreamInv, Disconnect, losses' \in Nat
  PROVE  StreamInv'
<1>1. TypeOK /\ ScreenInOrder /\ AttachesInOrder
  BY DEF StreamInv
<1>2. /\ link' = "down" /\ subscriptions' = {} /\ attaches' = <<>>
      /\ toServer' = <<>> /\ toClient' = <<>> /\ sync' = None
      /\ UNCHANGED <<sequence, parsed, ended, selected, screen, selects>>
  BY DEF Disconnect, serverVars
<1>3. TypeOK'
  BY <1>1, <1>2 DEF TypeOK
<1>4. /\ ScreenInOrder' /\ DownIsEmpty' /\ AttachesInOrder'
      /\ MessagesInOrder' /\ CursorInOrder' /\ OneSnapshot'
  BY <1>1, <1>2 DEF ScreenInOrder, DownIsEmpty, AttachesInOrder,
     MessagesInOrder, CursorInOrder, OneSnapshot
<1>5. SubscribedFirst'
  BY <1>2 DEF SubscribedFirst, FramesOf, Snapshots, Awaited
<1>6. NoGap'
  BY <1>1, <1>2, EmptyStreams DEF TypeOK
<1> QED BY <1>3, <1>4, <1>5, <1>6 DEF StreamInv

\* The client connects again, and attaches to the session it shows.
LEMMA ReconnectStep ==
  ASSUME StreamInv, Reconnect
  PROVE  StreamInv'
<1> DEFINE next == IF selected = None THEN Sessions \ ended ELSE {selected}
<1>1. TypeOK /\ ScreenInOrder /\ DownIsEmpty /\ AttachesInOrder
  BY DEF StreamInv
<1>2. /\ link = "down" /\ link' = "open"
      /\ \/ \E s \in next :
              /\ Show(s, link')
              /\ toClient' = IF s \in ended
                               THEN <<[type |-> "closed", session |-> s]>>
                               ELSE << >>
         \/ UNCHANGED <<selected, sync, screen, toServer, toClient>>
      /\ UNCHANGED <<sequence, parsed, ended, subscriptions, attaches,
                     selects, losses>>
  BY DEF Reconnect, serverVars, hubVars, counters
<1>3. /\ subscriptions = {} /\ attaches = <<>> /\ toServer = <<>>
      /\ toClient = <<>> /\ sync = None
      /\ sequence \in [Sessions -> Nat]
  BY <1>1, <1>2 DEF DownIsEmpty, TypeOK
<1>4. next \subseteq Sessions
  BY <1>1 DEF TypeOK
<1> HIDE DEF next
<1>5. CASE UNCHANGED <<selected, sync, screen, toServer, toClient>>
  <2>1. TypeOK'
    BY <1>1, <1>2, <1>5 DEF TypeOK
  <2>2. /\ ScreenInOrder' /\ DownIsEmpty' /\ AttachesInOrder'
        /\ MessagesInOrder' /\ CursorInOrder' /\ OneSnapshot'
    BY <1>1, <1>2, <1>3, <1>5 DEF ScreenInOrder, DownIsEmpty,
       AttachesInOrder, MessagesInOrder, CursorInOrder, OneSnapshot
  <2>3. SubscribedFirst'
    BY <1>2, <1>3, <1>5 DEF SubscribedFirst, FramesOf, Snapshots, Awaited
  <2>4. NoGap'
    BY <1>2, <1>3, <1>5, EmptyStreams
  <2> QED BY <2>1, <2>2, <2>3, <2>4 DEF StreamInv
<1>6. CASE \E s \in next :
             /\ Show(s, link')
             /\ toClient' = IF s \in ended
                              THEN <<[type |-> "closed", session |-> s]>>
                              ELSE << >>
  <2>1. PICK s \in Sessions :
          /\ Show(s, link')
          /\ toClient' = IF s \in ended
                           THEN <<[type |-> "closed", session |-> s]>>
                           ELSE << >>
    BY <1>4, <1>6
  <2>2. /\ selected' = s /\ screen' = <<>> /\ sync' = NewCursor(s)
        /\ toServer' = Append(toServer, s)
    BY <1>2, <2>1 DEF Show
  <2>3. PICK m \in Message :
          /\ m = [type |-> "closed", session |-> s] /\ m.type = "closed"
    <3>1. [type |-> "closed", session |-> s] \in Message
      BY DEF Message
    <3> QED BY <3>1
  <2>4. /\ toClient' \in Seq(Message)
        /\ \A n \in DOMAIN toClient' : toClient'[n].type = "closed"
    BY <2>1, <2>3
  <2>5. \A x \in Sessions :
          FramesOf(x)' = {} /\ Snapshots(x)' = {} /\ Awaited(x)' = {}
    BY <1>2, <1>3, <2>4 DEF FramesOf, Snapshots, Awaited
  <2>6. Asked(s) = {}
    BY <1>3 DEF Asked
  <2>7. toServer' \in Seq(Sessions) /\ Asked(s)' = {Len(toServer) + 1}
    BY <1>1, <2>2, <2>6, AskedLast
  <2>8. /\ sync' \in Cursor /\ sync'.session = s /\ sync'.pending = <<>>
        /\ ~sync'.snapshotApplied
    BY <2>2, NewCursorFields
  <2>9. TypeOK'
    <3>1. Len(sync'.pending) <= PendingLimit
      BY <2>8, StreamAssumption
    <3>2. screen' \in Seq(Nat)
      BY <2>2
    <3>3. link' \in {"open", "closing", "down"}
      BY <1>2
    <3> QED BY <1>1, <1>2, <2>2, <2>4, <2>7, <2>8, <3>1, <3>2, <3>3 DEF TypeOK
  <2>10. /\ ScreenInOrder' /\ DownIsEmpty' /\ AttachesInOrder'
         /\ CursorInOrder'
    BY <1>1, <1>2, <1>3, <2>2, <2>8 DEF ScreenInOrder, DownIsEmpty,
       AttachesInOrder, CursorInOrder
  <2>11. MessagesInOrder'
    BY <2>4 DEF MessagesInOrder
  <2>12. SubscribedFirst'
    BY <2>5, <2>8 DEF SubscribedFirst
  <2>13. OneSnapshot'
    BY <2>5, <2>7, <2>8 DEF OneSnapshot
  <2>14. NoGap'
    <3> SUFFICES ASSUME NEW x \in Sessions
                 PROVE  \E low, high \in Nat : Stream(x, low, high)'
      BY DEF NoGap
    <3>1. PICK n \in Nat : n = sequence[x]
      BY <1>3
    <3>2. n + 1 .. n = {}
      OBVIOUS
    <3>3. Numbers(x)' = {}
      BY <2>5 DEF Numbers
    <3>4. HasReached(n)'
      BY <2>5, <2>8 DEF HasReached
    <3>5. Stream(x, n, n)'
      BY <1>2, <2>5, <3>1, <3>2, <3>3, <3>4 DEF Stream
    <3> QED BY <3>5
  <2> QED BY <2>9, <2>10, <2>11, <2>12, <2>13, <2>14 DEF StreamInv
<1> QED BY <1>2, <1>5, <1>6

-----------------------------------------------------------------------------
(* The specification.                                                      *)

\* It holds when the program starts.
LEMMA StreamInit == Init => StreamInv
<1> SUFFICES ASSUME Init PROVE StreamInv
  OBVIOUS
<1>1. TypeOK
  BY StreamAssumption DEF Init, TypeOK
<1>2. /\ ScreenInOrder /\ DownIsEmpty /\ AttachesInOrder /\ MessagesInOrder
      /\ CursorInOrder /\ OneSnapshot
  BY DEF Init, ScreenInOrder, DownIsEmpty, AttachesInOrder, MessagesInOrder,
     CursorInOrder, OneSnapshot
<1>3. \A s \in Sessions :
        FramesOf(s) = {} /\ Snapshots(s) = {} /\ Awaited(s) = {}
  BY DEF Init, FramesOf, Snapshots, Awaited
<1>4. SubscribedFirst
  BY <1>3 DEF Init, SubscribedFirst
<1>5. NoGap
  <2> SUFFICES ASSUME NEW x \in Sessions
               PROVE  \E low, high \in Nat : Stream(x, low, high)
    BY DEF NoGap
  <2>1. Numbers(x) = {} /\ sequence[x] = 0 /\ sync = None
    BY <1>3 DEF Numbers, Init
  <2>2. 0 + 1 .. 0 = {}
    OBVIOUS
  <2>3. Stream(x, 0, 0)
    BY <1>3, <2>1, <2>2 DEF Stream
  <2> QED BY <2>3
<1> QED BY <1>1, <1>2, <1>4, <1>5 DEF StreamInv

\* Every step of the server, the connection or the client keeps it.
LEMMA StreamNext == StreamInv /\ [Next]_vars => StreamInv'
<1> SUFFICES ASSUME StreamInv, [Next]_vars PROVE StreamInv'
  OBVIOUS
<1>1. ASSUME NEW s \in Sessions, HandleDataChunk(s) PROVE StreamInv'
  BY <1>1, ChunkStep
<1>2. ASSUME NEW s \in Sessions, Parse(s) PROVE StreamInv'
  BY <1>2, ParseStep
<1>3. ASSUME NEW s \in Sessions, RemoveSession(s) PROVE StreamInv'
  BY <1>3, RemoveStep
<1>4. ASSUME NEW s \in Sessions, Select(s) PROVE StreamInv'
  BY <1>4, SelectStep
<1>5. CASE CloseView
  BY <1>5, CloseViewStep
<1>6. CASE HandleAttach
  BY <1>6, AttachStep
<1>7. ASSUME NEW n \in DOMAIN attaches, Snapshot(n) PROVE StreamInv'
  BY <1>7, SnapshotStep
<1>8. CASE Receive
  BY <1>8, ReceiveStep
<1>9. losses \in Nat
  BY DEF StreamInv, TypeOK
<1>10. CASE Lose
  BY <1>9, <1>10, DisconnectStep DEF Lose
<1>11. CASE Close
  BY <1>9, <1>11, DisconnectStep DEF Close
<1>12. CASE Reconnect
  BY <1>12, ReconnectStep
<1>13. CASE UNCHANGED vars
  <2>1. UNCHANGED <<sequence, parsed, ended, link, subscriptions, attaches,
                    toServer, toClient, selected, sync, screen, selects,
                    losses>>
    BY <1>13 DEF vars, serverVars, hubVars, counters
  <2>2. TypeOK' /\ ScreenInOrder' /\ DownIsEmpty' /\ AttachesInOrder'
    BY <2>1 DEF StreamInv, TypeOK, ScreenInOrder, DownIsEmpty,
       AttachesInOrder
  <2>3. MessagesInOrder' /\ CursorInOrder'
    BY <2>1 DEF StreamInv, MessagesInOrder, CursorInOrder, Numbers, FramesOf
  <2>4. SubscribedFirst' /\ OneSnapshot'
    BY <2>1 DEF StreamInv, SubscribedFirst, OneSnapshot, FramesOf, Snapshots,
       Awaited, Asked
  <2>5. NoGap'
    <3> SUFFICES ASSUME NEW x \in Sessions
                 PROVE  \E low, high \in Nat : Stream(x, low, high)'
      BY DEF NoGap
    <3>1. PICK low \in Nat, high \in Nat : Stream(x, low, high)
      BY DEF StreamInv, NoGap
    <3>2. HasReached(low)' <=> HasReached(low)
      BY <2>1 DEF HasReached, Awaited, Snapshots
    <3>3. Stream(x, low, high)'
      BY <2>1, <3>1, <3>2, SameStream DEF Stream
    <3> QED BY <3>3
  <2> QED BY <2>2, <2>3, <2>4, <2>5 DEF StreamInv
<1> QED BY <1>1, <1>2, <1>3, <1>4, <1>5, <1>6, <1>7, <1>8, <1>10, <1>11,
          <1>12, <1>13 DEF Next

\* It holds in every state.
LEMMA StreamInvariance == Spec => []StreamInv
BY StreamInit, StreamNext, PTL DEF Spec

\* Every variable of the stream has its type.
THEOREM StreamTypes == Spec => []TypeOK
<1>1. StreamInv => TypeOK
  BY DEF StreamInv
<1> QED BY <1>1, StreamInvariance, PTL

\* Whatever is lost, reselected or reconnected, the screen never shows a
\* chunk twice, nor an older one below a newer one.
THEOREM ScreenShowsInOrder == Spec => []ScreenInOrder
<1>1. StreamInv => ScreenInOrder
  BY DEF StreamInv
<1> QED BY <1>1, StreamInvariance, PTL

\* A view whose attach was alone and that dropped no frame shows every chunk
\* up to its cursor: the snapshot and the frames kept leave no gap.
THEOREM ScreenShowsAll == Spec => []ScreenComplete
<1>1. StreamInv => ScreenComplete
  <2> SUFFICES ASSUME StreamInv, sync # None, sync.snapshotApplied, sync.alone,
                      ~sync.overflowed
               PROVE  screen = UpTo(sync.sequence)
    BY DEF ScreenComplete
  <2>1. PICK s \in Sessions : s = sync.session
    BY CursorFields DEF StreamInv
  <2>2. PICK low \in Nat, high \in Nat : Stream(s, low, high)
    BY DEF StreamInv, NoGap
  <2> QED BY <2>1, <2>2 DEF Stream, HasReached
<1> QED BY <1>1, StreamInvariance, PTL

\* The frames of a session on their way are as many as the chunks the client
\* has not reached: no two of them have the same number.
LEMMA FramesCounted ==
  ASSUME StreamInv, NEW s \in Sessions, NEW low \in Nat, NEW high \in Nat,
         Numbers(s) = low + 1 .. high, low <= high
  PROVE  high = low + Cardinality(FramesOf(s))
<1> DEFINE number == [n \in FramesOf(s) |-> toClient[n].sequence]
           N == low + 1 .. high
<1>1. TypeOK /\ MessagesInOrder
  BY DEF StreamInv
<1>2. \A n \in FramesOf(s) : n \in DOMAIN toClient /\ n \in Nat
                               /\ toClient[n].type = "frame"
                               /\ toClient[n].session = s
                               /\ toClient[n].sequence \in Nat
  BY <1>1, OnTheWay DEF FramesOf
<1>3. number \in [FramesOf(s) -> N] /\ \A k \in N : \E n \in FramesOf(s) :
                                                      number[n] = k
  BY DEF Numbers
<1>4. ASSUME NEW m \in FramesOf(s), NEW n \in FramesOf(s), m # n
      PROVE  number[m] # number[n]
  <2>1. m < n \/ n < m
    BY <1>2, <1>4
  <2>2. \/ toClient[m].sequence < toClient[n].sequence
        \/ toClient[n].sequence < toClient[m].sequence
    BY <1>1, <1>2, <2>1 DEF MessagesInOrder
  <2> QED BY <1>2, <2>2
<1>5. /\ number \in Injection(FramesOf(s), N)
      /\ number \in Surjection(FramesOf(s), N)
  BY <1>3, <1>4 DEF Injection, Surjection, IsInjective
<1>6. IsFiniteSet(N) /\ Cardinality(N) = high - low
  <2>1. low + 1 \in Int /\ high \in Int
    OBVIOUS
  <2>2. /\ IsFiniteSet(low + 1 .. high)
        /\ Cardinality(low + 1 .. high) =
             IF low + 1 > high THEN 0 ELSE high - (low + 1) + 1
    BY <2>1, FS_Interval
  <2> QED BY <2>2
<1> HIDE DEF number, N
<1>7. Cardinality(FramesOf(s)) = Cardinality(N)
  BY <1>5, <1>6, FS_Injection
<1> QED BY <1>6, <1>7

\* The chunks such a view does not show yet are all on their way, as long as
\* the hub sends.
THEOREM NothingIsSkipped == Spec => []NothingSkipped
<1>1. StreamInv => NothingSkipped
  <2> SUFFICES ASSUME StreamInv, sync # None, sync.snapshotApplied, sync.alone,
                      ~sync.overflowed, link = "open"
               PROVE  sequence[sync.session] =
                        sync.sequence + Cardinality(FramesOf(sync.session))
    BY DEF NothingSkipped
  <2>1. PICK s \in Sessions : s = sync.session
    BY CursorFields DEF StreamInv
  <2>2. PICK low \in Nat, high \in Nat : Stream(s, low, high)
    BY DEF StreamInv, NoGap
  <2>3. low = sync.sequence /\ high = sequence[s] /\ low <= high
        /\ Numbers(s) = low + 1 .. high
    BY <2>1, <2>2 DEF Stream, HasReached
  <2>4. high = low + Cardinality(FramesOf(s))
    BY <2>3, FramesCounted
  <2> QED BY <2>1, <2>3, <2>4
<1> QED BY <1>1, StreamInvariance, PTL
=============================================================================
