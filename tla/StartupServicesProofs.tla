------------------------ MODULE StartupServicesProofs ------------------------
(***************************************************************************)
(* The invariants of the services the local server starts with, proved for *)
(* all sources, requests, launches and callers and all bounds.             *)
(*                                                                         *)
(* Observer: a file that is watched is observed as it is, or something is  *)
(* on its way - an event, a timer, a fresh read - that began, or will      *)
(* begin, after its last change (NothingMissed).  A read is fresh only     *)
(* under its generation and its number, so that what is late is dropped    *)
(* (ReadsAreCounted, ReadsAreInOrder), and the snapshot can differ from    *)
(* the evidence only while a refresh waits to rebuild it (SnapshotFollows).*)
(*                                                                         *)
(* Keep-alive: sorting by session numbers the manifests without a gap, as  *)
(* counting those above is a bijection (NewestIsFirst); so a manifest is   *)
(* dropped only for newer ones (UpsertFinds).  One write at a time starts  *)
(* from the catalog as it is (WritesInTurn), the file is ahead of the      *)
(* memory only by what was answered as failed (FileFollows), and the       *)
(* manifests of the clients are in both (AllAreFound).  A target that a    *)
(* start restores is still to be restored, being restored, or restored     *)
(* (OneForEach).                                                           *)
(*                                                                         *)
(* Setup: whoever is past the check of a setup or an attachment owns it    *)
(* (OneSetup, OneAttachment), and the client of Meta is the one that the   *)
(* server remembers (MetaIsKnown).                                         *)
(***************************************************************************)
EXTENDS StartupServices, FiniteSetTheorems, SequenceTheorems, TLAPS

-----------------------------------------------------------------------------
(* The queue observer.                                                     *)

\* A read is not later than its file and its generation; one of the current
\* generation is of a configured source and one of those counted, and the
\* request it belongs to waits for it.
ReadsAreCounted ==
  \A r \in reads :
    /\ r.since \in 1 .. Version(r.source)
    /\ r.generation <= generation
    /\ r.generation = generation =>
         /\ r.source \in Configured
         /\ r.sequence <= readSequences[r.source]
    /\ r.by # "timer" => request[r.by].stage = "refreshing"

\* No two reads have one number, and the last one of a source began after
\* what is shown of it was read.
ReadsAreInOrder ==
  /\ \A r, t \in reads :
       /\ r.generation = generation /\ t.generation = generation
       /\ r.source = t.source /\ r.sequence = t.sequence
       => r = t
  /\ \A r \in reads : Fresh(r) => states[r.source].version <= r.since
  /\ \A s \in Sources : states[s].version <= Version(s)

\* What is observed of a source is its file as it is.
UpToDate(s) ==
  /\ states[s].status = file[s][Version(s)]
  /\ states[s].version = Version(s)

\* A watched source is up to date, or an event, a timer or a read is under way
\* that will see the last version of its file.
NothingMissed ==
  /\ \A s \in watched :
       \/ s \in events \cup timers
       \/ UpToDate(s)
       \/ \E r \in reads : Fresh(r) /\ r.source = s
  /\ \A r \in reads :
       /\ Fresh(r) /\ r.source \in watched
       /\ r.since < Version(r.source)
       => r.source \in events \cup timers

\* The snapshot shows what is observed, unless a refresh will replace it.
SnapshotFollows ==
  /\ aggregate.revision = revision
  /\ revision = NoConfig =>
       Configured = {}
         /\ \A s \in Sources : aggregate.shown[s].status = "absent"
  /\ disposed => Configured = {}
  /\ \/ disposed
     \/ \E q \in Requests : request[q].stage = "refreshing"
     \/ \A s \in Sources : SameEvidence(aggregate.shown[s], states[s])

\* The inductive invariant of the observer.
ObserverInv ==
  /\ TypeOK
  /\ ReadsAreCounted
  /\ ReadsAreInOrder
  /\ NothingMissed
  /\ SnapshotFollows
  /\ NoUpdateLeaks

\* An observer starts with nothing configured and nothing shown.
LEMMA ObserverStarts == Init => ObserverInv
<1> SUFFICES ASSUME Init PROVE ObserverInv
  OBVIOUS
<1> USE DEF Init, Absent, Configured
<1>1. TypeOK
  <2>1. file \in [Sources -> Seq(Kinds) \ {<<>>}]
    BY DEF Kinds
  <2>2. states \in [Sources -> Evidence]
    BY DEF Evidence, Statuses
  <2>3. aggregate \in Snapshots
    BY <2>2 DEF Snapshots, NoConfig
  <2>4. request \in [Requests -> Places]
    BY DEF Places
  <2> QED BY <2>1, <2>2, <2>3, <2>4 DEF TypeOK, NoConfig
<1>2. ReadsAreCounted
  BY DEF ReadsAreCounted
<1>3. ReadsAreInOrder
  BY DEF ReadsAreInOrder, Version, Kinds
<1>4. NothingMissed
  BY DEF NothingMissed
<1>5. SnapshotFollows
  BY DEF SnapshotFollows, SameEvidence
<1>6. NoUpdateLeaks
  BY DEF NoUpdateLeaks
<1> QED BY <1>1, <1>2, <1>3, <1>4, <1>5, <1>6 DEF ObserverInv

\* A rebuilt snapshot shows the observed evidence.
LEMMA Rebuilt ==
  ASSUME NEW st \in [Sources -> Evidence], NEW before \in Snapshots,
         NEW now, NEW rev \in Nat,
         IF rev = NoConfig THEN now = before
                           ELSE now = [revision |-> rev, shown |-> st],
         before.revision = rev,
         rev = NoConfig => \A s \in Sources :
           st[s].status = "absent" /\ before.shown[s].status = "absent"
  PROVE  /\ now \in Snapshots /\ now.revision = rev
         /\ \A s \in Sources : SameEvidence(now.shown[s], st[s])
         /\ rev = NoConfig => now = before
<1>1. CASE rev = NoConfig
  BY <1>1 DEF SameEvidence
<1>2. CASE rev # NoConfig
  BY <1>2 DEF SameEvidence, Snapshots
<1> QED BY <1>1, <1>2


\* An observation that is sent, or answered, changes nothing observed.
LEMMA HubStep ==
  ASSUME ObserverInv,
         \/ \E b \in broadcasts : Broadcast(b)
         \/ \E q \in Requests, c \in Clients : Answer(q, c)
  PROVE  ObserverInv'
<1>1. /\ TypeOK /\ ReadsAreCounted /\ ReadsAreInOrder /\ NothingMissed
      /\ SnapshotFollows /\ NoUpdateLeaks
  BY DEF ObserverInv
<1>2. /\ UNCHANGED <<file, observer>>
      /\ request' \in [Requests -> Places]
      /\ \A q \in Requests : \/ request'[q] = request[q]
                             \/ /\ request[q].stage = "answering"
                                /\ request'[q].stage = "idle"
  <2>1. CASE \E b \in broadcasts : Broadcast(b)
    BY <1>1, <2>1 DEF Broadcast, TypeOK
  <2>2. CASE \E q \in Requests, c \in Clients : Answer(q, c)
    BY <1>1, <2>2 DEF Answer, TypeOK, Places
  <2> QED BY <2>1, <2>2
<1> USE DEF observer, Version, Configured
<1>3. TypeOK'
  BY <1>1, <1>2 DEF TypeOK
<1>4. ReadsAreCounted'
  BY ZenonT(60), <1>1, <1>2 DEF ReadsAreCounted, TypeOK, ReadCalls
<1>5. ReadsAreInOrder' /\ NothingMissed' /\ NoUpdateLeaks'
  BY <1>1, <1>2
     DEF ReadsAreInOrder, NothingMissed, Fresh, UpToDate, NoUpdateLeaks
<1>6. SnapshotFollows'
  BY <1>1, <1>2 DEF SnapshotFollows, SameEvidence
<1> QED BY <1>3, <1>4, <1>5, <1>6 DEF ObserverInv

\* A file changes: its watcher tells, so that a read is scheduled.
LEMMA WriteStep ==
  ASSUME ObserverInv, NEW s \in Sources, Write(s)
  PROVE  ObserverInv'
<1>1. /\ TypeOK /\ ReadsAreCounted /\ ReadsAreInOrder /\ NothingMissed
      /\ SnapshotFollows /\ NoUpdateLeaks
  BY DEF ObserverInv
<1>2. PICK k \in Kinds : file' = [file EXCEPT ![s] = Append(@, k)]
  BY DEF Write
<1>3. /\ file' \in [Sources -> Seq(Kinds) \ {<<>>}]
      /\ \A x \in Sources \ {s} : file'[x] = file[x]
      /\ Version(s) \in Nat /\ Len(file'[s]) = Version(s) + 1
      /\ \A x \in Sources : Len(file[x]) <= Len(file'[x])
      /\ \A x \in Sources : Len(file[x]) \in Nat /\ Len(file'[x]) \in Nat
  BY <1>1, <1>2 DEF TypeOK, Version
<1>4. /\ events' = IF s \in watched THEN events \cup {s} ELSE events
      /\ UNCHANGED <<generation, revision, states, readSequences, timers, watched,
                 reads, aggregate, disposed, request>>
  BY DEF Write, hub
<1> HIDE DEF Write
<1>5. TypeOK'
  BY <1>1, <1>3, <1>4 DEF TypeOK, Configured
<1>6. ReadsAreCounted'
  BY <1>1, <1>3, <1>4
     DEF ReadsAreCounted, Version, Configured, TypeOK, ReadCalls
<1>7. ReadsAreInOrder'
  <2>1. \A r \in reads : Fresh(r)' = Fresh(r)
    BY <1>4 DEF Fresh
  <2>2. \A x \in Sources : states[x].version \in Nat
    BY <1>1 DEF TypeOK, Evidence
  <2> QED BY <1>1, <1>3, <1>4, <2>1, <2>2 DEF ReadsAreInOrder, Version
<1>8. NothingMissed'
  <2>1. \A r \in reads : Fresh(r)' = Fresh(r)
    BY <1>4 DEF Fresh
  <2>2. \A x \in Sources \ {s} : UpToDate(x)' = UpToDate(x)
    BY <1>3, <1>4 DEF UpToDate, Version
  <2>3. \A x \in watched' : x \in Sources
    BY <1>1, <1>4 DEF TypeOK, Configured
  <2> QED BY <1>1, <1>3, <1>4, <2>1, <2>2, <2>3 DEF NothingMissed, Version
<1>9. SnapshotFollows' /\ NoUpdateLeaks'
  BY <1>1, <1>4 DEF SnapshotFollows, SameEvidence, NoUpdateLeaks, Configured
<1> QED BY <1>5, <1>6, <1>7, <1>8, <1>9 DEF ObserverInv

\* A watch event schedules a read.
LEMMA WatchEventStep ==
  ASSUME ObserverInv, NEW s \in Sources, WatchEvent(s)
  PROVE  ObserverInv'
<1>1. /\ TypeOK /\ ReadsAreCounted /\ ReadsAreInOrder /\ NothingMissed
      /\ SnapshotFollows /\ NoUpdateLeaks
  BY DEF ObserverInv
<1>2. /\ s \in events /\ events' = events \ {s} /\ timers' = timers \cup {s}
      /\ UNCHANGED <<file, generation, revision, states, readSequences, watched,
                     reads, aggregate, disposed, request>>
  BY DEF WatchEvent, hub
<1>3. TypeOK'
  BY <1>1, <1>2 DEF TypeOK, Configured
<1>4. ReadsAreCounted' /\ ReadsAreInOrder'
  BY <1>1, <1>2 DEF ReadsAreCounted, ReadsAreInOrder, Fresh, Version, Configured
<1>5. NothingMissed'
  BY <1>1, <1>2 DEF NothingMissed, Fresh, UpToDate, Version
<1>6. SnapshotFollows' /\ NoUpdateLeaks'
  BY <1>1, <1>2 DEF SnapshotFollows, SameEvidence, NoUpdateLeaks, Configured
<1> QED BY <1>3, <1>4, <1>5, <1>6 DEF ObserverInv

\* A watcher that fails is closed; the reads of its source are outdated.
LEMMA WatchErrorStep ==
  ASSUME ObserverInv, NEW s \in Sources, WatchError(s)
  PROVE  ObserverInv'
<1>1. /\ TypeOK /\ ReadsAreCounted /\ ReadsAreInOrder /\ NothingMissed
      /\ SnapshotFollows /\ NoUpdateLeaks
  BY DEF ObserverInv
<1>2. /\ s \in watched /\ watched' = watched \ {s}
      /\ events' = events \ {s} /\ timers' = timers \ {s}
      /\ readSequences' = [readSequences EXCEPT ![s] = @ + 1]
      /\ states' = [states EXCEPT ![s].status = "watch_error"]
      /\ UNCHANGED <<file, generation, revision, reads, disposed, request>>
  BY DEF WatchError
<1>3. revision # NoConfig /\ s \in Configured
  BY <1>1, <1>2 DEF SnapshotFollows, TypeOK
<1>4. aggregate' = [revision |-> revision, shown |-> states']
  BY <1>3 DEF WatchError, RebuildAndPublish, Rebuild
<1>5. /\ states' \in [Sources -> Evidence]
      /\ \A x \in Sources : /\ states'[x].version = states[x].version
                            /\ states'[x].generation = states[x].generation
      /\ \A x \in Sources \ {s} : states'[x] = states[x]
      /\ states'[s].status = "watch_error"
  BY <1>1, <1>2 DEF TypeOK, Evidence, Statuses
<1>6. Configured' = Configured
  BY <1>3, <1>5 DEF Configured
<1>7. /\ readSequences' \in [Sources -> Nat]
      /\ \A x \in Sources \ {s} : readSequences'[x] = readSequences[x]
      /\ readSequences'[s] = readSequences[s] + 1
      /\ \A x \in Sources : readSequences[x] \in Nat
  BY <1>1, <1>2 DEF TypeOK
<1>8. \A r \in reads : /\ r.source \in Sources /\ r.sequence \in Nat
                       /\ Fresh(r)' => Fresh(r) /\ r.source # s
                       /\ Fresh(r) /\ r.source # s => Fresh(r)'
  BY <1>1, <1>2, <1>7 DEF TypeOK, ReadCalls, ReadsAreCounted, Fresh
<1>9. TypeOK'
  BY <1>1, <1>2, <1>4, <1>5, <1>6, <1>7 DEF TypeOK, Snapshots
<1>10. ReadsAreCounted'
  BY <1>1, <1>2, <1>6, <1>7, <1>8 DEF ReadsAreCounted, Version
<1>11. ReadsAreInOrder'
  BY <1>1, <1>2, <1>5, <1>8 DEF ReadsAreInOrder, Version
<1>12. NothingMissed'
  <2>1. \A x \in watched' : x \in Sources /\ x # s /\ x \in watched
    BY <1>1, <1>2 DEF TypeOK, Configured
  <2>2. \A x \in watched' : UpToDate(x) => UpToDate(x)'
    BY <1>2, <1>5, <2>1 DEF UpToDate, Version
  <2> QED BY <1>1, <1>2, <1>8, <2>1, <2>2 DEF NothingMissed, Version
<1>13. SnapshotFollows'
  BY <1>1, <1>2, <1>3, <1>4, <1>6 DEF SnapshotFollows, SameEvidence
<1>14. NoUpdateLeaks'
  BY <1>1, <1>2, <1>5, <1>6 DEF NoUpdateLeaks, Configured
<1> QED BY <1>9, <1>10, <1>11, <1>12, <1>13, <1>14 DEF ObserverInv

\* The server shuts down: nothing of the observer is current any more.
LEMMA DisposeStep ==
  ASSUME ObserverInv, Dispose
  PROVE  ObserverInv'
<1>1. /\ TypeOK /\ ReadsAreCounted /\ ReadsAreInOrder /\ NothingMissed
      /\ SnapshotFollows /\ NoUpdateLeaks
  BY DEF ObserverInv
<1>2. /\ disposed' = TRUE /\ generation' = generation + 1
      /\ timers' = {} /\ events' = {} /\ watched' = {}
      /\ states' = [s \in Sources |-> Absent]
      /\ readSequences' = [s \in Sources |-> 0]
      /\ UNCHANGED <<file, revision, reads, aggregate, request>>
  BY DEF Dispose, hub
<1>3. /\ states' \in [Sources -> Evidence]
      /\ \A x \in Sources : states'[x].status = "absent"
      /\ \A x \in Sources : states'[x].version = 0
      /\ Configured' = {}
  BY <1>2 DEF Absent, Evidence, Statuses, Configured
<1>4. \A r \in reads : /\ ~Fresh(r)'
                       /\ r.generation < generation'
  BY <1>1, <1>2 DEF Fresh, ReadsAreCounted, TypeOK, ReadCalls
<1>5. TypeOK'
  BY <1>1, <1>2, <1>3 DEF TypeOK
<1>6. ReadsAreCounted'
  BY <1>1, <1>2, <1>4 DEF ReadsAreCounted, Version, TypeOK, ReadCalls
<1>7. ReadsAreInOrder'
  <2>1. \A x \in Sources : Len(file[x]) \in Nat
    BY <1>1 DEF TypeOK
  <2> QED BY <1>1, <1>2, <1>3, <1>4, <2>1
    DEF ReadsAreInOrder, Version, TypeOK, ReadCalls
<1>8. NothingMissed'
  BY <1>2, <1>4 DEF NothingMissed
<1>9. SnapshotFollows' /\ NoUpdateLeaks'
  BY <1>1, <1>2, <1>3 DEF SnapshotFollows, NoUpdateLeaks
<1> QED BY <1>5, <1>6, <1>7, <1>8, <1>9 DEF ObserverInv

\* The reads that begin together: one of each source, of its last version.
OneOfEach(new, S, seqs, gen, by) ==
  /\ new \subseteq ReadCalls
  /\ \A r \in new :
       /\ r.source \in S /\ r.sequence = seqs[r.source] + 1
       /\ r.generation = gen /\ r.by = by
       /\ r.since = Version(r.source)
  /\ \A s \in S : \E r \in new : r.source = s
  /\ \A r, t \in new : r.source = t.source => r = t

\* Each of the sources has one more read.
CountsEach(counted, S, seqs) ==
  /\ counted \in [Sources -> Nat]
  /\ \A s \in S : counted[s] = seqs[s] + 1
  /\ \A s \in Sources \ S : counted[s] = seqs[s]

\* What Reading and Counted make of the sources that are read.
LEMMA ReadsThatBegin ==
  ASSUME TypeOK, NEW S \in SUBSET Sources, NEW seqs \in [Sources -> Nat],
         NEW gen \in Nat, NEW by \in Requests \cup {"timer"},
         \A s \in Sources : Version(s) \in Nat
  PROVE  /\ OneOfEach(Reading(S, seqs, gen, by), S, seqs, gen, by)
         /\ CountsEach(Counted(S, seqs), S, seqs)
<1> DEFINE new == Reading(S, seqs, gen, by)
           call(s) == [source |-> s, sequence |-> seqs[s] + 1,
                       generation |-> gen, by |-> by, attempt |-> 1,
                       since |-> Version(s)]
<1>1. ASSUME NEW s \in S PROVE call(s) \in ReadCalls
  BY DEF ReadCalls, MaxAttempts
<1>2. new = {call(s) : s \in S}
  BY DEF Reading
<1>3. \A s \in S : /\ call(s).source = s /\ call(s).sequence = seqs[s] + 1
                   /\ call(s).generation = gen /\ call(s).by = by
                   /\ call(s).since = Version(s)
  OBVIOUS
<1>4. CountsEach(Counted(S, seqs), S, seqs)
  BY DEF Counted, CountsEach
<1> HIDE DEF new, call
<1>5. OneOfEach(new, S, seqs, gen, by)
  BY <1>1, <1>2, <1>3 DEF OneOfEach
<1> QED BY <1>4, <1>5 DEF new

\* A file has a first version at least.
LEMMA Versions ==
  ASSUME TypeOK
  PROVE  \A s \in Sources : Version(s) \in Nat /\ Version(s) >= 1
BY DEF TypeOK, Version

\* Reads of configured sources begin: the earlier ones are outdated.
LEMMA ReadsBegin ==
  ASSUME ObserverInv, NEW S \in SUBSET Sources, S \subseteq Configured,
         NEW by \in Requests \cup {"timer"},
         reads' = reads \cup Reading(S, readSequences, generation, by),
         readSequences' = Counted(S, readSequences),
         by # "timer" => request'[by].stage = "refreshing",
         request' \in [Requests -> Places],
         \A q \in Requests : request[q].stage = "refreshing" =>
                               request'[q].stage = "refreshing",
         timers' \subseteq timers, timers \ S \subseteq timers',
         UNCHANGED <<file, generation, revision, states, watched, events,
                     aggregate, disposed>>
  PROVE  ObserverInv'
<1>1. /\ TypeOK /\ ReadsAreCounted /\ ReadsAreInOrder /\ NothingMissed
      /\ SnapshotFollows /\ NoUpdateLeaks
  BY DEF ObserverInv
<1> DEFINE new == Reading(S, readSequences, generation, by)
<1>2. /\ new \subseteq ReadCalls
      /\ \A r \in new :
           /\ r.source \in S /\ r.sequence = readSequences[r.source] + 1
           /\ r.generation = generation /\ r.by = by
           /\ r.since = Version(r.source)
      /\ \A s \in S : \E r \in new : r.source = s
      /\ \A r, t \in new : r.source = t.source => r = t
      /\ readSequences' \in [Sources -> Nat]
      /\ \A s \in S : readSequences'[s] = readSequences[s] + 1
      /\ \A s \in Sources \ S : readSequences'[s] = readSequences[s]
      /\ \A s \in Sources : Version(s) \in Nat
  <2>1. readSequences \in [Sources -> Nat] /\ generation \in Nat
    BY <1>1 DEF TypeOK
  <2> HIDE DEF new
  <2>2. \A s \in Sources : Version(s) \in Nat
    BY <1>1, Versions
  <2>3. /\ OneOfEach(Reading(S, readSequences, generation, by),
                     S, readSequences, generation, by)
        /\ CountsEach(Counted(S, readSequences), S, readSequences)
    BY <1>1, <2>1, <2>2, ReadsThatBegin
  <2> QED BY <2>2, <2>3 DEF new, OneOfEach, CountsEach
<1>3. /\ reads' = reads \cup new
      /\ UNCHANGED <<file, generation, revision, states, watched, events,
                     aggregate, disposed>>
  OBVIOUS
<1> HIDE DEF new
<1>4. \A s \in Sources : Version(s)' = Version(s) /\ readSequences[s] \in Nat
  BY <1>1, <1>3 DEF Version, TypeOK
<1>5. Configured' = Configured /\ Configured \subseteq Sources
  BY <1>3 DEF Configured
<1>6. \A r \in reads :
        /\ r.source \in Sources /\ r.sequence \in Nat /\ r.since \in Nat
        /\ Fresh(r)' => Fresh(r) /\ r.source \notin S
        /\ Fresh(r) /\ r.source \notin S => Fresh(r)'
  BY <1>1, <1>2, <1>3, <1>4 DEF TypeOK, ReadCalls, ReadsAreCounted, Fresh
<1>7. TypeOK'
  BY <1>1, <1>2, <1>3, <1>5 DEF TypeOK
<1>8. Configured # {} => ~disposed
  BY <1>1 DEF SnapshotFollows
<1>9. \A r \in new : Fresh(r)' /\ Version(r.source) >= 1
                     /\ r.since = Version(r.source)
  BY <1>1, <1>2, <1>3, <1>8, Versions DEF Fresh
<1>10. ReadsAreCounted'
  <2> SUFFICES ASSUME NEW r \in reads'
               PROVE  /\ r.since \in 1 .. Version(r.source)'
                      /\ r.generation <= generation'
                      /\ r.generation = generation' =>
                           /\ r.source \in Configured'
                           /\ r.sequence <= readSequences'[r.source]
                      /\ r.by # "timer" => request'[r.by].stage = "refreshing"
    BY DEF ReadsAreCounted
  <2>1. generation \in Nat
    BY <1>1 DEF TypeOK
  <2>2. CASE r \in reads
    <3>1. /\ r.since \in 1 .. Version(r.source)
          /\ r.generation <= generation
          /\ r.generation = generation =>
               r.source \in Configured /\ r.sequence <= readSequences[r.source]
          /\ r.by # "timer" => request[r.by].stage = "refreshing"
          /\ r.source \in Sources /\ r.sequence \in Nat
      BY <1>1, <1>6, <2>2 DEF ReadsAreCounted
    <3>2. r.by # "timer" => r.by \in Requests
      BY <1>1, <2>2 DEF TypeOK, ReadCalls
    <3> QED BY <1>2, <1>3, <1>4, <1>5, <3>1, <3>2
  <2>3. CASE r \in new
    <3>1. r.source \in Sources /\ r.by \in Requests \cup {"timer"}
      BY <1>2, <2>3
    <3> QED BY <1>2, <1>3, <1>4, <1>5, <1>9, <2>1, <2>3, <3>1
  <2> QED BY <1>3, <2>2, <2>3
<1>11. ReadsAreInOrder'
  <2>1. ASSUME NEW r \in reads', NEW t \in reads',
               r.generation = generation, t.generation = generation,
               r.source = t.source, r.sequence = t.sequence
        PROVE  r = t
    <3>1. ASSUME NEW x \in reads, NEW y \in new, x.generation = generation
          PROVE  ~(x.source = y.source /\ x.sequence = y.sequence)
      BY <1>1, <1>2, <1>4, <1>6, <3>1 DEF ReadsAreCounted
    <3> QED BY <1>1, <1>2, <1>3, <2>1, <3>1 DEF ReadsAreInOrder
  <2>2. ASSUME NEW r \in reads', Fresh(r)'
        PROVE  states'[r.source].version <= r.since
    <3>1. CASE r \in reads
      BY <1>1, <1>3, <1>6, <2>2, <3>1 DEF ReadsAreInOrder
    <3>2. CASE r \in new
      BY <1>1, <1>2, <1>3, <1>9, <3>2 DEF ReadsAreInOrder
    <3> QED BY <1>3, <2>2, <3>1, <3>2
  <2>3. \A s \in Sources : states'[s].version <= Version(s)'
    BY <1>1, <1>3, <1>4 DEF ReadsAreInOrder
  <2> QED BY <1>3, <2>1, <2>2, <2>3 DEF ReadsAreInOrder
<1>12. NothingMissed'
  <2>0. watched \subseteq Sources
    BY <1>1 DEF TypeOK, Configured
  <2>1. ASSUME NEW s \in watched
        PROVE  \/ s \in events' \cup timers'
               \/ UpToDate(s)'
               \/ \E r \in reads' : Fresh(r)' /\ r.source = s
    <3>1. CASE s \in S
      BY <1>2, <1>3, <1>9, <3>1
    <3>2. CASE s \notin S
      <4>1. UpToDate(s)' = UpToDate(s)
        BY <1>3, <1>4, <2>0 DEF UpToDate
      <4> QED BY <1>1, <1>3, <1>6, <3>2, <4>1 DEF NothingMissed
    <3> QED BY <3>1, <3>2
  <2>2. ASSUME NEW r \in reads', Fresh(r)', r.source \in watched,
               r.since < Version(r.source)
        PROVE  r.source \in events' \cup timers'
    <3>1. CASE r \in reads
      BY <1>1, <1>3, <1>6, <2>2, <3>1 DEF NothingMissed
    <3>2. CASE r \in new
      <4>1. Version(r.source) \in Nat
        BY <1>2, <3>2
      <4> QED BY <1>9, <2>2, <3>2, <4>1
    <3> QED BY <1>3, <2>2, <3>1, <3>2
  <2> QED BY <1>3, <1>4, <2>0, <2>1, <2>2 DEF NothingMissed
<1>13. SnapshotFollows' /\ NoUpdateLeaks'
  BY <1>1, <1>3, <1>5 DEF SnapshotFollows, NoUpdateLeaks, SameEvidence
<1> QED BY <1>7, <1>10, <1>11, <1>12, <1>13 DEF ObserverInv

\* A timer reads its source, a refresh all that are configured.
LEMMA ReadingStep ==
  ASSUME ObserverInv,
         \/ \E s \in Sources : Timer(s)
         \/ \E q \in Requests, op \in {"observe", "config"} :
              RefreshConfig(q, op)
  PROVE  ObserverInv'
<1>1. TypeOK
  BY DEF ObserverInv
<1>2. ASSUME NEW s \in Sources, Timer(s) PROVE ObserverInv'
  <2>1. {s} \in SUBSET Sources /\ {s} \subseteq Configured
    BY <1>1, <1>2 DEF Timer, TypeOK
  <2>2. /\ timers' \subseteq timers /\ timers \ {s} \subseteq timers'
        /\ reads' = reads \cup Reading({s}, readSequences, generation, "timer")
        /\ readSequences' = Counted({s}, readSequences)
        /\ UNCHANGED <<request, file, generation, revision, states, watched,
                       events, aggregate, disposed>>
    BY <1>2 DEF Timer, hub
  <2>3. "timer" \in Requests \cup {"timer"} /\ request' \in [Requests -> Places]
    BY <1>1, <2>2 DEF TypeOK
  <2> QED BY <2>1, <2>2, <2>3, ReadsBegin
<1>3. ASSUME NEW q \in Requests, NEW op \in {"observe", "config"},
             RefreshConfig(q, op)
      PROVE  ObserverInv'
  <2>1. Configured \in SUBSET Sources
    BY DEF Configured
  <2>2. /\ reads' = reads \cup Reading(Configured, readSequences, generation, q)
        /\ readSequences' = Counted(Configured, readSequences)
        /\ UNCHANGED <<file, generation, revision, states, timers, watched,
                       events, aggregate, disposed>>
        /\ request[q].stage = "idle"
        /\ request' = [request EXCEPT ![q] = Refreshing(op)]
    BY <1>3 DEF RefreshConfig, Begin
  <2>3. /\ request' \in [Requests -> Places]
        /\ request'[q].stage = "refreshing"
        /\ \A p \in Requests : request[p].stage = "refreshing" =>
                                 request'[p].stage = "refreshing"
    BY <1>1, <2>2 DEF TypeOK, Refreshing, Places
  <2> QED BY <2>1, <2>2, <2>3, ReadsBegin
<1> QED BY <1>2, <1>3

\* A configuration is taken: reads of the earlier ones are outdated, whatever
\* their numbers, and every watched source is being read.
LEMMA TakeConfigStep ==
  ASSUME ObserverInv, NEW q \in Requests, NEW op \in {"observe", "config"},
         NEW n \in 1 .. MaxConfigs, NEW S \in SUBSET Sources,
         NEW W \in SUBSET S, TakeConfig(q, op, n, S, W)
  PROVE  ObserverInv'
<1>1. /\ TypeOK /\ ReadsAreCounted /\ ReadsAreInOrder /\ NothingMissed
      /\ SnapshotFollows /\ NoUpdateLeaks
  BY DEF ObserverInv
<1> DEFINE unwatched == [s \in Sources |-> IF s \in S \ W THEN 1 ELSE 0]
           new == Reading(S, unwatched, generation + 1, q)
           counted == Counted(S, unwatched)
<1>2. /\ ~disposed /\ generation' = generation + 1 /\ revision' = n
      /\ timers' = {} /\ events' = {} /\ watched' = W
      /\ states' = [s \in Sources |->
           IF s \in W THEN Pending
           ELSE IF s \in S THEN [Pending EXCEPT !.status = "watch_error"]
           ELSE Absent]
      /\ readSequences' = counted /\ reads' = reads \cup new
      /\ aggregate' = [revision |-> n, shown |-> states']
      /\ UNCHANGED <<file, disposed>>
  BY DEF TakeConfig
<1>3. /\ request[q].stage = "idle"
      /\ request' = [request EXCEPT ![q] =
           IF S = {} THEN Synced(op, aggregate') ELSE Refreshing(op)]
  BY DEF TakeConfig, Begin
<1>4. generation \in Nat /\ n \in Nat \ {0}
  BY <1>1, ObserverAssumption DEF TypeOK
<1>5. \A s \in Sources : Version(s) \in Nat /\ Version(s) >= 1
                         /\ Version(s)' = Version(s)
  BY <1>1, <1>2, Versions DEF Version
<1>6. OneOfEach(new, S, unwatched, generation + 1, q)
        /\ CountsEach(counted, S, unwatched)
  <2>1. unwatched \in [Sources -> Nat] /\ generation + 1 \in Nat
    BY <1>4
  <2> HIDE DEF unwatched
  <2> QED BY <1>1, <1>5, <2>1, ReadsThatBegin
<1>7. unwatched \in [Sources -> Nat]
  OBVIOUS
<1> HIDE DEF new, counted, unwatched
<1>8. /\ states' \in [Sources -> Evidence]
      /\ \A s \in Sources : /\ states'[s].version = 0
                            /\ states'[s].status # "absent" <=> s \in S
                            /\ s \in S => states'[s].generation = generation + 1
  BY <1>2, <1>4 DEF Pending, Absent, Evidence, Statuses
<1>9. Configured' = S
  BY <1>8 DEF Configured
<1>10. /\ aggregate' \in Snapshots
       /\ aggregate'.revision = n /\ aggregate'.shown = states'
  BY <1>2, <1>4, <1>8 DEF Snapshots
<1>11. /\ request' \in [Requests -> Places]
       /\ \A p \in Requests \ {q} : request'[p] = request[p]
       /\ S # {} => request'[q].stage = "refreshing"
  BY <1>1, <1>3, <1>10 DEF TypeOK, Synced, Refreshing, Places
<1>12. /\ readSequences' \in [Sources -> Nat]
       /\ new \subseteq ReadCalls
       /\ \A r \in new :
            /\ r.source \in S /\ r.generation = generation + 1 /\ r.by = q
            /\ r.sequence = readSequences'[r.source]
            /\ r.since = Version(r.source)
       /\ \A s \in S : \E r \in new : r.source = s
       /\ \A r, t \in new : r.source = t.source => r = t
  BY <1>2, <1>6, <1>7 DEF OneOfEach, CountsEach
<1>13. \A r \in reads : /\ r.generation < generation'
                        /\ r.source \in Sources
                        /\ ~Fresh(r)'
  BY <1>1, <1>2, <1>4 DEF ReadsAreCounted, TypeOK, ReadCalls, Fresh
<1>14. \A r \in new : Fresh(r)'
  BY <1>2, <1>12 DEF Fresh
<1>15. TypeOK'
  <2>1. reads' \subseteq ReadCalls
    BY <1>1, <1>2, <1>12 DEF TypeOK
  <2>2. /\ generation' \in Nat /\ revision' \in Nat
        /\ watched' \subseteq Configured'
        /\ timers' \subseteq watched' /\ events' \subseteq watched'
    BY <1>2, <1>4, <1>9
  <2> QED BY <1>1, <1>2, <1>8, <1>10, <1>11, <1>12, <2>1, <2>2 DEF TypeOK
<1>16. ReadsAreCounted'
  <2> SUFFICES ASSUME NEW r \in reads'
               PROVE  /\ r.since \in 1 .. Version(r.source)'
                      /\ r.generation <= generation'
                      /\ r.generation = generation' =>
                           /\ r.source \in Configured'
                           /\ r.sequence <= readSequences'[r.source]
                      /\ r.by # "timer" => request'[r.by].stage = "refreshing"
    BY DEF ReadsAreCounted
  <2>1. CASE r \in reads
    <3>1. /\ r.since \in 1 .. Version(r.source)
          /\ r.by # "timer" => request[r.by].stage = "refreshing"
                                /\ r.by \in Requests
      BY <1>1, <2>1 DEF ReadsAreCounted, TypeOK, ReadCalls
    <3>2. r.by # "timer" => request'[r.by].stage = "refreshing"
      BY <1>3, <1>11, <3>1
    <3>3. r.generation \in Nat
      BY <1>1, <2>1 DEF TypeOK, ReadCalls
    <3> QED BY <1>2, <1>4, <1>5, <1>13, <2>1, <3>1, <3>2, <3>3
  <2>2. CASE r \in new
    <3>1. r.source \in Sources /\ S # {}
      BY <1>12, <2>2
    <3>2. readSequences'[r.source] \in Nat
      BY <1>12, <3>1
    <3> QED BY <1>2, <1>4, <1>5, <1>9, <1>11, <1>12, <2>2, <3>1, <3>2
  <2> QED BY <1>2, <2>1, <2>2
<1>17. ReadsAreInOrder'
  <2>1. ASSUME NEW r \in reads', NEW t \in reads',
               r.generation = generation', t.generation = generation',
               r.source = t.source
        PROVE  r = t
    <3>1. \A x \in reads : x.generation # generation'
      BY <1>1, <1>2, <1>4, <1>13 DEF TypeOK, ReadCalls
    <3> QED BY <1>2, <1>12, <2>1, <3>1
  <2>2. ASSUME NEW r \in reads', Fresh(r)'
        PROVE  states'[r.source].version <= r.since
    BY <1>2, <1>5, <1>8, <1>12, <1>13, <2>2
  <2> QED BY <1>5, <1>8, <2>1, <2>2 DEF ReadsAreInOrder
<1>18. NothingMissed'
  <2>1. \A s \in watched' : \E r \in reads' : Fresh(r)' /\ r.source = s
    BY <1>2, <1>12, <1>14
  <2>2. ASSUME NEW r \in reads', Fresh(r)', r.since < Version(r.source)'
        PROVE FALSE
    <3>1. r \in new
      BY <1>2, <1>13, <2>2
    <3> QED BY <1>5, <1>12, <2>2, <3>1
  <2> QED BY <2>1, <2>2 DEF NothingMissed
<1>19. SnapshotFollows'
  BY <1>2, <1>4, <1>10 DEF SnapshotFollows, NoConfig, SameEvidence
<1>20. NoUpdateLeaks'
  BY <1>2, <1>8, <1>9 DEF NoUpdateLeaks
<1> QED BY <1>15, <1>16, <1>17, <1>18, <1>19, <1>20 DEF ObserverInv

\* So are they when the configuration cannot be used.
LEMMA TakeNoConfigStep ==
  ASSUME ObserverInv, NEW q \in Requests, NEW op \in {"observe", "config"},
         TakeNoConfig(q, op)
  PROVE  ObserverInv'
<1>1. /\ TypeOK /\ ReadsAreCounted /\ ReadsAreInOrder /\ NothingMissed
      /\ SnapshotFollows /\ NoUpdateLeaks
  BY DEF ObserverInv
<1>2. /\ ~disposed /\ generation' = generation + 1 /\ revision' = NoConfig
      /\ timers' = {} /\ events' = {} /\ watched' = {}
      /\ states' = [s \in Sources |-> Absent]
      /\ readSequences' = [s \in Sources |-> 0]
      /\ aggregate' = [revision |-> NoConfig, shown |-> states']
      /\ UNCHANGED <<file, reads, disposed>>
      /\ request[q].stage = "idle"
      /\ request' = [request EXCEPT ![q] = Synced(op, aggregate')]
  BY DEF TakeNoConfig, Begin
<1>3. /\ states' \in [Sources -> Evidence]
      /\ \A x \in Sources : states'[x].status = "absent"
      /\ \A x \in Sources : states'[x].version = 0
      /\ Configured' = {}
  BY <1>2 DEF Absent, Evidence, Statuses, Configured
<1>4. \A r \in reads : /\ ~Fresh(r)'
                       /\ r.generation < generation'
  BY <1>1, <1>2 DEF Fresh, ReadsAreCounted, TypeOK, ReadCalls
<1>5. /\ aggregate' \in Snapshots
      /\ aggregate'.revision = NoConfig /\ aggregate'.shown = states'
  BY <1>2, <1>3 DEF Snapshots, NoConfig
<1>6. /\ request' \in [Requests -> Places]
      /\ \A p \in Requests \ {q} : request'[p] = request[p]
  BY <1>1, <1>2, <1>5 DEF TypeOK, Synced, Places
<1>7. TypeOK'
  BY <1>1, <1>2, <1>3, <1>5, <1>6 DEF TypeOK, NoConfig
<1>8. ReadsAreCounted'
  <2>1. \A r \in reads : r.by # "timer" => request'[r.by].stage = "refreshing"
    <3> SUFFICES ASSUME NEW r \in reads, r.by # "timer"
                 PROVE  request'[r.by].stage = "refreshing"
      OBVIOUS
    <3>1. r.by \in Requests /\ request[r.by].stage = "refreshing"
      BY <1>1 DEF ReadsAreCounted, TypeOK, ReadCalls
    <3> QED BY <1>2, <1>6, <3>1
  <2> QED BY <1>1, <1>2, <1>4, <2>1
    DEF ReadsAreCounted, Version, TypeOK, ReadCalls
<1>9. ReadsAreInOrder'
  <2>1. \A x \in Sources : Len(file[x]) \in Nat
    BY <1>1 DEF TypeOK
  <2> QED BY <1>1, <1>2, <1>3, <1>4, <2>1
    DEF ReadsAreInOrder, Version, TypeOK, ReadCalls
<1>10. NothingMissed'
  BY <1>2, <1>4 DEF NothingMissed
<1>11. SnapshotFollows' /\ NoUpdateLeaks'
  BY <1>2, <1>3, <1>5 DEF SnapshotFollows, NoUpdateLeaks, SameEvidence
<1> QED BY <1>7, <1>8, <1>9, <1>10, <1>11 DEF ObserverInv

\* A refresh whose reads have ended leaves the snapshot as it is observed.
LEMMA RefreshEndsStep ==
  ASSUME ObserverInv, NEW q \in Requests, RefreshEnds(q)
  PROVE  ObserverInv'
<1>1. /\ TypeOK /\ ReadsAreCounted /\ ReadsAreInOrder /\ NothingMissed
      /\ SnapshotFollows /\ NoUpdateLeaks
  BY DEF ObserverInv
<1>2. /\ request[q].stage = "refreshing" /\ \A r \in reads : r.by # q
      /\ request' = [request EXCEPT ![q] = Synced(request[q].op, aggregate')]
      /\ IF revision = NoConfig THEN aggregate' = aggregate
         ELSE aggregate' = [revision |-> revision, shown |-> states]
      /\ UNCHANGED <<file, generation, revision, states, readSequences, timers,
                     watched, events, reads, disposed>>
  BY DEF RefreshEnds, RebuildAndPublish, Rebuild
<1>3. /\ aggregate' \in Snapshots /\ aggregate'.revision = revision
      /\ \A s \in Sources : SameEvidence(aggregate'.shown[s], states[s])
      /\ revision = NoConfig => aggregate' = aggregate
  <2>1. /\ states \in [Sources -> Evidence] /\ aggregate \in Snapshots
        /\ revision \in Nat /\ aggregate.revision = revision
        /\ revision = NoConfig => \A s \in Sources :
             states[s].status = "absent" /\ aggregate.shown[s].status = "absent"
    BY <1>1 DEF TypeOK, SnapshotFollows, Configured
  <2> QED BY <1>2, <2>1, Rebuilt
<1>4. /\ request' \in [Requests -> Places]
      /\ \A p \in Requests \ {q} : request'[p] = request[p]
  BY <1>1, <1>2, <1>3 DEF TypeOK, Synced, Places
<1>5. TypeOK'
  BY <1>1, <1>2, <1>3, <1>4 DEF TypeOK, Configured
<1>6. ReadsAreCounted'
  <2>1. \A r \in reads : r.by # "timer" => request'[r.by].stage = "refreshing"
    <3> SUFFICES ASSUME NEW r \in reads, r.by # "timer"
                 PROVE  request'[r.by].stage = "refreshing"
      OBVIOUS
    <3>1. r.by \in Requests /\ request[r.by].stage = "refreshing"
      BY <1>1 DEF ReadsAreCounted, TypeOK, ReadCalls
    <3> QED BY <1>2, <1>4, <3>1
  <2> QED BY <1>1, <1>2, <2>1 DEF ReadsAreCounted, Version, Configured
<1>7. ReadsAreInOrder' /\ NothingMissed' /\ NoUpdateLeaks'
  BY <1>1, <1>2 DEF ReadsAreInOrder, NothingMissed, Fresh, UpToDate,
                    NoUpdateLeaks, Version, Configured
<1>8. SnapshotFollows'
  BY <1>1, <1>2, <1>3 DEF SnapshotFollows, Configured, SameEvidence
<1> QED BY <1>5, <1>6, <1>7, <1>8 DEF ObserverInv

\* A read that found the file changing is tried again, if still wanted.
LEMMA RetryStep ==
  ASSUME ObserverInv, NEW r \in reads, Retry(r)
  PROVE  ObserverInv'
<1>1. /\ TypeOK /\ ReadsAreCounted /\ ReadsAreInOrder /\ NothingMissed
      /\ SnapshotFollows /\ NoUpdateLeaks
  BY DEF ObserverInv
<1> DEFINE again == [r EXCEPT !.attempt = @ + 1, !.since = Version(r.source)]
<1>2. /\ r.attempt < MaxAttempts
      /\ reads' = (reads \ {r}) \cup IF Fresh(r) THEN {again} ELSE {}
      /\ UNCHANGED <<file, generation, revision, states, readSequences, timers,
                     watched, events, aggregate, disposed, request>>
  BY DEF Retry, hub
<1>3. /\ r \in ReadCalls
      /\ \A s \in Sources : /\ Version(s) \in Nat /\ Version(s) >= 1
                            /\ Version(s)' = Version(s)
  BY <1>1, <1>2, Versions DEF TypeOK, Version
<1>4. /\ again \in ReadCalls /\ again.source = r.source
      /\ again.sequence = r.sequence /\ again.generation = r.generation
      /\ again.by = r.by /\ again.since = Version(r.source)
  <2>1. r.source \in Sources /\ r.attempt \in 1 .. MaxAttempts
    BY <1>3 DEF ReadCalls
  <2>2. Version(r.source) \in Nat /\ r.attempt + 1 \in 1 .. MaxAttempts
    BY <1>2, <1>3, <2>1 DEF MaxAttempts
  <2> QED BY <1>3, <2>2 DEF ReadCalls
<1> HIDE DEF again
<1>5. \A x : Fresh(x)' = Fresh(x)
  BY <1>2 DEF Fresh
<1>6. \A x \in reads' : \/ x \in reads /\ x # r
                        \/ x = again /\ Fresh(r)
  BY <1>2
<1>7. Configured' = Configured /\ r.source \in Sources
  BY <1>2, <1>3 DEF Configured, ReadCalls
<1>8. TypeOK'
  BY <1>1, <1>2, <1>4, <1>7 DEF TypeOK
<1>9. ReadsAreCounted'
  <2> SUFFICES ASSUME NEW x \in reads'
               PROVE  /\ x.since \in 1 .. Version(x.source)'
                      /\ x.generation <= generation'
                      /\ x.generation = generation' =>
                           /\ x.source \in Configured'
                           /\ x.sequence <= readSequences'[x.source]
                      /\ x.by # "timer" => request'[x.by].stage = "refreshing"
    BY DEF ReadsAreCounted
  <2>1. CASE x \in reads
    <3>1. x.source \in Sources
      BY <1>1, <2>1 DEF TypeOK, ReadCalls
    <3> QED BY <1>1, <1>2, <1>3, <1>7, <2>1, <3>1 DEF ReadsAreCounted
  <2>2. CASE x = again
    BY <1>1, <1>2, <1>3, <1>4, <1>7, <2>2 DEF ReadsAreCounted
  <2> QED BY <1>6, <2>1, <2>2
<1>10. ReadsAreInOrder'
  <2>1. ASSUME NEW x \in reads', NEW y \in reads',
               x.generation = generation, y.generation = generation,
               x.source = y.source, x.sequence = y.sequence
        PROVE  x = y
    <3>1. ASSUME NEW z \in reads, z # r, z.generation = generation,
                 r.generation = generation
          PROVE  ~(z.source = r.source /\ z.sequence = r.sequence)
      BY <1>1, <3>1 DEF ReadsAreInOrder
    <3> QED BY <1>1, <1>4, <1>6, <2>1, <3>1 DEF ReadsAreInOrder
  <2>2. ASSUME NEW x \in reads', Fresh(x)
        PROVE  states[x.source].version <= x.since
    BY <1>1, <1>4, <1>6, <1>7, <2>2 DEF ReadsAreInOrder
  <2>3. \A s \in Sources : states[s].version <= Version(s)
    BY <1>1 DEF ReadsAreInOrder
  <2> QED BY <1>2, <1>3, <1>5, <2>1, <2>2, <2>3 DEF ReadsAreInOrder
<1>11. NothingMissed'
  <2>1. Fresh(r) => Fresh(again)
    BY <1>4 DEF Fresh
  <2>2. ASSUME NEW s \in watched
        PROVE  \/ s \in events \cup timers
               \/ UpToDate(s)
               \/ \E x \in reads' : Fresh(x) /\ x.source = s
    <3>1. CASE \E x \in reads : Fresh(x) /\ x.source = s
      BY <1>2, <1>4, <2>1, <3>1
    <3> QED BY <1>1, <3>1 DEF NothingMissed
  <2>3. ASSUME NEW x \in reads', Fresh(x), x.source \in watched,
               x.since < Version(x.source)
        PROVE  x.source \in events \cup timers
    <3>1. CASE x \in reads
      BY <1>1, <2>3, <3>1 DEF NothingMissed
    <3>2. CASE x = again
      BY <1>3, <1>4, <1>7, <2>3, <3>2
    <3> QED BY <1>6, <3>1, <3>2
  <2>4. watched \subseteq Sources
    BY <1>1 DEF TypeOK, Configured
  <2> QED BY <1>2, <1>3, <1>5, <2>2, <2>3, <2>4 DEF NothingMissed, UpToDate
<1>12. SnapshotFollows' /\ NoUpdateLeaks'
  BY <1>1, <1>2, <1>7 DEF SnapshotFollows, NoUpdateLeaks, SameEvidence
<1> QED BY <1>8, <1>9, <1>10, <1>11, <1>12 DEF ObserverInv

\* What a read may return of its file: a version since it began, or that the
\* file changed meanwhile.
LEMMA ReadResults ==
  ASSUME TypeOK, ReadsAreCounted, NEW r \in reads, NEW e \in Results(r)
  PROVE  /\ e \in Evidence
         /\ e.generation = r.generation /\ e.status \in Statuses \ {"absent"}
         /\ e.version \in r.since .. Version(r.source)
         /\ \/ e.status = file[r.source][e.version]
            \/ r.since < Version(r.source)
<1>1. /\ r.source \in Sources /\ r.generation \in Nat
      /\ r.since \in 1 .. Version(r.source)
      /\ Version(r.source) \in Nat
  BY Versions DEF TypeOK, ReadCalls, ReadsAreCounted
<1>2. \A v \in r.since .. Version(r.source) : file[r.source][v] \in Kinds
  BY <1>1 DEF TypeOK, Version
<1>3. CASE \E v \in r.since .. Version(r.source) :
             e = [status |-> file[r.source][v], version |-> v,
                  generation |-> r.generation]
  BY <1>1, <1>2, <1>3 DEF Evidence, Statuses, Kinds
<1>4. CASE /\ r.since < Version(r.source)
           /\ e = [status |-> "changing", version |-> Version(r.source),
                   generation |-> r.generation]
  BY <1>1, <1>4 DEF Evidence, Statuses
<1> QED BY <1>3, <1>4 DEF Results


\* A read ends: only the last one of its source is taken, and the snapshot
\* shows what it changed.
LEMMA ReadEndsStep ==
  ASSUME ObserverInv, NEW r \in reads, ReadEnds(r)
  PROVE  /\ ObserverInv'
         /\ \A s \in Sources : states'[s].version >= states[s].version
<1>1. /\ TypeOK /\ ReadsAreCounted /\ ReadsAreInOrder /\ NothingMissed
      /\ SnapshotFollows /\ NoUpdateLeaks
  BY DEF ObserverInv
<1>2. PICK e \in Results(r) :
        /\ states' = Taken(r, e)
        /\ LET changed == Fresh(r) /\ ~SameEvidence(states[r.source], e)
           IN IF r.by = "timer"
                THEN /\ IF changed THEN RebuildAndPublish(states', TRUE)
                                   ELSE UNCHANGED <<aggregate, broadcasts>>
                     /\ UNCHANGED request
                ELSE /\ request' = [request EXCEPT
                           ![r.by].changed = @ \/ changed]
                     /\ UNCHANGED <<aggregate, broadcasts>>
  BY DEF ReadEnds
<1>3. /\ reads' = reads \ {r}
      /\ UNCHANGED <<file, generation, revision, readSequences, timers, watched,
                     events, disposed>>
  BY DEF ReadEnds
<1> DEFINE changed == Fresh(r) /\ ~SameEvidence(states[r.source], e)
<1>4. /\ r.by = "timer" /\ changed => RebuildAndPublish(states', TRUE)
      /\ ~(r.by = "timer" /\ changed) => aggregate' = aggregate
      /\ r.by = "timer" => request' = request
      /\ r.by # "timer" =>
           request' = [request EXCEPT ![r.by].changed = @ \/ changed]
  BY <1>2
<1> HIDE DEF changed
<1>5. /\ e \in Evidence
      /\ e.generation = r.generation /\ e.status \in Statuses \ {"absent"}
      /\ e.version \in r.since .. Version(r.source)
      /\ \/ e.status = file[r.source][e.version]
         \/ r.since < Version(r.source)
  BY <1>1, ReadResults
<1>6. /\ r \in ReadCalls /\ r.source \in Sources /\ r.since \in Nat
      /\ r.since \in 1 .. Version(r.source)
      /\ \A s \in Sources : /\ Version(s) \in Nat
                            /\ Version(s)' = Version(s)
  BY <1>1, <1>3, Versions DEF TypeOK, Version, ReadCalls, ReadsAreCounted
<1>7. /\ states \in [Sources -> Evidence]
      /\ \A s \in Sources : states[s].version \in Nat
  BY <1>1 DEF TypeOK, Evidence
<1>8. /\ r.by # "timer" => r.by \in Requests
                             /\ request[r.by].stage = "refreshing"
      /\ request' \in [Requests -> Places]
      /\ \A q \in Requests : request'[q].stage = request[q].stage
  <2>1. r.by # "timer" => r.by \in Requests
                            /\ request[r.by].stage = "refreshing"
    BY <1>1, <1>6 DEF ReadsAreCounted, ReadCalls
  <2>2. CASE r.by = "timer"
    BY <1>1, <1>4, <2>2 DEF TypeOK
  <2>3. CASE r.by # "timer"
    <3> DEFINE place == [request[r.by] EXCEPT !.changed = @ \/ changed]
    <3>1. request[r.by] \in [stage : {"refreshing"}, op : {"observe", "config"},
                             changed : BOOLEAN]
      BY <1>1, <2>1, <2>3 DEF TypeOK, Places
    <3>2. (request[r.by].changed \/ changed) \in BOOLEAN
      OBVIOUS
    <3>3. place \in [stage : {"refreshing"}, op : {"observe", "config"},
                     changed : BOOLEAN]
      BY <3>1, <3>2
    <3>4. place \in Places /\ place.stage = "refreshing"
      BY <3>3 DEF Places
    <3>5. request' = [request EXCEPT ![r.by] = place]
      BY <1>4, <2>3
    <3> HIDE DEF place
    <3> QED BY <1>1, <2>1, <2>3, <3>4, <3>5 DEF TypeOK
  <2> QED BY <2>1, <2>2, <2>3
<1>9. /\ states' \in [Sources -> Evidence]
      /\ \A s \in Sources : \/ states'[s] = states[s]
                            \/ s = r.source /\ Fresh(r) /\ states'[s] = e
      /\ ~Fresh(r) => states' = states
      /\ Fresh(r) => states'[r.source] = e
  BY <1>2, <1>5, <1>6, <1>7 DEF Taken
<1>10. Fresh(r) => /\ r.source \in Configured
                   /\ e.version >= states[r.source].version
                   /\ e.version <= Version(r.source) /\ e.version \in Nat
                   /\ r.generation = generation /\ ~disposed
  BY <1>1, <1>5, <1>6, <1>7 DEF Fresh, ReadsAreCounted, ReadsAreInOrder
<1>11. Configured' = Configured
  BY <1>5, <1>9, <1>10 DEF Configured
<1>12. revision = NoConfig => states' = states /\ aggregate' = aggregate
  <2>1. revision = NoConfig => ~Fresh(r)
    BY <1>1, <1>10 DEF SnapshotFollows
  <2> QED BY <1>4, <1>9, <2>1 DEF changed
<1>13. /\ aggregate' \in Snapshots /\ aggregate'.revision = revision
       /\ \/ aggregate' = aggregate /\ ~(r.by = "timer" /\ changed)
          \/ \A s \in Sources : SameEvidence(aggregate'.shown[s], states'[s])
  <2>1. /\ aggregate \in Snapshots /\ revision \in Nat
        /\ aggregate.revision = revision
    BY <1>1 DEF TypeOK, SnapshotFollows
  <2>2. CASE ~(r.by = "timer" /\ changed)
    BY <1>4, <2>1, <2>2
  <2>3. CASE r.by = "timer" /\ changed
    <3>1. revision # NoConfig
      BY <1>1, <1>10, <2>3 DEF changed, SnapshotFollows
    <3>2. aggregate' = [revision |-> revision, shown |-> states']
      BY <1>4, <2>3, <3>1 DEF RebuildAndPublish, Rebuild
    <3> QED BY <1>9, <2>1, <3>2 DEF Snapshots, SameEvidence
  <2> QED BY <2>2, <2>3
<1>14. TypeOK'
  BY <1>1, <1>3, <1>8, <1>9, <1>11, <1>13 DEF TypeOK
<1>15. ReadsAreCounted'
  <2>1. \A x \in reads' : x.source \in Sources
                            /\ (x.by # "timer" => x.by \in Requests)
    BY <1>1, <1>3 DEF TypeOK, ReadCalls
  <2> QED BY <1>1, <1>3, <1>6, <1>8, <1>11, <2>1 DEF ReadsAreCounted
<1>16. \A x : Fresh(x)' = Fresh(x)
  BY <1>3 DEF Fresh
<1>17. ASSUME NEW x \in reads', Fresh(x), Fresh(r) PROVE x.source # r.source
  BY <1>1, <1>3, <1>17 DEF ReadsAreInOrder, Fresh
<1>18. ReadsAreInOrder'
  <2>1. \A x \in reads' : Fresh(x) => states'[x.source].version <= x.since
    <3> SUFFICES ASSUME NEW x \in reads', Fresh(x)
                 PROVE  states'[x.source].version <= x.since
      OBVIOUS
    <3>1. x.source \in Sources
      BY <1>1, <1>3 DEF TypeOK, ReadCalls
    <3>2. states'[x.source] = states[x.source]
      BY <1>9, <1>17, <3>1
    <3> QED BY <1>1, <1>3, <3>2 DEF ReadsAreInOrder
  <2>2. \A s \in Sources : states'[s].version <= Version(s)'
    BY <1>1, <1>6, <1>9, <1>10 DEF ReadsAreInOrder
  <2> QED BY <1>1, <1>3, <1>16, <2>1, <2>2 DEF ReadsAreInOrder
<1>19. NothingMissed'
  <2>0. watched \subseteq Sources
    BY <1>1 DEF TypeOK, Configured
  <2>1. ASSUME NEW s \in watched
        PROVE  \/ s \in events \cup timers
               \/ UpToDate(s)'
               \/ \E x \in reads' : Fresh(x) /\ x.source = s
    <3>1. CASE s = r.source /\ Fresh(r)
      <4>1. CASE r.since < Version(r.source)
        BY <1>1, <2>1, <3>1, <4>1 DEF NothingMissed
      <4>2. CASE ~(r.since < Version(r.source))
        <5>1. e.version = Version(r.source)
          BY <1>5, <1>6, <4>2
        <5>2. e.status = file[r.source][Version(r.source)]
          BY <1>5, <4>2, <5>1
        <5> QED BY <1>3, <1>6, <1>9, <3>1, <5>1, <5>2 DEF UpToDate
      <4> QED BY <4>1, <4>2
    <3>2. CASE ~(s = r.source /\ Fresh(r))
      <4>1. UpToDate(s) => UpToDate(s)'
        BY <1>3, <1>6, <1>9, <2>0, <3>2 DEF UpToDate
      <4> QED BY <1>1, <1>3, <3>2, <4>1 DEF NothingMissed
    <3> QED BY <3>1, <3>2
  <2>2. \A x \in reads' :
          /\ Fresh(x) /\ x.source \in watched /\ x.since < Version(x.source)
          => x.source \in events \cup timers
    BY <1>1, <1>3 DEF NothingMissed
  <2> QED BY <1>3, <1>6, <1>16, <2>0, <2>1, <2>2 DEF NothingMissed
<1>20. SnapshotFollows'
  <2>1. CASE disposed \/ \E q \in Requests : request[q].stage = "refreshing"
    BY <1>1, <1>3, <1>8, <1>11, <1>12, <1>13, <2>1 DEF SnapshotFollows
  <2>2. CASE /\ ~disposed
             /\ ~\E q \in Requests : request[q].stage = "refreshing"
    <3>1. r.by = "timer"
      BY <1>8, <2>2
    <3>2. \A s \in Sources : SameEvidence(aggregate.shown[s], states[s])
      BY <1>1, <2>2 DEF SnapshotFollows
    <3>3. ASSUME aggregate' = aggregate, ~changed, NEW s \in Sources
          PROVE  SameEvidence(aggregate'.shown[s], states'[s])
      <4>1. CASE states'[s] = states[s]
        BY <3>2, <3>3, <4>1
      <4>2. CASE s = r.source /\ Fresh(r) /\ states'[s] = e
        <5>1. SameEvidence(states[s], e)
          BY <3>3, <4>2 DEF changed
        <5> QED BY <3>2, <3>3, <4>2, <5>1 DEF SameEvidence
      <4> QED BY <1>9, <4>1, <4>2
    <3>4. \A s \in Sources : SameEvidence(aggregate'.shown[s], states'[s])
      BY <1>13, <3>1, <3>3
    <3> QED BY <1>1, <1>3, <1>11, <1>12, <1>13, <3>4 DEF SnapshotFollows
  <2> QED BY <2>1, <2>2
<1>21. NoUpdateLeaks'
  BY <1>1, <1>3, <1>5, <1>9, <1>10, <1>11 DEF NoUpdateLeaks, Configured
<1>22. \A s \in Sources : states'[s].version >= states[s].version
  BY <1>7, <1>9, <1>10
<1> QED BY <1>14, <1>15, <1>18, <1>19, <1>20, <1>21, <1>22 DEF ObserverInv

\* Each step keeps the invariant, and within a generation no source is
\* observed as it was before.
LEMMA ObserverStep ==
  ASSUME ObserverInv, Next
  PROVE  /\ ObserverInv'
         /\ \A s \in Sources :
              generation' = generation => states'[s].version >= states[s].version
<1>1. TypeOK
  BY DEF ObserverInv
<1>2. \A s \in Sources : states[s].version \in Nat
  BY <1>1 DEF TypeOK, Evidence
<1>3. ASSUME states' = states
      PROVE  \A s \in Sources : states'[s].version >= states[s].version
  BY <1>2, <1>3
<1>4. CASE \/ \E b \in broadcasts : Broadcast(b)
           \/ \E q \in Requests, c \in Clients : Answer(q, c)
  <2>1. states' = states
    BY <1>4 DEF Broadcast, Answer, observer
  <2> QED BY <1>3, <1>4, <2>1, HubStep
<1>5. ASSUME NEW s \in Sources, Write(s) \/ WatchEvent(s)
      PROVE  ObserverInv' /\ states' = states
  BY <1>5, WriteStep, WatchEventStep DEF Write, WatchEvent
<1>6. ASSUME NEW s \in Sources, WatchError(s)
      PROVE  /\ ObserverInv'
             /\ \A x \in Sources : states'[x].version >= states[x].version
  <2>1. ObserverInv'
    BY <1>6, WatchErrorStep
  <2>2. \A x \in Sources : states'[x].version = states[x].version
    BY <1>1, <1>6 DEF WatchError, TypeOK, Evidence
  <2> QED BY <1>2, <2>1, <2>2
<1>7. CASE \/ \E s \in Sources : Timer(s)
           \/ \E q \in Requests, op \in {"observe", "config"} :
                RefreshConfig(q, op)
  <2>1. states' = states
    BY <1>7 DEF Timer, RefreshConfig
  <2> QED BY <1>3, <1>7, <2>1, ReadingStep
<1>8. CASE Dispose
  <2>1. generation' # generation
    BY <1>1, <1>8 DEF Dispose, TypeOK
  <2> QED BY <1>8, <2>1, DisposeStep
<1>9. ASSUME NEW q \in Requests, NEW op \in {"observe", "config"},
             TakeNoConfig(q, op)
      PROVE  ObserverInv' /\ generation' # generation
  BY SMTT(30), <1>1, <1>9, TakeNoConfigStep DEF TakeNoConfig, TypeOK
<1>10. ASSUME NEW q \in Requests, NEW op \in {"observe", "config"},
              NEW n \in 1 .. MaxConfigs, NEW S \in SUBSET Sources,
              NEW W \in SUBSET S, TakeConfig(q, op, n, S, W)
       PROVE  ObserverInv' /\ generation' # generation
  <2>1. ObserverInv'
    BY <1>10, TakeConfigStep
  <2>2. generation' # generation
    BY <1>1, <1>10 DEF TakeConfig, TypeOK
  <2> QED BY <2>1, <2>2
<1>11. ASSUME NEW q \in Requests, RefreshEnds(q)
       PROVE  ObserverInv' /\ states' = states
  <2>1. states' = states
    BY <1>11 DEF RefreshEnds
  <2> QED BY <1>11, <2>1, RefreshEndsStep
<1>12. ASSUME NEW r \in reads, Retry(r)
       PROVE  ObserverInv' /\ states' = states
  <2>1. states' = states
    BY <1>12 DEF Retry
  <2> QED BY <1>12, <2>1, RetryStep
<1>13. ASSUME NEW r \in reads, ReadEnds(r)
       PROVE  /\ ObserverInv'
              /\ \A s \in Sources : states'[s].version >= states[s].version
  BY <1>13, ReadEndsStep
<1>14. ASSUME NEW q \in Requests, Sync(q)
       PROVE  /\ ObserverInv'
              /\ \A s \in Sources : generation' = generation =>
                   states'[s].version >= states[s].version
  BY <1>7, <1>9, <1>10, <1>14 DEF Sync
<1> QED BY <1>3, <1>4, <1>5, <1>6, <1>7, <1>8, <1>11, <1>12, <1>13, <1>14
        DEF Next

\* Nor does a step of another service disturb it.
LEMMA ObserverUnchanged ==
  ASSUME ObserverInv, UNCHANGED vars
  PROVE  ObserverInv'
BY DEF vars, observer, hub, ObserverInv, TypeOK, Configured, ReadsAreCounted,
       ReadsAreInOrder, NothingMissed, SnapshotFollows, NoUpdateLeaks, Fresh,
       UpToDate, Version, SameEvidence

\* The observer keeps its invariant, whatever the other services do.
LEMMA ObserverInvariance == StartupSpec => []ObserverInv
<1>1. StartupInit => ObserverInv
  BY ObserverStarts DEF StartupInit
<1>2. ObserverInv /\ [StartupNext]_allVars => ObserverInv'
  BY ObserverStep, ObserverUnchanged
     DEF StartupNext, ObserverMoves, KeepMoves, SetupMoves, observerVars,
         allVars
<1> QED BY <1>1, <1>2, PTL DEF StartupSpec

\* When nothing is under way the browser sees the evidence as it is observed,
\* under the revision it belongs to, and every watched file as it is.
THEOREM ObserverConverges == StartupSpec => []ShownWhenQuiet
<1>1. ObserverInv => ShownWhenQuiet
  <2> SUFFICES ASSUME ObserverInv, Quiet, ~disposed
      PROVE  /\ aggregate.revision = revision
             /\ \A s \in Sources : SameEvidence(aggregate.shown[s], states[s])
             /\ \A s \in watched :
                  /\ states[s].status = file[s][Version(s)]
                  /\ states[s].status = "stable" =>
                       states[s].version = Version(s)
    BY DEF ShownWhenQuiet
  <2> QED BY DEF Quiet, ObserverInv, SnapshotFollows, NothingMissed, UpToDate
<1> QED BY <1>1, ObserverInvariance, PTL

\* What is observed of a configured source was read under the current
\* configuration: a read that a new configuration overtakes leaves nothing.
THEOREM UpdatesAreKept == StartupSpec => []NoUpdateLeaks
BY ObserverInvariance, PTL DEF ObserverInv

\* In one generation no late read replaces the evidence of a later one.
THEOREM EvidenceNeverGoesBack == StartupSpec => NeverBack
<1>1. ObserverInv /\ [StartupNext]_allVars =>
        [\A s \in Sources : generation' = generation =>
           states'[s].version >= states[s].version]_vars
  BY ObserverStep
     DEF StartupNext, ObserverMoves, KeepMoves, SetupMoves, observerVars,
         allVars
<1> QED BY <1>1, ObserverInvariance, PTL DEF StartupSpec, NeverBack

-----------------------------------------------------------------------------
(* Keep-alive terminals.                                                   *)

\* The sets of the instance have the sizes the theorems speak of.
LEMMA SameCardinality == \A S : Keep!Cardinality(S) = Cardinality(S)
BY DEF Keep!Cardinality, Cardinality

\* Manifests of which a session is the identity.
Distinct(S) ==
  /\ IsFiniteSet(S)
  /\ \A m \in S : m.session \in Nat
  /\ \A m, n \in S : m.session = n.session => m = n

\* The order that the file of the manifests must have.
Decreasing(s) == \A i, j \in DOMAIN s : i < j => s[i].session > s[j].session

\* The manifests of a set that are newer than a session.
Newer(S, session) == {k \in S : k.session > session}

\* NewestFirst sorts manifests that differ in their sessions: each stands
\* behind those that are newer.
LEMMA NewestIsFirst ==
  ASSUME NEW S, Distinct(S)
  PROVE  /\ Keep!NewestFirst(S) \in Seq(S)
         /\ Decreasing(Keep!NewestFirst(S))
         /\ Len(Keep!NewestFirst(S)) = Cardinality(S)
         /\ \A i \in 1..Cardinality(S) :
              LET m == Keep!NewestFirst(S)[i]
              IN  m \in S /\ Cardinality(Newer(S, m.session)) = i - 1
         /\ \A m \in S : \E i \in 1..Cardinality(S) :
              Keep!NewestFirst(S)[i] = m
<1> DEFINE Above(m) == {k \in S : k.session > m.session}
           N == Cardinality(S)
           rank == [m \in S |-> Cardinality(Above(m))]
<1>1. IsFiniteSet(S) /\ N \in Nat
  BY FS_CardinalityType DEF Distinct
<1>2. ASSUME NEW m \in S
      PROVE  IsFiniteSet(Above(m)) /\ Cardinality(Above(m)) \in 0..N-1
  <2>1. Above(m) \in SUBSET S /\ m \notin Above(m)
    BY DEF Distinct
  <2>2. /\ IsFiniteSet(Above(m))
        /\ Cardinality(Above(m)) <= N /\ Cardinality(Above(m)) # N
    BY <1>1, <2>1, FS_Subset
  <2> QED BY <1>1, <2>2, FS_CardinalityType
<1>3. ASSUME NEW m \in S, NEW n \in S, m.session > n.session
      PROVE  Cardinality(Above(m)) < Cardinality(Above(n))
  <2>1. Above(m) \in SUBSET Above(n) /\ m \in Above(n) /\ m \notin Above(m)
    BY <1>3 DEF Distinct
  <2>2. IsFiniteSet(Above(n)) /\ IsFiniteSet(Above(m))
        /\ Cardinality(Above(n)) \in 0..N-1 /\ Cardinality(Above(m)) \in 0..N-1
    BY <1>2
  <2> HIDE DEF Above
  <2>3. Cardinality(Above(m)) <= Cardinality(Above(n))
        /\ Cardinality(Above(m)) # Cardinality(Above(n))
    BY <2>1, <2>2, FS_Subset
  <2> QED BY <1>1, <2>2, <2>3
<1> HIDE DEF Above
<1>4. rank \in [S -> 0..N-1]
  BY <1>2
<1>5. \A m, n \in S : rank[m] = rank[n] => m = n
  <2> SUFFICES ASSUME NEW m \in S, NEW n \in S, m.session # n.session
               PROVE  rank[m] # rank[n]
    BY DEF Distinct
  <2>1. m.session > n.session \/ n.session > m.session
    BY DEF Distinct
  <2> QED BY <1>1, <1>2, <1>3, <2>1
<1>6. IsFiniteSet(0..N-1) /\ Cardinality(0..N-1) = N
  BY <1>1, FS_Interval
<1>7. rank \in Injection(S, 0..N-1)
  BY <1>4, <1>5 DEF Injection, IsInjective
<1>8. rank \in Surjection(S, 0..N-1)
  BY <1>6, <1>7, FS_Injection
<1>9. ASSUME NEW i \in 1..N
      PROVE  /\ Keep!NewestFirst(S)[i] \in S
             /\ rank[Keep!NewestFirst(S)[i]] = i - 1
  <2>1. i - 1 \in 0..N-1
    BY <1>1
  <2>2. \E m \in S : rank[m] = i - 1
    BY <1>8, <2>1 DEF Surjection
  <2>3. \E m \in S : Cardinality(Above(m)) = i - 1
    BY <2>2
  <2>4. Keep!NewestFirst(S)[i] =
          CHOOSE m \in S : Cardinality(Above(m)) = i - 1
    BY SameCardinality DEF Keep!NewestFirst, Above
  <2> QED BY <2>3, <2>4
<1>10. Keep!NewestFirst(S) \in [1..N -> S]
  <2> DEFINE s == Keep!NewestFirst(S)
  <2> DEFINE Ranked(n) == CHOOSE m \in S :
               Keep!Cardinality({k \in S : k.session > m.session}) = n - 1
  <2>1. s = [n \in 1..Keep!Cardinality(S) |-> Ranked(n)]
    BY DEF Keep!NewestFirst
  <2> HIDE DEF Ranked
  <2>2. s = [i \in DOMAIN s |-> s[i]]
    BY <2>1
  <2>3. DOMAIN s = 1..N
    BY SameCardinality DEF Keep!NewestFirst
  <2>4. \A i \in 1..N : s[i] \in S
    BY <1>9
  <2> HIDE DEF s
  <2>5. s \in [1..N -> S]
    BY <2>2, <2>3, <2>4
  <2> QED BY <2>5 DEF s
<1>11. Keep!NewestFirst(S) \in Seq(S)
  BY <1>1, <1>10
<1>12. ASSUME NEW i \in 1..N, NEW j \in 1..N, i < j
       PROVE  Keep!NewestFirst(S)[i].session > Keep!NewestFirst(S)[j].session
  <2> DEFINE m == Keep!NewestFirst(S)[i]
             n == Keep!NewestFirst(S)[j]
  <2>1. m \in S /\ n \in S /\ rank[m] = i - 1 /\ rank[n] = j - 1
    BY <1>9, <1>12
  <2>2. Cardinality(Above(m)) = i - 1 /\ Cardinality(Above(n)) = j - 1
    BY <2>1
  <2> HIDE DEF m, n
  <2>3. ~(n.session > m.session)
    BY <1>3, <2>1, <2>2, <1>12
  <2>4. n.session # m.session
    BY <2>1, <1>12 DEF Distinct
  <2> QED BY <2>1, <2>3, <2>4 DEF Distinct, m, n
<1>13. ASSUME NEW m \in S
       PROVE  \E i \in 1..N : Keep!NewestFirst(S)[i] = m
  <2>1. rank[m] \in 0..N-1 /\ rank[m] + 1 \in 1..N
    BY <1>1, <1>4
  <2>2. /\ Keep!NewestFirst(S)[rank[m] + 1] \in S
        /\ rank[Keep!NewestFirst(S)[rank[m] + 1]] = rank[m]
    BY <1>9, <2>1
  <2> QED BY <1>5, <2>1, <2>2
<1>14. ASSUME NEW i \in 1..N
       PROVE  LET m == Keep!NewestFirst(S)[i]
              IN  m \in S /\ Cardinality(Newer(S, m.session)) = i - 1
  <2> DEFINE m == Keep!NewestFirst(S)[i]
  <2>1. m \in S /\ rank[m] = i - 1
    BY <1>9
  <2> HIDE DEF m
  <2>2. Cardinality(Above(m)) = i - 1
    BY <2>1
  <2>3. Above(m) = Newer(S, m.session)
    BY DEF Above, Newer
  <2> QED BY <2>1, <2>2, <2>3 DEF m
<1>15. Decreasing(Keep!NewestFirst(S))
  BY <1>10, <1>12 DEF Decreasing
<1>16. Len(Keep!NewestFirst(S)) = N
  BY <1>1, <1>10, <1>11
<1> QED BY <1>11, <1>13, <1>14, <1>15, <1>16

\* A prefix is as short as it is asked to be, and in the order of the whole.
LEMMA FirstIsShort ==
  ASSUME NEW S, NEW s \in Seq(S), NEW n \in Nat, Decreasing(s)
  PROVE  /\ Keep!First(n, s) \in Seq(S)
         /\ Len(Keep!First(n, s)) <= n
         /\ Len(s) >= n => Len(Keep!First(n, s)) = n
         /\ Len(s) < n => Len(Keep!First(n, s)) = Len(s)
         /\ Decreasing(Keep!First(n, s))
         /\ \A i \in DOMAIN Keep!First(n, s) :
              i \in DOMAIN s /\ Keep!First(n, s)[i] = s[i]
<1> DEFINE k == IF Len(s) < n THEN Len(s) ELSE n
<1>1. /\ k \in Nat /\ k <= n /\ k <= Len(s)
      /\ (Len(s) >= n => k = n) /\ (Len(s) < n => k = Len(s))
  OBVIOUS
<1>2. Keep!First(n, s) = SubSeq(s, 1, k)
  BY DEF Keep!First
<1> HIDE DEF k
<1>3. \A i \in 1..k : s[i] \in S
  BY <1>1
<1>4. /\ SubSeq(s, 1, k) \in Seq(S)
      /\ Len(SubSeq(s, 1, k)) = k
      /\ \A i \in 1..k : SubSeq(s, 1, k)[i] = s[i]
  BY <1>1, <1>3, SubSeqProperties
<1> QED BY <1>1, <1>2, <1>4 DEF Decreasing

\* The manifests, the launches that are under way, and the clients.
Manifests == [session : Nat, target : Nat, name : Nat, keep : BOOLEAN]
Launched ==
  [stage : {"target", "writing", "stored"}, session : Nat, target : Nat,
   name : Nat, keep : BOOLEAN, was : Nat, next : Seq(Manifests)]
KeepClients ==
  [session : Nat, target : Nat, name : Nat, keep : BOOLEAN, was : Nat]

\* The types of the keep-alive state.
KeepTypes ==
  /\ created \in Nat /\ tmux \in Seq(Nat)
  /\ catalog \in Seq(Manifests) /\ stored \in Seq(Manifests)
  /\ toRestore \in Seq(Manifests)
  /\ server \in {"down", "restoring", "listening"}
  /\ launch \in [Launches -> {Keep!NoLaunch} \cup Launched]
  /\ clients \subseteq KeepClients

\* The schema of the file, on disk and in memory.
CatalogsAreValid == Keep!ValidCatalog(stored) /\ Keep!ValidCatalog(catalog)

\* A server that is down has no clients.
NothingRuns ==
  server = "down" =>
    clients = {} /\ \A c \in Launches : launch[c] = Keep!NoLaunch

\* A create() of this launch is under way.
Launching(c) == launch[c] # Keep!NoLaunch

\* A target that a start restores is still to be restored, is being restored
\* or has one client, and only one of the three.
OneForEach ==
  server = "restoring" =>
    /\ \A k, l \in clients : k.target = l.target => k = l
    /\ \A c, d \in Launches : Launching(c) /\ Launching(d) => c = d
    /\ \A i, j \in DOMAIN toRestore :
         toRestore[i].target = toRestore[j].target => i = j
    /\ \A i \in DOMAIN toRestore :
         /\ \A k \in clients : k.target # toRestore[i].target
         /\ \A c \in Launches :
              Launching(c) => launch[c].target # toRestore[i].target
    /\ \A c \in Launches : Launching(c) =>
         /\ launch[c].keep
         /\ \A k \in clients : k.target # launch[c].target

\* The inductive invariant of the keep-alive terminals.
KeepInv == KeepTypes /\ CatalogsAreValid /\ NothingRuns /\ OneForEach

\* The manifests of a catalog that is in order are finitely many, of
\* different sessions.
LEMMA CatalogIsDistinct ==
  ASSUME NEW s \in Seq(Manifests), Decreasing(s), NEW S \in SUBSET Keep!Range(s)
  PROVE  /\ Distinct(S) /\ S \subseteq Manifests
         /\ Cardinality(Keep!Range(s)) = Len(s)
<1>1. Keep!Range(s) = {s[i] : i \in 1..Len(s)}
  BY DEF Keep!Range
<1>2. s \in Surjection(1..Len(s), Keep!Range(s))
  BY <1>1 DEF Surjection
<1>3. /\ Len(s) \in Nat /\ IsFiniteSet(1..Len(s))
      /\ Cardinality(1..Len(s)) = Len(s)
  <2>1. Len(s) \in Nat
    OBVIOUS
  <2> QED BY <2>1, FS_Interval
<1>4. IsFiniteSet(S)
  BY <1>2, <1>3, FS_Surjection, FS_Subset
<1>5. S \subseteq Manifests
  BY <1>1
<1>6. ASSUME NEW m \in S, NEW n \in S, m.session = n.session PROVE m = n
  <2>1. PICK i \in 1..Len(s), j \in 1..Len(s) : m = s[i] /\ n = s[j]
    BY <1>1
  <2>2. s[i].session \in Nat /\ s[i].session = s[j].session
    BY <1>5, <1>6, <2>1 DEF Manifests
  <2>3. ~(i < j) /\ ~(j < i)
    BY <2>2 DEF Decreasing
  <2> QED BY <2>1, <2>3
<1>7. \A i, j \in 1..Len(s) : s[i] = s[j] => i = j
  <2> SUFFICES ASSUME NEW i \in 1..Len(s), NEW j \in 1..Len(s), s[i] = s[j]
               PROVE  i = j
    OBVIOUS
  <2>1. s[i] \in Manifests /\ s[i].session = s[j].session
    OBVIOUS
  <2>2. s[i].session \in Nat
    BY <2>1 DEF Manifests
  <2>3. ~(i < j) /\ ~(j < i)
    BY <2>1, <2>2 DEF Decreasing
  <2> QED BY <2>3
<1>8. s \in Bijection(1..Len(s), Keep!Range(s))
  BY <1>2, <1>7 DEF Bijection, Injection, IsInjective, Surjection
<1>9. Cardinality(Keep!Range(s)) = Len(s)
  BY <1>3, <1>8, FS_Bijection DEF ExistsBijection
<1> QED BY <1>4, <1>5, <1>6, <1>9 DEF Distinct, Manifests

\* A valid catalog stays valid when a manifest is stored.
LEMMA UpsertIsValid ==
  ASSUME KeepTypes, CatalogsAreValid, NEW m \in Manifests
  PROVE  /\ Keep!Upserted(m) \in Seq(Manifests)
         /\ Keep!ValidCatalog(Keep!Upserted(m))
         /\ Keep!Range(Keep!Upserted(m)) \subseteq {m} \cup Keep!Range(catalog)
<1> DEFINE S == {n \in Keep!Range(catalog) : n.session # m.session}
<1>1. catalog \in Seq(Manifests) /\ Decreasing(catalog)
  BY DEF KeepTypes, CatalogsAreValid, Keep!ValidCatalog,
         Decreasing
<1>2. Distinct(S) /\ S \subseteq Manifests
  BY <1>1, CatalogIsDistinct
<1>3. Distinct({m} \cup S) /\ {m} \cup S \subseteq Manifests
  <2>1. IsFiniteSet({m} \cup S)
    BY <1>2, FS_AddElement DEF Distinct
  <2>2. \A n \in S : n.session # m.session
    OBVIOUS
  <2> HIDE DEF S
  <2> QED BY <1>2, <2>1, <2>2 DEF Distinct, Manifests
<1> DEFINE s == Keep!NewestFirst({m} \cup S)
<1>4. s \in Seq({m} \cup S) /\ Decreasing(s)
  BY <1>3, NewestIsFirst
<1>5. s \in Seq(Manifests)
  BY <1>3, <1>4, SeqMonotonic
<1>6. Keep!Upserted(m) = Keep!First(MaxManifests, s)
  BY DEF Keep!Upserted
<1> HIDE DEF s
<1>7. Keep!First(MaxManifests, s) \in Seq({m} \cup S)
  BY <1>4, FirstIsShort, KeepAssumption
<1>8. \A n \in Keep!Range(Keep!First(MaxManifests, s)) : n \in {m} \cup S
  BY <1>7 DEF Keep!Range
<1>9. Keep!Range(Keep!Upserted(m)) \subseteq {m} \cup Keep!Range(catalog)
  BY <1>6, <1>8
<1> QED BY <1>4, <1>5, <1>6, <1>9, FirstIsShort, KeepAssumption
        DEF Keep!ValidCatalog, Decreasing

\* When enough manifests are newer than a session, the first ones all are.
LEMMA FirstAreNewer ==
  ASSUME NEW S, Distinct(S), NEW n \in Nat, NEW x \in Nat,
         Cardinality(Newer(S, x)) >= n
  PROVE  LET s == Keep!First(n, Keep!NewestFirst(S))
         IN  Len(s) = n /\ \A m \in Keep!Range(s) : m.session > x
<1> DEFINE all == Keep!NewestFirst(S)
           s == Keep!First(n, all)
<1>1. IsFiniteSet(S) /\ Newer(S, x) \subseteq S
  BY DEF Distinct, Newer
<1>2. /\ IsFiniteSet(Newer(S, x)) /\ Cardinality(S) \in Nat
      /\ Cardinality(Newer(S, x)) \in Nat
      /\ Cardinality(Newer(S, x)) <= Cardinality(S)
  BY <1>1, FS_Subset, FS_CardinalityType
<1>3. /\ all \in Seq(S) /\ Decreasing(all) /\ Len(all) = Cardinality(S)
      /\ \A i \in 1..Cardinality(S) :
           /\ all[i] \in S
           /\ Cardinality(Newer(S, all[i].session)) = i - 1
  BY NewestIsFirst
<1> HIDE DEF all
<1>4. /\ Len(s) = n /\ s \in Seq(S)
      /\ \A i \in DOMAIN s : i \in DOMAIN all /\ s[i] = all[i]
  BY <1>2, <1>3, FirstIsShort
<1> HIDE DEF s
<1>5. ASSUME NEW i \in 1..n PROVE s[i].session > x
  <2>1. /\ i \in 1..Cardinality(S) /\ s[i] = all[i]
        /\ s[i] \in S /\ s[i].session \in Nat
    BY <1>2, <1>3, <1>4 DEF Distinct
  <2>2. SUFFICES ASSUME s[i].session <= x PROVE FALSE
    BY <2>1
  <2>3. Newer(S, x) \subseteq Newer(S, s[i].session)
    BY <2>1, <2>2 DEF Newer, Distinct
  <2>4. IsFiniteSet(Newer(S, s[i].session))
    BY <1>1, FS_Subset DEF Newer
  <2>5. Cardinality(Newer(S, x)) <= Cardinality(Newer(S, s[i].session))
    BY <2>3, <2>4, FS_Subset
  <2>6. Cardinality(Newer(S, s[i].session)) = i - 1
    BY <1>3, <2>1
  <2> QED BY <1>2, <2>5, <2>6
<1>6. \A m \in Keep!Range(s) : \E i \in 1..n : m = s[i]
  BY <1>4 DEF Keep!Range
<1> QED BY <1>4, <1>5, <1>6 DEF s, all

\* A manifest is among the first ones, or they are newer and fill the catalog.
LEMMA FirstOrNewer ==
  ASSUME NEW S, Distinct(S), NEW n \in Nat, NEW m \in S
  PROVE  LET s == Keep!First(n, Keep!NewestFirst(S))
         IN  \/ m \in Keep!Range(s)
             \/ Len(s) = n /\ \A k \in Keep!Range(s) : k.session > m.session
<1> DEFINE all == Keep!NewestFirst(S)
           s == Keep!First(n, all)
<1>1. IsFiniteSet(S) /\ m.session \in Nat /\ Cardinality(S) \in Nat
  BY FS_CardinalityType DEF Distinct
<1>2. CASE Cardinality(Newer(S, m.session)) >= n
  BY <1>1, <1>2, FirstAreNewer
<1>3. CASE ~(Cardinality(Newer(S, m.session)) >= n)
  <2>1. PICK i \in 1..Cardinality(S) : all[i] = m
    BY NewestIsFirst
  <2>2. Cardinality(Newer(S, m.session)) = i - 1
    BY <2>1, NewestIsFirst
  <2>3. all \in Seq(S) /\ Decreasing(all) /\ Len(all) = Cardinality(S)
    BY NewestIsFirst
  <2> HIDE DEF all
  <2>4. /\ s \in Seq(S)
        /\ Len(s) = n \/ Len(s) = Cardinality(S)
        /\ \A j \in DOMAIN s : s[j] = all[j]
    BY <1>1, <2>3, FirstIsShort
  <2> HIDE DEF s
  <2>5. i \in DOMAIN s /\ s[i] = m
    BY <1>1, <1>3, <2>1, <2>2, <2>4
  <2>6. m \in Keep!Range(s)
    BY <2>5 DEF Keep!Range
  <2> QED BY <2>6 DEF s, all
<1> QED BY <1>2, <1>3

\* A manifest that is stored for a new session is found, and so are those that
\* were before.
LEMMA UpsertFinds ==
  ASSUME KeepTypes, CatalogsAreValid, NEW m \in Manifests,
         \A n \in Keep!Range(catalog) : n.session # m.session
  PROVE  LET up == Keep!Upserted(m)
         IN  /\ Keep!Found(m, up)
             /\ \A k : k.session \in Nat /\ Keep!Found(k, catalog)
                         => Keep!Found(k, up)
<1> DEFINE S == {m} \cup Keep!Range(catalog)
           up == Keep!First(MaxManifests, Keep!NewestFirst(S))
<1>1. /\ catalog \in Seq(Manifests) /\ Decreasing(catalog)
      /\ MaxManifests \in Nat
  BY KeepAssumption
     DEF KeepTypes, CatalogsAreValid, Keep!ValidCatalog, Decreasing
<1>2. /\ Distinct(Keep!Range(catalog))
      /\ Keep!Range(catalog) \subseteq Manifests
      /\ Cardinality(Keep!Range(catalog)) = Len(catalog)
  BY <1>1, CatalogIsDistinct
<1>3. Distinct(S)
  <2>1. IsFiniteSet(S)
    BY <1>2, FS_AddElement DEF Distinct
  <2> QED BY <1>2, <2>1 DEF Distinct, Manifests
<1>4. Keep!Upserted(m) = up
  <2>1. {n \in Keep!Range(catalog) : n.session # m.session}
          = Keep!Range(catalog)
    OBVIOUS
  <2> QED BY <2>1 DEF Keep!Upserted
<1>5. ASSUME NEW n \in S
      PROVE  \/ n \in Keep!Range(up)
             \/ /\ Len(up) = MaxManifests
                /\ \A k \in Keep!Range(up) : k.session > n.session
  BY <1>1, <1>3, FirstOrNewer
<1>6. ASSUME NEW x \in Nat, Len(catalog) = MaxManifests,
             \A n \in Keep!Range(catalog) : n.session > x
      PROVE  Len(up) = MaxManifests /\ \A n \in Keep!Range(up) : n.session > x
  <2>1. /\ Keep!Range(catalog) \subseteq Newer(S, x)
        /\ IsFiniteSet(Newer(S, x))
    BY <1>3, <1>6, FS_Subset DEF Newer, Distinct
  <2>2. Cardinality(Keep!Range(catalog)) <= Cardinality(Newer(S, x))
    BY <2>1, FS_Subset
  <2>3. Cardinality(Newer(S, x)) \in Nat
    BY <2>1, FS_CardinalityType
  <2>4. Cardinality(Newer(S, x)) >= MaxManifests
    BY <1>1, <1>2, <1>6, <2>2, <2>3
  <2> HIDE DEF S
  <2> QED BY <1>1, <1>3, <2>4, FirstAreNewer
<1> HIDE DEF up
<1>7. Keep!Found(m, up)
  BY <1>5 DEF Keep!Found
<1>8. ASSUME NEW k, k.session \in Nat, Keep!Found(k, catalog)
      PROVE  Keep!Found(k, up)
  <2>1. CASE \E n \in Keep!Range(catalog) :
               n.session = k.session /\ n.target = k.target /\ n.keep = k.keep
    BY <1>5, <2>1 DEF Keep!Found
  <2>2. CASE /\ Len(catalog) = MaxManifests
             /\ \A n \in Keep!Range(catalog) : n.session > k.session
    BY <1>6, <1>8, <2>2 DEF Keep!Found
  <2> QED BY <1>8, <2>1, <2>2 DEF Keep!Found
<1> QED BY <1>4, <1>7, <1>8

\* What a start restores: manifests of different targets.
LEMMA SelectedOnce ==
  ASSUME KeepTypes, Keep!ValidCatalog(stored)
  PROVE  LET s == Keep!First(MaxRestored, Keep!Selected(stored))
         IN  /\ s \in Seq(Manifests)
             /\ \A i, j \in DOMAIN s : s[i].target = s[j].target => i = j
<1> DEFINE S == {m \in Keep!KeptAlive(stored) :
                   \A n \in Keep!KeptAlive(stored) :
                     n.target = m.target => n.session <= m.session}
           all == Keep!NewestFirst(S)
           s == Keep!First(MaxRestored, all)
<1>1. stored \in Seq(Manifests) /\ Decreasing(stored)
  BY DEF KeepTypes, Keep!ValidCatalog, Decreasing
<1>2. S \in SUBSET Keep!Range(stored)
  BY DEF Keep!KeptAlive
<1>3. Distinct(S) /\ S \subseteq Manifests
  BY <1>1, <1>2, CatalogIsDistinct
<1>4. \A m, n \in S : m.target = n.target => m.session = n.session
  <2> SUFFICES ASSUME NEW m \in S, NEW n \in S, m.target = n.target
               PROVE  m.session = n.session
    OBVIOUS
  <2>1. m.session <= n.session /\ n.session <= m.session
    OBVIOUS
  <2>2. m.session \in Nat /\ n.session \in Nat
    BY <1>3 DEF Manifests
  <2> QED BY <2>1, <2>2
<1> HIDE DEF S
<1>5. all \in Seq(S) /\ Decreasing(all)
  BY <1>3, NewestIsFirst
<1> HIDE DEF all
<1>6. s \in Seq(S) /\ Decreasing(s)
  BY <1>5, FirstIsShort, KeepAssumption
<1> HIDE DEF s
<1>7. s \in Seq(Manifests)
  BY <1>3, <1>6, SeqMonotonic
<1>8. ASSUME NEW i \in DOMAIN s, NEW j \in DOMAIN s, s[i].target = s[j].target
      PROVE  i = j
  <2>1. s[i] \in S /\ s[j] \in S /\ i \in Nat /\ j \in Nat
    BY <1>6
  <2>2. s[i].session = s[j].session /\ s[i].session \in Nat
    BY <1>4, <1>8, <2>1, <1>3 DEF Manifests
  <2>3. ~(i < j) /\ ~(j < i)
    BY <1>6, <2>2 DEF Decreasing
  <2> QED BY <2>1, <2>3
<1> QED BY <1>7, <1>8 DEF s, all, S, Keep!Selected

\* A create() begins with its target.
LEMMA LaunchBegins ==
  ASSUME KeepTypes, NEW c \in Launches, NEW target \in Nat, NEW name \in Nat,
         NEW keep \in BOOLEAN, NEW was \in Nat,
         Keep!Begins(c, target, name, keep, was)
  PROVE  /\ created' \in Nat
         /\ launch' \in [Launches -> {Keep!NoLaunch} \cup Launched]
         /\ launch'[c].target = target /\ launch'[c].keep = keep
         /\ \A d \in Launches \ {c} : launch'[d] = launch[d]
<1> DEFINE l == [stage |-> "target", session |-> created', target |-> target,
                 name |-> name, keep |-> keep, was |-> was, next |-> <<>>]
<1>1. /\ created' \in Nat
      /\ launch' = [launch EXCEPT ![c] = l]
      /\ launch \in [Launches -> {Keep!NoLaunch} \cup Launched]
  BY DEF KeepTypes, Keep!Begins
<1>2. l \in Launched /\ l.target = target /\ l.keep = keep
  BY <1>1 DEF Launched
<1> HIDE DEF l
<1> QED BY <1>1, <1>2

\* A create() that a listening server begins: no start is under way.
LEMMA CreateStep ==
  ASSUME KeepInv, NEW c \in Launches,
         \/ Keep!LaunchKeepAlive(c) \/ Keep!LaunchLost(c)
         \/ Keep!CreateDirect(c)
         \/ \E i \in DOMAIN tmux : Keep!Attach(c, i)
         \/ \E i \in DOMAIN catalog : Keep!Relaunch(c, catalog[i])
  PROVE  KeepInv'
<1>1. /\ KeepTypes /\ CatalogsAreValid
      /\ created \in Nat /\ tmux \in Seq(Nat) /\ catalog \in Seq(Manifests)
  BY DEF KeepInv, KeepTypes
<1>2. /\ server = "listening" /\ server' = server
      /\ UNCHANGED <<catalog, stored, toRestore, clients>>
  BY DEF Keep!LaunchKeepAlive, Keep!LaunchLost, Keep!CreateDirect,
         Keep!Attach, Keep!Relaunch, Keep!Ready
<1>3. ASSUME created' \in Nat, tmux' \in Seq(Nat),
             launch' \in [Launches -> {Keep!NoLaunch} \cup Launched]
      PROVE  KeepInv'
  <2>1. KeepTypes'
    BY <1>1, <1>2, <1>3 DEF KeepTypes
  <2>2. CatalogsAreValid'
    BY <1>1, <1>2
       DEF CatalogsAreValid, Keep!ValidCatalog
  <2>3. NothingRuns' /\ OneForEach'
    BY <1>2 DEF NothingRuns, OneForEach
  <2> QED BY <2>1, <2>2, <2>3 DEF KeepInv
<1>4. \A i \in DOMAIN tmux : tmux[i] \in Nat /\ i \in Nat
  BY <1>1
<1>5. CASE Keep!LaunchKeepAlive(c)
  <2>1. /\ tmux' = Append(tmux, created + 1)
        /\ Keep!Begins(c, Len(tmux'), created + 1, TRUE, 0)
    BY <1>5 DEF Keep!LaunchKeepAlive
  <2>2. tmux' \in Seq(Nat) /\ Len(tmux') \in Nat /\ created + 1 \in Nat
    BY <1>1, <2>1
  <2> QED BY <1>1, <1>3, <2>1, <2>2, LaunchBegins
<1>6. CASE Keep!LaunchLost(c)
  BY <1>1, <1>3, <1>6 DEF Keep!LaunchLost, KeepTypes
<1>7. CASE Keep!CreateDirect(c)
  BY <1>1, <1>3, <1>7, LaunchBegins DEF Keep!CreateDirect, Keep!NoTarget
<1>8. ASSUME NEW i \in DOMAIN tmux, Keep!Attach(c, i) PROVE KeepInv'
  BY <1>1, <1>3, <1>4, <1>8, LaunchBegins DEF Keep!Attach
<1>9. ASSUME NEW i \in DOMAIN catalog, Keep!Relaunch(c, catalog[i])
      PROVE  KeepInv'
  <2> DEFINE m == catalog[i]
  <2>1. m.target \in Nat /\ m.name \in Nat
    <3>1. catalog[i] \in Manifests
      BY <1>1
    <3> QED BY <3>1 DEF Manifests
  <2>2. tmux' = tmux
    BY <1>9 DEF Keep!Relaunch
  <2>3. \E target, name, was \in Nat, keep \in BOOLEAN :
          Keep!Begins(c, target, name, keep, was)
    <3>1. Keep!Alive(m.target) => tmux[m.target] \in Nat
      BY <1>4 DEF Keep!Alive
    <3> QED BY <1>9, <2>1, <3>1
            DEF Keep!Relaunch, Keep!Reattach, Keep!NoTarget
  <2> QED BY <1>1, <1>3, <2>2, <2>3, LaunchBegins
<1> QED BY <1>5, <1>6, <1>7, <1>8, <1>9

\* The client that starts is that of the launch, if it starts at all.
LEMMA SpawnedIsOne ==
  ASSUME KeepTypes, NEW l \in Launched
  PROVE  \E k \in KeepClients :
           /\ k.session = l.session /\ k.target = l.target /\ k.keep = l.keep
           /\ Keep!Spawned(l) \subseteq clients \cup {k}
<1> DEFINE name == IF l.target = Keep!NoTarget THEN 0 ELSE tmux[l.target]
           k == [session |-> l.session, target |-> l.target, name |-> name,
                 keep |-> l.keep, was |-> l.was]
<1>1. /\ l.session \in Nat /\ l.target \in Nat /\ l.keep \in BOOLEAN
      /\ l.was \in Nat /\ tmux \in Seq(Nat)
  BY DEF Launched, KeepTypes
<1>2. CASE l.target = Keep!NoTarget \/ Keep!Alive(l.target)
  <2>1. name \in Nat
    BY <1>1, <1>2 DEF Keep!Alive
  <2>2. Keep!Spawned(l) = clients \cup {k}
    BY <1>2 DEF Keep!Spawned
  <2> HIDE DEF name
  <2>3. /\ k \in KeepClients
        /\ k.session = l.session /\ k.target = l.target /\ k.keep = l.keep
    BY <1>1, <2>1 DEF KeepClients
  <2> HIDE DEF k
  <2> QED BY <2>2, <2>3
<1>3. CASE ~(l.target = Keep!NoTarget \/ Keep!Alive(l.target))
  <2> DEFINE none == [k EXCEPT !.name = 0]
  <2>1. Keep!Spawned(l) = clients
    BY <1>3 DEF Keep!Spawned
  <2>2. /\ none \in KeepClients
        /\ none.session = l.session /\ none.target = l.target
        /\ none.keep = l.keep
    BY <1>1 DEF KeepClients
  <2> HIDE DEF none
  <2> QED BY <2>1, <2>2
<1> QED BY <1>2, <1>3

\* A launch whose manifest is to be written.
LEMMA ManifestStep ==
  ASSUME KeepInv, NEW c \in Launches, Keep!StoreBegins(c)
  PROVE  KeepInv'
<1>1. /\ KeepTypes /\ CatalogsAreValid /\ NothingRuns /\ OneForEach
      /\ launch \in [Launches -> {Keep!NoLaunch} \cup Launched]
      /\ clients \subseteq KeepClients
  BY DEF KeepInv, KeepTypes
<1>2. launch[c] \in Launched /\ Launching(c)
  BY <1>1 DEF Keep!StoreBegins, Keep!WriteBegins, Keep!NoLaunch, Launching
<1>3. /\ server # "down"
      /\ UNCHANGED <<tmux, catalog, stored, server, toRestore, created>>
  BY <1>1, <1>2
     DEF NothingRuns, Launching, Keep!StoreBegins, Keep!WriteBegins
<1> DEFINE up == Keep!Upserted(Keep!Manifest(launch[c]))
<1>4. up \in Seq(Manifests)
  BY <1>1, <1>2, UpsertIsValid DEF Keep!Manifest, Launched, Manifests
<1>5. launch' = [launch EXCEPT ![c].stage = "writing", ![c].next = up]
  BY DEF Keep!StoreBegins, Keep!WriteBegins
<1> HIDE DEF up
<1>6. /\ launch' \in [Launches -> {Keep!NoLaunch} \cup Launched]
      /\ launch'[c].target = launch[c].target
      /\ launch'[c].keep = launch[c].keep
      /\ \A d \in Launches \ {c} : launch'[d] = launch[d]
  BY <1>1, <1>2, <1>4, <1>5 DEF Launched
<1>7. clients' \subseteq KeepClients
  BY <1>1, <1>2, SpawnedIsOne DEF Keep!StoreBegins, Keep!WriteBegins
<1>8. launch[c].keep => clients' = clients
  BY DEF Keep!StoreBegins, Keep!WriteBegins
<1>9. OneForEach'
  BY <1>1, <1>2, <1>3, <1>6, <1>8 DEF OneForEach, Launching
<1>10. CatalogsAreValid' /\ NothingRuns' /\ KeepTypes'
  BY <1>1, <1>3, <1>6, <1>7
     DEF CatalogsAreValid, Keep!ValidCatalog, NothingRuns, KeepTypes
<1> QED BY <1>9, <1>10 DEF KeepInv

\* A launch that goes on, and one that ends, with or without its client.
LEMMA LaunchStep ==
  ASSUME KeepInv, NEW c \in Launches,
         \/ Keep!StoreManifest(c) \/ Keep!StartClient(c)
         \/ Keep!StoreFails(c) \/ Keep!SpawnFails(c)
  PROVE  KeepInv'
<1>1. /\ KeepTypes /\ CatalogsAreValid /\ NothingRuns /\ OneForEach
      /\ launch \in [Launches -> {Keep!NoLaunch} \cup Launched]
      /\ clients \subseteq KeepClients
  BY DEF KeepInv, KeepTypes
<1>2. launch[c] \in Launched /\ Launching(c)
  BY <1>1 DEF Keep!StoreManifest, Keep!StartClient,
         Keep!StoreFails, Keep!SpawnFails, Keep!NoLaunch, Launching
<1>3. server # "down" /\ UNCHANGED <<tmux, server, toRestore, created>>
  BY <1>1, <1>2 DEF NothingRuns, Launching, Keep!StoreManifest,
     Keep!StartClient, Keep!StoreFails, Keep!SpawnFails
<1>4. /\ catalog' \in Seq(Manifests) /\ stored' \in Seq(Manifests)
      /\ CatalogsAreValid'
  <2> DEFINE next == launch[c].next
  <2>1. next \in Seq(Manifests)
    BY <1>2 DEF Launched
  <2>2. /\ catalog \in Seq(Manifests) /\ stored \in Seq(Manifests)
        /\ Keep!ValidCatalog(catalog) /\ Keep!ValidCatalog(stored)
    BY <1>1 DEF KeepTypes, CatalogsAreValid
  <2>3. /\ catalog' = catalog \/ (catalog' = next /\ Keep!ValidCatalog(next))
        /\ stored' = stored \/ (stored' = next /\ Keep!ValidCatalog(next))
    BY DEF Keep!StoreManifest, Keep!StartClient,
           Keep!StoreFails, Keep!SpawnFails, Keep!UpsertOk, Keep!UpsertFails
  <2> HIDE DEF next
  <2>4. Keep!ValidCatalog(catalog') /\ Keep!ValidCatalog(stored')
    BY <2>1, <2>2, <2>3
  <2> QED BY <2>1, <2>2, <2>3, <2>4 DEF CatalogsAreValid, Keep!ValidCatalog
<1>5. ASSUME launch' = [launch EXCEPT ![c].stage = "stored"],
             clients' = clients
      PROVE  KeepInv'
  <2>1. /\ launch' \in [Launches -> {Keep!NoLaunch} \cup Launched]
        /\ launch'[c].target = launch[c].target
        /\ launch'[c].keep = launch[c].keep
        /\ \A d \in Launches \ {c} : launch'[d] = launch[d]
    BY <1>1, <1>2, <1>5 DEF Launched
  <2>2. OneForEach'
    BY <1>1, <1>2, <1>3, <1>5, <2>1 DEF OneForEach, Launching
  <2>3. NothingRuns'
    BY <1>3 DEF NothingRuns
  <2> QED BY <1>1, <1>3, <1>4, <1>5, <2>1, <2>2, <2>3 DEF KeepInv, KeepTypes
<1>6. ASSUME launch' = [launch EXCEPT ![c] = Keep!NoLaunch],
             clients' \subseteq clients \/ clients' = Keep!Spawned(launch[c])
      PROVE  KeepInv'
  <2>1. /\ launch' \in [Launches -> {Keep!NoLaunch} \cup Launched]
        /\ \A d \in Launches : launch'[d] # Keep!NoLaunch =>
             d # c /\ launch'[d] = launch[d]
    BY <1>1, <1>6
  <2>2. PICK k \in KeepClients : /\ k.target = launch[c].target
                                 /\ clients' \subseteq clients \cup {k}
    <3>1. PICK k \in KeepClients :
            /\ k.target = launch[c].target
            /\ Keep!Spawned(launch[c]) \subseteq clients \cup {k}
      BY <1>1, <1>2, SpawnedIsOne
    <3> QED BY <1>6, <3>1
  <2>3. OneForEach'
    BY <1>1, <1>2, <1>3, <2>1, <2>2 DEF OneForEach, Launching
  <2>4. NothingRuns'
    BY <1>3 DEF NothingRuns
  <2>5. clients' \subseteq KeepClients
    BY <1>1, <2>2
  <2> QED BY <1>1, <1>3, <1>4, <2>1, <2>3, <2>4, <2>5 DEF KeepInv, KeepTypes
<1> QED BY <1>5, <1>6 DEF Keep!StoreManifest, Keep!StartClient,
                          Keep!StoreFails, Keep!SpawnFails

\* A start restores, one after the other, the targets of its manifests.
LEMMA RestoreStep ==
  ASSUME KeepInv,
         \/ Keep!Start \/ Keep!Stop \/ Keep!RestoreUnavailable \/ Keep!Listen
         \/ \E c \in Launches : Keep!Restore(c)
  PROVE  KeepInv'
<1>1. /\ KeepTypes /\ CatalogsAreValid /\ NothingRuns /\ OneForEach
      /\ launch \in [Launches -> {Keep!NoLaunch} \cup Launched]
      /\ Keep!ValidCatalog(stored) /\ Keep!ValidCatalog(catalog)
      /\ tmux \in Seq(Nat) /\ toRestore \in Seq(Manifests)
  BY DEF KeepInv, KeepTypes, CatalogsAreValid
<1>2. CatalogsAreValid'
  <2>1. stored' = stored /\ catalog' \in {stored, catalog}
    BY DEF Keep!Start, Keep!Stop, Keep!RestoreUnavailable, Keep!Listen,
           Keep!Restore
  <2> QED BY <1>1, <2>1
          DEF CatalogsAreValid, Keep!ValidCatalog
<1>3. CASE Keep!Start
  <2> DEFINE s == Keep!First(MaxRestored, Keep!Selected(stored))
  <2>1. /\ s \in Seq(Manifests)
        /\ \A i, j \in DOMAIN s : s[i].target = s[j].target => i = j
    BY <1>1, SelectedOnce
  <2>2. /\ toRestore' = s /\ server = "down" /\ server' = "restoring"
        /\ catalog' = stored
        /\ UNCHANGED <<tmux, stored, launch, clients, created>>
    BY <1>3 DEF Keep!Start
  <2> HIDE DEF s
  <2>3. clients = {} /\ \A c \in Launches : ~Launching(c)
    BY <1>1, <2>2 DEF NothingRuns, Launching
  <2>4. OneForEach'
    BY <2>1, <2>2, <2>3 DEF OneForEach, Launching
  <2> QED BY <1>1, <1>2, <2>1, <2>2, <2>4 DEF KeepInv, KeepTypes, NothingRuns
<1>4. CASE Keep!Stop
  BY <1>1, <1>2, <1>4 DEF Keep!Stop, KeepInv, KeepTypes, NothingRuns, OneForEach
<1>5. ASSUME server = "restoring", server' = "restoring", toRestore # <<>>,
             toRestore' = Tail(toRestore)
      PROVE  /\ toRestore' \in Seq(Manifests)
             /\ \A i \in DOMAIN toRestore' : i + 1 \in DOMAIN toRestore
                  /\ toRestore'[i] = toRestore[i + 1] /\ i \in Nat /\ i # 0
             /\ \A i, j \in DOMAIN toRestore' :
                  toRestore'[i].target = toRestore'[j].target => i = j
             /\ \A i \in DOMAIN toRestore' :
                  toRestore'[i].target # Head(toRestore).target
  <2>1. /\ toRestore' \in Seq(Manifests)
        /\ Len(toRestore') = Len(toRestore) - 1
        /\ \A i \in 1..Len(toRestore') : toRestore'[i] = toRestore[i + 1]
        /\ Len(toRestore) \in Nat
    BY <1>1, <1>5, HeadTailProperties
  <2>2. \A i \in DOMAIN toRestore' : i + 1 \in DOMAIN toRestore
             /\ toRestore'[i] = toRestore[i + 1] /\ i \in Nat /\ i # 0
    BY <1>1, <2>1
  <2>3. Head(toRestore) = toRestore[1] /\ 1 \in DOMAIN toRestore
    BY <1>1, <1>5
  <2>4. \A i, j \in DOMAIN toRestore :
          toRestore[i].target = toRestore[j].target => i = j
    BY <1>1, <1>5 DEF OneForEach
  <2>5. ASSUME NEW i \in DOMAIN toRestore'
        PROVE  toRestore'[i].target # Head(toRestore).target
    <3>1. i + 1 # 1 /\ i + 1 \in DOMAIN toRestore
      BY <2>2
    <3> QED BY <2>2, <2>3, <2>4, <3>1
  <2>6. ASSUME NEW i \in DOMAIN toRestore', NEW j \in DOMAIN toRestore',
               toRestore'[i].target = toRestore'[j].target
        PROVE  i = j
    <3>1. i + 1 = j + 1
      BY <2>2, <2>4, <2>6
    <3> QED BY <2>2, <3>1
  <2> QED BY <2>1, <2>2, <2>5, <2>6
<1>6. CASE Keep!RestoreUnavailable
  <2>1. OneForEach'
    BY <1>1, <1>5, <1>6 DEF OneForEach, Launching, Keep!RestoreUnavailable
  <2> QED BY <1>1, <1>2, <1>5, <1>6, <2>1
          DEF KeepInv, KeepTypes, NothingRuns, Keep!RestoreUnavailable
<1>7. CASE Keep!Listen
  BY <1>1, <1>2, <1>7
     DEF KeepInv, KeepTypes, NothingRuns, OneForEach, Keep!Listen
<1>8. ASSUME NEW c \in Launches, Keep!Restore(c) PROVE KeepInv'
  <2> DEFINE m == Head(toRestore)
  <2>1. /\ server = "restoring" /\ toRestore # <<>>
        /\ toRestore' = Tail(toRestore)
        /\ \A d \in Launches : launch[d] = Keep!NoLaunch
        /\ Keep!Alive(m.target)
        /\ Keep!Begins(c, m.target, tmux[m.target], TRUE, m.name)
        /\ UNCHANGED <<tmux, catalog, stored, server, clients>>
    BY <1>8 DEF Keep!Restore, Keep!Quiet, Keep!Reattach
  <2>2. m \in Manifests /\ m = toRestore[1] /\ 1 \in DOMAIN toRestore
    BY <1>1, <2>1
  <2>3. m.target \in Nat /\ m.name \in Nat /\ tmux[m.target] \in Nat
    BY <1>1, <2>1, <2>2 DEF Manifests, Keep!Alive
  <2> HIDE DEF m
  <2>4. /\ created' \in Nat
        /\ launch' \in [Launches -> {Keep!NoLaunch} \cup Launched]
        /\ launch'[c].target = m.target /\ launch'[c].keep
        /\ \A d \in Launches \ {c} : launch'[d] = launch[d]
    BY <1>1, <2>1, <2>3, LaunchBegins
  <2>5. \A k \in clients : k.target # m.target
    BY <1>1, <2>1, <2>2 DEF OneForEach
  <2>6. \A d \in Launches : launch'[d] # Keep!NoLaunch => d = c
    BY <2>1, <2>4
  <2>7. OneForEach'
    BY <1>1, <1>5, <2>1, <2>4, <2>5, <2>6 DEF OneForEach, Launching, m
  <2>8. KeepTypes'
    BY <1>1, <1>5, <2>1, <2>4 DEF KeepTypes
  <2> QED BY <1>2, <2>1, <2>7, <2>8 DEF KeepInv, NothingRuns
<1> QED BY <1>3, <1>4, <1>6, <1>7, <1>8

\* The sessions of tmux end, and their clients with them.
LEMMA TmuxStep ==
  ASSUME KeepInv,
         \/ Keep!ForeignSession \/ Keep!TmuxRestarts
         \/ \E i \in DOMAIN tmux : Keep!TmuxEnds(i)
  PROVE  KeepInv'
<1>1. /\ KeepTypes /\ CatalogsAreValid /\ NothingRuns /\ OneForEach
      /\ tmux \in Seq(Nat)
  BY DEF KeepInv, KeepTypes
<1>2. /\ clients' \subseteq clients
      /\ UNCHANGED <<catalog, stored, server, toRestore, launch, created>>
  BY DEF Keep!ForeignSession, Keep!TmuxRestarts, Keep!TmuxEnds
<1>3. tmux' \in Seq(Nat)
  <2>1. CASE Keep!ForeignSession
    BY <1>1, <2>1 DEF Keep!ForeignSession, Keep!Foreign
  <2>2. CASE Keep!TmuxRestarts
    BY <2>2 DEF Keep!TmuxRestarts
  <2>3. ASSUME NEW i \in DOMAIN tmux, Keep!TmuxEnds(i) PROVE tmux' \in Seq(Nat)
    BY <1>1, <2>3 DEF Keep!TmuxEnds, Keep!Ended
  <2> QED BY <2>1, <2>2, <2>3
<1>4. KeepTypes'
  BY <1>1, <1>2, <1>3 DEF KeepTypes
<1>5. CatalogsAreValid'
  BY <1>1, <1>2 DEF CatalogsAreValid, Keep!ValidCatalog
<1>6. NothingRuns'
  BY <1>1, <1>2 DEF NothingRuns
<1>7. OneForEach'
  BY <1>1, <1>2 DEF OneForEach, Launching
<1> QED BY <1>4, <1>5, <1>6, <1>7 DEF KeepInv

\* There is nothing at first.
LEMMA KeepStarts == Keep!KeepInit => KeepInv
<1> SUFFICES ASSUME Keep!KeepInit PROVE KeepInv
  OBVIOUS
<1>1. KeepTypes
  BY DEF Keep!KeepInit, KeepTypes
<1>2. CatalogsAreValid
  BY KeepAssumption
     DEF Keep!KeepInit, CatalogsAreValid,
         Keep!ValidCatalog
<1> QED BY <1>1, <1>2 DEF Keep!KeepInit, KeepInv, NothingRuns, OneForEach

\* Every step of the keep-alive terminals keeps their invariant, ...
LEMMA KeepStep == ASSUME KeepInv, Keep!KeepNext PROVE KeepInv'
BY CreateStep, ManifestStep, LaunchStep, RestoreStep, TmuxStep DEF Keep!KeepNext

\* ... and so does a step of another service.
LEMMA KeepUnchanged == ASSUME KeepInv, UNCHANGED keepVars PROVE KeepInv'
BY DEF keepVars, KeepInv, KeepTypes, NothingRuns, OneForEach, Launching,
       CatalogsAreValid, Keep!ValidCatalog

\* Both make it an invariant.
LEMMA KeepInvariance == StartupSpec => []KeepInv
<1>1. StartupInit => KeepInv
  BY KeepStarts DEF StartupInit
<1>2. KeepInv /\ [StartupNext]_allVars => KeepInv'
  BY KeepStep, KeepUnchanged
     DEF StartupNext, ObserverMoves, KeepMoves, SetupMoves, allVars
<1> QED BY <1>1, <1>2, PTL DEF StartupSpec

\* While a start restores the terminals, each target has one client at most.
THEOREM RestoredIsOne == StartupSpec => []RestoredOnce
<1>1. KeepInv => RestoredOnce
  BY DEF KeepInv, OneForEach, RestoredOnce, Keep!RestoredOnce
<1> QED BY <1>1, KeepInvariance, PTL

-----------------------------------------------------------------------------
(* The manifests that a restart needs.                                     *)

\* A create() has a number of its own, and its manifest is stored once.
SessionsAreNew ==
  /\ \A n \in Keep!Range(catalog) \cup Keep!Range(stored) :
       n.session <= created
  /\ \A c \in Launches : Launching(c) => launch[c].session <= created
  /\ \A c, d \in Launches :
       Launching(c) /\ Launching(d) /\ launch[c].session = launch[d].session
         => c = d
  /\ \A c \in Launches : Launching(c) /\ launch[c].stage # "stored" =>
       \A n \in Keep!Range(catalog) : n.session # launch[c].session

\* One manifest is written at a time, to the catalog as it is.
WritesInTurn ==
  /\ \A c, d \in Launches :
       launch[c].stage = "writing" /\ launch[d].stage = "writing" => c = d
  /\ \A c \in Launches : launch[c].stage = "writing" =>
       launch[c].next = Keep!Upserted(Keep!Manifest(launch[c]))

\* Only writes that were answered as failed put the file before the memory.
FileFollows ==
  \A n \in Keep!Range(stored) :
    n \in Keep!Range(catalog) \/ n.session \in unsure

FoundInBoth(k) == Keep!Found(k, catalog) /\ Keep!Found(k, stored)

\* The manifests of the clients, and of those that are about to start.
AllAreFound ==
  /\ \A k \in clients : k.keep => FoundInBoth(k)
  /\ \A c \in Launches : launch[c].stage = "stored" => FoundInBoth(launch[c])

\* The inductive invariant that the properties of the manifests need.
RecordsInv == SessionsAreNew /\ WritesInTurn /\ FileFollows /\ AllAreFound

\* What is found does not depend on how it is asked for.
LEMMA SameIsFound ==
  ASSUME NEW k, NEW l, NEW s,
         k.session = l.session, k.target = l.target, k.keep = l.keep,
         Keep!Found(k, s)
  PROVE  Keep!Found(l, s)
BY DEF Keep!Found

\* A launch that is under way is one of the records of a launch.
LEMMA LaunchIsTyped ==
  ASSUME KeepTypes, NEW c \in Launches,
         Launching(c) \/ launch[c].stage \in {"target", "writing", "stored"}
  PROVE  launch[c] \in Launched /\ Launching(c)
BY DEF KeepTypes, Launching, Keep!NoLaunch

\* The catalogs hold manifests.
LEMMA CatalogIsTyped ==
  ASSUME KeepTypes
  PROVE  \A n \in Keep!Range(catalog) \cup Keep!Range(stored) : n \in Manifests
<1>1. catalog \in Seq(Manifests) /\ stored \in Seq(Manifests)
  BY DEF KeepTypes
<1> QED BY <1>1 DEF Keep!Range

\* While the catalogs stay as they are, launches may end, and clients may
\* start of which the manifest is stored.
LEMMA RecordsGoOn ==
  ASSUME KeepTypes, KeepTypes', RecordsInv,
         UNCHANGED <<catalog, stored, unsure>>,
         created' >= created,
         \A c \in Launches : launch'[c] \in {launch[c], Keep!NoLaunch},
         \A k \in clients' : k.keep => FoundInBoth(k)
  PROVE  RecordsInv'
<1>1. created \in Nat /\ created' \in Nat
  BY DEF KeepTypes
<1>2. \A n \in Keep!Range(catalog) \cup Keep!Range(stored) : n.session \in Nat
  BY CatalogIsTyped DEF Manifests
<1>3. \A c \in Launches : launch'[c].stage # "none" => launch'[c] = launch[c]
  BY DEF Keep!NoLaunch
<1>4. \A c \in Launches : Launching(c)' =>
        Launching(c) /\ launch'[c] = launch[c] /\ launch[c].session \in Nat
  BY LaunchIsTyped DEF Launching, Launched
<1>5. SessionsAreNew'
  <2>1. \A n \in Keep!Range(catalog') \cup Keep!Range(stored') :
          n.session <= created'
    BY <1>1, <1>2 DEF RecordsInv, SessionsAreNew
  <2>2. \A c \in Launches : Launching(c)' => launch'[c].session <= created'
    BY <1>1, <1>4 DEF RecordsInv, SessionsAreNew
  <2> QED BY <1>4, <2>1, <2>2 DEF RecordsInv, SessionsAreNew
<1>6. WritesInTurn'
  BY <1>3 DEF RecordsInv, WritesInTurn, Keep!Upserted, Keep!Manifest
<1>7. FileFollows'
  BY DEF RecordsInv, FileFollows
<1>8. AllAreFound'
  BY <1>3 DEF RecordsInv, AllAreFound, FoundInBoth
<1> QED BY <1>5, <1>6, <1>7, <1>8 DEF RecordsInv

\* A create() begins with a number that no manifest has.
LEMMA RecordsBegin ==
  ASSUME KeepTypes, KeepTypes', RecordsInv, NEW c \in Launches,
         NEW target, NEW name, NEW keep, NEW was,
         Keep!Begins(c, target, name, keep, was),
         UNCHANGED <<catalog, stored, unsure, clients>>
  PROVE  RecordsInv'
<1> DEFINE l == [stage |-> "target", session |-> created', target |-> target,
                 name |-> name, keep |-> keep, was |-> was, next |-> <<>>]
<1>1. /\ created \in Nat /\ created' = created + 1
      /\ launch' = [launch EXCEPT ![c] = l]
      /\ launch \in [Launches -> {Keep!NoLaunch} \cup Launched]
  BY DEF KeepTypes, Keep!Begins
<1>2. l.stage = "target" /\ l.session = created + 1
  BY <1>1
<1> HIDE DEF l
<1>3. launch'[c] = l /\ \A d \in Launches \ {c} : launch'[d] = launch[d]
  BY <1>1
<1>4. \A n \in Keep!Range(catalog) \cup Keep!Range(stored) :
        n.session \in Nat /\ n.session <= created
  BY CatalogIsTyped DEF Manifests, RecordsInv, SessionsAreNew
<1>5. \A d \in Launches : Launching(d) =>
        launch[d].session \in Nat /\ launch[d].session <= created
  BY LaunchIsTyped DEF Launched, RecordsInv, SessionsAreNew
<1>6. SessionsAreNew'
  <2>1. \A n \in Keep!Range(catalog') \cup Keep!Range(stored') :
          n.session <= created' /\ n.session # created'
    BY <1>1, <1>4
  <2>2. \A d \in Launches \ {c} : Launching(d)' => Launching(d)
    BY <1>3 DEF Launching
  <2>3. \A d \in Launches \ {c} : Launching(d)' =>
          launch'[d].session <= created' /\ launch'[d].session # created'
    BY <1>1, <1>3, <1>5, <2>2
  <2>4. launch'[c].session = created' /\ created' <= created'
    BY <1>1, <1>2, <1>3
  <2>5. \A d, e \in Launches :
          /\ Launching(d)' /\ Launching(e)'
          /\ launch'[d].session = launch'[e].session
          => d = e
    BY <1>3, <2>2, <2>3, <2>4 DEF RecordsInv, SessionsAreNew
  <2>6. ASSUME NEW d \in Launches, Launching(d)', launch'[d].stage # "stored",
               NEW n \in Keep!Range(catalog')
        PROVE  n.session # launch'[d].session
    BY <1>3, <2>1, <2>2, <2>4, <2>6 DEF RecordsInv, SessionsAreNew
  <2> QED BY <2>1, <2>3, <2>4, <2>5, <2>6 DEF SessionsAreNew
<1>7. \A d \in Launches : launch'[d].stage \in {"writing", "stored"} =>
        launch'[d] = launch[d]
  BY <1>2, <1>3
<1>8. WritesInTurn'
  BY <1>7 DEF RecordsInv, WritesInTurn, Keep!Upserted, Keep!Manifest
<1>9. FileFollows'
  BY DEF RecordsInv, FileFollows
<1>10. AllAreFound'
  BY <1>7 DEF RecordsInv, AllAreFound, FoundInBoth
<1> QED BY <1>6, <1>8, <1>9, <1>10 DEF RecordsInv

\* The steps that write nothing.
LEMMA RecordsRest ==
  ASSUME KeepInv, KeepTypes', RecordsInv,
         \/ Keep!ForeignSession \/ Keep!TmuxRestarts \/ Keep!Stop
         \/ Keep!RestoreUnavailable \/ Keep!Listen
         \/ \E i \in DOMAIN tmux : Keep!TmuxEnds(i)
         \/ \E c \in Launches :
              Keep!LaunchLost(c) \/ Keep!SpawnFails(c) \/ Keep!StartClient(c)
  PROVE  RecordsInv'
<1>1. KeepTypes /\ created \in Nat /\ created <= created
      /\ launch \in [Launches -> {Keep!NoLaunch} \cup Launched]
  BY DEF KeepInv, KeepTypes
<1>2. UNCHANGED <<catalog, stored, unsure>>
  BY DEF Keep!ForeignSession, Keep!TmuxRestarts, Keep!Stop,
         Keep!RestoreUnavailable, Keep!Listen, Keep!TmuxEnds, Keep!LaunchLost,
         Keep!SpawnFails, Keep!StartClient
<1>3. created' >= created
  BY <1>1 DEF Keep!ForeignSession, Keep!TmuxRestarts, Keep!Stop,
         Keep!RestoreUnavailable, Keep!Listen, Keep!TmuxEnds, Keep!LaunchLost,
         Keep!SpawnFails, Keep!StartClient
<1>4. \A c \in Launches : launch'[c] \in {launch[c], Keep!NoLaunch}
  BY <1>1 DEF Keep!ForeignSession, Keep!TmuxRestarts, Keep!Stop,
         Keep!RestoreUnavailable, Keep!Listen, Keep!TmuxEnds, Keep!LaunchLost,
         Keep!SpawnFails, Keep!StartClient
<1>5. ASSUME NEW c \in Launches, Keep!StartClient(c), NEW k \in clients', k.keep
      PROVE  FoundInBoth(k)
  <2>1. /\ launch[c].stage = "stored" /\ clients' = Keep!Spawned(launch[c])
    BY <1>5 DEF Keep!StartClient
  <2>2. launch[c] \in Launched /\ FoundInBoth(launch[c])
    BY <1>1, <2>1, LaunchIsTyped DEF RecordsInv, AllAreFound
  <2>3. PICK l \in KeepClients :
          /\ l.session = launch[c].session /\ l.target = launch[c].target
          /\ l.keep = launch[c].keep
          /\ Keep!Spawned(launch[c]) \subseteq clients \cup {l}
    BY <1>1, <2>2, SpawnedIsOne
  <2>4. FoundInBoth(l)
    BY <2>2, <2>3, SameIsFound DEF FoundInBoth
  <2> QED BY <1>5, <2>1, <2>3, <2>4 DEF RecordsInv, AllAreFound
<1>6. (\A c \in Launches : ~Keep!StartClient(c)) => clients' \subseteq clients
  BY DEF Keep!ForeignSession, Keep!TmuxRestarts, Keep!Stop,
         Keep!RestoreUnavailable, Keep!Listen, Keep!TmuxEnds, Keep!LaunchLost,
         Keep!SpawnFails
<1>7. \A k \in clients' : k.keep => FoundInBoth(k)
  BY <1>5, <1>6 DEF RecordsInv, AllAreFound
<1> QED BY <1>1, <1>2, <1>3, <1>4, <1>7, RecordsGoOn

\* The other steps of create() that begin it.
LEMMA RecordsCreate ==
  ASSUME KeepInv, KeepTypes', RecordsInv, NEW c \in Launches,
         \/ Keep!LaunchKeepAlive(c) \/ Keep!CreateDirect(c) \/ Keep!Restore(c)
         \/ \E i \in DOMAIN tmux : Keep!Attach(c, i)
         \/ \E i \in DOMAIN catalog : Keep!Relaunch(c, catalog[i])
  PROVE  RecordsInv'
<1>1. KeepTypes
  BY DEF KeepInv
<1>2. UNCHANGED <<catalog, stored, unsure, clients>>
  BY DEF Keep!LaunchKeepAlive, Keep!CreateDirect, Keep!Restore, Keep!Attach,
         Keep!Relaunch
<1>3. \E target, name, keep, was : Keep!Begins(c, target, name, keep, was)
  BY DEF Keep!LaunchKeepAlive, Keep!CreateDirect, Keep!Restore, Keep!Attach,
         Keep!Relaunch, Keep!Reattach
<1> QED BY <1>1, <1>2, <1>3, RecordsBegin

\* A write begins when no other is under way.
LEMMA RecordsWrite ==
  ASSUME KeepInv, KeepTypes', RecordsInv, NEW c \in Launches,
         Keep!StoreBegins(c)
  PROVE  RecordsInv'
<1> DEFINE up == Keep!Upserted(Keep!Manifest(launch[c]))
<1>1. /\ KeepTypes /\ created \in Nat
      /\ launch \in [Launches -> {Keep!NoLaunch} \cup Launched]
      /\ launch[c].stage = "target"
      /\ \A d \in Launches : launch[d].stage # "writing"
      /\ launch' = [launch EXCEPT ![c].stage = "writing", ![c].next = up]
      /\ UNCHANGED <<catalog, stored, created, unsure>>
  BY DEF KeepInv, KeepTypes, Keep!StoreBegins, Keep!WriteBegins
<1>2. launch[c] \in Launched /\ Launching(c)
  BY <1>1, LaunchIsTyped
<1>3. /\ launch'[c].session = launch[c].session
      /\ launch'[c].target = launch[c].target
      /\ launch'[c].name = launch[c].name /\ launch'[c].keep = launch[c].keep
  BY <1>1, <1>2 DEF Launched
<1>4. (Keep!Upserted(Keep!Manifest(launch[c])))' = up
  <2> DEFINE m == Keep!Manifest(launch[c])
  <2>1. m' = m
    BY <1>3 DEF Keep!Manifest
  <2> QED BY <1>1, <2>1 DEF Keep!Upserted
<1> HIDE DEF up
<1>5. /\ launch'[c].stage = "writing" /\ launch'[c].next = up
      /\ launch'[c].session = launch[c].session
      /\ \A d \in Launches \ {c} : launch'[d] = launch[d]
  BY <1>1, <1>2 DEF Launched
<1>6. \A d \in Launches : Launching(d)' => Launching(d)
        /\ launch'[d].session = launch[d].session
        /\ (launch'[d].stage # "stored" => launch[d].stage # "stored")
  BY <1>1, <1>2, <1>5 DEF Launching
<1>7. SessionsAreNew'
  BY <1>1, <1>6 DEF RecordsInv, SessionsAreNew
<1>8. WritesInTurn'
  <2>1. \A d \in Launches : launch'[d].stage = "writing" => d = c
    BY <1>1, <1>5
  <2>2. launch'[c].next = (Keep!Upserted(Keep!Manifest(launch[c])))'
    BY <1>4, <1>5
  <2> QED BY <2>1, <2>2 DEF WritesInTurn
<1>9. FileFollows'
  BY <1>1 DEF RecordsInv, FileFollows
<1>10. AllAreFound'
  <2>1. ASSUME NEW k \in clients', k.keep PROVE FoundInBoth(k)'
    <3>1. k \in clients
      <4>1. CASE launch[c].keep
        BY <2>1, <4>1 DEF Keep!StoreBegins, Keep!WriteBegins
      <4>2. CASE ~launch[c].keep
        <5>1. clients' = Keep!Spawned(launch[c])
          BY <4>2 DEF Keep!StoreBegins, Keep!WriteBegins
        <5> QED BY <1>1, <1>2, <2>1, <4>2, <5>1, SpawnedIsOne
      <4> QED BY <4>1, <4>2
    <3> QED BY <1>1, <2>1, <3>1 DEF RecordsInv, AllAreFound, FoundInBoth
  <2>2. \A d \in Launches :
          launch'[d].stage = "stored" => launch'[d] = launch[d]
    BY <1>5
  <2> QED BY <1>1, <2>1, <2>2 DEF RecordsInv, AllAreFound, FoundInBoth
<1> QED BY <1>7, <1>8, <1>9, <1>10 DEF RecordsInv

\* What a write makes of the file and the memory.
LEMMA WriteFinds ==
  ASSUME KeepInv, RecordsInv, NEW c \in Launches, launch[c].stage = "writing"
  PROVE  LET next == launch[c].next
         IN  /\ Keep!Found(launch[c], next)
             /\ \A k : k.session \in Nat /\ Keep!Found(k, catalog)
                         => Keep!Found(k, next)
             /\ \A n \in Keep!Range(next) :
                  n \in Keep!Range(catalog) \/ n.session = launch[c].session
<1> DEFINE m == Keep!Manifest(launch[c])
<1>1. KeepTypes /\ CatalogsAreValid /\ launch[c] \in Launched /\ Launching(c)
  BY LaunchIsTyped DEF KeepInv
<1>2. /\ m \in Manifests /\ m.session = launch[c].session
      /\ m.target = launch[c].target /\ m.keep = launch[c].keep
  BY <1>1 DEF Keep!Manifest, Launched, Manifests
<1>3. launch[c].next = Keep!Upserted(m)
  BY DEF RecordsInv, WritesInTurn
<1>4. \A n \in Keep!Range(catalog) : n.session # m.session
  BY <1>1, <1>2 DEF RecordsInv, SessionsAreNew
<1> HIDE DEF m
<1>5. Keep!Found(m, Keep!Upserted(m))
      /\ \A k : k.session \in Nat /\ Keep!Found(k, catalog)
                  => Keep!Found(k, Keep!Upserted(m))
  BY <1>1, <1>2, <1>4, UpsertFinds
<1>6. Keep!Range(Keep!Upserted(m)) \subseteq {m} \cup Keep!Range(catalog)
  BY <1>1, <1>2, UpsertIsValid DEF Keep!Range
<1> QED BY <1>2, <1>3, <1>5, <1>6, SameIsFound

\* A manifest is stored: the others stay, and its client may start.
LEMMA RecordsStored ==
  ASSUME KeepInv, KeepTypes', RecordsInv, NEW c \in Launches,
         Keep!StoreManifest(c)
  PROVE  RecordsInv'
<1> DEFINE next == launch[c].next
<1>1. /\ KeepTypes /\ launch[c].stage = "writing"
      /\ launch \in [Launches -> {Keep!NoLaunch} \cup Launched]
      /\ catalog' = next /\ stored' = next
      /\ UNCHANGED <<created, unsure, clients>>
  BY DEF KeepInv, KeepTypes, Keep!StoreManifest, Keep!UpsertOk
<1>2. launch[c] \in Launched /\ Launching(c)
  BY <1>1, LaunchIsTyped
<1>3. /\ \A d \in Launches \ {c} : launch'[d] = launch[d]
      /\ \/ launch'[c] = Keep!NoLaunch
         \/ /\ launch'[c].stage = "stored"
            /\ launch'[c].session = launch[c].session
            /\ launch'[c].target = launch[c].target
            /\ launch'[c].keep = launch[c].keep
  BY <1>1, <1>2 DEF Keep!StoreManifest, Launched
<1>4. /\ Keep!Found(launch[c], next)
      /\ \A k : k.session \in Nat /\ Keep!Found(k, catalog)
                  => Keep!Found(k, next)
      /\ \A n \in Keep!Range(next) :
           n \in Keep!Range(catalog) \/ n.session = launch[c].session
  BY <1>1, WriteFinds
<1> HIDE DEF next
<1>5. \A d \in Launches : launch[d].stage = "writing" => d = c
  BY <1>1 DEF RecordsInv, WritesInTurn
<1>6. \A d \in Launches : launch'[d].stage # "writing"
  BY <1>3, <1>5 DEF Keep!NoLaunch
<1>7. SessionsAreNew'
  <2>1. \A n \in Keep!Range(catalog') \cup Keep!Range(stored') :
          n.session <= created'
    BY <1>1, <1>2, <1>4 DEF RecordsInv, SessionsAreNew
  <2>2. \A d \in Launches : Launching(d)' => Launching(d)
          /\ launch'[d].session = launch[d].session
    BY <1>2, <1>3 DEF Launching
  <2>3. ASSUME NEW d \in Launches, Launching(d)', launch'[d].stage # "stored",
               NEW n \in Keep!Range(catalog')
        PROVE  n.session # launch'[d].session
    <3>1. d # c /\ launch'[d] = launch[d] /\ Launching(d)
      BY <1>3, <2>2, <2>3 DEF Launching
    <3>2. launch[d].session # launch[c].session
      BY <1>2, <3>1 DEF RecordsInv, SessionsAreNew
    <3>3. n \in Keep!Range(catalog) \/ n.session = launch[c].session
      BY <1>1, <1>4, <2>3
    <3> QED BY <2>3, <3>1, <3>2, <3>3 DEF RecordsInv, SessionsAreNew
  <2> QED BY <1>1, <2>1, <2>2, <2>3 DEF RecordsInv, SessionsAreNew
<1>8. WritesInTurn'
  BY <1>6 DEF WritesInTurn
<1>9. FileFollows'
  BY <1>1 DEF FileFollows
<1>10. AllAreFound'
  <2>1. ASSUME NEW k \in clients', k.keep PROVE FoundInBoth(k)'
    <3>1. k \in clients /\ k.session \in Nat
      BY <1>1, <2>1 DEF KeepTypes, KeepClients
    <3>2. Keep!Found(k, catalog)
      BY <2>1, <3>1 DEF RecordsInv, AllAreFound, FoundInBoth
    <3> QED BY <1>1, <1>4, <3>1, <3>2 DEF FoundInBoth
  <2>2. ASSUME NEW d \in Launches, launch'[d].stage = "stored"
        PROVE  FoundInBoth(launch[d])'
    <3>1. CASE d = c
      <4>1. Keep!Found(launch'[c], next)
        BY <1>3, <1>4, <2>2, <3>1, SameIsFound DEF Keep!NoLaunch
      <4> QED BY <1>1, <3>1, <4>1 DEF FoundInBoth
    <3>2. CASE d # c
      <4>1. launch'[d] = launch[d] /\ launch[d].stage = "stored"
        BY <1>3, <2>2, <3>2
      <4>2. launch[d].session \in Nat /\ Keep!Found(launch[d], catalog)
        BY <1>1, <4>1, LaunchIsTyped
           DEF Launched, RecordsInv, AllAreFound, FoundInBoth
      <4> QED BY <1>1, <1>4, <4>1, <4>2 DEF FoundInBoth
    <3> QED BY <3>1, <3>2
  <2> QED BY <2>1, <2>2 DEF AllAreFound
<1> QED BY <1>7, <1>8, <1>9, <1>10 DEF RecordsInv

\* A write fails; the file may hold the manifest or not.
LEMMA RecordsFail ==
  ASSUME KeepInv, KeepTypes', RecordsInv, NEW c \in Launches,
         Keep!StoreFails(c)
  PROVE  RecordsInv'
<1> DEFINE next == launch[c].next
<1>1. /\ KeepTypes /\ launch[c].stage = "writing"
      /\ launch \in [Launches -> {Keep!NoLaunch} \cup Launched]
      /\ \/ stored' = stored /\ unsure' = unsure
         \/ stored' = next /\ unsure' = unsure \cup {launch[c].session}
      /\ UNCHANGED <<created, catalog>>
      /\ clients' \subseteq clients
      /\ launch' = [launch EXCEPT ![c] = Keep!NoLaunch]
  BY DEF KeepInv, KeepTypes, Keep!StoreFails, Keep!UpsertFails
<1>2. launch[c] \in Launched /\ Launching(c)
  BY <1>1, LaunchIsTyped
<1>3. /\ Keep!Found(launch[c], next)
      /\ \A k : k.session \in Nat /\ Keep!Found(k, catalog)
                  => Keep!Found(k, next)
      /\ \A n \in Keep!Range(next) :
           n \in Keep!Range(catalog) \/ n.session = launch[c].session
  BY <1>1, WriteFinds
<1> HIDE DEF next
<1>4. \A d \in Launches : launch'[d].stage # "none" =>
        d # c /\ launch'[d] = launch[d]
  BY <1>1 DEF Keep!NoLaunch
<1>5. \A d \in Launches : Launching(d)' =>
        Launching(d) /\ launch'[d] = launch[d]
  BY <1>1 DEF Launching
<1>6. SessionsAreNew'
  <2>1. \A n \in Keep!Range(catalog') \cup Keep!Range(stored') :
          n.session <= created'
    BY <1>1, <1>2, <1>3 DEF RecordsInv, SessionsAreNew
  <2> QED BY <1>1, <1>5, <2>1 DEF RecordsInv, SessionsAreNew
<1>7. WritesInTurn'
  BY <1>1, <1>4 DEF RecordsInv, WritesInTurn, Keep!Upserted, Keep!Manifest
<1>8. FileFollows'
  BY <1>1, <1>3 DEF RecordsInv, FileFollows
<1>9. AllAreFound'
  <2>1. ASSUME NEW k, k.session \in Nat, FoundInBoth(k) PROVE FoundInBoth(k)'
    BY <1>1, <1>3, <2>1 DEF FoundInBoth
  <2>2. \A k \in clients' : k.keep => k.session \in Nat /\ FoundInBoth(k)
    BY <1>1 DEF KeepTypes, KeepClients, RecordsInv, AllAreFound
  <2>3. \A d \in Launches : launch'[d].stage = "stored" =>
          /\ launch'[d] = launch[d] /\ launch[d].session \in Nat
          /\ FoundInBoth(launch[d])
    BY <1>1, <1>4, LaunchIsTyped DEF Launched, RecordsInv, AllAreFound
  <2>4. \A k \in clients' : k.keep => FoundInBoth(k)'
    BY <2>1, <2>2
  <2>5. ASSUME NEW d \in Launches, launch'[d].stage = "stored"
        PROVE  FoundInBoth(launch[d])'
    <3>1. launch'[d] = launch[d] /\ FoundInBoth(launch[d])
          /\ launch[d].session \in Nat
      BY <2>3, <2>5
    <3> QED BY <1>1, <1>3, <3>1 DEF FoundInBoth
  <2> QED BY <2>4, <2>5 DEF AllAreFound
<1> QED BY <1>6, <1>7, <1>8, <1>9 DEF RecordsInv

\* A start reads the file: the memory follows it again.
LEMMA RecordsStart ==
  ASSUME KeepInv, RecordsInv, Keep!Start PROVE RecordsInv'
<1>1. /\ catalog' = stored /\ clients = {}
      /\ \A c \in Launches : launch[c] = Keep!NoLaunch
      /\ UNCHANGED <<stored, launch, clients, created>>
  BY DEF KeepInv, NothingRuns, Keep!Start
<1>2. SessionsAreNew'
  BY <1>1 DEF RecordsInv, SessionsAreNew, Launching
<1>3. WritesInTurn' /\ AllAreFound'
  BY <1>1 DEF WritesInTurn, AllAreFound, Keep!NoLaunch
<1>4. FileFollows'
  BY <1>1 DEF FileFollows
<1> QED BY <1>2, <1>3, <1>4 DEF RecordsInv

\* There are no manifests at first, ...
LEMMA RecordsInitially == Keep!KeepInit => RecordsInv
<1> SUFFICES ASSUME Keep!KeepInit PROVE RecordsInv
  OBVIOUS
<1>1. Keep!Range(catalog) = {} /\ Keep!Range(stored) = {}
  BY DEF Keep!KeepInit, Keep!Range
<1> QED BY <1>1 DEF Keep!KeepInit, RecordsInv, SessionsAreNew, WritesInTurn,
                    FileFollows, AllAreFound, Launching, Keep!NoLaunch

\* ... every step keeps what a restart needs of them, ...
LEMMA RecordsStep ==
  ASSUME KeepInv, KeepInv', RecordsInv, Keep!KeepNext PROVE RecordsInv'
<1>1. KeepTypes'
  BY DEF KeepInv
<1> QED BY <1>1, RecordsRest, RecordsCreate, RecordsWrite, RecordsStored,
           RecordsFail, RecordsStart
        DEF Keep!KeepNext

\* ... and so does a step of another service.
LEMMA RecordsUnchanged ==
  ASSUME RecordsInv, UNCHANGED keepVars PROVE RecordsInv'
<1>1. UNCHANGED <<catalog, stored, launch, clients, created, unsure>>
  BY DEF keepVars
<1>2. SessionsAreNew'
  BY <1>1 DEF RecordsInv, SessionsAreNew, Launching
<1>3. WritesInTurn'
  BY <1>1 DEF RecordsInv, WritesInTurn, Keep!Upserted, Keep!Manifest
<1>4. FileFollows' /\ AllAreFound'
  BY <1>1 DEF RecordsInv, FileFollows, AllAreFound, FoundInBoth
<1> QED BY <1>2, <1>3, <1>4 DEF RecordsInv

LEMMA RecordsInvariance == StartupSpec => []RecordsInv
<1>1. StartupInit => RecordsInv
  BY RecordsInitially DEF StartupInit
<1>2. KeepInv /\ KeepInv' /\ RecordsInv /\ [StartupNext]_allVars => RecordsInv'
  BY RecordsStep, RecordsUnchanged
     DEF StartupNext, ObserverMoves, KeepMoves, SetupMoves, allVars
<1> QED BY <1>1, <1>2, KeepInvariance, PTL DEF StartupSpec

\* A keep-alive client runs only while the file of the manifests holds the one
\* by which a restarted server finds its target, or is full of newer ones:
\* create() stores it first, and neither a failed write nor a full catalog
\* undoes that.
THEOREM Recoverable == StartupSpec => []TargetsRecoverable
<1>1. RecordsInv => TargetsRecoverable
  BY DEF RecordsInv, AllAreFound, FoundInBoth, TargetsRecoverable,
         Keep!TargetsRecoverable
<1> QED BY <1>1, RecordsInvariance, PTL

\* One step of the keep-alive terminals: what leaves the file gave way to newer
\* manifests, or had never been answered as stored.
LEMMA ManifestsStay ==
  ASSUME KeepInv, RecordsInv, Keep!KeepNext, NEW n \in Keep!Range(stored)
  PROVE  Keep!Found(n, stored') \/ n.session \in unsure
<1>1. KeepTypes /\ n.session \in Nat
  BY CatalogIsTyped DEF KeepInv, Manifests
<1>2. CASE stored' = stored
  BY <1>2 DEF Keep!Found
<1>3. CASE stored' # stored
  <2>1. PICK c \in Launches : Keep!StoreManifest(c) \/ Keep!StoreFails(c)
    BY <1>3 DEF Keep!KeepNext, Keep!ForeignSession, Keep!TmuxRestarts,
         Keep!Stop, Keep!Start, Keep!RestoreUnavailable, Keep!Listen,
         Keep!TmuxEnds,
         Keep!LaunchLost, Keep!SpawnFails, Keep!StartClient, Keep!StoreBegins,
         Keep!WriteBegins, Keep!LaunchKeepAlive, Keep!CreateDirect,
         Keep!Restore, Keep!Attach, Keep!Relaunch
  <2>2. launch[c].stage = "writing" /\ stored' = launch[c].next
    BY <1>3, <2>1 DEF Keep!StoreManifest, Keep!StoreFails, Keep!UpsertOk,
                      Keep!UpsertFails
  <2>3. n \in Keep!Range(catalog) \/ n.session \in unsure
    BY DEF RecordsInv, FileFollows
  <2>4. n \in Keep!Range(catalog) => Keep!Found(n, catalog)
    BY DEF Keep!Found
  <2> QED BY <1>1, <2>2, <2>3, <2>4, WriteFinds
<1> QED BY <1>2, <1>3

\* However the writes of launches fail, wait for each other or meet a restart,
\* a manifest leaves the file only for newer ones at the limit, or when its own
\* write had been answered as failed.
THEOREM ManifestsKept == StartupSpec => ManifestsAreKept
<1>1. KeepInv /\ RecordsInv /\ [StartupNext]_allVars =>
        [\A n \in Keep!Range(stored) :
           Keep!Found(n, stored') \/ n.session \in unsure]_(Keep!keepVars)
  BY ManifestsStay
     DEF StartupNext, ObserverMoves, KeepMoves, SetupMoves, allVars, keepVars,
         Keep!keepVars
<1> QED BY <1>1, KeepInvariance, RecordsInvariance, PTL
        DEF StartupSpec, ManifestsAreKept, Keep!ManifestsAreKept

-----------------------------------------------------------------------------
(* Remote access to Meta.                                                  *)

\* Where a request is that may change the setup, and past its inspection.
Changing == {"serves", "stores", "stored", "rolls back"}
Applying == Changing \cup {"inspects"}
Attaching == {"discovers", "attaches"}
Stages == Applying \cup Attaching \cup {"joins apply", "joins meta"}

\* The types of the setup's state.
SetupTypes ==
  /\ caller \in [Callers ->
       {Setup!NoRequest} \cup [stage : Stages, name : Names]]
  /\ document \in Names \cup {NoName}
  /\ metaName \in Names \cup {NoName}
  /\ environment \in Setup!AllEnvironments
  /\ remote \in {"off", "setup", "own", "other"}
  /\ metaSession \in {Setup!NoMeta} \cup Setup!ClientIds
  /\ tmuxClients \in [Setup!ClientIds ->
       [state : {"none", "live", "closing", "ended"},
        name : Names \cup {NoName}, meta : BOOLEAN]]

\* One setup at a time, and none while the server grants what a setup made.
OneSetup ==
  \A r \in Callers :
    /\ caller[r].stage \in Applying => applying = r
    /\ caller[r].stage \in Changing => remote # "setup"
    /\ caller[r].stage = "stored" => document = caller[r].name

\* One attachment at a time, for a configured name and while no client is Meta.
OneAttachment ==
  \A r \in Callers : caller[r].stage \in Attaching =>
    attaching = r /\ ~Setup!MetaReady /\ metaName # NoName

\* A client that was attached for Meta is Meta as long as it lives.
MetaIsKnown ==
  /\ metaSession # Setup!NoMeta => tmuxClients[metaSession].state # "none"
  /\ \A k \in Setup!ClientIds :
       tmuxClients[k].meta /\ tmuxClients[k].state = "live" =>
         metaSession = k /\ metaName # NoName

\* The inductive invariant of the setup.
SetupInv ==
  SetupTypes /\ OneSetup /\ OneAttachment /\ MetaIsKnown /\ RemoteIsRecorded

\* What a server starts with is recorded, but for what its environment names.
LEMMA Configuration ==
  ASSUME NEW e \in Environments, NEW d \in Names \cup {NoName}
  PROVE  /\ e \in Setup!AllEnvironments
         /\ Setup!MetaAtStart(e, d) \in Names \cup {NoName}
         /\ Setup!MetaAtStart(e, d) # d =>
              e.tmux /\ Setup!MetaAtStart(e, d) = e.meta
         /\ Setup!RemoteAtStart(e, d) \in {"off", "setup", "own", "other"}
         /\ Setup!RemoteAtStart(e, d) = "setup" => d # NoName
         /\ Setup!RemoteAtStart(e, d) \in {"own", "other"} =>
              Setup!RemoteAtStart(e, d) = e.serve
<1>1. e \in Setup!AllEnvironments
  BY EnvironmentAssumption
<1>2. /\ e.meta \in Names \cup {NoName}
      /\ e.serve \in {"unset", "own", "other"}
  BY <1>1 DEF Setup!AllEnvironments
<1> QED BY <1>1, <1>2 DEF Setup!MetaAtStart, Setup!RemoteAtStart

\* No request is under way at first, and there is no client.
LEMMA SetupStarts == Setup!SetupInit => SetupInv
<1> SUFFICES ASSUME Setup!SetupInit PROVE SetupInv
  OBVIOUS
<1> USE DEF Setup!SetupInit, Setup!NoRequest, Setup!NoClient, Setup!NoMeta
<1>0. /\ environment \in Environments /\ document \in Names \cup {NoName}
      /\ metaName = Setup!MetaAtStart(environment, document)
      /\ remote = Setup!RemoteAtStart(environment, document)
  OBVIOUS
<1>1. SetupTypes
  BY <1>0, Configuration DEF SetupTypes
<1>2. \A r \in Callers : caller[r].stage \notin Applying \cup Attaching
  BY DEF Applying, Changing, Attaching
<1>3. OneSetup
  BY <1>2 DEF OneSetup, Applying, Changing
<1>4. OneAttachment
  BY <1>2 DEF OneAttachment
<1>5. MetaIsKnown
  BY DEF MetaIsKnown
<1>6. RemoteIsRecorded
  BY <1>0, Configuration DEF RemoteIsRecorded, Setup!RemoteIsRecorded
<1> QED BY <1>1, <1>3, <1>4, <1>5, <1>6 DEF SetupInv

\* The requests by themselves.
CallerType ==
  [Callers -> {Setup!NoRequest} \cup [stage : Stages, name : Names]]

\* Whoever asks for the session of a name, an attachment starts only when
\* none is under way and no client is Meta; a name is given up for no name
\* by a restart only.
LEMMA Asked ==
  ASSUME SetupInv, NEW r \in Callers, NEW n \in Names \cup {NoName},
         metaName' = n, n = NoName => metaName = NoName,
         Setup!AskMeta(r, n)
  PROVE  /\ caller' \in CallerType
         /\ metaSession' \in {Setup!NoMeta} \cup Setup!ClientIds
         /\ tmuxClients' = tmuxClients
         /\ \A q \in Callers : caller'[q].stage \in Applying =>
              caller'[q] = caller[q] /\ q # r
         /\ applying # r => applying' = applying
         /\ OneAttachment'
         /\ MetaIsKnown'
<1>1. /\ \A q \in Callers : caller[q] = Setup!NoRequest
                               \/ caller[q] \in [stage : Stages, name : Names]
      /\ caller \in CallerType
      /\ metaSession \in {Setup!NoMeta} \cup Setup!ClientIds
      /\ OneAttachment /\ MetaIsKnown
  BY DEF SetupInv, SetupTypes, CallerType
<1>2. Setup!NoRequest.stage \notin Applying \cup Attaching
  BY DEF Setup!NoRequest, Applying, Changing, Attaching
<1>3. CASE n = NoName /\ metaSession' = Setup!NoMeta /\ Setup!Answer({r})
           /\ UNCHANGED <<attaching, tmuxClients>>
  <2>1. /\ caller' \in CallerType
        /\ \A q \in Callers : \/ caller'[q] = Setup!NoRequest
                              \/ caller'[q] = caller[q] /\ q # r
        /\ applying # r => applying' = applying
    BY <1>3, <1>1 DEF Setup!Answer, CallerType
  <2>2. metaName = NoName
    BY <1>3
  <2>3. \A q \in Callers : caller'[q].stage \notin Attaching
    BY <1>2, <2>1, <2>2, <1>1 DEF OneAttachment
  <2>4. OneAttachment'
    BY <2>3 DEF OneAttachment
  <2>5. MetaIsKnown'
    BY <1>3, <2>2, <1>1 DEF MetaIsKnown, Setup!NoMeta
  <2> QED BY <1>3, <1>2, <2>1, <2>4, <2>5
<1>4. CASE n # NoName /\ Setup!MetaReady /\ Setup!Answer({r})
           /\ UNCHANGED Setup!meta
  <2>1. /\ caller' \in CallerType
        /\ \A q \in Callers : \/ caller'[q] = Setup!NoRequest
                              \/ caller'[q] = caller[q] /\ q # r
        /\ applying # r => applying' = applying
    BY <1>4, <1>1 DEF Setup!Answer, CallerType
  <2>2. \A q \in Callers : caller'[q].stage \notin Attaching
    BY <1>2, <2>1, <1>4, <1>1 DEF OneAttachment
  <2>3. OneAttachment'
    BY <2>2 DEF OneAttachment
  <2>4. MetaIsKnown'
    BY <1>4, <1>1 DEF MetaIsKnown, Setup!meta
  <2> QED BY <1>4, <1>1, <1>2, <2>1, <2>3, <2>4 DEF Setup!meta
<1>5. CASE n # NoName /\ ~Setup!MetaReady /\ ~Setup!MayAttach
           /\ caller' = [caller EXCEPT ![r] = Setup!At("joins meta", n)]
           /\ UNCHANGED <<Setup!meta, applying>>
  <2>1. /\ caller' \in CallerType
        /\ caller'[r].stage = "joins meta"
        /\ \A q \in Callers \ {r} : caller'[q] = caller[q]
    BY <1>5, <1>1 DEF CallerType, Setup!At, Stages
  <2>2. OneAttachment'
    BY <1>5, <1>1, <2>1
       DEF OneAttachment, Attaching, Setup!MetaReady, Setup!meta
  <2>3. MetaIsKnown'
    BY <1>5, <1>1 DEF MetaIsKnown, Setup!meta
  <2> QED BY <1>5, <1>1, <2>1, <2>2, <2>3 DEF Setup!meta, Applying, Changing
<1>6. CASE n # NoName /\ ~Setup!MetaReady /\ Setup!MayAttach
           /\ attaching' = r
           /\ caller' = [caller EXCEPT ![r] = Setup!At("discovers", n)]
           /\ UNCHANGED <<metaSession, tmuxClients, applying>>
  <2>1. /\ caller' \in CallerType
        /\ caller'[r].stage = "discovers"
        /\ \A q \in Callers \ {r} : caller'[q] = caller[q]
    BY <1>6, <1>1 DEF CallerType, Setup!At, Stages, Attaching
  <2>2. \A q \in Callers : caller[q].stage \notin Attaching
    BY <1>6, <1>1, SetupAssumption
       DEF OneAttachment, Setup!MayAttach, Setup!Nobody
  <2>3. OneAttachment'
    BY <1>6, <2>1, <2>2 DEF OneAttachment, Setup!MetaReady
  <2>4. MetaIsKnown'
    BY <1>6, <1>1 DEF MetaIsKnown
  <2> QED BY <1>6, <1>1, <2>1, <2>3, <2>4 DEF Applying, Changing
<1> QED BY <1>3, <1>4, <1>5, <1>6 DEF Setup!AskMeta

\* An attachment that ends leaves no other one, and frees who joined it.
LEMMA AttachmentEnds ==
  ASSUME SetupInv, NEW r \in Callers, caller[r].stage \in Attaching,
         Setup!MetaDone(r), UNCHANGED <<document, remote>>
  PROVE  /\ caller' \in CallerType
         /\ OneSetup'
         /\ OneAttachment'
<1>1. /\ caller \in CallerType
      /\ OneSetup /\ OneAttachment
  BY DEF SetupInv, SetupTypes, CallerType
<1>2. Setup!NoRequest.stage \notin Applying \cup Attaching
  BY DEF Setup!NoRequest, Applying, Changing, Attaching
<1>3. /\ caller' \in CallerType
      /\ \A q \in Callers : \/ caller'[q] = Setup!NoRequest
                            \/ /\ caller'[q] = caller[q] /\ q # r
                               /\ applying = q => applying' = q
  BY <1>1 DEF Setup!MetaDone, Setup!Answer, CallerType
<1>4. OneSetup'
  <2> SUFFICES ASSUME NEW q \in Callers, caller'[q].stage \in Applying
               PROVE  /\ applying' = q
                      /\ caller'[q].stage \in Changing => remote' # "setup"
                      /\ caller'[q].stage = "stored" =>
                           document' = caller'[q].name
    BY DEF OneSetup, Applying, Changing
  <2> QED BY <1>1, <1>2, <1>3 DEF OneSetup
<1>5. \A q \in Callers : caller'[q].stage \notin Attaching
  BY <1>1, <1>2, <1>3 DEF OneAttachment
<1> QED BY <1>3, <1>4, <1>5 DEF OneAttachment

\* So does a setup or a list that is answered.
LEMMA RequestEnds ==
  ASSUME SetupInv, NEW r \in Callers, Setup!Answer({r}), remote' = remote,
         document' = document \/ caller[r].stage \in Applying,
         UNCHANGED <<metaName, attaching, metaSession, tmuxClients>>
  PROVE  /\ caller' \in CallerType
         /\ OneSetup'
         /\ OneAttachment'
         /\ caller[r].stage \in Applying =>
              \A q \in Callers : caller'[q].stage \notin Applying
<1>1. /\ caller \in CallerType
      /\ OneSetup /\ OneAttachment
  BY DEF SetupInv, SetupTypes, CallerType
<1>2. Setup!NoRequest.stage \notin Applying \cup Attaching
  BY DEF Setup!NoRequest, Applying, Changing, Attaching
<1>3. /\ caller' \in CallerType
      /\ \A q \in Callers : \/ caller'[q] = Setup!NoRequest
                            \/ /\ caller'[q] = caller[q] /\ q # r
                               /\ applying = q => applying' = q
  BY <1>1 DEF Setup!Answer, CallerType
<1>4. caller[r].stage \in Applying =>
        \A q \in Callers : caller'[q].stage \notin Applying
  BY <1>1, <1>2, <1>3 DEF OneSetup
<1>5. OneSetup'
  <2> SUFFICES ASSUME NEW q \in Callers, caller'[q].stage \in Applying
               PROVE  /\ applying' = q
                      /\ caller'[q].stage \in Changing => remote' # "setup"
                      /\ caller'[q].stage = "stored" =>
                           document' = caller'[q].name
    BY DEF OneSetup, Applying, Changing
  <2> QED BY <1>1, <1>2, <1>3, <1>4 DEF OneSetup
<1>6. OneAttachment'
  BY <1>1, <1>2, <1>3 DEF OneAttachment, Setup!MetaReady
<1> QED BY <1>3, <1>4, <1>5, <1>6

\* A setup moves on in its turn.
LEMMA SetupGoesOn ==
  ASSUME SetupInv, NEW r \in Callers, NEW stage \in Applying,
         caller[r].stage \in Applying,
         caller' = [caller EXCEPT ![r].stage = stage],
         stage \in Changing => remote # "setup",
         stage = "stored" => document' = caller[r].name,
         UNCHANGED <<metaName, remote, applying, attaching,
                     metaSession, tmuxClients>>
  PROVE  /\ caller' \in CallerType
         /\ OneSetup'
         /\ OneAttachment'
<1>1. Setup!NoRequest.stage \notin Applying \cup Attaching
  BY DEF Setup!NoRequest, Applying, Changing, Attaching
<1>2. /\ caller \in CallerType
      /\ OneSetup /\ OneAttachment
      /\ caller[r] \in [stage : Stages, name : Names]
  BY <1>1 DEF SetupInv, SetupTypes, CallerType
<1>3. /\ caller' \in CallerType
      /\ caller'[r].stage = stage /\ caller'[r].name = caller[r].name
      /\ \A q \in Callers \ {r} : caller'[q] = caller[q]
  BY <1>2 DEF CallerType, Stages
<1>4. OneSetup'
  <2> SUFFICES ASSUME NEW q \in Callers, caller'[q].stage \in Applying
               PROVE  /\ applying' = q
                      /\ caller'[q].stage \in Changing => remote' # "setup"
                      /\ caller'[q].stage = "stored" =>
                           document' = caller'[q].name
    BY DEF OneSetup, Applying, Changing
  <2>1. q = r
    BY <1>2, <1>3 DEF OneSetup
  <2> QED BY <1>2, <1>3, <2>1 DEF OneSetup
<1>5. OneAttachment'
  BY <1>2, <1>3
     DEF OneAttachment, Setup!MetaReady, Applying, Changing, Attaching
<1> QED BY <1>3, <1>4, <1>5

\* A step of a request keeps the invariant.
LEMMA RequestStep ==
  ASSUME SetupInv, NEW r \in Callers,
         \/ Setup!ListSessions(r) \/ Setup!Inspected(r)
         \/ Setup!ServeEnabled(r) \/ Setup!ServeFails(r)
         \/ Setup!Stored(r) \/ Setup!NotStored(r) \/ Setup!RolledBack(r)
         \/ Setup!Adopted(r) \/ \E n \in Names : Setup!Apply(r, n)
  PROVE  SetupInv'
<1>1. /\ SetupTypes /\ caller \in CallerType
      /\ OneSetup /\ OneAttachment /\ MetaIsKnown /\ RemoteIsRecorded
  BY DEF SetupInv, SetupTypes, CallerType
<1>2. ASSUME caller' \in CallerType, document' \in Names \cup {NoName},
             UNCHANGED <<environment, metaName, remote, metaSession,
                         tmuxClients>>,
             remote = "setup" => document' = document,
             OneSetup', OneAttachment'
      PROVE  SetupInv'
  <2>1. SetupTypes'
    BY <1>1, <1>2 DEF SetupTypes, CallerType
  <2>2. MetaIsKnown'
    BY <1>1, <1>2 DEF MetaIsKnown
  <2>3. RemoteIsRecorded'
    BY <1>1, <1>2 DEF RemoteIsRecorded, Setup!RemoteIsRecorded
  <2> QED BY <1>2, <2>1, <2>2, <2>3 DEF SetupInv
<1>3. Setup!NoRequest.stage \notin Applying \cup Attaching
  BY DEF Setup!NoRequest, Applying, Changing, Attaching
<1>4. caller[r].stage \in Applying \cup Attaching => caller[r].name \in Names
  BY <1>1, <1>3 DEF CallerType
<1> USE DEF Setup!host, Setup!config, Setup!meta
<1>5. CASE Setup!ListSessions(r)
  <2>1. /\ caller' \in CallerType
        /\ metaSession' \in {Setup!NoMeta} \cup Setup!ClientIds
        /\ tmuxClients' = tmuxClients
        /\ \A q \in Callers : caller'[q].stage \in Applying =>
             caller'[q] = caller[q] /\ q # r
        /\ applying # r => applying' = applying
        /\ OneAttachment'
        /\ MetaIsKnown'
    <3>1. metaName \in Names \cup {NoName} /\ metaName' = metaName
      BY <1>1, <1>5 DEF SetupTypes, Setup!ListSessions
    <3> QED BY <1>5, <3>1, Asked DEF Setup!ListSessions
  <2>2. SetupTypes'
    BY <1>1, <1>5, <2>1 DEF SetupTypes, CallerType, Setup!ListSessions
  <2>3. OneSetup'
    BY <1>1, <1>5, <2>1 DEF OneSetup, Setup!ListSessions, Applying, Changing
  <2>4. RemoteIsRecorded'
    BY <1>1, <1>5
       DEF RemoteIsRecorded, Setup!RemoteIsRecorded, Setup!ListSessions
  <2> QED BY <2>1, <2>2, <2>3, <2>4 DEF SetupInv
<1>6. CASE Setup!Inspected(r)
  <2>1. caller[r].stage = "inspects" /\ "inspects" \in Applying
    BY <1>6 DEF Setup!Inspected, Applying
  <2>2. CASE ~Setup!Configured
             /\ caller' = [caller EXCEPT ![r].stage = "serves"]
             /\ UNCHANGED applying
    <3>1. "serves" \in Applying /\ "serves" # "stored"
      BY DEF Applying, Changing
    <3>2. remote # "setup"
      BY <1>1, <2>2
         DEF Setup!Configured, RemoteIsRecorded, Setup!RemoteIsRecorded
    <3>3. caller' \in CallerType /\ OneSetup' /\ OneAttachment'
      BY <1>6, <2>1, <2>2, <3>1, <3>2, SetupGoesOn DEF Setup!Inspected
    <3> QED BY <1>1, <1>2, <1>6, <2>2, <3>3 DEF Setup!Inspected, SetupTypes
  <2>3. CASE Setup!Answer({r})
    <3>1. caller' \in CallerType /\ OneSetup' /\ OneAttachment'
      BY <1>6, <2>3, RequestEnds DEF Setup!Inspected
    <3> QED BY <1>1, <1>2, <1>6, <3>1 DEF Setup!Inspected, SetupTypes
  <2> QED BY <1>6, <2>2, <2>3 DEF Setup!Inspected
<1>7. CASE Setup!ServeEnabled(r)
  <2>1. /\ caller[r].stage = "serves" /\ "serves" \in Applying
        /\ "serves" \in Changing
        /\ "stores" \in Applying /\ "stores" # "stored"
    BY <1>7 DEF Setup!ServeEnabled, Applying, Changing
  <2>2. remote # "setup"
    BY <1>1, <2>1 DEF OneSetup
  <2>3. caller' \in CallerType /\ OneSetup' /\ OneAttachment'
    BY <1>7, <2>1, <2>2, SetupGoesOn DEF Setup!ServeEnabled
  <2> QED BY <1>1, <1>2, <1>7, <2>3 DEF Setup!ServeEnabled, SetupTypes
<1>8. CASE Setup!ServeFails(r)
  <2>1. caller' \in CallerType /\ OneSetup' /\ OneAttachment'
    BY <1>8, RequestEnds DEF Setup!ServeFails
  <2> QED BY <1>1, <1>2, <1>8, <2>1 DEF Setup!ServeFails, SetupTypes
<1>9. CASE Setup!Stored(r)
  <2>1. /\ caller[r].stage = "stores" /\ "stores" \in Applying
        /\ "stores" \in Changing
        /\ "stored" \in Applying
    BY <1>9 DEF Setup!Stored, Applying, Changing
  <2>2. remote # "setup"
    BY <1>1, <2>1 DEF OneSetup
  <2>3. caller' \in CallerType /\ OneSetup' /\ OneAttachment'
    BY <1>9, <2>1, <2>2, SetupGoesOn DEF Setup!Stored
  <2> QED BY <1>1, <1>2, <1>4, <1>9, <2>1, <2>2, <2>3 DEF Setup!Stored
<1>10. CASE Setup!NotStored(r)
  <2>1. /\ caller[r].stage = "stores" /\ "stores" \in Applying
        /\ "stores" \in Changing
        /\ "rolls back" \in Applying /\ "rolls back" # "stored"
    BY <1>10 DEF Setup!NotStored, Applying, Changing
  <2>2. remote # "setup"
    BY <1>1, <2>1 DEF OneSetup
  <2>3. caller' \in CallerType /\ OneSetup' /\ OneAttachment'
    BY <1>10, <2>1, <2>2, SetupGoesOn DEF Setup!NotStored
  <2> QED BY <1>1, <1>2, <1>4, <1>10, <2>1, <2>2, <2>3
          DEF Setup!NotStored, SetupTypes
<1>11. CASE Setup!RolledBack(r)
  <2>1. caller' \in CallerType /\ OneSetup' /\ OneAttachment'
    BY <1>11, RequestEnds DEF Setup!RolledBack
  <2> QED BY <1>1, <1>2, <1>11, <2>1 DEF Setup!RolledBack, SetupTypes
<1>12. CASE Setup!Adopted(r)
  <2>1. /\ caller[r].stage = "stored" /\ "stored" \in Applying
        /\ document = caller[r].name /\ applying = r
        /\ caller[r].name \in Names
    BY <1>1, <1>4, <1>12 DEF Setup!Adopted, OneSetup, Applying, Changing
  <2>2. /\ caller' \in CallerType
        /\ metaSession' \in {Setup!NoMeta} \cup Setup!ClientIds
        /\ tmuxClients' = tmuxClients
        /\ \A q \in Callers : caller'[q].stage \in Applying =>
             caller'[q] = caller[q] /\ q # r
        /\ applying # r => applying' = applying
        /\ OneAttachment'
        /\ MetaIsKnown'
    BY <1>12, <2>1, Asked, SetupAssumption DEF Setup!Adopted
  <2>3. SetupTypes'
    BY <1>1, <1>12, <2>1, <2>2 DEF SetupTypes, CallerType, Setup!Adopted
  <2>4. \A q \in Callers : caller'[q].stage \notin Applying
    BY <1>1, <2>1, <2>2 DEF OneSetup
  <2>5. OneSetup'
    BY <2>4 DEF OneSetup, Applying, Changing
  <2>6. RemoteIsRecorded'
    BY <1>12, <2>1, SetupAssumption
       DEF Setup!Adopted, RemoteIsRecorded, Setup!RemoteIsRecorded
  <2> QED BY <2>2, <2>3, <2>5, <2>6 DEF SetupInv
<1>13. CASE \E n \in Names : Setup!Apply(r, n)
  <2>1. PICK n \in Names : Setup!Apply(r, n)
    BY <1>13
  <2>2. CASE Setup!MayApply
    <3>1. \A q \in Callers : caller[q].stage \notin Applying
      BY <1>1, <2>2, SetupAssumption DEF OneSetup, Setup!MayApply, Setup!Nobody
    <3>5. /\ caller' = [caller EXCEPT ![r] = [stage |-> "inspects", name |-> n]]
          /\ applying' = r
      BY <2>1, <2>2 DEF Setup!Apply, Setup!At
    <3>2. /\ caller' \in CallerType /\ applying' = r
          /\ caller'[r].stage = "inspects"
          /\ \A q \in Callers \ {r} : caller'[q] = caller[q]
      <4>1. "inspects" \in Stages
        BY DEF Stages, Applying
      <4> QED BY <1>1, <3>5, <4>1 DEF CallerType
    <3>3. OneSetup'
      BY <3>1, <3>2 DEF OneSetup, Applying, Changing
    <3>4. OneAttachment'
      BY <1>1, <2>1, <3>2
         DEF OneAttachment, Setup!MetaReady, Setup!Apply, Attaching
    <3> QED BY <1>1, <1>2, <2>1, <3>2, <3>3, <3>4 DEF Setup!Apply, SetupTypes
  <2>3. CASE ~Setup!MayApply
    <3>5. /\ caller' = [caller EXCEPT ![r] =
               [stage |-> "joins apply", name |-> n]]
          /\ applying' = applying
      BY <2>1, <2>3 DEF Setup!Apply, Setup!At
    <3>2. /\ caller' \in CallerType /\ applying' = applying
          /\ caller'[r].stage = "joins apply"
          /\ \A q \in Callers \ {r} : caller'[q] = caller[q]
      <4>1. "joins apply" \in Stages
        BY DEF Stages, Applying
      <4> QED BY <1>1, <3>5, <4>1 DEF CallerType
    <3>3. OneSetup'
      BY <1>1, <2>1, <3>2 DEF OneSetup, Applying, Changing, Setup!Apply
    <3>4. OneAttachment'
      BY <1>1, <2>1, <3>2
         DEF OneAttachment, Setup!MetaReady, Setup!Apply, Attaching
    <3> QED BY <1>1, <1>2, <2>1, <3>2, <3>3, <3>4 DEF Setup!Apply, SetupTypes
  <2> QED BY <2>2, <2>3
<1> QED BY <1>5, <1>6, <1>7, <1>8, <1>9, <1>10, <1>11, <1>12, <1>13

\* An attachment under way keeps the invariant, and so does its end.
LEMMA AttachmentStep ==
  ASSUME SetupInv, NEW r \in Callers,
         Setup!Discovered(r) \/ Setup!Attached(r) \/ Setup!MetaFails(r)
  PROVE  SetupInv'
<1>1. /\ SetupTypes /\ caller \in CallerType
      /\ OneSetup /\ OneAttachment /\ MetaIsKnown /\ RemoteIsRecorded
  BY DEF SetupInv, SetupTypes, CallerType
<1>2. /\ caller[r].stage \in Attaching
      /\ UNCHANGED <<document, environment, metaName, remote>>
  BY DEF Setup!Discovered, Setup!Attached, Setup!MetaFails, Attaching,
         Setup!host, Setup!config
<1>3. /\ ~Setup!MetaReady /\ metaName # NoName
      /\ \A q \in Callers : caller[q].stage \in Attaching => q = r
  BY <1>1, <1>2 DEF OneAttachment
<1>4. \A k \in Setup!ClientIds :
        ~(tmuxClients[k].meta /\ tmuxClients[k].state = "live")
  <2>1. SUFFICES ASSUME NEW k \in Setup!ClientIds, tmuxClients[k].meta,
                        tmuxClients[k].state = "live"
                 PROVE  Setup!MetaReady
    BY <1>3
  <2> QED BY <1>1, <2>1 DEF MetaIsKnown, Setup!MetaReady, Setup!NoMeta,
                            Setup!ClientIds
<1>5. Setup!NoRequest.stage \notin Applying \cup Attaching
  BY DEF Setup!NoRequest, Applying, Changing, Attaching
<1>6. caller[r].name \in Names
  BY <1>1, <1>2, <1>5 DEF CallerType
<1>7. RemoteIsRecorded'
  BY <1>1, <1>2 DEF RemoteIsRecorded, Setup!RemoteIsRecorded
<1>8. CASE Setup!Discovered(r)
           /\ caller' = [caller EXCEPT ![r].stage = "attaches"]
           /\ UNCHANGED <<attaching, metaSession, tmuxClients, applying>>
  <2>1. /\ caller' \in CallerType
        /\ caller'[r].stage = "attaches"
        /\ \A q \in Callers \ {r} : caller'[q] = caller[q]
    <3>1. caller[r] \in [stage : Stages, name : Names] /\ "attaches" \in Stages
      BY <1>1, <1>2, <1>5 DEF CallerType, Stages, Attaching
    <3> QED BY <1>1, <1>8, <3>1 DEF CallerType
  <2>2. SetupTypes'
    BY <1>1, <1>2, <1>8, <2>1 DEF SetupTypes, CallerType
  <2>3. OneSetup'
    BY <1>1, <1>2, <1>8, <2>1 DEF OneSetup, Applying, Changing
  <2>4. OneAttachment'
    BY <1>1, <1>2, <1>3, <1>8, <2>1 DEF OneAttachment, Setup!MetaReady
  <2>5. MetaIsKnown'
    BY <1>1, <1>2, <1>8 DEF MetaIsKnown
  <2> QED BY <1>7, <2>2, <2>3, <2>4, <2>5 DEF SetupInv
<1>9. ASSUME Setup!MetaDone(r), MetaIsKnown',
             metaSession' \in {Setup!NoMeta} \cup Setup!ClientIds,
             tmuxClients' \in [Setup!ClientIds ->
               [state : {"none", "live", "closing", "ended"},
                name : Names \cup {NoName}, meta : BOOLEAN]]
      PROVE  SetupInv'
  <2>1. caller' \in CallerType /\ OneSetup' /\ OneAttachment'
    BY <1>2, <1>9, AttachmentEnds
  <2>2. SetupTypes'
    BY <1>1, <1>2, <1>9, <2>1 DEF SetupTypes, CallerType
  <2> QED BY <1>7, <1>9, <2>1, <2>2 DEF SetupInv
<1>10. CASE \E k \in Setup!ClientIds :
              /\ tmuxClients[k].state = "live" /\ metaSession' = k
              /\ Setup!MetaDone(r) /\ UNCHANGED tmuxClients
  <2>1. MetaIsKnown'
    BY <1>4, <1>10 DEF MetaIsKnown
  <2> QED BY <1>1, <1>9, <1>10, <2>1 DEF SetupTypes
<1>11. CASE Setup!Attached(r)
  <2>1. PICK k \in Setup!ClientIds :
          /\ tmuxClients' = [tmuxClients EXCEPT ![k] =
               [state |-> "live", name |-> caller[r].name, meta |-> TRUE]]
          /\ metaSession' = k
    BY <1>11 DEF Setup!Attached
  <2>2. tmuxClients' \in [Setup!ClientIds ->
          [state : {"none", "live", "closing", "ended"},
           name : Names \cup {NoName}, meta : BOOLEAN]]
    BY <1>1, <1>6, <2>1 DEF SetupTypes
  <2>3. MetaIsKnown'
    BY <1>1, <1>2, <1>3, <1>4, <2>1 DEF MetaIsKnown, SetupTypes
  <2> QED BY <1>9, <1>11, <2>1, <2>2, <2>3 DEF Setup!Attached
<1>12. CASE Setup!MetaFails(r)
  <2>1. MetaIsKnown'
    BY <1>4, <1>12 DEF MetaIsKnown, Setup!MetaFails
  <2> QED BY <1>1, <1>9, <1>12, <2>1 DEF SetupTypes, Setup!MetaFails
<1> QED BY <1>8, <1>10, <1>11, <1>12 DEF Setup!Discovered, Setup!meta

\* Clients of tmux come and go, the host and the server change by themselves.
LEMMA ClientStep ==
  ASSUME SetupInv,
         \/ Setup!ServeChanges \/ Setup!Restart
         \/ \E n \in Names : Setup!UserAttaches(n)
         \/ \E k \in Setup!ClientIds :
              Setup!CloseClient(k) \/ Setup!ClientEnds(k)
  PROVE  SetupInv'
<1>1. /\ SetupTypes /\ caller \in CallerType
      /\ OneSetup /\ OneAttachment /\ MetaIsKnown /\ RemoteIsRecorded
  BY DEF SetupInv, SetupTypes, CallerType
<1> USE DEF Setup!host, Setup!config, Setup!meta
<1>2. CASE Setup!ServeChanges
  BY <1>1, <1>2
     DEF Setup!ServeChanges, SetupInv, SetupTypes, OneSetup, OneAttachment,
         Setup!MetaReady, MetaIsKnown, RemoteIsRecorded, Setup!RemoteIsRecorded
<1>3. CASE Setup!Restart
  <2>1. \A q \in Callers : caller'[q].stage \notin Applying \cup Attaching
    BY <1>3 DEF Setup!Restart, Setup!NoRequest, Applying, Changing, Attaching
  <2>2. \A k \in Setup!ClientIds :
          \/ tmuxClients'[k] = tmuxClients[k] /\ tmuxClients'[k].state = "none"
          \/ tmuxClients'[k] = [tmuxClients[k] EXCEPT !.state = "ended"]
    BY <1>3 DEF Setup!Restart, Setup!NoClient
  <2>3. tmuxClients' = [k \in Setup!ClientIds |-> tmuxClients'[k]]
    BY <1>3 DEF Setup!Restart
  <2>0. /\ environment' \in Environments /\ document \in Names \cup {NoName}
        /\ document' = document
        /\ metaName' = Setup!MetaAtStart(environment', document)
        /\ remote' = Setup!RemoteAtStart(environment', document)
    BY <1>1, <1>3 DEF Setup!Restart, SetupTypes
  <2>8. /\ environment' \in Setup!AllEnvironments
        /\ document' \in Names \cup {NoName}
        /\ metaName' \in Names \cup {NoName}
        /\ remote' \in {"off", "setup", "own", "other"}
    BY <2>0, Configuration
  <2>9. /\ caller' = [q \in Callers |-> Setup!NoRequest]
        /\ metaSession' = Setup!NoMeta
    BY <1>3 DEF Setup!Restart
  <2>4. SetupTypes'
    BY <1>1, <2>2, <2>3, <2>8, <2>9 DEF SetupTypes
  <2>5. MetaIsKnown'
    <3>1. \A k \in Setup!ClientIds : tmuxClients'[k].state # "live"
      BY <1>1, <2>2 DEF SetupTypes
    <3> QED BY <1>3, <3>1 DEF MetaIsKnown, Setup!Restart
  <2>6. RemoteIsRecorded'
    BY <2>0, Configuration DEF RemoteIsRecorded, Setup!RemoteIsRecorded
  <2>7. OneSetup' /\ OneAttachment'
    BY <2>1 DEF OneSetup, OneAttachment, Applying, Changing
  <2> QED BY <2>4, <2>5, <2>6, <2>7 DEF SetupInv
<1>4. ASSUME UNCHANGED <<document, environment, metaName, remote, caller,
                         applying, attaching, metaSession>>,
             NEW k \in Setup!ClientIds,
             NEW c \in [state : {"live", "closing", "ended"},
                        name : Names \cup {NoName}, meta : BOOLEAN],
             tmuxClients' = [tmuxClients EXCEPT ![k] = c],
             ~c.meta \/ c.state # "live",
             c.state = "live" => tmuxClients[k].state = "none"
      PROVE  SetupInv'
  <2>1. SetupTypes'
    BY <1>1, <1>4 DEF SetupTypes
  <2>2. OneSetup' /\ RemoteIsRecorded'
    BY <1>1, <1>4 DEF OneSetup, RemoteIsRecorded, Setup!RemoteIsRecorded
  <2>6. \A l \in Setup!ClientIds : \/ l # k /\ tmuxClients'[l] = tmuxClients[l]
                                   \/ l = k /\ tmuxClients'[l] = c
    BY <1>1, <1>4 DEF SetupTypes
  <2>7. metaSession # Setup!NoMeta => metaSession \in Setup!ClientIds
    BY <1>1 DEF SetupTypes
  <2>8. c.state # "none"
    BY <1>4
  <2>3. MetaIsKnown'
    BY <1>1, <1>4, <2>6, <2>7, <2>8 DEF MetaIsKnown
  <2>4. ~Setup!MetaReady => ~Setup!MetaReady'
    BY <1>1, <1>4 DEF MetaIsKnown, SetupTypes, Setup!MetaReady
  <2>5. OneAttachment'
    BY <1>1, <1>4, <2>4 DEF OneAttachment
  <2> QED BY <2>1, <2>2, <2>3, <2>5 DEF SetupInv
<1>5. ASSUME NEW n \in Names, Setup!UserAttaches(n) PROVE SetupInv'
  <2>1. PICK k \in Setup!ClientIds :
          /\ tmuxClients[k] = Setup!NoClient
          /\ tmuxClients' = [tmuxClients EXCEPT ![k] =
               [state |-> "live", name |-> n, meta |-> FALSE]]
    BY <1>5 DEF Setup!UserAttaches
  <2>2. tmuxClients[k].state = "none"
    BY <2>1 DEF Setup!NoClient
  <2> DEFINE c == [state |-> "live", name |-> n, meta |-> FALSE]
  <2>3. /\ c \in [state : {"live", "closing", "ended"},
                 name : Names \cup {NoName}, meta : BOOLEAN]
        /\ ~c.meta /\ tmuxClients' = [tmuxClients EXCEPT ![k] = c]
    BY <2>1
  <2> HIDE DEF c
  <2> QED BY <1>4, <1>5, <2>2, <2>3 DEF Setup!UserAttaches
<1>6. ASSUME NEW k \in Setup!ClientIds, Setup!CloseClient(k) PROVE SetupInv'
  <2>1. tmuxClients' = [tmuxClients EXCEPT ![k] =
          [tmuxClients[k] EXCEPT !.state = "closing"]]
    BY <1>6 DEF Setup!CloseClient
  <2> QED BY <1>1, <1>4, <1>6, <2>1, ZenonT(60)
          DEF Setup!CloseClient, SetupTypes
<1>7. ASSUME NEW k \in Setup!ClientIds, Setup!ClientEnds(k) PROVE SetupInv'
  <2>1. tmuxClients' = [tmuxClients EXCEPT ![k] =
          [tmuxClients[k] EXCEPT !.state = "ended"]]
    BY <1>7 DEF Setup!ClientEnds
  <2> DEFINE c == [tmuxClients[k] EXCEPT !.state = "ended"]
  <2>2. /\ c \in [state : {"live", "closing", "ended"},
                 name : Names \cup {NoName}, meta : BOOLEAN]
        /\ c.state = "ended"
    BY <1>1 DEF SetupTypes
  <2> HIDE DEF c
  <2>3. tmuxClients' = [tmuxClients EXCEPT ![k] = c]
    BY <2>1 DEF c
  <2> QED BY <1>4, <1>7, <2>2, <2>3, ZenonT(60) DEF Setup!ClientEnds
<1> QED BY <1>2, <1>3, <1>5, <1>6, <1>7

\* Every step of the setup keeps its invariant, ...
LEMMA SetupStep ==
  ASSUME SetupInv, Setup!SetupNext PROVE SetupInv'
BY RequestStep, AttachmentStep, ClientStep DEF Setup!SetupNext

\* ... and so does a step of another service.
LEMMA SetupUnchanged ==
  ASSUME SetupInv, UNCHANGED setupVars PROVE SetupInv'
BY DEF setupVars, SetupInv, SetupTypes, OneSetup, OneAttachment, MetaIsKnown,
       RemoteIsRecorded, Setup!RemoteIsRecorded, Setup!MetaReady

\* Both make it an invariant.
LEMMA SetupInvariance == StartupSpec => []SetupInv
<1>1. StartupInit => SetupInv
  BY SetupStarts DEF StartupInit
<1>2. SetupInv /\ [StartupNext]_allVars => SetupInv'
  BY SetupStep, SetupUnchanged
     DEF StartupNext, ObserverMoves, KeepMoves, SetupMoves, allVars
<1> QED BY <1>1, <1>2, PTL DEF StartupSpec

\* However the start, the lists and the setup overlap, Pacium attaches one
\* client to Meta.
THEOREM MetaIsOne == StartupSpec => []OneMetaClient
<1>1. SetupInv => OneMetaClient
  BY DEF SetupInv, MetaIsKnown, OneMetaClient, Setup!OneMetaClient
<1> QED BY <1>1, SetupInvariance, PTL

\* The remote access the server grants is what its document records, but for
\* what the environment of its process overrides.
THEOREM RemoteRecorded == StartupSpec => []RemoteIsRecorded
BY SetupInvariance, PTL DEF SetupInv
=============================================================================
