------------------------- MODULE PaciumConfigProofs -------------------------
(***************************************************************************)
(* The store of the configuration implements the register of               *)
(* ConfigRegister, for any number of clients, workspaces, revisions and    *)
(* crashes.  That rests on the write queue, of which only the head acts    *)
(* (Queued), on what a replacement knows of the file it is about to write  *)
(* (Checked), and on the documents that a power loss can leave (Durable).  *)
(***************************************************************************)
EXTENDS PaciumConfig, TLAPS

\* Behind the head of the queue, nothing has begun.
Queued ==
  \A c \in Clients : call[c].stage \in ReplaceStages \ {"queued"} => Runs(c)

\* A replacement that was accepted is of the revision that is visible; one
\* that was synced is on the disk.
Checked ==
  \A c \in Clients :
    /\ call[c].stage = "writing" =>
         file.revision = call[c].expected /\ file.revision < MaxRevision
    /\ call[c].stage \in {"written", "verify"} => durable = {file}

\* A power loss keeps what was accepted, and leaves nothing newer than what
\* is visible.
Durable ==
  \A d \in durable :
    /\ kept <= d.revision /\ d.revision <= file.revision
    /\ d.revision = file.revision => d = file

IInv == TypeOK /\ Queued /\ Checked /\ Durable

-----------------------------------------------------------------------------
(* Requests.                                                               *)

\* What each stage of a request knows.
LEMMA CallFields ==
  ASSUME NEW x \in Calls
  PROVE  /\ x.stage \in {"idle"} \cup InspectStages \cup ReplaceStages
         /\ x.stage = "idle" => x = Idle
         /\ x.stage \in InspectStages => x \in [stage : InspectStages, seen : Documents]
         /\ x.stage \in ReplaceStages =>
              x \in [stage : ReplaceStages, seen : Documents,
                     expected : 0 .. MaxRevision, workspace : Workspaces]
BY DEF Calls, Idle, InspectStages, ReplaceStages

\* A request that goes on in the kind of handler it is in remains one.
LEMMA CallGoesOn ==
  ASSUME NEW x \in Calls, NEW stage, NEW d \in Documents,
         \/ x.stage \in InspectStages /\ stage \in InspectStages
         \/ x.stage \in ReplaceStages /\ stage \in ReplaceStages
  PROVE  /\ [x EXCEPT !.stage = stage, !.seen = d] \in Calls
         /\ [x EXCEPT !.stage = stage, !.seen = d].stage = stage
<1>1. CASE x.stage \in InspectStages /\ stage \in InspectStages
  <2>1. x \in [stage : InspectStages, seen : Documents]
    BY <1>1, CallFields
  <2> QED BY <1>1, <2>1 DEF Calls
<1>2. CASE x.stage \in ReplaceStages /\ stage \in ReplaceStages
  <2>1. x \in [stage : ReplaceStages, seen : Documents,
               expected : 0 .. MaxRevision, workspace : Workspaces]
    BY <1>2, CallFields
  <2> QED BY <1>2, <2>1 DEF Calls
<1> QED BY <1>1, <1>2

\* The document that stands for none is one.
LEMMA NoDocumentIsOne == NoDocument \in Documents
BY ConfigAssumption DEF NoDocument, Documents

-----------------------------------------------------------------------------
(* The write queue.                                                        *)

\* The queue holds the replacements, each of them once.
Waits ==
  /\ writeTail \in Seq(Clients)
  /\ call \in [Clients -> Calls]
  /\ \A c \in Clients :
       call[c].stage \in ReplaceStages
         <=> \E i \in DOMAIN writeTail : writeTail[i] = c
  /\ \A i, j \in DOMAIN writeTail : writeTail[i] = writeTail[j] => i = j

QueueInv == Waits /\ Queued

\* A request that stays in its kind of handler leaves the queue as it is; if
\* it has begun to be replaced it runs.
LEMMA QueueGoesOn ==
  ASSUME QueueInv, NEW c \in Clients, NEW x \in Calls, To(c, x),
         UNCHANGED writeTail,
         x.stage \in ReplaceStages <=> call[c].stage \in ReplaceStages,
         x.stage \in ReplaceStages \ {"queued"} => Runs(c)
  PROVE  QueueInv'
<1>1. /\ call' \in [Clients -> Calls]
      /\ call'[c] = x
      /\ \A d \in Clients \ {c} : call'[d] = call[d]
  BY DEF QueueInv, Waits, To
<1>2. Waits'
  BY <1>1 DEF QueueInv, Waits
<1>3. Queued'
  BY <1>1 DEF QueueInv, Queued, Runs
<1> QED BY <1>2, <1>3 DEF QueueInv

\* A replacement joins the end of the queue.
LEMMA QueueGrows ==
  ASSUME QueueInv, NEW c \in Clients, NEW x \in Calls, To(c, x),
         call[c] = Idle, x.stage = "queued",
         writeTail' = Append(writeTail, c)
  PROVE  QueueInv'
<1> DEFINE s == writeTail
           t == Append(s, c)
<1>1. /\ s \in Seq(Clients) /\ Len(s) \in Nat
      /\ t \in Seq(Clients)
      /\ DOMAIN s = 1 .. Len(s)
      /\ DOMAIN t = 1 .. Len(s) + 1
      /\ t[Len(s) + 1] = c
      /\ \A i \in 1 .. Len(s) : t[i] = s[i]
  BY DEF QueueInv, Waits
<1>2. /\ call' \in [Clients -> Calls]
      /\ call'[c] = x
      /\ \A d \in Clients \ {c} : call'[d] = call[d]
  BY DEF QueueInv, Waits, To
<1>3. \A i \in 1 .. Len(s) : s[i] # c
  BY <1>1 DEF QueueInv, Waits, Idle, ReplaceStages
<1>4. \A d \in Clients :
         call'[d].stage \in ReplaceStages <=> \E i \in DOMAIN t : t[i] = d
  <2>1. ASSUME NEW d \in Clients \ {c}
        PROVE  call'[d].stage \in ReplaceStages <=> \E i \in DOMAIN t : t[i] = d
    <3>1. call[d].stage \in ReplaceStages <=> \E i \in 1 .. Len(s) : s[i] = d
      BY <1>1 DEF QueueInv, Waits
    <3>2. (\E i \in 1 .. Len(s) : s[i] = d) <=> (\E i \in DOMAIN t : t[i] = d)
      BY <1>1
    <3> QED BY <1>2, <3>1, <3>2
  <2>2. call'[c].stage \in ReplaceStages /\ \E i \in DOMAIN t : t[i] = c
    BY <1>1, <1>2 DEF ReplaceStages
  <2> QED BY <2>1, <2>2
<1>5. \A i, j \in DOMAIN t : t[i] = t[j] => i = j
  BY <1>1, <1>3 DEF QueueInv, Waits
<1>6. Waits'
  BY <1>1, <1>2, <1>4, <1>5 DEF Waits
<1>7. Queued'
  <2>1. ASSUME NEW d \in Clients, call'[d].stage \in ReplaceStages \ {"queued"}
        PROVE  t # << >> /\ Head(t) = d
    <3>1. d # c /\ call[d].stage \in ReplaceStages \ {"queued"}
      BY <1>2, <2>1
    <3>2. s # << >> /\ Head(s) = d
      BY <3>1 DEF QueueInv, Queued, Runs
    <3> QED BY <1>1, <3>2
  <2> QED BY <2>1 DEF Queued, Runs
<1> QED BY <1>6, <1>7 DEF QueueInv

\* The replacement that runs ends, and those behind it have not begun.
LEMMA QueueShrinks ==
  ASSUME QueueInv, NEW c \in Clients, Runs(c), Ends(c)
  PROVE  QueueInv'
<1> DEFINE s == writeTail
           t == Tail(s)
<1>1. /\ s \in Seq(Clients) /\ Len(s) \in Nat /\ Len(s) > 0
      /\ t \in Seq(Clients)
      /\ DOMAIN s = 1 .. Len(s)
      /\ DOMAIN t = 1 .. Len(s) - 1
      /\ s[1] = c
      /\ \A i \in 1 .. Len(s) - 1 : t[i] = s[i + 1]
  BY DEF QueueInv, Waits, Runs
<1>2. /\ call' \in [Clients -> Calls]
      /\ call'[c] = Idle
      /\ \A d \in Clients \ {c} : call'[d] = call[d]
  BY DEF QueueInv, Waits, Ends, To, Calls
<1>3. \A i \in 1 .. Len(s) - 1 : t[i] # c
  BY <1>1 DEF QueueInv, Waits
<1>4. \A d \in Clients :
         call'[d].stage \in ReplaceStages <=> \E i \in DOMAIN t : t[i] = d
  <2>1. ASSUME NEW d \in Clients \ {c}
        PROVE  call'[d].stage \in ReplaceStages <=> \E i \in DOMAIN t : t[i] = d
    <3>1. call[d].stage \in ReplaceStages <=> \E i \in 1 .. Len(s) : s[i] = d
      BY <1>1 DEF QueueInv, Waits
    <3>2. ASSUME NEW i \in 1 .. Len(s), s[i] = d
          PROVE  i - 1 \in DOMAIN t /\ t[i - 1] = d
      BY <1>1, <3>2
    <3>3. ASSUME NEW i \in DOMAIN t, t[i] = d
          PROVE  i + 1 \in 1 .. Len(s) /\ s[i + 1] = d
      BY <1>1, <3>3
    <3> QED BY <1>2, <3>1, <3>2, <3>3
  <2>2. call'[c].stage \notin ReplaceStages
    BY <1>2 DEF Idle, ReplaceStages
  <2> QED BY <1>1, <1>3, <2>1, <2>2
<1>5. \A i, j \in DOMAIN t : t[i] = t[j] => i = j
  <2>1. \A i, j \in 1 .. Len(s) - 1 :
           s[i + 1] = s[j + 1] => i + 1 = j + 1
    BY <1>1 DEF QueueInv, Waits
  <2> QED BY <1>1, <2>1
<1>6. Waits'
  BY <1>1, <1>2, <1>4, <1>5 DEF Waits, Ends
<1>7. \A d \in Clients \ {c} : call[d].stage \notin ReplaceStages \ {"queued"}
  BY DEF QueueInv, Queued, Runs
<1>8. Queued'
  BY <1>2, <1>7 DEF Queued, Idle, ReplaceStages
<1> QED BY <1>6, <1>8 DEF QueueInv

-----------------------------------------------------------------------------
(* The inductive invariant.                                                *)

LEMMA QueueOfInv ==
  /\ IInv => QueueInv
  /\ QueueInv' /\ (Checked /\ Durable)'
       /\ (file \in Documents /\ durable \subseteq Documents /\ file \in durable)'
       /\ (kept \in 0 .. MaxRevision /\ crashes \in 0 .. MaxCrashes)'
     => IInv'
BY DEF IInv, QueueInv, Waits, TypeOK

LEMMA InitInv == Init => IInv
<1> SUFFICES ASSUME Init PROVE IInv
  OBVIOUS
<1>1. /\ NoDocument \in Documents /\ NoDocument.revision = 0
      /\ MaxCrashes \in Nat /\ MaxRevision \in Nat
  BY NoDocumentIsOne, ConfigAssumption DEF NoDocument
<1>2. \A c \in Clients : call[c] = Idle
  BY DEF Init
<1>3. TypeOK
  BY <1>1, <1>2 DEF Init, TypeOK, Calls, Idle, ReplaceStages
<1>4. Queued /\ Checked
  BY <1>2 DEF Queued, Checked, Idle, ReplaceStages
<1>5. Durable
  BY <1>1 DEF Init, Durable
<1> QED BY <1>3, <1>4, <1>5 DEF IInv

\* A step of a handler that leaves the disk, and what was accepted, alone.
LEMMA HandlerGoesOn ==
  ASSUME IInv, QueueInv', NEW c \in Clients, NEW x, To(c, x),
         UNCHANGED <<disk, kept, crashes>>,
         x.stage = "writing" =>
           file.revision = x.expected /\ file.revision < MaxRevision,
         x.stage \in {"written", "verify"} => durable = {file}
  PROVE  IInv'
<1>1. /\ call'[c] = x
      /\ \A d \in Clients \ {c} : call'[d] = call[d]
  BY DEF To, IInv, TypeOK
<1>2. Checked'
  BY <1>1 DEF IInv, Checked, disk
<1>3. Durable'
  BY DEF IInv, Durable, disk
<1> QED BY <1>2, <1>3, QueueOfInv DEF IInv, TypeOK, disk

\* The end of the replacement that runs.
LEMMA ReplacementEnds ==
  ASSUME IInv, NEW c \in Clients, Runs(c), Ends(c),
         UNCHANGED <<disk, kept, crashes>>
  PROVE  IInv'
<1>1. QueueInv'
  BY QueueShrinks, QueueOfInv
<1>2. To(c, Idle)
  BY DEF Ends
<1> QED BY <1>1, <1>2, HandlerGoesOn DEF Idle

\* A stop of the process or of the machine, which leaves a durable document.
LEMMA StopKeepsInv ==
  ASSUME IInv, Stopped,
         UNCHANGED disk \/ (file' \in durable /\ durable' = {file'})
  PROVE  IInv'
<1>1. \A c \in Clients : call'[c] = Idle
  BY DEF Stopped
<1>2. QueueInv'
  BY <1>1 DEF Stopped, QueueInv, Waits, Queued, Idle, Calls, ReplaceStages
<1>3. Checked'
  BY <1>1 DEF Checked, Idle
<1>4. Durable'
  BY DEF IInv, Durable, TypeOK, Documents, Stopped, disk
<1>5. crashes' \in 0 .. MaxCrashes
  BY ConfigAssumption DEF IInv, TypeOK, Stopped
<1>6. /\ file' \in Documents /\ durable' \subseteq Documents
      /\ file' \in durable'
  BY DEF IInv, TypeOK, disk
<1> QED BY <1>2, <1>3, <1>4, <1>5, <1>6, QueueOfInv DEF IInv, TypeOK, Stopped

LEMMA NextInv == IInv /\ [Next]_vars => IInv'
<1> SUFFICES ASSUME IInv, [Next]_vars PROVE IInv'
  OBVIOUS
<1>q. QueueInv
  BY QueueOfInv
<1>t. TypeOK /\ Queued /\ Checked /\ Durable
  BY DEF IInv
<1>f. file \in Documents /\ call \in [Clients -> Calls]
  BY <1>t DEF TypeOK
<1>1. ASSUME NEW c \in Clients, InspectStatus(c) PROVE IInv'
  <2> DEFINE stage == IF call[c].stage = "inspect" THEN "get"
                      ELSE IF call[c].stage = "queued" THEN "check" ELSE "verify"
             x == [call[c] EXCEPT !.stage = stage, !.seen = file]
  <2>1. \/ call[c].stage \in InspectStages /\ stage \in InspectStages
        \/ call[c].stage \in ReplaceStages /\ stage \in ReplaceStages
    BY <1>1 DEF InspectStatus, Inspecting, InspectStages, ReplaceStages
  <2>2. To(c, [call[c] EXCEPT
            !.stage = IF @ = "inspect" THEN "get"
                      ELSE IF @ = "queued" THEN "check" ELSE "verify",
            !.seen = file])
    BY <1>1 DEF InspectStatus
  <2>3. call[c] \in Calls
    BY <1>f
  <2>5. To(c, x)
    BY <2>2
  <2> HIDE DEF stage
  <2>4. x \in Calls /\ x.stage = stage
    BY <1>f, <2>1, <2>3, CallGoesOn
  <2> HIDE DEF x
  <2>6. x.stage \in ReplaceStages <=> call[c].stage \in ReplaceStages
    BY <2>1, <2>4 DEF InspectStages, ReplaceStages
  <2>7. x.stage \in ReplaceStages \ {"queued"} => Runs(c)
    BY <1>1, <2>4, <2>6 DEF InspectStatus, Inspecting, ReplaceStages
  <2>8. QueueInv'
    BY <1>1, <1>q, <2>4, <2>5, <2>6, <2>7, QueueGoesOn DEF InspectStatus
  <2>9. /\ x.stage = "verify" => durable = {file}
        /\ x.stage \in {"get", "check", "verify"}
    BY <1>1, <1>t, <2>4 DEF InspectStatus, Inspecting, Checked, stage
  <2> QED BY <1>1, <2>4, <2>5, <2>8, <2>9, HandlerGoesOn DEF InspectStatus
<1>2. ASSUME NEW c \in Clients, Get(c) \/ GetAnswers(c) PROVE IInv'
  <2> DEFINE x == IF Get(c) THEN [stage |-> "inspect", seen |-> NoDocument] ELSE Idle
  <2>1. /\ To(c, x) /\ x \in Calls
        /\ x.stage \in {"inspect", "idle"}
        /\ call[c].stage \in {"idle", "get"}
    BY <1>2, NoDocumentIsOne DEF Get, GetAnswers, Calls, Idle, InspectStages
  <2>2. QueueInv'
    BY <1>2, <1>q, <2>1, QueueGoesOn DEF Get, GetAnswers, ReplaceStages
  <2> QED BY <1>2, <2>1, <2>2, HandlerGoesOn DEF Get, GetAnswers
<1>3. ASSUME NEW c \in Clients, NEW e \in 0 .. MaxRevision,
             NEW w \in Workspaces, Replace(c, e, w)
      PROVE  IInv'
  <2> DEFINE x == [stage |-> "queued", expected |-> e, workspace |-> w,
                   seen |-> NoDocument]
  <2>1. x \in Calls
    BY NoDocumentIsOne DEF Calls, ReplaceStages
  <2>2. To(c, x) /\ x.stage = "queued"
    BY <1>3 DEF Replace
  <2>3. QueueInv'
    BY <1>3, <1>q, <2>1, <2>2, QueueGrows DEF Replace
  <2> HIDE DEF x
  <2> QED BY <1>3, <2>2, <2>3, HandlerGoesOn DEF Replace
<1>4. ASSUME NEW c \in Clients, Refused(c) \/ WriteFails(c) \/ SyncFails(c)
      PROVE  IInv'
  BY <1>4, ReplacementEnds DEF Refused, WriteFails, SyncFails
<1>5. ASSUME NEW c \in Clients, Accepted(c) PROVE IInv'
  <2> DEFINE x == [call[c] EXCEPT !.stage = "writing", !.seen = NoDocument]
  <2>1. call[c] \in [stage : ReplaceStages, seen : Documents,
                     expected : 0 .. MaxRevision, workspace : Workspaces]
    BY <1>5, <1>f, CallFields DEF Accepted, ReplaceStages
  <2>2. x \in Calls /\ x.stage = "writing" /\ x.expected = call[c].expected
    BY <2>1, NoDocumentIsOne DEF Calls, ReplaceStages
  <2>3. To(c, x)
    BY <1>5 DEF Accepted
  <2>4. QueueInv'
    BY <1>5, <1>q, <2>1, <2>2, <2>3, QueueGoesOn DEF Accepted, ReplaceStages
  <2>5. file.revision = x.expected /\ file.revision < MaxRevision
    BY <1>5, <2>2 DEF Accepted, MayReplace
  <2> HIDE DEF x
  <2> QED BY <1>5, <2>2, <2>3, <2>4, <2>5, HandlerGoesOn DEF Accepted
<1>6. ASSUME NEW c \in Clients, Rename(c) PROVE IInv'
  <2> DEFINE x == [call[c] EXCEPT !.stage = "renamed"]
  <2>1. call[c] \in [stage : ReplaceStages, seen : Documents,
                     expected : 0 .. MaxRevision, workspace : Workspaces]
    BY <1>6, <1>f, CallFields DEF Rename, ReplaceStages
  <2>2. x \in Calls /\ x.stage = "renamed"
    BY <2>1 DEF Calls, ReplaceStages
  <2>3. To(c, x)
    BY <1>6 DEF Rename
  <2>4. QueueInv'
    BY <1>6, <1>q, <2>2, <2>3, QueueGoesOn DEF Rename, ReplaceStages
  <2>5. /\ file.revision = call[c].expected /\ file.revision < MaxRevision
    BY <1>6, <1>t DEF Rename, Checked
  <2>6. file' = [revision |-> file.revision + 1, workspace |-> call[c].workspace]
    BY <1>6, <2>5 DEF Rename
  <2>7. file' \in Documents /\ file'.revision = file.revision + 1
    BY <1>f, <2>1, <2>5, <2>6, ConfigAssumption DEF Documents
  <2>8. Durable'
    <3>1. ASSUME NEW d \in durable'
          PROVE  /\ kept' <= d.revision /\ d.revision <= file'.revision
                 /\ d.revision = file'.revision => d = file'
      <4>1. CASE d = file'
        BY <1>6, <1>f, <1>t, <2>7, <4>1, ConfigAssumption
           DEF Rename, Durable, TypeOK, Documents
      <4>2. CASE d \in durable
        <5>1. kept <= d.revision /\ d.revision <= file.revision
          BY <1>t, <4>2 DEF Durable
        <5>2. d.revision \in Nat /\ file.revision \in Nat
          BY <1>f, <1>t, <4>2, ConfigAssumption DEF TypeOK, Documents
        <5> QED BY <1>6, <2>7, <5>1, <5>2 DEF Rename
      <4> QED BY <1>6, <3>1, <4>1, <4>2 DEF Rename
    <3> QED BY <3>1 DEF Durable
  <2>9. Checked'
    <3>1. \A d \in Clients \ {c} : call'[d] = call[d]
      BY <2>3, <1>f DEF To
    <3>2. call'[c] = x
      BY <2>3, <1>f DEF To
    <3>3. \A d \in Clients \ {c} :
             call[d].stage \notin {"writing", "written", "verify"}
      BY <1>6, <1>t DEF Rename, Queued, Runs, ReplaceStages
    <3> QED BY <2>2, <3>1, <3>2, <3>3 DEF Checked
  <2> QED
    BY <1>6, <1>t, <2>4, <2>7, <2>8, <2>9, QueueOfInv DEF Rename, TypeOK
<1>7. ASSUME NEW c \in Clients, SyncDirectory(c) PROVE IInv'
  <2> DEFINE x == [call[c] EXCEPT !.stage = "written"]
  <2>1. call[c] \in [stage : ReplaceStages, seen : Documents,
                     expected : 0 .. MaxRevision, workspace : Workspaces]
    BY <1>7, <1>f, CallFields DEF SyncDirectory, ReplaceStages
  <2>2. x \in Calls /\ x.stage = "written"
    BY <2>1 DEF Calls, ReplaceStages
  <2>3. To(c, x)
    BY <1>7 DEF SyncDirectory
  <2>4. QueueInv'
    BY <1>7, <1>q, <2>2, <2>3, QueueGoesOn DEF SyncDirectory, ReplaceStages
  <2>5. Durable'
    BY <1>7, <1>t DEF SyncDirectory, Durable, TypeOK
  <2>6. Checked'
    <3>1. \A d \in Clients \ {c} : call'[d] = call[d]
      BY <2>3, <1>f DEF To
    <3>2. call'[c] = x
      BY <2>3, <1>f DEF To
    <3>3. \A d \in Clients \ {c} :
             call[d].stage \notin {"writing", "written", "verify"}
      BY <1>7, <1>t DEF SyncDirectory, Queued, Runs, ReplaceStages
    <3> QED BY <1>7, <2>2, <3>1, <3>2, <3>3 DEF Checked, SyncDirectory
  <2> QED
    BY <1>7, <1>t, <2>4, <2>5, <2>6, QueueOfInv DEF SyncDirectory, TypeOK
<1>8. ASSUME NEW c \in Clients, Verified(c) PROVE IInv'
  <2>1. QueueInv'
    BY <1>8, <1>q, QueueShrinks DEF Verified
  <2>2. durable = {file} /\ UNCHANGED disk /\ UNCHANGED crashes
    BY <1>8, <1>t DEF Verified, Checked
  <2>3. kept' \in {kept, file.revision}
    BY <1>8 DEF Verified
  <2>4. /\ call'[c] = Idle
        /\ \A d \in Clients \ {c} : call'[d] = call[d]
    BY <1>8, <1>f DEF Verified, Ends, To
  <2>5. Checked'
    BY <1>t, <2>2, <2>4 DEF Checked, disk, Idle
  <2>6. kept' \in 0 .. MaxRevision
    BY <1>t, <1>f, <2>3 DEF TypeOK, Documents
  <2>7. Durable'
    BY <1>t, <1>f, <2>2, <2>3, ConfigAssumption DEF Durable, Documents, disk
  <2> QED
    BY <1>t, <2>1, <2>2, <2>5, <2>6, <2>7, QueueOfInv DEF disk, TypeOK
<1>9. CASE Crash \/ PowerLoss
  BY <1>9, StopKeepsInv DEF Crash, PowerLoss
<1>10. CASE UNCHANGED vars
  <2>1. UNCHANGED <<file, durable, writeTail, call, kept, crashes>>
    BY <1>10 DEF vars, disk
  <2> QED
    BY <1>t, <2>1 DEF IInv, TypeOK, Queued, Checked, Durable, Runs
<1> QED
  BY <1>1, <1>2, <1>3, <1>4, <1>5, <1>6, <1>7, <1>8, <1>9, <1>10
     DEF Next, Step

\* The invariant holds in every reachable state, whatever the bounds.
THEOREM Invariance == Spec => []IInv
BY InitInv, NextInv, PTL DEF Spec

\* Type correctness of the store: exactly the replacements wait, each once.
THEOREM TypeCorrect == Spec => []TypeOK
<1>1. IInv => TypeOK
  BY DEF IInv
<1> QED BY <1>1, Invariance, PTL

-----------------------------------------------------------------------------
(* The register.                                                           *)

\* What a request promises is what the register knows of it.
LEMMA PromisedStages ==
  ASSUME NEW x \in Calls
  PROVE  /\ x.stage \in {"queued", "check", "writing"} =>
              Promised(x) = Register!Asked(x.expected, x.workspace)
         /\ x.stage \in {"renamed", "written", "verify"} =>
              Promised(x) = Register!Done
         /\ x.stage \in {"idle", "inspect", "get"} =>
              Promised(x) = Register!Idle
BY DEF Promised, Register!Asked, Register!Done, Register!Idle, Idle

\* Reading the document leaves the promise of the request as it is.
Seen(x, d) ==
  [x EXCEPT !.stage = IF @ = "inspect" THEN "get"
                      ELSE IF @ = "queued" THEN "check" ELSE "verify",
            !.seen = d]

LEMMA SeenPromisesTheSame ==
  ASSUME NEW x \in Calls, NEW d \in Documents,
         x.stage \in {"inspect", "queued", "written"}
  PROVE  Seen(x, d) \in Calls /\ Promised(Seen(x, d)) = Promised(x)
<1>1. CASE x.stage = "inspect"
  <2>1. x \in [stage : InspectStages, seen : Documents]
    BY <1>1, CallFields DEF InspectStages
  <2>2. Seen(x, d) \in Calls /\ Seen(x, d).stage = "get"
    BY <1>1, <2>1 DEF Seen, Calls, InspectStages
  <2> QED BY <1>1, <2>2, PromisedStages
<1>2. CASE x.stage \in {"queued", "written"}
  <2>1. x \in [stage : ReplaceStages, seen : Documents,
               expected : 0 .. MaxRevision, workspace : Workspaces]
    BY <1>2, CallFields DEF ReplaceStages
  <2>2. /\ Seen(x, d) \in Calls
        /\ Seen(x, d).stage = IF x.stage = "queued" THEN "check" ELSE "verify"
        /\ Seen(x, d).expected = x.expected
        /\ Seen(x, d).workspace = x.workspace
    BY <1>2, <2>1 DEF Seen, Calls, ReplaceStages
  <2>3. CASE x.stage = "queued"
    BY <2>2, <2>3, PromisedStages
  <2>4. CASE x.stage = "written"
    BY <2>2, <2>4, PromisedStages
  <2> QED BY <1>2, <2>2, <2>3, <2>4
<1> QED BY <1>1, <1>2

\* The requests that the register sees.
Promises == [c \in Clients |-> Promised(call[c])]

\* A request that moves changes its own promise.
LEMMA PromiseMoves ==
  ASSUME call \in [Clients -> Calls], NEW c \in Clients, NEW x, To(c, x)
  PROVE  Promises' = [Promises EXCEPT ![c] = Promised(x)]
<1>1. /\ call'[c] = x
      /\ \A d \in Clients \ {c} : call'[d] = call[d]
  BY DEF To
<1> QED BY <1>1 DEF Promises

\* The store starts as a register does.
LEMMA RegisterInit == Init => Register!Init
<1> SUFFICES ASSUME Init PROVE Register!Init
  OBVIOUS
<1>1. file \in [revision : {0}, workspace : Workspaces]
  BY ConfigAssumption DEF Init, NoDocument
<1>2. \A c \in Clients : Promised(call[c]) = Register!Idle
  BY DEF Init, Promised, Idle, Register!Idle
<1> QED BY <1>1, <1>2 DEF Register!Init, Init

\* A stop may lose what was not accepted, and no more.
LEMMA StopLoses ==
  ASSUME IInv, Stopped,
         UNCHANGED disk \/ (file' \in durable /\ durable' = {file'})
  PROVE  Register!Lose
<1>1. file' \in durable
  BY DEF IInv, TypeOK, disk
<1>2. /\ file' \in Documents /\ kept <= file'.revision
      /\ file'.revision <= file.revision
      /\ file'.revision = file.revision => file' = file
  BY <1>1 DEF IInv, TypeOK, Durable
<1>3. kept \in Nat /\ file.revision \in Nat /\ file'.revision \in Nat
  BY <1>2, ConfigAssumption DEF IInv, TypeOK, Documents
<1>4. file' \in [revision : kept .. file.revision, workspace : Workspaces]
  BY <1>2, <1>3 DEF Documents
<1>5. \A c \in Clients : Promised(call'[c]) = Register!Idle
  BY DEF Stopped, Promised, Idle, Register!Idle
<1>6. UNCHANGED kept
  BY DEF Stopped
<1> QED BY <1>2, <1>4, <1>5, <1>6 DEF Register!Lose

\* Each step of the store is one of the register, or none.
LEMMA RegisterNext ==
  IInv /\ [Next]_vars => [Register!Next]_(Register!vars)
<1> SUFFICES ASSUME IInv, [Next]_vars
             PROVE  [Register!Next]_(Register!vars)
  OBVIOUS
<1>t. /\ TypeOK /\ Checked /\ file \in Documents
      /\ call \in [Clients -> Calls]
  BY DEF IInv, TypeOK
<1>s. ASSUME UNCHANGED <<file, kept>>, Promises' = Promises
      PROVE  UNCHANGED Register!vars
  BY <1>s DEF Register!vars, Promises
<1>1. ASSUME NEW c \in Clients, NEW x \in Calls, To(c, x),
             Promised(x) = Promised(call[c]), UNCHANGED <<file, kept>>
      PROVE  UNCHANGED Register!vars
  <2>1. Promises' = Promises
    BY <1>1, <1>t, PromiseMoves DEF Promises
  <2> QED BY <1>1, <2>1, <1>s
<1>2. ASSUME NEW c \in Clients, To(c, Idle), UNCHANGED <<file, kept>>
      PROVE  Register!Fail(c)
  <2>1. Promises' = [Promises EXCEPT ![c] = Register!Idle]
    BY <1>2, <1>t, PromiseMoves DEF Promised, Idle, Register!Idle
  <2> QED BY <1>2, <2>1 DEF Register!Fail, Promises
<1>3. ASSUME NEW c \in Clients, InspectStatus(c)
      PROVE  UNCHANGED Register!vars
  <2> DEFINE x == Seen(call[c], file)
  <2>1. call[c] \in Calls /\ file \in Documents
    BY <1>t
  <2>2. call[c].stage \in {"inspect", "queued", "written"}
    BY <1>3 DEF InspectStatus, Inspecting
  <2>3. x \in Calls /\ Promised(x) = Promised(call[c])
    BY <2>1, <2>2, SeenPromisesTheSame
  <2>4. To(c, x)
    BY <1>3 DEF InspectStatus, Seen
  <2> HIDE DEF x
  <2> QED BY <1>1, <1>3, <2>3, <2>4 DEF InspectStatus, disk
<1>4. ASSUME NEW c \in Clients, Get(c) \/ GetAnswers(c)
      PROVE  UNCHANGED Register!vars
  <2> DEFINE x == IF Get(c) THEN [stage |-> "inspect", seen |-> NoDocument] ELSE Idle
  <2>1. /\ To(c, x) /\ x \in Calls
        /\ x.stage \in {"inspect", "idle"}
        /\ call[c].stage \in {"idle", "get"}
    BY <1>4, NoDocumentIsOne DEF Get, GetAnswers, Calls, Idle, InspectStages
  <2> HIDE DEF x
  <2>2. Promised(x) = Promised(call[c])
    BY <1>t, <2>1, PromisedStages
  <2> QED BY <1>1, <1>4, <2>1, <2>2 DEF Get, GetAnswers, disk
<1>5. ASSUME NEW c \in Clients, NEW e \in 0 .. MaxRevision,
             NEW w \in Workspaces, Replace(c, e, w)
      PROVE  Register!Ask(c, e, w)
  <2> DEFINE x == [stage |-> "queued", expected |-> e, workspace |-> w,
                   seen |-> NoDocument]
  <2>1. Promises' = [Promises EXCEPT ![c] = Promised(x)]
    BY <1>5, <1>t, PromiseMoves DEF Replace
  <2>2. Promised(x) = Register!Asked(e, w)
    BY DEF Promised, Register!Asked
  <2>3. Promises[c] = Register!Idle
    BY <1>5 DEF Replace, Promises, Promised, Idle, Register!Idle
  <2> QED BY <1>5, <2>1, <2>2, <2>3 DEF Register!Ask, Replace, Promises, disk
<1>6. ASSUME NEW c \in Clients, Refused(c) \/ WriteFails(c) \/ SyncFails(c)
      PROVE  Register!Fail(c)
  BY <1>2, <1>6 DEF Refused, WriteFails, SyncFails, Ends, disk
<1>7. ASSUME NEW c \in Clients, Accepted(c)
      PROVE  UNCHANGED Register!vars
  <2> DEFINE x == [call[c] EXCEPT !.stage = "writing", !.seen = NoDocument]
  <2>1. /\ call[c] \in Calls /\ call[c].stage = "check"
        /\ call[c] \in [stage : ReplaceStages, seen : Documents,
                        expected : 0 .. MaxRevision, workspace : Workspaces]
    BY <1>7, <1>t, CallFields DEF Accepted, ReplaceStages
  <2>2. /\ x \in Calls /\ x.stage = "writing"
        /\ x.expected = call[c].expected /\ x.workspace = call[c].workspace
    BY <2>1, NoDocumentIsOne DEF Calls, ReplaceStages
  <2>3. To(c, x)
    BY <1>7 DEF Accepted
  <2> HIDE DEF x
  <2>4. Promised(x) = Promised(call[c])
    BY <2>1, <2>2, PromisedStages
  <2> QED BY <1>1, <1>7, <2>2, <2>3, <2>4 DEF Accepted, disk
<1>8. ASSUME NEW c \in Clients, Rename(c)
      PROVE  \E e \in 0 .. MaxRevision, w \in Workspaces : Register!Replace(c, e, w)
  <2> DEFINE x == [call[c] EXCEPT !.stage = "renamed"]
             e == call[c].expected
             w == call[c].workspace
  <2>1. /\ call[c] \in Calls /\ call[c].stage = "writing"
        /\ call[c] \in [stage : ReplaceStages, seen : Documents,
                        expected : 0 .. MaxRevision, workspace : Workspaces]
    BY <1>8, <1>t, CallFields DEF Rename, ReplaceStages
  <2>2. x \in Calls /\ x.stage = "renamed"
    BY <2>1 DEF Calls, ReplaceStages
  <2>3. To(c, x)
    BY <1>8 DEF Rename
  <2> HIDE DEF x
  <2>4. Promises' = [Promises EXCEPT ![c] = Register!Done]
    BY <1>t, <2>2, <2>3, PromiseMoves, PromisedStages
  <2>5. Promises[c] = Register!Asked(e, w)
    BY <2>1, PromisedStages DEF Promises
  <2>6. file.revision = e
    BY <1>t, <2>1 DEF Checked
  <2>7. file' = [revision |-> e + 1, workspace |-> w] /\ UNCHANGED kept
    BY <1>8 DEF Rename
  <2>8. e \in 0 .. MaxRevision /\ w \in Workspaces
    BY <2>1
  <2>9. Register!Replace(c, e, w)
    BY <2>4, <2>5, <2>6, <2>7 DEF Register!Replace, Promises
  <2> QED BY <2>8, <2>9
<1>9. ASSUME NEW c \in Clients, SyncDirectory(c)
      PROVE  UNCHANGED Register!vars
  <2> DEFINE x == [call[c] EXCEPT !.stage = "written"]
  <2>1. /\ call[c] \in Calls /\ call[c].stage = "renamed"
        /\ call[c] \in [stage : ReplaceStages, seen : Documents,
                        expected : 0 .. MaxRevision, workspace : Workspaces]
    BY <1>9, <1>t, CallFields DEF SyncDirectory, ReplaceStages
  <2>2. x \in Calls /\ x.stage = "written"
    BY <2>1 DEF Calls, ReplaceStages
  <2>3. To(c, x)
    BY <1>9 DEF SyncDirectory
  <2> HIDE DEF x
  <2>4. Promised(x) = Promised(call[c])
    BY <2>1, <2>2, PromisedStages
  <2> QED BY <1>1, <1>9, <2>2, <2>3, <2>4 DEF SyncDirectory
<1>10. ASSUME NEW c \in Clients, Verified(c)
       PROVE  Register!Accept(c) \/ Register!Fail(c)
  <2>1. To(c, Idle) /\ UNCHANGED file
    BY <1>10 DEF Verified, Ends, disk
  <2>2. CASE kept' = file.revision
    <3>1. call[c] \in Calls /\ call[c].stage = "verify"
      BY <1>10, <1>t DEF Verified
    <3>2. Promises[c] = Register!Done
      BY <3>1, PromisedStages DEF Promises
    <3>3. Promises' = [Promises EXCEPT ![c] = Register!Idle]
      BY <1>t, <2>1, PromiseMoves DEF Promised, Idle, Register!Idle
    <3> QED BY <2>1, <2>2, <3>2, <3>3 DEF Register!Accept, Promises
  <2>3. CASE UNCHANGED kept
    BY <1>2, <2>1, <2>3
  <2> QED BY <1>10, <2>2, <2>3 DEF Verified
<1>11. CASE Crash \/ PowerLoss
  BY <1>11, StopLoses DEF Crash, PowerLoss, Register!Next
<1>12. CASE UNCHANGED vars
  BY <1>12 DEF vars, disk, Register!vars
<1> QED
  BY <1>3, <1>4, <1>5, <1>6, <1>7, <1>8, <1>9, <1>10, <1>11, <1>12
     DEF Next, Step, Register!Next

\* The configuration is a register with compare and swap.
THEOREM Implementation == Spec => ImplementsRegister
BY RegisterInit, RegisterNext, Invariance, PTL
   DEF Spec, ImplementsRegister, Register!Spec
=============================================================================
