---------------------------- MODULE PaciumConfig ----------------------------
(***************************************************************************)
(* The store of the Pacium configuration: pacium.json is inspected in two  *)
(* steps, its metadata and then its bytes, and replaced by a temporary     *)
(* file that is renamed over it.  Replacements run one after another;      *)
(* inspections run beside them.                                            *)
(*                                                                         *)
(* Workspaces of different size stand for all workspaces.  The paths,      *)
(* presets and references of one may turn invalid, and valid again, at any *)
(* time: every check of them may fail.                                     *)
(***************************************************************************)
EXTENDS Naturals, Sequences

CONSTANTS
  Clients, Workspaces,
  MaxRevision,   \* Number.MAX_SAFE_INTEGER
  MaxCrashes     \* bound on the crashes and power losses

ASSUME ConfigAssumption ==
  /\ MaxRevision \in Nat /\ MaxCrashes \in Nat
  /\ Workspaces # {}

VARIABLES
  file,       \* the document that is visible, revision 0 if there is none
  durable,    \* the documents that a power loss can leave
  writeTail,  \* the queued replacements, the first one runs
  call,       \* the place of each client's request in its handler
  kept,       \* history: the last revision accepted
  crashes

disk == <<file, durable>>
vars == <<disk, writeTail, call, kept, crashes>>

Documents == [revision : 0 .. MaxRevision, workspace : Workspaces]
NoDocument == [revision |-> 0, workspace |-> CHOOSE w \in Workspaces : TRUE]
Idle == [stage |-> "idle"]

Init ==
  /\ file = NoDocument
  /\ durable = {file}
  /\ writeTail = <<>>
  /\ call = [c \in Clients |-> Idle]
  /\ kept = 0
  /\ crashes = 0

To(c, place) == call' = [call EXCEPT ![c] = place]
Runs(c) == writeTail # <<>> /\ Head(writeTail) = c

\* Faulty variant: a replacement that ends does not resolve the tail.
EndsAlone(c) ==
  /\ To(c, Idle)
  /\ UNCHANGED writeTail

\* A replacement ends, and the next one starts.
Ends(c) ==
  /\ To(c, Idle)
  /\ writeTail' = Tail(writeTail)

-----------------------------------------------------------------------------
(* inspect()                                                               *)

Inspecting(c) ==
  \/ call[c].stage = "inspect"
  \/ Runs(c) /\ call[c].stage \in {"queued", "written"}

\* The metadata of the file is read.
InspectStatus(c) ==
  /\ Inspecting(c)
  /\ To(c, [call[c] EXCEPT
       !.stage = IF @ = "inspect" THEN "get"
                 ELSE IF @ = "queued" THEN "check" ELSE "verify",
       !.seen = file])
  /\ UNCHANGED <<disk, writeTail, kept, crashes>>

\* The observation when its bytes are read: bytes of another length are an
\* error.
Missing(c) == call[c].seen.revision = 0
Readable(c) == ~Missing(c) /\ file.workspace = call[c].seen.workspace

\* A client asks for the configuration.
Get(c) ==
  /\ call[c] = Idle
  /\ To(c, [stage |-> "inspect", seen |-> NoDocument])
  /\ UNCHANGED <<disk, writeTail, kept, crashes>>

GetAnswers(c) ==
  /\ call[c].stage = "get"
  /\ To(c, Idle)
  /\ UNCHANGED <<disk, writeTail, kept, crashes>>

-----------------------------------------------------------------------------
(* replace()                                                               *)

Replace(c, e, w) ==
  /\ call[c] = Idle
  /\ To(c, [stage |-> "queued", expected |-> e, workspace |-> w,
            seen |-> NoDocument])
  /\ writeTail' = Append(writeTail, c)
  /\ UNCHANGED <<disk, kept, crashes>>

\* Faulty variant: any revision but a later one will do.
MayReplaceOlder(c) ==
  /\ Missing(c) \/ Readable(c)
  /\ file.revision >= call[c].expected /\ file.revision < MaxRevision

\* The current document is the expected one and its revision can advance.
MayReplace(c) ==
  /\ Missing(c) \/ Readable(c)
  /\ file.revision = call[c].expected /\ file.revision < MaxRevision

\* invalid_state, conflict, invalid_workspace; a workspace may also bind a
\* session that is not live or be too large.
Refused(c) ==
  /\ Runs(c) /\ call[c].stage = "check"
  /\ Ends(c)
  /\ UNCHANGED <<disk, kept, crashes>>

Accepted(c) ==
  /\ Runs(c) /\ call[c].stage = "check"
  /\ MayReplace(c)
  /\ To(c, [call[c] EXCEPT !.stage = "writing", !.seen = NoDocument])
  /\ UNCHANGED <<disk, writeTail, kept, crashes>>

\* write_failed
WriteFails(c) ==
  /\ Runs(c) /\ call[c].stage = "writing"
  /\ Ends(c)
  /\ UNCHANGED <<disk, kept, crashes>>

\* The temporary file, written and synced, replaces the document.
Rename(c) ==
  /\ Runs(c) /\ call[c].stage = "writing"
  /\ file' = [revision |-> call[c].expected + 1,
              workspace |-> call[c].workspace]
  /\ durable' = durable \cup {file'}
  /\ To(c, [call[c] EXCEPT !.stage = "renamed"])
  /\ UNCHANGED <<writeTail, kept, crashes>>

SyncDirectory(c) ==
  /\ Runs(c) /\ call[c].stage = "renamed"
  /\ durable' = {file}
  /\ To(c, [call[c] EXCEPT !.stage = "written"])
  /\ UNCHANGED <<file, writeTail, kept, crashes>>

\* durability_unknown
SyncFails(c) ==
  /\ Runs(c) /\ call[c].stage = "renamed"
  /\ Ends(c)
  /\ UNCHANGED <<disk, kept, crashes>>

\* The replacement was inspected and is answered, or invalid_result.
Verified(c) ==
  /\ Runs(c) /\ call[c].stage = "verify"
  /\ Ends(c)
  /\ \/ /\ Readable(c) /\ file.revision = call[c].expected + 1
        /\ kept' = file.revision
     \/ UNCHANGED kept
  /\ UNCHANGED <<disk, crashes>>

-----------------------------------------------------------------------------
(* The environment.                                                        *)

Stopped ==
  /\ crashes < MaxCrashes /\ crashes' = crashes + 1
  /\ writeTail' = <<>>
  /\ call' = [c \in Clients |-> Idle]
  /\ UNCHANGED kept

Crash == Stopped /\ UNCHANGED disk

PowerLoss ==
  /\ Stopped
  /\ file' \in durable
  /\ durable' = {file'}

Step(c) ==
  \/ Get(c) \/ InspectStatus(c) \/ GetAnswers(c)
  \/ \E e \in 0 .. MaxRevision, w \in Workspaces : Replace(c, e, w)
  \/ Refused(c) \/ Accepted(c) \/ WriteFails(c) \/ Rename(c)
  \/ SyncDirectory(c) \/ SyncFails(c) \/ Verified(c)

Next == (\E c \in Clients : Step(c)) \/ Crash \/ PowerLoss

Spec == Init /\ [][Next]_vars

\* File operations settle and continuations run.
ConfigFairness ==
  \A c \in Clients :
    /\ WF_vars(InspectStatus(c) \/ GetAnswers(c) \/ Refused(c) \/ Verified(c))
    /\ WF_vars(WriteFails(c) \/ Rename(c) \/ SyncDirectory(c) \/ SyncFails(c))

-----------------------------------------------------------------------------
(* Type correctness: a request's place belongs to the handler, and exactly *)
(* the replacements wait for one another, each of them once.               *)
InspectStages == {"inspect", "get"}
ReplaceStages ==
  {"queued", "check", "writing", "renamed", "written", "verify"}
Calls ==
  {Idle}
  \cup [stage : InspectStages, seen : Documents]
  \cup [stage : ReplaceStages, seen : Documents,
        expected : 0 .. MaxRevision, workspace : Workspaces]

TypeOK ==
  /\ file \in Documents
  /\ durable \subseteq Documents /\ file \in durable
  /\ writeTail \in Seq(Clients)
  /\ call \in [Clients -> Calls]
  /\ kept \in 0 .. MaxRevision
  /\ crashes \in 0 .. MaxCrashes
  /\ \A c \in Clients :
       call[c].stage \in ReplaceStages
         <=> \E i \in DOMAIN writeTail : writeTail[i] = c
  /\ \A i, j \in DOMAIN writeTail : writeTail[i] = writeTail[j] => i = j

\* What a client's request is to the register.
Promised(x) ==
  CASE x.stage \in {"queued", "check", "writing"} ->
         [stage |-> "asked", expected |-> x.expected, workspace |-> x.workspace]
    [] x.stage \in {"renamed", "written", "verify"} -> [stage |-> "done"]
    [] OTHER -> Idle

\* The configuration is a register with compare and swap: no replacement
\* overwrites one it did not know of, and none that was accepted is lost,
\* not even when the machine stops.
Register == INSTANCE ConfigRegister WITH
  value <- file, request <- [c \in Clients |-> Promised(call[c])]

ImplementsRegister == Register!Spec

\* Every request returns: a replacement that fails lets the next one run.
EveryCallReturns ==
  \A c \in Clients : call[c] # Idle ~> call[c] = Idle
=============================================================================
