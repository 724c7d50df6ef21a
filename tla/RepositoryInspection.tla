------------------------ MODULE RepositoryInspection ------------------------
(***************************************************************************)
(* What the server tells a browser about a session's repository: the       *)
(* observation refreshRepository stores with the session, the changed      *)
(* files, the diff of one file, the recent commits and its verification.   *)
(* Each answer is put together from several Git commands, some of them     *)
(* running side by side, while the user works in the terminal: HEAD moves  *)
(* between two commands, and a command may be missing, time out, print too *)
(* much or fail.                                                           *)
(*                                                                         *)
(* A behaviour inspects either the working tree or the verification; of    *)
(* the latter this is the evidence of a run, whose processes and timers    *)
(* VerificationRuns has.                                                   *)
(*                                                                         *)
(* One request is followed; others meet it only in the stored observation, *)
(* which it reads once when it starts.  Paths are numbers, in the order    *)
(* the code sorts them, and a patch is its size and what it contains.  The *)
(* parser of Git's output and the protocol have the same rule for a path   *)
(* but for a leading backslash, which only the protocol refuses.           *)
(***************************************************************************)
EXTENDS Naturals, FiniteSetsExt, SequencesExt

CONSTANTS
  Paths,       \* the paths Git may report, a set of numbers
  Backslashed, \* those of them that begin with a backslash
  Codes,       \* the XY codes of ordinary records, pairs of letters
  MaxFiles,    \* MAX_CHANGED_FILES
  MaxPatch,    \* the bytes and lines a diff may have
  MaxCommits,  \* commits that exist
  MaxHistory,  \* MAX_GIT_HISTORY_COMMITS
  MaxMoves,    \* bound: moves of HEAD
  MaxDuration, \* the longest run the protocol admits, fifteen minutes
  Null

VARIABLES
  commit,      \* the commit HEAD names, 0 while it is unborn
  moves,
  repository,  \* session.summary.repository
  inspection,  \* the request: its operation, its path, what is read so far
  heads,       \* where HEAD was since the request began
  answered,    \* the observation sent last
  inspects,    \* "tree" or "verification"
  presets,     \* those configured for the root; Null without configuration
  run,         \* the latest verification run of the session
  ran          \* where HEAD was since it started

verificationVars == <<inspects, presets, run, ran>>
inspectionVars ==
  <<commit, moves, repository, inspection, heads, answered, verificationVars>>

-----------------------------------------------------------------------------
(* A Git command: how its process ends and what the runner makes of it.    *)

\* What Node reports of a process that did not exit by itself.  The error
\* of an overflow is Node's own and says nothing of a signal.
NodeError(child) ==
  CASE child = "missing"  -> [code |-> "ENOENT", killed |-> FALSE,
                              signal |-> "undefined"]
    [] child = "late"     -> [code |-> "null", killed |-> TRUE,
                              signal |-> "SIGTERM"]
    [] child = "overflow" -> [code |-> "MAXBUFFER", killed |-> FALSE,
                              signal |-> "undefined"]

\* The code of a GitCommandFailure.
FailureCode(child) ==
  LET error == NodeError(child) IN
  IF error.code = "ENOENT" THEN "git_unavailable"
  ELSE IF error.killed \/ error.signal # "null" THEN "timeout"
  ELSE "invalid_output"

Printed(out) == [exit |-> 0, sound |-> TRUE, out |-> out]
Malformed == [exit |-> 0, sound |-> FALSE, out |-> Null]
Exited(n) == [exit |-> n, sound |-> TRUE, out |-> Null]

HeadOf(n) == IF n = 0 THEN Null ELSE n

-----------------------------------------------------------------------------
(* inspectRepositoryContext.                                               *)

Observed(status, root, branch, headCommit, state, worktree, error) ==
  [of |-> "repository", status |-> status, root |-> root,
   name |-> root, branch |-> branch, headCommit |-> headCommit,
   headState |-> state, worktreeKind |-> worktree, error |-> error]

Ready(branch, headCommit, state) ==
  Observed("ready", "root", branch, headCommit, state, "main", Null)
NotRepository ==
  Observed("not_repository", Null, Null, Null, "unknown", "unknown", Null)
RepositoryError(root, worktree, code) ==
  Observed("error", root, Null, Null, "unknown", worktree, code)

\* What the commands read so far amount to; nothing while more are needed.
RepositoryRead(got) ==
  IF "identity" \notin DOMAIN got THEN {}
  ELSE IF got["identity"].exit # 0 THEN
    IF got["identity"].exit = 128 THEN {NotRepository}
    ELSE {RepositoryError(Null, "unknown", "inspection_failed")}
  ELSE IF ~got["identity"].sound THEN
    {RepositoryError(Null, "unknown", "invalid_output")}
  ELSE IF ~({"branch", "head"} \subseteq DOMAIN got) THEN {}
  ELSE
    LET branch == got["branch"].out
        head == got["head"].out
    IN {IF ~got["branch"].sound \/ ~got["head"].sound THEN
          RepositoryError("root", "main", "invalid_output")
        ELSE IF branch # Null /\ head # Null THEN
          Ready(branch, head, "branch")
        ELSE IF head # Null /\ got["branch"].exit = 1 THEN
          Ready(Null, head, "detached")
        ELSE IF branch # Null THEN Ready(branch, Null, "unborn")
        ELSE RepositoryError("root", "main", "inspection_failed")}

-----------------------------------------------------------------------------
(* inspectGitChanges: records of the status, line counts, aggregation.     *)

ConflictCodes ==
  {<<"D", "D">>, <<"A", "U">>, <<"U", "D">>, <<"U", "A">>, <<"D", "U">>,
   <<"A", "A">>, <<"U", "U">>}

KindFromStatus(xy) ==
  CASE "D" \in ToSet(xy) -> "deleted"
    [] "D" \notin ToSet(xy) /\ "T" \in ToSet(xy) -> "type_changed"
    [] ToSet(xy) \cap {"D", "T"} = {} /\ "A" \in ToSet(xy) -> "added"
    [] OTHER -> "modified"

Status(p, previous, kind, xy, conflicted) ==
  [path |-> p, previousPath |-> previous, kind |-> kind,
   staged |-> kind # "untracked" /\ xy[1] # ".",
   unstaged |-> kind # "untracked" /\ xy[2] # ".",
   untracked |-> kind = "untracked", conflicted |-> conflicted]

Tracked(p, previous, xy, kind) ==
  Status(p, previous, IF xy \in ConflictCodes THEN "conflicted" ELSE kind,
         xy, xy \in ConflictCodes)

\* The records Git may print for a path, as the parser reads them.
Records(p) ==
  {Tracked(p, Null, xy, KindFromStatus(xy)) : xy \in Codes}
    \cup {Tracked(p, q, <<"R", ".">>, "renamed") : q \in Paths \ {p}}
    \cup {Status(p, Null, "conflicted", <<"U", "U">>, TRUE),
          Status(p, Null, "untracked", <<"?", "?">>, FALSE)}

\* A status names a path once.
Statuses == UNION {{f \in [S -> UNION {Records(p) : p \in S}] :
                      \A p \in S : f[p] \in Records(p)} : S \in SUBSET Paths}

\* Line counts by path: Null stands for a binary file.
Numstats == UNION {[S -> {Null, 1}] : S \in SUBSET Paths}

MergedCount(left, right, p) ==
  IF p \notin DOMAIN right THEN left[p]
  ELSE IF p \notin DOMAIN left THEN right[p]
  ELSE IF Null \in {left[p], right[p]} THEN Null ELSE left[p] + right[p]

MergeNumstats(left, right) ==
  [p \in DOMAIN left \cup DOMAIN right |-> MergedCount(left, right, p)]

Changed(status, counts, large) ==
  LET related == {status.path, status.previousPath} \cap DOMAIN counts
      binary == \E p \in related : counts[p] = Null
      lines == IF binary \/ related = {} THEN Null
               ELSE MapThenSumSet(LAMBDA p : counts[p], related)
  IN [path |-> status.path, previousPath |-> status.previousPath,
      kind |-> status.kind, staged |-> status.staged,
      unstaged |-> status.unstaged, untracked |-> status.untracked,
      conflicted |-> status.conflicted,
      additions |-> lines, deletions |-> lines,
      binary |-> binary, large |-> status.path \in large]

ChangeRank(file) ==
  CASE file.conflicted -> 0
    [] ~file.conflicted /\ file.staged /\ file.unstaged -> 1
    [] ~file.conflicted /\ file.staged /\ ~file.unstaged -> 2
    [] ~file.conflicted /\ ~file.staged /\ file.unstaged -> 3
    [] OTHER -> 4

Before(f, g) ==
  \/ ChangeRank(f) < ChangeRank(g)
  \/ ChangeRank(f) = ChangeRank(g) /\ f.path < g.path

\* The files a changes observation holds: the first MaxFiles in order.
Kept(files) ==
  {f \in files : Cardinality({g \in files : Before(g, f)}) < MaxFiles}

Lines(n) == IF n = Null THEN 0 ELSE n

TotalsOf(files) ==
  [fileCount |-> Cardinality(files),
   additions |-> MapThenSumSet(LAMBDA f : Lines(f.additions), files),
   deletions |-> MapThenSumSet(LAMBDA f : Lines(f.deletions), files),
   unavailableLineCount |-> Cardinality({f \in files : f.additions = Null}),
   conflictCount |-> Cardinality({f \in files : f.conflicted})]

Changes(status, root, headCommit, files, totals, truncated, error) ==
  [of |-> "changes", status |-> status, root |-> root,
   headCommit |-> headCommit, files |-> files, totals |-> totals,
   truncated |-> truncated, error |-> error]

UnavailableChanges(status, root, error) ==
  Changes(status, root, Null, {}, TotalsOf({}), FALSE, error)

AggregatedAll(headCommit, all) ==
  Changes("ready", "root", headCommit, Kept(all), TotalsOf(all),
          Cardinality(all) > MaxFiles, Null)

Aggregated(headCommit, all) ==
  Changes("ready", "root", headCommit, Kept(all), TotalsOf(Kept(all)),
          Cardinality(all) > MaxFiles, Null)

\* The commands that count lines: one against HEAD, two while it is unborn.
NumstatCommands(got) ==
  IF got["head"].out = Null THEN {"numstatCached", "numstatUnstaged"}
  ELSE {"numstat"}

ChangesRead(got) ==
  IF ~({"status", "head"} \subseteq DOMAIN got) THEN {}
  ELSE IF got["status"].exit # 0 THEN
    {UnavailableChanges("error", "root", "inspection_failed")}
  ELSE IF ~got["head"].sound \/ ~got["status"].sound THEN
    {UnavailableChanges("error", "root", "invalid_output")}
  ELSE IF ~(NumstatCommands(got) \subseteq DOMAIN got) THEN {}
  ELSE IF \E k \in NumstatCommands(got) : got[k].exit # 0 THEN
    {UnavailableChanges("error", "root", "inspection_failed")}
  ELSE IF \E k \in NumstatCommands(got) : ~got[k].sound THEN
    {UnavailableChanges("error", "root", "invalid_output")}
  ELSE IF "sizes" \notin DOMAIN got THEN {}
  ELSE
    LET counts == IF got["head"].out # Null THEN got["numstat"].out
                  ELSE MergeNumstats(got["numstatCached"].out,
                                     got["numstatUnstaged"].out)
    IN {Aggregated(got["head"].out,
          {Changed(status, counts, got["sizes"].out) :
             status \in Range(got["status"].out)})}

-----------------------------------------------------------------------------
(* inspectGitDiff, once the changes are read, and its normalizer.          *)

Patch(kind, size) == [kind |-> kind, size |-> size]
Patches ==
  {Patch("text", n) : n \in 0..(MaxPatch + 1)}
    \cup {Patch("binary", 1), Patch("invalid", 1)}

Section(source, patch, base) ==
  [source |-> source, patch |-> patch, base |-> base]

Diff(status, root, headCommit, path, previous, sections, error) ==
  [of |-> "diff", status |-> status, root |-> root,
   headCommit |-> headCommit, path |-> path, previousPath |-> previous,
   sections |-> sections,
   error |-> error]

DiffError(root, headCommit, path, previous, error) ==
  IF root = Null THEN Diff("error", Null, Null, path, Null, <<>>, error)
  ELSE Diff("error", root, headCommit, path, previous, <<>>, error)

Named(changes, path) == {f \in changes.files : f.path = path}

\* What a diff needs of the changes: its file and the commit they name.
Selected(changes, path) ==
  [headCommit |-> changes.headCommit,
   file |-> CHOOSE f \in Named(changes, path) : TRUE]

\* An answer about a file of the changes.
OfFile(status, selected, sections, error) ==
  Diff(status, "root", selected.headCommit, selected.file.path,
       selected.file.previousPath, sections, error)

\* The diffs that show a file, in the order of their sections.
DiffCommands(selected) ==
  LET file == selected.file IN
  IF file.untracked THEN <<"untracked">>
  ELSE IF selected.headCommit # Null THEN <<"combined">>
  ELSE IF file.conflicted \/ (file.staged /\ file.unstaged)
  THEN <<"staged", "unstaged">>
  ELSE IF file.staged THEN <<"staged">>
  ELSE IF file.unstaged THEN <<"unstaged">> ELSE <<>>

\* There are at most two sections.
SizeOf(sections) ==
  CASE Len(sections) = 0 -> 0
    [] Len(sections) = 1 -> sections[1].patch.size
    [] OTHER -> sections[1].patch.size + sections[2].patch.size

\* The sections that have a patch: all, one of two, or none.
Populated(raw) ==
  LET shown == {n \in DOMAIN raw : raw[n].patch.size > 0}
  IN IF shown = DOMAIN raw THEN raw
     ELSE IF shown = {} THEN <<>>
     ELSE <<raw[CHOOSE n \in shown : TRUE]>>

NormalizeDiff(selected, raw) ==
  LET populated == Populated(raw)
      refused == {n \in DOMAIN populated :
                    \/ populated[n].patch.kind = "invalid"
                    \/ ~(SizeOf(SubSeq(populated, 1, n)) <= MaxPatch)}
  IN IF populated = <<>> THEN OfFile("empty", selected, <<>>, Null)
     ELSE IF \E s \in Range(populated) : s.patch.kind = "binary" THEN
       OfFile("binary", selected, <<>>, Null)
     ELSE IF refused = {} THEN OfFile("ready", selected, populated, Null)
     ELSE IF populated[Min(refused)].patch.kind = "invalid" THEN
       OfFile("error", selected, <<>>, "invalid_output")
     ELSE OfFile("too_large", selected, <<>>, Null)

\* The diff of a file of the changes, from what is read of it.
FileRead(selected, got) ==
  LET commands == DiffCommands(selected)
      read == Range(commands) \cap DOMAIN got
      file == selected.file
  IN IF file.binary THEN {OfFile("binary", selected, <<>>, Null)}
     ELSE IF file.large THEN {OfFile("too_large", selected, <<>>, Null)}
     ELSE IF file.untracked /\ "target" \notin DOMAIN got THEN {}
     ELSE IF file.untracked /\ got["target"] = "missing" THEN
       {OfFile("not_found", selected, <<>>, Null)}
     ELSE IF file.untracked /\ got["target"] = "unsafe" THEN
       {OfFile("error", selected, <<>>, "unsafe_path")}
     ELSE IF \E k \in read : got[k].exit # 0 THEN
       {OfFile("error", selected, <<>>, "inspection_failed")}
     ELSE IF read # Range(commands) THEN {}
     ELSE {NormalizeDiff(selected,
             [n \in DOMAIN commands |-> got[commands[n]].out])}

\* The diff as far as the changes decide it.
DiffRead(path, changes) ==
  IF changes.status # "ready" THEN
    {DiffError(changes.root, Null, path, Null, changes.error)}
  ELSE IF Named(changes, path) = {} THEN
    {Diff("not_found", "root", changes.headCommit, path, Null, <<>>, Null)}
  ELSE FileRead(Selected(changes, path), <<>>)

-----------------------------------------------------------------------------
(* inspectGitHistory.                                                      *)

History(status, root, headCommit, commits, truncated, error) ==
  [of |-> "history", status |-> status, root |-> root,
   headCommit |-> headCommit, commits |-> commits,
   truncated |-> truncated, error |-> error]

HistoryError(root, headCommit, error) ==
  History("error", root, headCommit, <<>>, FALSE, error)

\* One commit more than the limit is asked for, to know of the rest.
Normalized(log) ==
  [commits |-> SubSeq(log, 1, Min({Len(log), MaxHistory})),
   truncated |-> Len(log) > MaxHistory]

HistoryRead(known, got) ==
  IF "log" \notin DOMAIN got THEN {}
  ELSE IF got["log"].exit # 0 THEN
    IF known.headCommit = Null THEN
      {History("empty", known.root, Null, <<>>, FALSE, Null)}
    ELSE {HistoryError(known.root, known.headCommit, "inspection_failed")}
  ELSE IF ~got["log"].sound THEN
    {HistoryError(known.root, known.headCommit, "invalid_output")}
  ELSE
    LET log == Normalized(got["log"].out) IN
    {History("ready", known.root, log.commits[1], log.commits, log.truncated,
             Null)}

-----------------------------------------------------------------------------
(* The evidence of a verification run, and its observation.                *)

\* observeVerificationHead: Null as well when the command fails.
ObservedHeads == {HeadOf(commit), Null}

NoEvidence ==
  [duration |-> Null,
   headCommitAtEnd |-> Null, headComparison |-> Null, exitCode |-> Null,
   signal |-> Null, forced |-> FALSE, error |-> Null]

Running(preset, head) ==
  [preset |-> preset, status |-> "running", headCommitAtStart |-> head,
   duration |-> Null, headCommitAtEnd |-> Null, headComparison |-> Null,
   exitCode |-> Null, signal |-> Null, forced |-> FALSE, error |-> Null]

Compared(start, end) ==
  IF Null \in {start, end} THEN "unavailable"
  ELSE IF start = end THEN "same" ELSE "changed"

\* The status of a run whose process closed.
ClosedStatus(exit, reason) ==
  IF reason # Null THEN reason
  ELSE IF exit = [code |-> 0, signal |-> Null] THEN "passed"
  ELSE IF exit = [code |-> Null, signal |-> Null] THEN "error" ELSE "failed"

Exits == {[code |-> 0, signal |-> Null], [code |-> 1, signal |-> Null],
          [code |-> Null, signal |-> "SIGTERM"],
          [code |-> Null, signal |-> Null]}

\* completeVerificationRun, before it parses what it made.  The duration is
\* by the wall clock, which a host that sleeps or is set anew moves on.
Completed(active, took, head, status, exit, forced, error) ==
  [active EXCEPT
     !.status = status, !.duration = took, !.headCommitAtEnd = head,
     !.headComparison = Compared(active.headCommitAtStart, head),
     !.exitCode = exit.code, !.signal = exit.signal, !.forced = forced,
     !.error = error]

Closed(active, took, head, exit, reason, forced) ==
  LET status == ClosedStatus(exit, reason)
  IN Completed(active, took, head, status, exit, forced,
               IF status = "error" THEN "invalid_result" ELSE Null)

Verification(status, root, advertised, shown, error) ==
  [of |-> "verification", status |-> status, configured |-> presets # Null,
   root |-> root, presets |-> advertised, run |-> shown, error |-> error]

\* buildVerificationObservation.
VerificationObserved ==
  IF presets = Null THEN Verification("unconfigured", Null, {}, Null, Null)
  ELSE IF repository.status = "not_repository" THEN
    Verification("not_repository", Null, {}, Null, Null)
  ELSE IF repository.status = "error" THEN
    Verification("error", repository.root, {}, Null, "repository_unavailable")
  ELSE IF presets = {} THEN
    Verification("no_presets", repository.root, {}, Null, Null)
  ELSE Verification("ready", repository.root, presets, run, Null)

-----------------------------------------------------------------------------
(* Requests.                                                               *)

Idle == [op |-> "idle"]
Asked(op, path) ==
  [op |-> op, path |-> path, known |-> Null, selected |-> Null, got |-> <<>>]

\* RepositoryRelativePathSchema, of what the parser of the output accepts.
ValidPath(path) == path \notin Backslashed

\* A session is created after its repository was inspected.
InspectionInit ==
  /\ commit \in 0..1 /\ moves = 0
  /\ repository = Null
  /\ inspection = Asked("refresh", Null)
  /\ heads = {HeadOf(commit)}
  /\ answered = Null
  /\ inspects \in {"tree", "verification"}
  /\ presets \in IF inspects = "tree" THEN {Null} ELSE {Null, {}, {"test"}}
  /\ run = Null /\ ran = {}

\* The answer in place of one that is too large for a message.
Shortened(o) ==
  CASE o.of = "diff" ->
         [o EXCEPT !.status = "too_large", !.sections = <<>>, !.error = Null]
    [] o.of = "history" ->
         [o EXCEPT !.status = "error", !.commits = <<>>, !.truncated = FALSE,
                   !.error = "invalid_output"]
    [] o.of = "verification" ->
         [o EXCEPT !.status = "error", !.presets = {}, !.run = Null,
                   !.error = "invalid_state"]

\* What a client may receive for an observation.
Sent(o) ==
  IF o.of \in {"diff", "history", "verification"} /\ o.status = "ready"
  THEN {o, Shortened(o)} ELSE {o}

Answer(observation) ==
  /\ answered' \in Sent(observation)
  /\ inspection' = Idle
  /\ repository' = IF observation.of = "repository"
                   THEN observation ELSE repository

\* The answer to a session whose stored observation is not ready.
Unavailable(op, path) ==
  LET none == repository.status = "not_repository" IN
  CASE op = "changes" ->
         IF none THEN UnavailableChanges("not_repository", Null, Null)
         ELSE UnavailableChanges("error", repository.root,
                                 "repository_unavailable")
    [] op = "diff" ->
         IF none
         THEN Diff("not_repository", Null, Null, path, Null, <<>>, Null)
         ELSE DiffError(repository.root, Null, path, Null,
                        "repository_unavailable")
    [] op = "history" ->
         IF none THEN History("not_repository", Null, Null, <<>>, FALSE, Null)
         ELSE HistoryError(repository.root, repository.headCommit,
                           "repository_unavailable")

IsActive == run # Null /\ run.status \in {"running", "cancelling"}

\* Bound: once a run has ended its evidence is asked for, and no refresh.
Asks ==
  IF inspects = "tree" THEN {"refresh", "changes", "diff", "history"}
  ELSE {"verification"}
         \cup (IF run = Null \/ IsActive THEN {"refresh"} ELSE {})

\* The path of a request is checked like that of an answer.
Ask(op, path) ==
  /\ inspection = Idle
  /\ op \in Asks
  /\ (path = Null) = (op # "diff")
  /\ ValidPath(path)
  /\ heads' = {HeadOf(commit)}
  /\ IF op = "verification" THEN Answer(VerificationObserved)
     ELSE IF op = "refresh" \/ repository.status = "ready"
     THEN /\ inspection' = [Asked(op, path) EXCEPT !.known =
                              IF op = "history" THEN repository ELSE Null]
          /\ answered' = Null
          /\ UNCHANGED repository
     ELSE Answer(Unavailable(op, path))
  /\ UNCHANGED <<commit, moves, verificationVars>>

\* What the request answers once it has read got; nothing: it reads on.
ReadSoFar(got) ==
  CASE inspection.op = "refresh" -> RepositoryRead(got)
    [] inspection.op = "changes" -> ChangesRead(got)
    [] inspection.op = "history" -> HistoryRead(inspection.known, got)
    [] inspection.op = "diff" ->
         IF inspection.selected = Null
         THEN UNION {DiffRead(inspection.path, changes) :
                       changes \in ChangesRead(got)}
         ELSE FileRead(inspection.selected, got)

\* The commands and file reads that come next.
Pending(op, selected, got) ==
  CASE op = "refresh" ->
         (IF "identity" \in DOMAIN got THEN {"branch", "head"}
          ELSE {"identity"}) \ DOMAIN got
    [] op = "history" -> {"log"}
    [] op = "diff" /\ selected # Null ->
         IF selected.file.untracked /\ "target" \notin DOMAIN got
         THEN {"target"}
         ELSE Range(DiffCommands(selected)) \ DOMAIN got
    [] op \in {"changes", "diff"} /\ selected = Null ->
         LET first == {"status", "head"} \ DOMAIN got IN
         IF first # {} THEN first
         ELSE IF NumstatCommands(got) \subseteq DOMAIN got THEN {"sizes"}
         ELSE NumstatCommands(got) \ DOMAIN got

Awaited ==
  IF inspection = Idle THEN {}
  ELSE Pending(inspection.op, inspection.selected, inspection.got)

GoesOn(next) ==
  inspection' = next /\ UNCHANGED <<repository, answered>>

\* A file of the changes is read by itself.
Read(k, result) ==
  LET got == [c \in DOMAIN inspection.got \cup {k} |->
                IF c = k THEN result ELSE inspection.got[c]]
      answers == ReadSoFar(got)
  IN /\ IF answers # {} THEN \E o \in answers : Answer(o)
        ELSE IF inspection.op = "diff" /\ k = "sizes"
        THEN \E changes \in ChangesRead(got) :
               GoesOn([inspection EXCEPT !.got = <<>>, !.selected =
                         Selected(changes, inspection.path)])
        ELSE GoesOn([inspection EXCEPT !.got = got])
     /\ UNCHANGED <<commit, moves, heads, verificationVars>>

SectionReadHead(k, patch) ==
  Printed(Section(k, patch, IF k = "combined" THEN HeadOf(commit) ELSE Null))

\* The patch of a section; a combined one compares with the commit named.
SectionRead(k, patch) ==
  Printed(Section(k, patch,
    IF k = "combined" THEN inspection.selected.headCommit ELSE Null))

\* What a command may print just now.
Outputs(k) ==
  CASE k = "identity" -> {Printed("main"), Malformed, Exited(128), Exited(1)}
    [] k = "branch" ->
         {Printed("branch"), Malformed, Exited(1), Exited(128)}
    [] k = "head" ->
         {Malformed, IF commit = 0 THEN Exited(128) ELSE Printed(commit)}
    [] k = "status" ->
         {Printed(files) : files \in Statuses} \cup {Malformed, Exited(128)}
    [] k \in {"numstat", "numstatCached", "numstatUnstaged"} ->
         {Printed(counts) : counts \in Numstats} \cup {Malformed, Exited(128)}
    [] k = "sizes" -> {Printed(large) : large \in SUBSET Paths}
    [] k = "target" -> {"safe", "missing", "unsafe"}
    [] k = "log" ->
         {Malformed,
          IF commit = 0 THEN Exited(128)
          ELSE Printed([n \in 1..Min({commit, MaxHistory + 1}) |->
                          commit + 1 - n])}
    [] OTHER ->
         {SectionRead(k, patch) : patch \in Patches} \cup {Exited(128)}

CommandEnds(k) ==
  /\ k \in Awaited
  /\ \E result \in Outputs(k) : Read(k, result)

\* A command that could not be read: the promise that awaits it rejects.
Failed(code) ==
  CASE inspection.op = "refresh" ->
         IF "identity" \in DOMAIN inspection.got
         THEN RepositoryError("root", "main", code)
         ELSE RepositoryError(Null, "unknown", code)
    [] inspection.op = "history" ->
         HistoryError(inspection.known.root, inspection.known.headCommit, code)
    [] inspection.op = "changes" -> UnavailableChanges("error", "root", code)
    [] inspection.op = "diff" ->
         IF inspection.selected = Null
         THEN DiffError("root", Null, inspection.path, Null, code)
         ELSE IF code = "invalid_output"
         THEN OfFile("too_large", inspection.selected, <<>>, Null)
         ELSE OfFile("error", inspection.selected, <<>>, code)

CommandFails(k, child) ==
  /\ k \in Awaited
  /\ k \notin {"sizes", "target"}
  /\ Answer(Failed(FailureCode(child)))
  /\ UNCHANGED <<commit, moves, heads, verificationVars>>

\* A run changes, and the clients of the session are told.
RunBecomes(next) ==
  /\ run' = next
  /\ UNCHANGED <<commit, moves, repository, inspection, inspects, presets>>
  /\ answered' \in Sent(VerificationObserved')

\* requireVerificationRepository: no preset is known without configuration.
MayRun == presets \notin {Null, {}} /\ repository.status = "ready"

\* runRepositoryVerification: the HEAD observed, if any, is that of now.
RunStarts ==
  /\ inspection = Idle /\ run = Null
  /\ MayRun
  /\ \E preset \in presets, head \in ObservedHeads :
       RunBecomes(Running(preset, head))
  /\ ran' = {HeadOf(commit)}
  /\ UNCHANGED heads

RunIsCancelled ==
  /\ IsActive
  /\ RunBecomes([run EXCEPT !.status = "cancelling"])
  /\ UNCHANGED <<heads, ran>>

\* The parse of a completed run refuses one that took too long: the promise
\* of finish() is rejected, nobody awaits it, and nothing is told.  That the
\* parse refuses nothing else is not assumed, ObservationsAreValid says it.
Publish(completed) == completed.duration <= MaxDuration /\ RunBecomes(completed)

\* Its process closes, perhaps after a signal, or reports an error.
RunEnds ==
  /\ IsActive
  /\ \E head \in ObservedHeads, took \in 0..(MaxDuration + 1) :
       \/ \E exit \in Exits,
             reason \in IF run.status = "cancelling" THEN {"cancelled"}
                       ELSE {Null, "timed_out"},
             forced \in BOOLEAN :
            /\ forced => reason # Null
            /\ Publish(Closed(run, took, head, exit, reason, forced))
       \/ \E code \in {"spawn_failed", "process_error"} :
            Publish(Completed(run, took, head, "error",
                      [code |-> Null, signal |-> Null], FALSE, code))
  /\ UNCHANGED <<heads, ran>>

\* The user commits, resets or switches branches in the terminal.
HeadMoves ==
  /\ moves < MaxMoves /\ moves' = moves + 1
  /\ \E n \in (0..MaxCommits) \ {commit} : commit' = n
  /\ heads' = heads \cup {HeadOf(commit')}
  /\ ran' = IF IsActive THEN ran \cup {HeadOf(commit')} ELSE ran
  /\ UNCHANGED <<repository, inspection, answered, inspects, presets, run>>

InspectionNext ==
  \/ \E op \in {"refresh", "changes", "diff", "history", "verification"},
        path \in Paths \cup {Null} : Ask(op, path)
  \/ \E k \in Awaited : CommandEnds(k)
  \/ \E k \in Awaited, child \in {"missing", "late", "overflow"} :
       CommandFails(k, child)
  \/ RunStarts \/ RunIsCancelled \/ RunEnds
  \/ HeadMoves

InspectionSpec == InspectionInit /\ [][InspectionNext]_inspectionVars

-----------------------------------------------------------------------------
(* The schemas of the protocol.  A browser that receives an observation    *)
(* they reject drops the message, and the view of the request is never     *)
(* answered.                                                               *)

ValidRepository(o) ==
  /\ (o.root = Null) = (o.name = Null)
  /\ CASE o.status = "not_repository" ->
            /\ {o.root, o.branch, o.headCommit, o.error} = {Null}
            /\ o.headState = "unknown" /\ o.worktreeKind = "unknown"
       [] o.status = "error" ->
            /\ {o.branch, o.headCommit} = {Null}
            /\ o.headState = "unknown" /\ o.error # Null
       [] o.status = "ready" ->
            /\ o.root # Null /\ o.error = Null
            /\ o.worktreeKind # "unknown" /\ o.headState # "unknown"
            /\ (o.branch # Null) = (o.headState \in {"branch", "unborn"})
            /\ (o.headCommit # Null) = (o.headState # "unborn")

ValidFile(f) ==
  /\ f.staged \/ f.unstaged \/ f.untracked \/ f.conflicted
  /\ f.untracked => /\ f.kind = "untracked"
                    /\ ~f.staged /\ ~f.unstaged /\ ~f.conflicted
  /\ f.conflicted => f.kind = "conflicted"
  /\ (f.previousPath # Null) = (f.kind \in {"renamed", "copied"})
  /\ (f.additions = Null) = (f.deletions = Null)
  /\ f.binary => f.additions = Null

ValidChanges(o) ==
  /\ \A f \in o.files : ValidFile(f)
  /\ Cardinality(o.files) <= MaxFiles
  /\ o.totals = TotalsOf(o.files)
  /\ CASE o.status = "ready" -> o.root # Null /\ o.error = Null
       [] OTHER ->
            /\ o.files = {} /\ ~o.truncated /\ o.headCommit = Null
            /\ (o.status = "error") = (o.error # Null)
            /\ o.status = "not_repository" => o.root = Null

ValidDiff(o) ==
  LET sources == {s.source : s \in Range(o.sections)} IN
  /\ Cardinality(sources) = Len(o.sections)
  /\ sources \cap {"combined", "untracked"} # {} => Len(o.sections) = 1
  /\ SizeOf(o.sections) <= MaxPatch
  /\ \A s \in Range(o.sections) : s.patch.size > 0
  /\ o.root = Null => {o.headCommit, o.previousPath} = {Null}
  /\ o.root = Null => o.status \in {"not_repository", "error"}
  /\ (o.status = "error") = (o.error # Null)
  /\ (o.status = "ready") = (o.sections # <<>>)
  /\ o.status = "not_repository" => o.root = Null
  /\ "combined" \in sources => o.headCommit # Null
  /\ sources \cap {"staged", "unstaged"} # {} => o.headCommit = Null

ValidHistory(o) ==
  /\ Cardinality(Range(o.commits)) = Len(o.commits)
  /\ Len(o.commits) <= MaxHistory
  /\ o.truncated => o.status = "ready" /\ Len(o.commits) = MaxHistory
  /\ (o.status = "error") = (o.error # Null)
  /\ o.root = Null => o.headCommit = Null
  /\ CASE o.status = "ready" ->
            /\ o.root # Null /\ o.commits # <<>>
            /\ o.commits[1] = o.headCommit
       [] OTHER ->
            /\ o.commits = <<>>
            /\ o.status \in {"empty", "not_repository"} => o.headCommit = Null
            /\ o.status = "empty" => o.root # Null
            /\ o.status = "not_repository" => o.root = Null

ValidRun(r) ==
  IF r.status \in {"running", "cancelling"}
    THEN \A field \in DOMAIN NoEvidence : r[field] = NoEvidence[field]
  ELSE
    /\ r.duration # Null /\ r.duration <= MaxDuration
    /\ r.headComparison = Compared(r.headCommitAtStart, r.headCommitAtEnd)
    /\ r.status = "passed" => r.exitCode = 0 /\ r.signal = Null /\ ~r.forced
    /\ r.status = "failed" =>
         /\ {r.exitCode, r.signal} # {Null} /\ r.exitCode # 0
         /\ ~r.forced
    /\ (r.status = "error") = (r.error # Null)
    /\ r.status = "error" => ~r.forced

ValidVerification(o) ==
  /\ o.run # Null => o.run.preset \in o.presets /\ ValidRun(o.run)
  /\ o.status # "ready" => o.presets = {} /\ o.run = Null
  /\ (o.status = "error") = (o.error # Null)
  /\ o.status = "unconfigured" => ~o.configured
  /\ o.status \in {"no_presets", "ready"} => o.configured /\ o.root # Null
  /\ o.status \in {"unconfigured", "not_repository"} => o.root = Null
  /\ o.status = "ready" => o.presets # {}

\* What the schemas ask of the fields of an answer together.
Coherent(o) ==
  CASE o.of = "repository" -> ValidRepository(o)
    [] o.of = "changes" -> ValidChanges(o)
    [] o.of = "diff" -> ValidDiff(o)
    [] o.of = "history" -> ValidHistory(o)
    [] o.of = "verification" -> ValidVerification(o)

\* The paths an answer shows, beside the one it was asked for.
Shown(o) ==
  CASE o.of = "changes" -> UNION {{f.path, f.previousPath} : f \in o.files}
    [] o.of = "diff" -> {o.previousPath}
    [] OTHER -> {}

\* And of each path.
ValidPaths(o) ==
  /\ \A path \in Shown(o) : ValidPath(path)
  /\ o.of = "diff" => ValidPath(o.path)

Valid(o) == Coherent(o) /\ ValidPaths(o)

-----------------------------------------------------------------------------

\* Whatever Git prints, fails or times out on, and however HEAD moves
\* between two commands, each answer satisfies the schema the browser
\* checks it with (packages/contracts/src/protocol.ts): an answer put
\* together from inconsistent readings would leave its view loading.  The
\* exception is the rule for a path in an answer that shows a leading
\* backslash, which the server's parser accepts (git-changes-model.ts,
\* boundedPath); all other rules hold of such an answer too.
ObservationsAreValid ==
  answered # Null =>
    /\ Coherent(answered)
    /\ Shown(answered) \cap Backslashed = {} => Valid(answered)

\* Without the exception this does not hold: of a repository with a changed
\* file whose name begins with a backslash a browser is never told the
\* changes, nor the diff of a file that was renamed from such a name.
EveryAnswerIsValid == answered # Null => Valid(answered)

\* The evidence of an answer is of a commit that HEAD named while the
\* request ran, not of the one a session remembers: a ready answer names
\* such a commit, and the patch it holds compares with that commit even when
\* HEAD has moved on before the patch was read.  A run that ended names
\* commits HEAD named while it ran, and one that is called changed is one
\* during which HEAD moved.
EvidenceIsCurrent ==
  (answered # Null /\ answered.status = "ready") =>
    /\ answered.of # "verification" => answered.headCommit \in heads
    /\ answered.of = "verification" /\ answered.run # Null =>
         /\ {answered.run.headCommitAtStart, answered.run.headCommitAtEnd}
              \subseteq ran \cup {Null}
         /\ answered.run.headComparison = "changed" => Cardinality(ran) > 1
    /\ answered.of = "diff" =>
         \A s \in Range(answered.sections) :
           s.source = "combined" => s.base = answered.headCommit

\* A patch that is too large is answered as such
\* (docs/execution/bounded-diff-viewer-plan.md, "Known large or excessive
\* patch": too_large).  It does not hold: the runner asks the error of the
\* overflow for a signal that Node does not give it and reports a timeout.
OversizedIsTooLarge ==
  [][\A k \in {"combined", "staged", "unstaged", "untracked"} :
       CommandFails(k, "overflow") =>
         answered'.status = "too_large"]_inspectionVars
=============================================================================
