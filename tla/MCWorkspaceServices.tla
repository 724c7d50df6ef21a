------------------------ MODULE MCWorkspaceServices ------------------------
(* Model values for WorkspaceServices.  The drafts are those with two uses *)
(* of the files there are, and those that bind roles and workers, alone    *)
(* and with a repository.                                                  *)
EXTENDS WorkspaceServices, TLC

\* Callers, intents and items are interchangeable in the invariants.
Symmetry == Permutations(Callers) \cup Permutations(Intents)
              \cup Permutations(Items)

MCCodes == {<<".", "M">>}

MCDecisions == {[id |-> 1, at |-> 1], [id |-> 2, at |-> 2]}

MCVerificationFile == <<[root |-> "a", presets |-> {"test"}]>>

MCFiles == {"a", "b"} \X {"x"}

Source(n, f, m) == [id |-> n, path |-> f, method |-> m]
AnswerTo(f) == [id |-> "answer", type |-> "answer_file", path |-> f, role |-> Null]
Prompt == [id |-> "prompt", type |-> "role_prompt", path |-> Null, role |-> "meta"]

Empty == [repositories |-> << >>, roles |-> [meta |-> Null, orchestrator |-> Null],
          workers |-> << >>, sources |-> << >>, methods |-> << >>,
          objective |-> Null, plan |-> Null]

FileDrafts ==
  {[Empty EXCEPT !.sources = <<Source("q1", f, Null), Source("q2", g, Null)>>] :
     f \in MCFiles, g \in MCFiles}
  \cup {[Empty EXCEPT !.sources = <<Source("q1", f, "answer")>>,
                      !.methods = <<AnswerTo(g)>>] : f \in MCFiles, g \in MCFiles}
  \cup {[Empty EXCEPT !.objective = f, !.plan = g] :
          f \in MCFiles, g \in MCFiles \cup {Null}}

Bound == {Null, [type |-> "session", session |-> "t"],
          [type |-> "launch_preset", preset |-> "codex", repository |-> "r"]}

Repositories(d, ids) == <<[id |-> "r", root |-> d, presets |-> ids]>>

RoleDrafts ==
  {[Empty EXCEPT !.roles = [meta |-> Null, orchestrator |-> o],
      !.workers = IF b = Null THEN << >> ELSE <<[id |-> "w", binding |-> b]>>,
      !.repositories = Repositories("a", {"test"})] :
     o \in Bound, b \in Bound}
  \cup {[Empty EXCEPT !.roles = [meta |-> m, orchestrator |-> Null],
            !.methods = <<Prompt>>, !.repositories = rs] :
          m \in Bound,
          rs \in {<< >>, Repositories("a", {}), Repositories("b", {"test"})}}

MCDrafts == FileDrafts \cup RoleDrafts
=============================================================================
