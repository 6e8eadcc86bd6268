------------------------ MODULE MCRepositoryKnowledge ------------------------
(* Two processes; a fact in two versions, a workflow that supersedes it, and a *)
(* preference nobody approved; a checkout that brings a disputed directive.    *)
EXTENDS RepositoryKnowledge, TLC
Call(text) == [kind |-> "action", tool |-> "git", text |-> text]
Directive(effect) == [effect |-> effect, signature |-> Call("push"), tool |-> "git"]
Doc(id, kind, origin, approved, state, supersedes, directive, text) ==
    [id |-> id, kind |-> kind, origin |-> origin, evidence |-> "deterministic", approved |-> approved,
     state |-> state, scope |-> Repository, supersedes |-> supersedes, directive |-> directive, text |-> text]
Fact(text, state) == Doc("a", "convention", "code-tool-confirmed", FALSE, state, {}, Directive("conflict"), text)
Workflow == Doc("b", "successful-workflow", "skill-workflow-candidate", TRUE, "verified", {"a"}, Directive("conflict"), "b")
Wish == Doc("c", "preference", "user-preference", FALSE, "confirmed", {}, None, "c")
MCDocuments == {Fact("a1", "verified"), Fact("a2", "confirmed"), Workflow, Wish}
MCEdits == {{Stored(Fact("a1", "disputed"))}}
MCOperations == { [repository |-> Repository, signature |-> Call(t), tags |-> {}, class |-> "normal"] : t \in {"push", "pull"} }
MCProfiles == { [hardBlocking |-> h, warningsEnabled |-> TRUE, degradedOutcomes |-> [normal |-> "ALLOW"]] : h \in BOOLEAN }
MCSymmetry == Permutations(Procs)
=============================================================================
