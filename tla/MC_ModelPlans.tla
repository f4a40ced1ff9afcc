---------------------------- MODULE MC_ModelPlans ----------------------------
(***************************************************************************)
(* New projects on plans a model wrote: the plans PlanInvariants accepts    *)
(* are the acyclic ones its linking leaves alone.                          *)
(***************************************************************************)
EXTENDS MC_Orchestrator

MC_Ids == {"d1", "d2", "c", "t", "x", "v", "s"}

MC_IdRank == "d1" :> 0 @@ "d2" :> 1 @@ "c" :> 2 @@ "t" :> 3 @@ "x" :> 4 @@ "v" :> 5 @@ "s" :> 6

MC_IdCat == "d1" :> "design" @@ "d2" :> "design" @@ "c" :> "code" @@ "t" :> "tests" @@
            "x" :> "docs" @@ "v" :> "validate" @@ "s" :> "summary"

(* Dependencies around one design task or two, the tests before or after   *)
(* the validation, the docs anywhere.                                      *)
Candidates ==
  {[tasks |-> ids, cat |-> MC_IdCat,
    dep |-> "d1" :> {} @@ "d2" :> {} @@ "c" :> code @@ "t" :> tests @@ "x" :> docs @@
            "v" :> ((ids \ {"v", "s"}) \ late) @@ "s" :> {"v"}] :
     ids \in {MC_Ids, MC_Ids \ {"d2"}, MC_Ids \ {"x"}, MC_Ids \ {"d1", "d2"}},
     code \in {{}, {"d1"}, {"d1", "d2"}}, tests \in {{}, {"c"}, {"v"}},
     docs \in {{}, {"d1"}, {"v"}, {"s"}},
     late \in SUBSET {"t", "x"}}

Accepted(p) ==
  /\ \A t \in p.tasks : p.dep[t] \subseteq p.tasks
  /\ Acyclic(p.tasks, p.dep)
  /\ Normalized(p.tasks, p.cat, p.dep)

Accepting == {p : p \in {q \in Candidates : Accepted(q)}}

Sound == {Files(1, 1, 1, 1), Files(1, 0, 1, 0)}

MC_NoFiles  == Nothing
MC_Requests == {Unattended(p, b, fs) : p \in Accepting, b \in Sound,
                                       fs \in {NoFaults, Once("design", "code")}}
MC_Undisturbed == {r \in MC_Requests : r.faults = NoFaults}

(* Code the suite fails on: only a validation that waits for the suite can *)
(* tell.                                                                   *)
MC_Untested == {Unattended(p, Files(2, 1, 1, 1), NoFaults) : p \in Accepting}
=============================================================================
