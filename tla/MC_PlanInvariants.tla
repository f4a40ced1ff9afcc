-------------------------- MODULE MC_PlanInvariants --------------------------
(***************************************************************************)
(* Plans of up to six tasks: one per required stage, a design or docs task *)
(* that may be missing (its category then repeats another), an impact task; *)
(* the model's own dependencies run forwards, backwards and to a name that *)
(* no task has.                                                            *)
(***************************************************************************)
EXTENDS PlanInvariants, TLC

MC_Task == {"a", "b", "c", "t", "v", "s"}
MC_Name == MC_Task \cup {"nowhere"}

Categories ==
  {[id \in MC_Task |->
      CASE id = "a" -> first [] id = "b" -> second [] id = "c" -> third
        [] id = "t" -> "tests" [] id = "v" -> "validate" [] id = "s" -> "summary"] :
     first \in {"design", "code"}, second \in {"codebase_impact", "docs", "validate"},
     third \in {"code", "generic"}}

Dependencies ==
  {"a" :> first @@ "b" :> second @@ "c" :> third @@ "t" :> tests @@ "v" :> check @@ "s" :> last :
     first \in {{}, {"b"}}, second \in {{}, {"a"}, {"v"}, {"s"}},
     third \in {{}, {"a"}, {"b", "nowhere"}}, tests \in {{}, {"c"}, {"v"}},
     check \in {{}, {"t"}, {"s"}}, last \in {{}, {"v"}, {"b"}}}

MC_RawPlans == {[cat |-> cs, dep |-> ds] : cs \in Categories, ds \in Dependencies}
=============================================================================
