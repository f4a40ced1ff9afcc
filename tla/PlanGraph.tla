------------------------------ MODULE PlanGraph ------------------------------
(***************************************************************************)
(* Task graphs: a plan's tasks, their categories and their dependencies,   *)
(* and the relations the providers establish on them.  `dep' maps a task   *)
(* to the set of tasks it depends on.                                      *)
(***************************************************************************)
EXTENDS Naturals

(* The categories a provider may use in a plan, and the repair loop's own. *)
PlanCategory == {"design", "codebase_impact", "code", "tests", "docs",
                 "validate", "summary"}
Category     == PlanCategory \cup {"repair"}
RequiredInPlan == {"code", "tests", "validate", "summary"}

(* Everything a task depends on, directly or not: the least set that holds *)
(* its dependencies and the dependencies of its members.  Names that are   *)
(* no task are not followed and not counted.                               *)
Ancestors(tasks, dep, t) ==
  LET closed == {S \in SUBSET tasks : /\ dep[t] \cap tasks \subseteq S
                                      /\ \A u \in S : dep[u] \cap tasks \subseteq S}
  IN  {u \in tasks : \A S \in closed : u \in S}

(* No cycle: every set of tasks has one that depends on none of the set.   *)
Acyclic(tasks, dep) ==
  \A S \in SUBSET tasks : S # {} => \E t \in S : dep[t] \cap S = {}

(* The rounds of linking: which categories are made to depend on which.    *)
(* mutant: validation is not made to wait for the docs. *)
Links_mutant == <<
  [down |-> {"codebase_impact"},       up |-> {"design"}],
  [down |-> {"code", "tests", "docs"}, up |-> {"codebase_impact"}],
  [down |-> {"validate"},
   up   |-> {"design", "codebase_impact", "code", "tests"}],
  [down |-> {"summary"},               up |-> {"validate"}] >>
Links == <<
  [down |-> {"codebase_impact"},       up |-> {"design"}],
  [down |-> {"code", "tests", "docs"}, up |-> {"codebase_impact"}],
  [down |-> {"validate"},
   up   |-> {"design", "codebase_impact", "code", "tests", "docs"}],
  [down |-> {"summary"},               up |-> {"validate"}] >>

(* mutant: edges that close a cycle are added too. *)
ToLink_mutant(tasks, cat, dep, k, d) == {u \in tasks \ {d} : cat[u] \in Links[k].up}

(* The tasks a task is made to depend on in a round: those of the round's  *)
(* upstream categories that are not downstream of it.                      *)
ToLink(tasks, cat, dep, k, d) ==
  {u \in tasks \ {d} : cat[u] \in Links[k].up /\ d \notin Ancestors(tasks, dep, u)}

(* A plan no round changes any more.                                       *)
Normalized(tasks, cat, dep) ==
  \A k \in 1 .. 4 : \A d \in tasks :
    cat[d] \in Links[k].down => ToLink(tasks, cat, dep, k, d) \subseteq dep[d]
-----------------------------------------------------------------------------
(* DeterministicProvider.decompose.                                        *)
BuiltInTask == {"design", "impact", "code", "tests", "docs", "validate", "summary"}

(* mutant: validation does not wait for the tests. *)
BuiltInDep_mutant(brownfield) ==
  [t \in BuiltInTask |->
     IF t \in {"impact", "docs"} THEN {"design"}
     ELSE IF t = "code" THEN IF brownfield THEN {"design", "impact"} ELSE {"design"}
     ELSE IF t = "tests" THEN {"code"}
     ELSE IF t = "validate" THEN {"docs"}
     ELSE IF t = "summary" THEN {"validate"} ELSE {}]

BuiltInDep(brownfield) ==
  [t \in BuiltInTask |->
     IF t \in {"impact", "docs"} THEN {"design"}
     ELSE IF t = "code" THEN IF brownfield THEN {"design", "impact"} ELSE {"design"}
     ELSE IF t = "tests" THEN {"code"}
     ELSE IF t = "validate" THEN {"tests", "docs"}
     ELSE IF t = "summary" THEN {"validate"} ELSE {}]

Decomposed(brownfield) ==
  [tasks |-> IF brownfield THEN BuiltInTask ELSE BuiltInTask \ {"impact"},
   cat   |-> [t \in BuiltInTask |-> IF t = "impact" THEN "codebase_impact" ELSE t],
   dep   |-> BuiltInDep(brownfield)]
=============================================================================
