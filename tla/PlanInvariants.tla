---------------------------- MODULE PlanInvariants ----------------------------
(***************************************************************************)
(* How a plan the model wrote becomes the plan that is executed:            *)
(* LLMProvider.decompose and _enforce_plan_invariants.  A plan is rejected  *)
(* (the deterministic one is used instead) or links are added to it, task   *)
(* by task in four rounds, and it is checked once more.                    *)
(***************************************************************************)
EXTENDS PlanGraph

CONSTANTS
  Task,     \* the ids of the plan's tasks
  Name,     \* what a dependency may name: a task, or nothing known
  RawPlans  \* the plans the model may write

ASSUME RawPlansAssumption ==
  /\ Task \subseteq Name
  /\ \A p \in RawPlans : /\ p.cat \in [Task -> STRING]
                         /\ p.dep \in [Task -> SUBSET Name]

VARIABLES
  raw,      \* the plan as written
  dep,      \* its dependencies, as linked so far
  verdict,  \* "parsed", "linking", "checking", then "accepted" or "rejected"
  k,        \* the round of linking
  todo      \* the tasks the round still has to link

vars == <<raw, dep, verdict, k, todo>>

cat == raw.cat

Init ==
  /\ raw \in RawPlans /\ dep = raw.dep
  /\ verdict = "parsed" /\ k = 0 /\ todo = {}

Known == \A t \in Task : cat[t] \in PlanCategory
Complete == Task # {} /\ \A c \in RequiredInPlan : \E t \in Task : cat[t] = c

(* Unknown categories and missing stages are rejected before any linking.  *)
Screen ==
  /\ verdict = "parsed"
  /\ verdict' = IF Known /\ Complete THEN "linking" ELSE "rejected"
  /\ UNCHANGED <<raw, dep, k, todo>>

(* mutant: the summary tasks are not linked. *)
LastRound_mutant == 3
LastRound == 4

NextRound ==
  /\ verdict = "linking" /\ todo = {} /\ k < LastRound
  /\ k' = k + 1
  /\ todo' = {t \in Task : cat[t] \in Links[k + 1].down}
  /\ UNCHANGED <<raw, dep, verdict>>

(* One task of the round gets its links.  Its new links do not change what *)
(* lies upstream of the others it is still compared with, so the inner     *)
(* loop is one step; the order of the outer loop is the order in which the *)
(* model listed its tasks, here any order.                                 *)
LinkTask(d) ==
  /\ verdict = "linking" /\ d \in todo
  /\ dep' = [dep EXCEPT ![d] = @ \cup ToLink(Task, cat, dep, k, d)]
  /\ todo' = todo \ {d}
  /\ UNCHANGED <<raw, verdict, k>>

FinishLinking ==
  /\ verdict = "linking" /\ todo = {} /\ k = LastRound
  /\ verdict' = "checking"
  /\ UNCHANGED <<raw, dep, k, todo>>

(* validate_acyclic: no dangling dependency, no cycle.                     *)
Validate ==
  /\ verdict = "checking"
  /\ verdict' = IF (\A t \in Task : dep[t] \subseteq Task) /\ Acyclic(Task, dep)
                THEN "accepted" ELSE "rejected"
  /\ UNCHANGED <<raw, dep, k, todo>>

Decided == verdict \in {"accepted", "rejected"} /\ UNCHANGED vars

Next == Screen \/ NextRound \/ (\E d \in Task : LinkTask(d)) \/ FinishLinking
        \/ Validate \/ Decided

Spec == Init /\ [][Next]_vars
-----------------------------------------------------------------------------
(* Every variable has its type. *)
TypeOK ==
  /\ raw \in RawPlans
  /\ dep \in [Task -> SUBSET Name]
  /\ verdict \in {"parsed", "linking", "checking", "accepted", "rejected"}
  /\ k \in 0 .. 4 /\ todo \subseteq Task

(* Linking never makes a cycle: an acyclic plan stays acyclic ("Edges that  *)
(* would create a cycle are skipped"), so only the model's own cycle can    *)
(* get its plan rejected for one.                                          *)
LinkingKeepsAcyclic == Acyclic(Task, raw.dep) => Acyclic(Task, dep)

(* An accepted plan is a fixpoint of the linking: later rounds never undo   *)
(* what an earlier one established, and running it again changes nothing.  *)
AcceptedIsNormalized == verdict = "accepted" => Normalized(Task, cat, dep)

(* Validation never runs beside the work it reports on: each generating or *)
(* design task lies before or after a validate task, and each summary      *)
(* before or after it too.                                                 *)
ValidationIsOrdered ==
  verdict = "accepted" =>
    \A v, w \in Task :
      cat[v] = "validate" /\ cat[w] \notin {"validate"} =>
        w \in Ancestors(Task, dep, v) \/ v \in Ancestors(Task, dep, w)
=============================================================================
