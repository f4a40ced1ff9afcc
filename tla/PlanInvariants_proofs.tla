------------------------ MODULE PlanInvariants_proofs ------------------------
(***************************************************************************)
(* What the linking of a plan guarantees, for every plan a model may write *)
(* and every order in which the tasks are linked.                          *)
(***************************************************************************)
EXTENDS PlanInvariants, TLAPS

THEOREM TypeCorrect == Spec => []TypeOK
<1>1. Init => TypeOK
  BY RawPlansAssumption DEF Init, TypeOK
<1>2. TypeOK /\ [Next]_vars => TypeOK'
  <2> SUFFICES ASSUME TypeOK, [Next]_vars PROVE TypeOK'
    OBVIOUS
  <2> USE DEF TypeOK
  <2>1. CASE Screen
    BY <2>1 DEF Screen
  <2>2. CASE NextRound
    BY <2>2 DEF NextRound, LastRound
  <2>3. ASSUME NEW d \in Task, LinkTask(d) PROVE TypeOK'
    <3>1. ToLink(Task, cat, dep, k, d) \subseteq Name
      BY RawPlansAssumption DEF ToLink
    <3> QED
      BY <2>3, <3>1 DEF LinkTask
  <2>4. CASE FinishLinking \/ Validate \/ Decided \/ UNCHANGED vars
    BY <2>4 DEF FinishLinking, Validate, Decided, vars
  <2> QED
    BY <2>1, <2>2, <2>3, <2>4 DEF Next
<1> QED
  BY <1>1, <1>2, PTL DEF Spec
-----------------------------------------------------------------------------
(***************************************************************************)
(* Ancestors.                                                              *)
(***************************************************************************)
LEMMA AncestorsClosed ==
  ASSUME NEW tasks, NEW f, NEW u, NEW x \in Ancestors(tasks, f, u)
  PROVE  f[x] \cap tasks \subseteq Ancestors(tasks, f, u)
BY DEF Ancestors

LEMMA ParentsAreAncestors ==
  ASSUME NEW tasks, NEW f, NEW u
  PROVE  f[u] \cap tasks \subseteq Ancestors(tasks, f, u)
BY DEF Ancestors

(* More dependencies, more ancestors. *)
LEMMA AncestorsGrow ==
  ASSUME NEW tasks, NEW f, NEW g, NEW u \in tasks,
         \A t \in tasks : f[t] \subseteq g[t]
  PROVE  Ancestors(tasks, f, u) \subseteq Ancestors(tasks, g, u)
BY DEF Ancestors

(* More dependencies, fewer links to add. *)
LEMMA ToLinkShrinks ==
  ASSUME NEW tasks, NEW c, NEW f, NEW g, NEW j, NEW d,
         \A t \in tasks : f[t] \subseteq g[t]
  PROVE  ToLink(tasks, c, g, j, d) \subseteq ToLink(tasks, c, f, j, d)
BY AncestorsGrow DEF ToLink

(* The argument: what d is linked to lies, with all it depends on, in a set *)
(* that does not contain d.  A set of tasks that meets it has a task there  *)
(* whose dependencies did not change; one that does not sees none of the   *)
(* new links.                                                              *)
LEMMA LinkKeepsAcyclic ==
  ASSUME NEW tasks, NEW c, NEW f, NEW g, NEW j, NEW d \in tasks,
         Acyclic(tasks, f),
         g[d] = f[d] \cup ToLink(tasks, c, f, j, d),
         \A t \in tasks \ {d} : g[t] = f[t]
  PROVE  Acyclic(tasks, g)
<1> DEFINE U == ToLink(tasks, c, f, j, d)
           A == {x \in tasks : \E u \in U : x = u \/ x \in Ancestors(tasks, f, u)}
<1>1. d \notin A
  BY DEF ToLink
<1>2. \A x \in A : f[x] \cap tasks \subseteq A
  BY AncestorsClosed, ParentsAreAncestors
<1>3. U \subseteq A
  BY DEF ToLink
<1> SUFFICES ASSUME NEW S \in SUBSET tasks, S # {}
             PROVE  \E t \in S : g[t] \cap S = {}
  BY DEF Acyclic
<1>4. CASE S \cap A # {}
  <2>1. PICK t \in S \cap A : f[t] \cap (S \cap A) = {}
    BY <1>4 DEF Acyclic
  <2>2. f[t] \cap S = {}
    BY <1>2, <2>1
  <2>3. g[t] = f[t]
    BY <1>1, <2>1
  <2> QED
    BY <2>1, <2>2, <2>3
<1>5. CASE S \cap A = {}
  <2>1. PICK t \in S : f[t] \cap S = {}
    BY DEF Acyclic
  <2>2. g[t] \subseteq f[t] \cup U
    <3> HIDE DEF U
    <3> QED BY DEF U
  <2> QED
    BY <1>3, <1>5, <2>1, <2>2
<1> QED
  BY <1>4, <1>5
-----------------------------------------------------------------------------
(* An acyclic plan stays acyclic, whatever is linked in whatever order.    *)
THEOREM LinkingIsAcyclic == Spec => []LinkingKeepsAcyclic
<1>1. Init => LinkingKeepsAcyclic
  BY DEF Init, LinkingKeepsAcyclic
<1>2. TypeOK /\ LinkingKeepsAcyclic /\ [Next]_vars => LinkingKeepsAcyclic'
  <2> SUFFICES ASSUME TypeOK, LinkingKeepsAcyclic, [Next]_vars, Acyclic(Task, raw.dep)
               PROVE  raw' = raw /\ Acyclic(Task, dep')
    BY DEF LinkingKeepsAcyclic, Next, Screen, NextRound, LinkTask, FinishLinking, Validate,
           Decided, vars
  <2>1. ASSUME NEW d \in Task, LinkTask(d) PROVE raw' = raw /\ Acyclic(Task, dep')
    <3>1. /\ dep'[d] = dep[d] \cup ToLink(Task, cat, dep, k, d)
          /\ \A t \in Task \ {d} : dep'[t] = dep[t]
      BY <2>1 DEF LinkTask, TypeOK
    <3>2. Acyclic(Task, dep)
      BY DEF LinkingKeepsAcyclic
    <3>3. Acyclic(Task, dep')
      BY <3>1, <3>2, LinkKeepsAcyclic
    <3> QED
      BY <2>1, <3>3 DEF LinkTask
  <2>2. CASE Screen \/ NextRound \/ FinishLinking \/ Validate \/ Decided \/ UNCHANGED vars
    BY <2>2 DEF Screen, NextRound, FinishLinking, Validate, Decided, vars, LinkingKeepsAcyclic
  <2> QED
    BY <2>1, <2>2 DEF Next
<1> QED
  BY <1>1, <1>2, TypeCorrect, PTL DEF Spec

(* What the rounds so far established, kept by every later link.           *)
LinkedInv ==
  /\ verdict = "parsed" => k = 0
  /\ verdict \notin {"parsed", "rejected"} => Known
  /\ verdict = "linking" =>
       \A j \in 1 .. 4 : \A d \in Task :
         /\ cat[d] \in Links[j].down
         /\ j < k \/ (j = k /\ d \notin todo)
         => ToLink(Task, cat, dep, j, d) \subseteq dep[d]
  /\ verdict \in {"checking", "accepted"} => Normalized(Task, cat, dep)
  /\ verdict = "accepted" => \A t \in Task : dep[t] \subseteq Task

LEMMA LinkedHolds == Spec => []LinkedInv
<1>1. Init => LinkedInv
  BY DEF Init, LinkedInv
<1>2. TypeOK /\ LinkedInv /\ [Next]_vars => LinkedInv'
  <2> SUFFICES ASSUME TypeOK, LinkedInv, [Next]_vars PROVE LinkedInv'
    OBVIOUS
  <2>1. CASE Screen
    <3>1. UNCHANGED <<raw, dep, k, todo>> /\ verdict' \in {"linking", "rejected"} /\ k = 0
      BY <2>1 DEF Screen, LinkedInv
    <3>2. verdict' = "linking" => Known'
      BY <2>1 DEF Screen, Known, cat
    <3> QED
      BY <3>1, <3>2 DEF LinkedInv
  <2>2. CASE NextRound
    <3>1. /\ UNCHANGED <<raw, dep, verdict>> /\ verdict = "linking" /\ todo = {}
          /\ k' = k + 1 /\ todo' = {t \in Task : cat[t] \in Links[k + 1].down}
      BY <2>2 DEF NextRound
    <3>2. \A j \in 1 .. 4 : \A d \in Task :
            cat[d] \in Links[j].down /\ (j < k' \/ (j = k' /\ d \notin todo'))
              => j <= k
      BY <3>1 DEF TypeOK
    <3>3. \A j \in 1 .. 4 : \A d \in Task :
            cat[d] \in Links[j].down /\ j <= k => ToLink(Task, cat, dep, j, d) \subseteq dep[d]
      BY <3>1 DEF LinkedInv, TypeOK
    <3> QED
      BY <3>1, <3>2, <3>3 DEF LinkedInv, Known, cat
  <2>3. ASSUME NEW d \in Task, LinkTask(d) PROVE LinkedInv'
    <3>1. /\ UNCHANGED <<raw, verdict, k>> /\ verdict = "linking" /\ todo' = todo \ {d}
          /\ dep'[d] = dep[d] \cup ToLink(Task, cat, dep, k, d)
          /\ \A t \in Task \ {d} : dep'[t] = dep[t]
      BY <2>3 DEF LinkTask, TypeOK
    <3>2. \A t \in Task : dep[t] \subseteq dep'[t]
      BY <3>1
    <3>3. \A j, t : ToLink(Task, cat, dep', j, t) \subseteq ToLink(Task, cat, dep, j, t)
      BY <3>2, ToLinkShrinks
    <3>4. ASSUME NEW j \in 1 .. 4, NEW t \in Task, cat[t] \in Links[j].down,
                 j < k \/ (j = k /\ t \notin todo')
          PROVE  ToLink(Task, cat, dep', j, t) \subseteq dep'[t]
      <4>1. CASE j = k /\ t = d
        BY <3>1, <3>3, <4>1
      <4>2. CASE ~(j = k /\ t = d)
        <5>1. ToLink(Task, cat, dep, j, t) \subseteq dep[t]
          BY <3>1, <3>4, <4>2 DEF LinkedInv
        <5> QED
          BY <3>2, <3>3, <5>1
      <4> QED
        BY <4>1, <4>2
    <3> QED
      BY <3>1, <3>4 DEF LinkedInv, Known, cat
  <2>4. CASE FinishLinking
    <3>1. /\ UNCHANGED <<raw, dep, k, todo>> /\ verdict' = "checking"
          /\ verdict = "linking" /\ k = 4 /\ todo = {}
      BY <2>4 DEF FinishLinking, LastRound
    <3>2. Normalized(Task, cat, dep)
      BY <3>1 DEF LinkedInv, Normalized
    <3> QED
      BY <3>1, <3>2 DEF LinkedInv, Known, cat
  <2>5. CASE Validate
    BY <2>5 DEF Validate, LinkedInv, Known, cat
  <2>6. CASE Decided \/ UNCHANGED vars
    BY <2>6 DEF Decided, vars, LinkedInv, Known, cat
  <2> QED
    BY <2>1, <2>2, <2>3, <2>4, <2>5, <2>6 DEF Next
<1> QED
  BY <1>1, <1>2, TypeCorrect, PTL DEF Spec

(* A later round never undoes an earlier one: the accepted plan is a       *)
(* fixpoint of the linking.                                                *)
THEOREM AcceptedPlanIsNormalized == Spec => []AcceptedIsNormalized
<1>1. LinkedInv => AcceptedIsNormalized
  BY DEF LinkedInv, AcceptedIsNormalized
<1> QED
  BY <1>1, LinkedHolds, PTL

(* In an accepted plan no task of another category runs beside a validate  *)
(* task: it was linked before it, or would have closed a cycle.            *)
THEOREM ValidationIsAlwaysOrdered == Spec => []ValidationIsOrdered
<1>1. LinkedInv => ValidationIsOrdered
  <2> SUFFICES ASSUME LinkedInv, verdict = "accepted", NEW v \in Task, NEW w \in Task,
                      cat[v] = "validate", cat[w] # "validate"
               PROVE  w \in Ancestors(Task, dep, v) \/ v \in Ancestors(Task, dep, w)
    BY DEF ValidationIsOrdered
  <2>1. Normalized(Task, cat, dep) /\ cat[w] \in PlanCategory
    BY DEF LinkedInv, Known
  <2>2. CASE cat[w] = "summary"
    <3>1. ToLink(Task, cat, dep, 4, w) \subseteq dep[w]
      BY <2>1, <2>2 DEF Normalized, Links
    <3>2. v \in Ancestors(Task, dep, w) \/ v \in ToLink(Task, cat, dep, 4, w)
                                       \/ w \in Ancestors(Task, dep, v)
      BY <2>2 DEF ToLink, Links
    <3> QED
      BY <3>1, <3>2, ParentsAreAncestors
  <2>3. CASE cat[w] # "summary"
    <3>1. cat[w] \in Links[3].up
      BY <2>1, <2>3 DEF PlanCategory, Links
    <3>2. ToLink(Task, cat, dep, 3, v) \subseteq dep[v]
      BY <2>1 DEF Normalized, Links
    <3>3. w \in ToLink(Task, cat, dep, 3, v) \/ v \in Ancestors(Task, dep, w)
      BY <3>1 DEF ToLink
    <3> QED
      BY <3>2, <3>3, ParentsAreAncestors
  <2> QED
    BY <2>2, <2>3
<1> QED
  BY <1>1, LinkedHolds, PTL
=============================================================================
