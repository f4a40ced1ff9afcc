------------------------------- MODULE MC_Runs -------------------------------
(***************************************************************************)
(* Runs on the deterministic provider's plans, with and without the        *)
(* codebase_impact task of brownfield work.                                *)
(***************************************************************************)
EXTENDS MC_Orchestrator

MC_Rank == "design" :> 0 @@ "impact" :> 1 @@ "code" :> 2 @@ "docs" :> 3 @@
           "tests" :> 4 @@ "validate" :> 5 @@ "summary" :> 6

BuiltInPlans == {Decomposed(FALSE), Decomposed(TRUE)}

(* Every mix of sound and defective code, with or without contract and     *)
(* README.                                                                 *)
Projects == {Files(src, api, 1, readme) : src \in 1 .. 4, api \in 0 .. 1, readme \in 0 .. 1}

(* Transient faults in any stage, lasting ones in an optional one.         *)
Lasting == {[NoFaults EXCEPT ![c] = 2, ![d] = 1] : c \in Optional, d \in Category}

Greenfield ==
  {[Unattended(p, b, fs) EXCEPT !.askFirst = TRUE] :
     p \in BuiltInPlans, b \in Projects, fs \in {NoFaults} \cup TwoFaults \cup Lasting}

(* A person at the gates, the tasks one by one, two failing writes.        *)
Console ==
  {[Unattended(p, b, fs) EXCEPT !.interactive = TRUE, !.parallel = FALSE,
                                !.writeErrors = 2] :
     p \in BuiltInPlans, b \in Projects, fs \in {NoFaults} \cup OneFault}

FailingWrites ==
  {[Unattended(p, b, NoFaults) EXCEPT !.writeErrors = 2] : p \in BuiltInPlans, b \in Projects}

(* Change sets against a repository without README: none at all, one that  *)
(* repeats the repository's text, sound and defective ones, one of tests   *)
(* and one of documentation only.                                          *)
MC_Repo == Files(1, 0, 1, 0)

Proposal(n, src, api, suite, readme) ==
  [Files(src, api, suite, readme) EXCEPT !["diff"] = n]

MC_Proposals ==
  {Proposal(1, 0, 0, 0, 0), Proposal(2, 1, 0, 1, 0), Proposal(3, 5, 5, 5, 5),
   Proposal(4, 2, 0, 0, 0), Proposal(5, 3, 0, 5, 0), Proposal(6, 4, 0, 0, 0),
   Proposal(7, 0, 0, 5, 0), Proposal(8, 0, 0, 0, 5)}

Changes ==
  {[Unattended(Decomposed(TRUE), Nothing, fs) EXCEPT !.changes = TRUE] :
     fs \in {NoFaults} \cup TwoFaults}

MC_Requests == Greenfield \cup Console \cup FailingWrites \cup Changes
=============================================================================
