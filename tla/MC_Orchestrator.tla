--------------------------- MODULE MC_Orchestrator ---------------------------
(***************************************************************************)
(* What the instances of Orchestrator share: texts, projects and faults.   *)
(***************************************************************************)
EXTENDS Orchestrator, TLC

(* Texts: 1 is sound, 2 fails the suite, 3 does not compile, 4 is unsafe,  *)
(* 6 is empty.  A file whose write broke off is empty or cut inside a      *)
(* statement.                                                              *)
MC_Failing == {2, 6}
MC_Broken  == {3}
MC_Unsafe  == {4}
MC_Idle    == {6}
MC_Cuts    == {3, 6}

MC_Designs    == {1, 2}
MC_ApiDesigns == {2}

Files(src, api, suite, readme) ==
  [Nothing EXCEPT !["src"] = src, !["api"] = api, !["suite"] = suite, !["readme"] = readme]

NoFaults    == [c \in Category |-> 0]
Once(c, d)  == [NoFaults EXCEPT ![c] = 1, ![d] = 1]
OneFault    == {Once(c, c) : c \in Category}
TwoFaults   == {Once(c, d) : c, d \in Category}

(* A run in auto mode; the other kinds are exceptions to it.               *)
Unattended(p, b, fs) ==
  [changes |-> FALSE, parallel |-> TRUE, askFirst |-> FALSE, interactive |-> FALSE,
   faults |-> fs, plan |-> p, bundle |-> b, writeErrors |-> 0]
=============================================================================
