------------------------------ MODULE Artifacts ------------------------------
(***************************************************************************)
(* The files a run produces, as the blackboard, the output folder and the  *)
(* validator see them.  A file's text is a natural number that identifies  *)
(* it, 0 standing for "no such file"; what the validator can tell about a  *)
(* Python text (it does not compile, the safety scan rejects it, the suite *)
(* fails on it, it is a suite without a test) is given by sets of texts.   *)
(***************************************************************************)
EXTENDS Naturals

CONSTANTS
  Broken,    \* texts of Python files that do not compile
  Unsafe,    \* texts with a high-severity finding of the safety scan
  Failing,   \* texts of implementations the test suite fails on
  Idle,      \* texts of suites that test nothing, the empty one among them
  IdlePasses,\* a run of no tests is a pass: unittest before Python 3.12
  Cuts       \* texts a file may be left with when its write breaks off

ASSUME TextsAssumption ==
  /\ Broken \cup Unsafe \cup Failing \cup Idle \cup Cuts \subseteq Nat \ {0}
  /\ IdlePasses \in BOOLEAN

CodeFiles == {"src", "api"}                \* modules, openapi.yaml
TestFiles == {"suite"}                     \* tests/
DocFiles  == {"readme", "summary", "diff"} \* README.md, ENGINEERING_SUMMARY.md, CHANGES.diff
File      == CodeFiles \cup TestFiles \cup DocFiles
PyFiles   == {"src", "suite"}
Folder    == [File -> Nat]

Absent    == 0
Nothing   == [f \in File |-> Absent]
Has(folder, f)         == folder[f] # Absent
HasAny(folder, files)  == \E f \in files : Has(folder, f)
Part(folder, files)    == [f \in File |-> IF f \in files THEN folder[f] ELSE Absent]

(* Blackboard.merge: replace by path, keep the rest. *)
Merge(folder, new) == [f \in File |-> IF Has(new, f) THEN new[f] ELSE folder[f]]

(* A write that breaks off: write_text opens the file and empties it first, *)
(* so what is left is the old file, or what had been written of the new.   *)
Torn(folder, f, torn) ==
  torn \in {folder} \cup {[folder EXCEPT ![f] = text] : text \in Cuts}

(* What Blackboard.merge returns: the artifacts that are new or changed. *)
NewOrChanged(folder, new) ==
  [f \in File |-> IF new[f] = folder[f] THEN Absent ELSE new[f]]

(* The artifacts the validator looks at: neither the summary nor the diff. *)
Work == File \ {"summary", "diff"}

(***************************************************************************)
(* ValidatorAgent._validate.  A report is the set of its failing checks.   *)
(***************************************************************************)
Check      == {"code compiles", "tests pass", "api contract present",
               "documentation present", "change set present", "static safety scan"}
Repairable == {"api contract present", "documentation present"}

(* compile_python reads every .py on the board from the folder; a missing  *)
(* one is an exception that no check catches.                              *)
(* mutant: a missing file is skipped. *)
Readable_mutant(board, out) == TRUE
Readable(board, out) == \A f \in PyFiles : Has(board, f) => Has(out, f)

(* run_unittests: no tests directory counts as a pass.  A suite without    *)
(* the modules it imports fails.                                           *)
SuitePasses(out) ==
  /\ Has(out, "suite") /\ out["suite"] \in Idle => IdlePasses
  /\ Has(out, "suite") /\ out["suite"] \notin Idle
       => Has(out, "src") /\ out["src"] \notin Failing

(* The failing checks for the artifacts on the board, of which the folder  *)
(* `out' is the materialized form; `scanned' are the Python files the      *)
(* safety scan covers.  In change mode `out' is the overlay of the change  *)
(* set on the repository.                                                  *)
Failures(board, out, hasApi, changeMode) ==
  LET scanned    == IF changeMode THEN {f \in PyFiles : Has(board, f)} ELSE PyFiles
      uncompiled == \E f \in PyFiles : Has(board, f) /\ out[f] \in Broken
      high       == \E f \in scanned : out[f] \in Broken \cup Unsafe
      fails(c) ==
        \/ c = "code compiles"         /\ uncompiled
        \/ c = "static safety scan"    /\ high
        \/ c = "tests pass"            /\ (high \/ ~SuitePasses(out))
        \/ c = "api contract present"  /\ hasApi /\ ~Has(out, "api")
        \/ c = "documentation present" /\ ~HasAny(board, {"readme", "summary"})
                                       /\ ~(changeMode /\ Has(out, "readme"))
        \/ c = "change set present"    /\ changeMode /\ ~HasAny(board, Work)
  IN  {c \in Check : fails(c)}

(* only_changes: the proposed files whose text differs from the            *)
(* repository's; the diff document exists only when there is one.          *)
OnlyChanges(repo, proposal) ==
  LET files == {f \in Work : proposal[f] \notin {Absent, repo[f]}}
  IN  Part(proposal, IF files = {} THEN {} ELSE files \cup {"diff"})
=============================================================================
