--------------------------- MODULE MC_LlmProvider ---------------------------
(* Instances of LlmProvider for TLC. *)
EXTENDS LlmProvider

Files(parts, verdict) == [parts |-> parts, verdict |-> verdict]

(* A sound project, one the suite rejects, a suite without code, and a     *)
(* reply without files.                                                    *)
MC_Drafts == {Files(Parts, "passing"), Files(Parts, "failing"),
              Files({"tests"}, "passing"), Files({}, "passing")}

MC_Both   == {"project", "change"}

(* A task of each stage, and a second one that designs.                    *)
MC_Tasks == Stage \cup {"more design"}
MC_Of    == [t \in MC_Tasks |-> IF t = "more design" THEN "design" ELSE t]
=============================================================================
