------------------------------ MODULE MC_Pipeline ------------------------------
(***************************************************************************)
(* Three workflow runs, on one issue or dispatched, of all kinds of events, *)
(* and agent runs that end in every way.                                    *)
(***************************************************************************)
EXTENDS Pipeline, TLC

CONSTANTS w1, w2, w3, issue1

Opened ==
  [kind |-> "issues", issue |-> issue1, agent |-> TRUE, answers |-> FALSE,
   form |-> "target", known |-> TRUE, preset |-> FALSE, written |-> "fits",
   repo |-> None, answer |-> "empty", provider |-> "claude"]

Answer  == [Opened EXCEPT !.kind = "issue_comment", !.answers = TRUE, !.answer = "fits"]
Chatter == [Answer EXCEPT !.answers = FALSE]
Manual  == [Opened EXCEPT !.kind = "workflow_dispatch", !.issue = None]

Invalid == [Opened EXCEPT !.written = "empty"]
Preset  == [Invalid EXCEPT !.form = "scenario", !.preset = TRUE, !.repo = "demo"]
Empty   == [Answer EXCEPT !.answer = "empty"]

Deterministic == [Manual EXCEPT !.provider = "deterministic"]
Folder        == [Manual EXCEPT !.repo = "demo"]
NoFolder      == [Manual EXCEPT !.repo = "missing"]

MC_Traffic ==
  {(w1 :> t[1] @@ w2 :> t[2] @@ w3 :> t[3]) :
     t \in {<<Opened, Answer, Chatter>>, <<Preset, Empty, Chatter>>,
            <<Folder, Invalid, Chatter>>, <<Deterministic, NoFolder, Chatter>>}}

MC_File == {"app", "old", "new", "stray", "CHANGES.diff"}
MC_Tree == [p \in {"app", "old"} |-> IF p = "app" THEN "crlf" ELSE "lf"]

Built ==
  [asked |-> FALSE, validation |-> "passed", halted |-> FALSE, llm |-> "model",
   listed |-> {"app", "new"}, found |-> {"app", "new", "stray"}]

ChangeSet ==
  [Built EXCEPT !.listed = {"app", "old", "CHANGES.diff"},
                !.found = {"app", "old", "CHANGES.diff", "stray"}]

MC_Records ==
  {Built, ChangeSet, [ChangeSet EXCEPT !.listed = {"CHANGES.diff"}],
   [Built EXCEPT !.llm = "fallback"], [Built EXCEPT !.llm = None],
   [Built EXCEPT !.halted = TRUE],
   [Built EXCEPT !.validation = "failed"],
   [Built EXCEPT !.validation = None, !.halted = TRUE],
   [Built EXCEPT !.asked = TRUE, !.validation = None, !.listed = {}, !.found = {}],
   [Built EXCEPT !.asked = TRUE, !.validation = None, !.listed = {}, !.found = {},
                 !.llm = "fallback"]}
=============================================================================
