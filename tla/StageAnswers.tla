----------------------------- MODULE StageAnswers -----------------------------
(***************************************************************************)
(* What the reasoning provider promises its callers: every stage of a run  *)
(* is answered by the model or by the deterministic engine, and those that *)
(* emit the parts of one project are all answered by the same author,      *)
(* chosen once, however often they are asked.                              *)
(***************************************************************************)
CONSTANTS
  Parts,   \* calls for a part of the one generated project
  Others   \* the other calls

Stage == Others \cup Parts

VARIABLES
  answer,  \* who answered each stage of the current run
  author   \* who authors its project

answerVars == <<answer, author>>

Author == {"model", "engine"}

Unanswered == [s \in Stage |-> "none"]

Init == answer = Unanswered /\ author = "open"

(* A new run: nothing of the previous one is left.                         *)
Start == answer' = Unanswered /\ author' = "open"

ChooseAuthor ==
  /\ author = "open"
  /\ author' \in Author
  /\ UNCHANGED answer

Answer(s) ==
  /\ answer[s] = "none"
  /\ \E a \in Author :
       /\ s \in Parts => a = author
       /\ answer' = [answer EXCEPT ![s] = a]
  /\ UNCHANGED author

(* A call that is repeated.                                                *)
AskAgain(s) == answer' = [answer EXCEPT ![s] = "none"] /\ UNCHANGED author

Next == Start \/ ChooseAuthor \/ \E s \in Stage : Answer(s) \/ AskAgain(s)

Spec == Init /\ [][Next]_answerVars

TypeOK == answer \in [Stage -> Author \cup {"none"}] /\ author \in Author \cup {"open"}

(* The parts of a project have one author, since tests written by one are  *)
(* of no use beside code written by the other.                             *)
OneAuthor == \A s \in Parts : answer[s] \in {"none", author}
=============================================================================
