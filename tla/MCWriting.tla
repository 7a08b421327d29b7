----------------------------- MODULE MCWriting -----------------------------
(***************************************************************************)
(* One run for the components that produce and show a chapter's text: the  *)
(* writer's stream, the live view, a model call, the JSON scan and the     *)
(* context budget.  They share no variable in the model, so a behaviour    *)
(* exercises one of them, its subject, while the others rest: the states   *)
(* are the union of theirs, not the product.                               *)
(***************************************************************************)
EXTENDS WriterStream, EventStream, LlmClient, JsonCandidate, ContextBudget

\* the pairs for Budgets: the default, a half of it, and one that no message fits
BudgetPairs == {<<64000, 96000>>, <<32000, 48000>>, <<3000, 4000>>}

VARIABLE subject

writingVars == <<subject, writerVars, viewVars, call, scan, fit>>

\* the resting states
CallAtRest == Ends(NewCall("text", TRUE), "text")
ScanAtRest == ScanOf(<<>>, <<"lbrace", "rbrace">>, <<>>)
FitAtRest ==
  LET none == [l \in {} |-> 0]
  IN  [sizes |-> none, given |-> none, required |-> 0, total |-> 0, target |-> 0, hard |-> 0,
       at |-> 1, progress |-> FALSE, overflow |-> 0, phase |-> "done"]

WritingInit ==
  /\ subject \in {"writer", "view", "call", "scan", "fit"}
  /\ WriterInit /\ ViewInit
  /\ IF subject = "call" THEN CallInit ELSE call = CallAtRest
  /\ IF subject = "scan" THEN ScanInit ELSE scan = ScanAtRest
  /\ IF subject = "fit" THEN FitInit ELSE fit = FitAtRest

\* a step of the subject alone
OfWriter == subject = "writer" /\ UNCHANGED <<subject, viewVars, call, scan, fit>>
OfView == subject = "view" /\ UNCHANGED <<subject, writerVars, call, scan, fit>>
OfCall == subject = "call" /\ UNCHANGED <<subject, writerVars, viewVars, scan, fit>>
OfScan == subject = "scan" /\ UNCHANGED <<subject, writerVars, viewVars, call, fit>>
OfFit == subject = "fit" /\ UNCHANGED <<subject, writerVars, viewVars, call, scan>>

WritingNext ==
  \/ OfWriter /\ WriterNext
  \/ OfView /\ ViewNext
  \/ OfCall /\ CallNext
  \/ OfScan /\ ScanNext
  \/ OfFit /\ FitNext

\* the fairness of ViewSpec, CallSpec and FitSpec
WritingFairness ==
  /\ WF_writingVars(OfView /\ ViewProgress)
  /\ WF_writingVars(OfCall /\ Answered)
  /\ WF_writingVars(OfCall /\ Deadline)
  /\ WF_writingVars(OfFit /\ FitNext)

WritingSpec ==
  /\ WritingInit
  /\ [][WritingNext]_writingVars
  /\ WritingFairness

\* The rows, sessions, connections, calls, scans and messages keep their types.
WritingTypeOK == WriterTypeOK /\ ViewTypeOK /\ CallTypeOK /\ ScanTypeOK /\ FitTypeOK
=============================================================================
