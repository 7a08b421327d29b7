-------------------------- MODULE GenerationScope --------------------------
(***************************************************************************)
(* NovelGeneration with a history variable: the chapter that the last      *)
(* restart asked for alone (retry_chapter, continue_chapter).              *)
(***************************************************************************)
EXTENDS NovelGeneration

VARIABLE alone        \* 0: the last restart asked for the rest of the novel

scopeVars == <<vars, alone>>

Committed == requestsLeft' < requestsLeft

ScopeInit == Init /\ alone = 0
ScopeNext ==
  /\ Next
  /\ alone' = IF ~Committed \/ request.op = "pause" THEN alone
              ELSE IF request.op \in {"retry", "continue"} THEN request.chapter ELSE 0
ScopeSpec == ScopeInit /\ [][ScopeNext]_scopeVars

\* After a chapter was retried or continued on its own, no worker queues another one:
\* _finalize_accepted_chapter then reports that the later chapters stay as they are.
\* The retry of a rejected draft forgets it was asked for one chapter only.
OthersStayAsTheyAre ==
  [][alone # 0 /\ ~Committed =>
       \A c \in Chapters \ {alone} :
         chapters'[c].status = "queued" => chapters[c].status = "queued"]_scopeVars
=============================================================================
