------------------------- MODULE GenerationLiveness -------------------------
(***************************************************************************)
(* What must eventually happen.  A received request is served, a live      *)
(* worker keeps running its loop, and time passes; users send requests,    *)
(* processes die and models fail as they like.                             *)
(***************************************************************************)
EXTENDS NovelGeneration

Serve     == request # NoRequest /\ Service
Work(w)   == WorkerStep(w) /\ UNCHANGED serviceVars
Renewal(w) == Renew(w) /\ UNCHANGED serviceVars
JobLapse(j) == ExpireJob(j) /\ UNCHANGED serviceVars
ProjectLapse == ExpireProject /\ UNCHANGED serviceVars

Fairness ==
  /\ WF_vars(Serve)
  /\ \A w \in Workers : WF_vars(Work(w)) /\ WF_vars(Renewal(w))
  /\ \A j \in JobIds : WF_vars(JobLapse(j))
  /\ WF_vars(ProjectLapse)

FairSpec == Spec /\ Fairness

-----------------------------------------------------------------------------
\* Generation does not stall: a running project is eventually completed or paused,
\* the jobs that a crashed worker left behind included (run_worker, claim_next_job), and
\* however long a renewal has to wait for the memory update of its own worker.
RunEnds == project.status = "running" ~> project.status # "running"

\* A pause takes hold: the workers of a paused project come to rest, or it is started
\* again or its last revision decided (_ensure_project_running, run_worker).
PauseTakesHold ==
  project.status = "paused" ~>
    \/ \A w \in Workers : workers[w].pc = "idle"
    \/ project.status # "paused"
=============================================================================
