-------------------------- MODULE NovelGeneration --------------------------
(***************************************************************************)
(* The generation system of one project: the HTTP control operations and   *)
(* the worker processes over the shared database rows.                     *)
(***************************************************************************)
EXTENDS GenerationService, Worker

CONSTANT AutoModes        \* the values of projects.auto_mode considered

ASSUME AutoModesAssumption == AutoModes \in (SUBSET BOOLEAN) \ {{}}

vars == <<project, chapters, jobs, rowLock, request, requestsLeft, workers, crashesLeft>>

\* a project just imported: outlines present, nothing generated
Init ==
  /\ project \in [status : {"ready"}, current : {0}, auto : AutoModes,
                  owner : {Nobody}, live : {FALSE}]
  /\ chapters = [c \in Chapters |-> NewChapter]
  /\ jobs = [j \in JobIds |-> NoJob]
  /\ rowLock = NoLocks
  /\ request = NoRequest
  /\ requestsLeft = MaxRequests
  /\ workers = [w \in Workers |-> IdleWorker]
  /\ crashesLeft = MaxCrashes

\* a handler's UPDATE of a job waits for the renewal that locked the row
Service ==
  /\ ServiceStep
  /\ Timely /\ request = NoRequest => ~\E w \in Workers : Brief(w)
  /\ \A j \in JobIds : ~JobFree(j) => jobs'[j] = jobs[j]
  /\ RushMode => request'.op # "decide"      \* no memory update, no revisions
  /\ UNCHANGED workerVars
Machine ==
  /\ \/ \E w \in Workers : WorkerStep(w) \/ CommitChunks(w) \/ Crash(w)
     \/ LeaseStep
  /\ UNCHANGED serviceVars

Next == Service \/ Machine
Spec == Init /\ [][Next]_vars

\* The bound on rows: behaviours are followed until generation_jobs is full.
RoomForJobs == \E j \in JobIds : jobs[j].status = "absent"

-----------------------------------------------------------------------------
(* Invariants *)

\* The rows of the three tables and the columns the sessions cache keep their types
\* whatever handlers, workers, lapses and crashes do.
TypeOK ==
  /\ project \in ProjectRow
  /\ chapters \in [Chapters -> ChapterRow]
  /\ jobs \in [JobIds -> JobRow]
  /\ rowLock \in [0..N -> Workers \cup {Nobody}]
  /\ request \in RequestRow
  /\ requestsLeft \in 0..MaxRequests
  /\ workers \in [Workers -> WorkerRow]
  /\ crashesLeft \in 0..MaxCrashes

\* At most one chapter of a project is being written, reviewed or memorised at a
\* time, by one worker: handlers that release the project lease or cancel jobs
\* (rewrite_from_chapter, resume_project, retry_chapter) never let a second worker in
\* beside one whose pipeline still runs.  Of rush projects only: in standard mode the
\* memory update keeps renewals waiting, and once one was cancelled the lease may lapse
\* before mark_failed, which then fails the job of the worker that took it over; a rewrite
\* frees the project under that worker, and the next claim puts a second one to work.
Working == {w \in Workers : workers[w].pc \in {"writing", "reviewing", "memory"}}
OneActivePipeline == Cardinality(Working) <= 1

\* While a worker holds the lease of the job it works on, nobody else changes the
\* status or the retry count of its chapter.  process_generate_chapter relies on it:
\* it writes both columns from the copy its session loaded at the start.  Of rush projects
\* only, for the same reason; LeaseShieldsChapter is what remains of it in standard mode.
CachedChapterFresh ==
  \A w \in Working : JobActive(w) =>
      LET row == chapters[workers[w].chapter]
      IN  row.status = workers[w].status /\ row.retries = workers[w].retries

\* The lease of a job shields its chapter from the handlers and from the workers of other
\* chapters: once another step makes the row differ from what the working worker has
\* cached, an earlier holder of that chapter made it, one that has lost its job.
CacheFresh(w) ==
  LET row == chapters[workers[w].chapter]
  IN  row.status = workers[w].status /\ row.retries = workers[w].retries
LeaseShieldsChapter ==
  [][\A w \in Working :
       JobActive(w) /\ CacheFresh(w) /\ UNCHANGED workers[w] =>
         \/ CacheFresh(w)'
         \/ \E v \in Workers \ {w} :
              /\ workers'[v] # workers[v]
              /\ workers[v].chapter = workers[w].chapter /\ ~JobActive(v)]_vars

\* No chapter of a running project waits for ever in "queued": a job of that chapter
\* is in the table, or a worker is still busy with the chapter and will end by queueing
\* it (the deferred retry, run_worker) or by changing its status.  Like RunningHasWork it is
\* no invariant of every instance: after crashes, a request can cancel the lapsed jobs of two
\* chapters (a resume that had read the project as running) and queue only the first.
QueuedChapterCovered ==
  \A c \in Chapters :
    project.status = "running" /\ chapters[c].status = "queued" =>
      \/ Queued(jobs, c) \cup Leased(jobs, c) # {}
      \/ \E w \in Workers : workers[w].pc # "idle" /\ workers[w].chapter = c

\* A running project is never left with nothing to do: a job is queued or leased, or a
\* worker is busy, although the status is written in one transaction (the pipeline's)
\* and the follow-up job possibly in a later one (run_worker's).  It is no invariant of
\* every instance: mark_done asks nobody who owns the job, so in standard mode, with two
\* requests and a crash, a worker that lost its job can end the only one left.
RunningHasWork ==
  project.status = "running" =>
    \/ \E c \in Chapters : Queued(jobs, c) \cup Leased(jobs, c) # {}
    \/ \E w \in Workers : workers[w].pc # "idle"

\* A chapter shown as passed has an accepted attempt, whichever of accept_chapter, a
\* retry, an interruption or a failed job wrote the row last: the two columns are
\* written by different transitions from different cached copies.
PassedIsAccepted ==
  \A c \in Chapters : chapters[c].status = "passed" => chapters[c].accepted

\* A chapter stopped by a pause can be taken up again by resume_project, which picks
\* among the chapters without an accepted attempt.  The messages of generation_state.py
\* promise it; a pause seen during the memory update breaks it, because the acceptance
\* is committed together with the pause.
NoStrandedDraft ==
  \A c \in Chapters : chapters[c].status = "paused" => ~chapters[c].accepted

-----------------------------------------------------------------------------
(* What the leases promise, implemented *)

Lease == INSTANCE JobLease WITH
  leases  <- [j \in JobIds |->
                [status |-> IF jobs[j].status \in {"queued", "leased"}
                              THEN jobs[j].status ELSE "out",
                 owner |-> jobs[j].owner, live |-> jobs[j].live]],
  lease   <- [owner |-> project.owner, live |-> project.live],
  running <- project.status = "running"

\* Claims, renewals, lapses, crashes and the handlers' edits of jobs and of the project
\* lease are steps of the lease discipline of JobLease: no worker or handler touches a
\* lease in a way that would give a project two live owners.  In standard mode it holds
\* before any crash: after one, a job that was leased when its worker died may be renewed
\* late by a worker of that job which has lost the project meanwhile.
ImplementsJobLease == Lease!Spec

\* Those renewals are all there is: whatever the timing, the crashes and the order of
\* requests, every other step of handlers and workers is a step of the lease discipline.
\* renew_lease asks who owns the job, and not who owns the project.
OnlyRenewalsStray ==
  [][\/ UNCHANGED Lease!vars
     \/ Lease!Next
     \/ \E w \in Workers : Renew(w) /\ project.owner # w]_vars

-----------------------------------------------------------------------------
(* Action properties *)

\* Only a user's committed request takes a project out of ready, paused or completed;
\* a worker, even one that lost its lease, never restarts what the user stopped,
\* although the pipeline sets the status to running each time it queues a chapter.
WorkerNeverUnpauses ==
  [][project.status # "running" /\ project'.status = "running"
       => requestsLeft' < requestsLeft]_vars

\* Only a user's committed request reopens a completed project: no late failure or
\* interruption of a worker turns it back into a paused one.  Of rush projects only: in
\* standard mode a takeover can come between a rollback and its mark_failed, which then
\* pauses a project that the new worker has completed.
CompletedStable ==
  [][project.status = "completed" /\ project'.status # "completed"
       => requestsLeft' < requestsLeft]_vars

\* Only a user's committed request takes an accepted chapter back: no worker rewrites,
\* fails or pauses a chapter that has passed.  Of rush projects only, for the reason given
\* at OneActivePipeline: the second worker may pass what the first still reviews.
PassedStable ==
  [][\A c \in Chapters : chapters[c].status = "passed" /\ chapters'[c].status # "passed"
       => requestsLeft' < requestsLeft]_vars

\* A start, resume, retry, continue or rewrite that succeeds leaves the project
\* running, as the tests of GenerationService assert; not when the status the session
\* read before it got the lock was "running" and is no longer.
RestartRuns ==
  [][requestsLeft' < requestsLeft
       /\ request.op \in {"start", "resume", "retry", "continue", "rewrite"}
       => project'.status = "running"]_vars
=============================================================================
