------------------------------- MODULE Worker -------------------------------
(***************************************************************************)
(* The worker processes: the loop of backend/worker/runner.py, the leases  *)
(* of backend/worker/job_queue.py and the phases of one chapter in         *)
(* backend/worker/pipeline.py, cut at its commits.  Model calls are        *)
(* external: any outcome the pipeline distinguishes may come back.         *)
(*                                                                         *)
(* A worker's session caches what it loads; `workers` records the cached   *)
(* columns that a later write depends on.  The cached project status is    *)
(* "running", the status the claim requires.                               *)
(***************************************************************************)
EXTENDS GenerationState

CONSTANTS
  MaxCrashes,     \* bound: worker processes killed in a behaviour
  Timely,         \* see below
  RushMode        \* projects.generation_mode = rush

ASSUME WorkerAssumption ==
  /\ MaxCrashes \in Nat
  /\ Timely \in BOOLEAN
  /\ RushMode \in BOOLEAN

(* Timely: the time scales the lease length is chosen for.  A renewal that   *)
(* is not blocked ends before the lease does; a blocked one takes the freed  *)
(* row before a claim does; and the stretches of database statements between *)
(* two model calls are over before the lease that was renewed before them    *)
(* and before a user's next request is received (one received before may     *)
(* still be served in the middle of such a stretch).                         *)

VARIABLES
  workers,      \* what each worker process is doing
  crashesLeft

workerVars == <<workers, crashesLeft>>

\* claimed: lease committed; opened: chapter loaded and checks passed; writing,
\* reviewing: the chapter status was committed; memory: the chapter is accepted in
\* the open transaction; returned: the pipeline is over; raised: it raised and its
\* transaction is still open; failing: that transaction is rolled back
Pipelining == {"claimed", "opened", "writing", "reviewing", "memory"}
WorkerRow ==
  [pc : {"idle", "returned", "raised", "failing"} \cup Pipelining,
   job : 0..MaxJobs, chapter : 0..N, kind : JobKind,
   status : ChapterStatus, retries : 0..MaxRetries,   \* chapter, as cached
   current : 0..N,                                    \* current_chapter, as cached
   deferred : BOOLEAN,                                \* the cached payload's retry
   hung : BOOLEAN,               \* its renewal waits for the lock of the project row
   late : BOOLEAN]               \* and since then no renewal began and ended: it may lapse
IdleWorker == [pc |-> "idle", job |-> 0, chapter |-> 0, kind |-> "advance",
               status |-> "pending", retries |-> 0, current |-> 0, deferred |-> FALSE,
               hung |-> FALSE, late |-> FALSE]

ProjectFree(w)    == rowLock[0] \in {Nobody, w}
ChapterFree(w, c) == rowLock[c] \in {Nobody, w}
NoLocks == [r \in 0..N |-> Nobody]
\* a stretch of database statements without a model call and without a wait for the
\* transaction of another worker
Brief(w) == /\ workers[w].pc \in {"claimed", "opened", "returned", "raised", "failing"}
            /\ ProjectFree(w) /\ ChapterFree(w, workers[w].chapter)
Release(w) == rowLock' = [r \in 0..N |-> IF rowLock[r] = w THEN Nobody ELSE rowLock[r]]

MyJob(w)     == jobs[workers[w].job]
JobActive(w) == MyJob(w).status = "leased" /\ MyJob(w).owner = w /\ MyJob(w).live

GoTo(w, pc) == workers' = [workers EXCEPT ![w].pc = pc]

-----------------------------------------------------------------------------
(* Leases.  renew_job_lease runs beside the pipeline in its own session; it *)
(* checks the owner of the job, not the expiry, and updates the job and     *)
(* then the project, so it hangs while a transaction holds the project row. *)
(* When the pipeline is over the runner cancels it, hung or not.            *)

Renewing(w) == Timely /\ workers[w].pc # "idle" /\ ~workers[w].late

\* a hung renewal has updated its job and keeps that row locked
JobFree(j) == ~\E w \in Workers : workers[w].hung /\ workers[w].job = j

ClaimableQueuedJobs ==              \* mutant: expired leases are not taken over
  {j \in JobIds : JobFree(j) /\ jobs[j].status = "queued"}
ClaimableJobs ==
  {j \in JobIds : JobFree(j) /\ \/ jobs[j].status = "queued"
                                \/ jobs[j].status = "leased" /\ ~jobs[j].live}

ClaimIgnoringProject(w) ==          \* mutant: the lease of the project is not looked at
  LET j == Min(ClaimableJobs)
  IN  /\ workers[w].pc = "idle"
      /\ ClaimableJobs # {}
      /\ project.status = "running"
      /\ jobs' = [jobs EXCEPT ![j].status = "leased", ![j].owner = w, ![j].live = TRUE]
      /\ project' = [project EXCEPT !.owner = w, !.live = TRUE]
      /\ workers' = [workers EXCEPT ![w] =
           [IdleWorker EXCEPT !.pc = "claimed", !.job = j, !.chapter = jobs[j].chapter]]
      /\ UNCHANGED <<chapters, rowLock, crashesLeft>>
\* claim_next_job: SKIP LOCKED passes over a project row held by a transaction
Claim(w) ==
  LET j == Min(ClaimableJobs)
  IN  /\ workers[w].pc = "idle"
      /\ ClaimableJobs # {}
      /\ project.status = "running"
      /\ project.owner = w \/ ~project.live
      /\ rowLock[0] = Nobody
      /\ Timely => ~\E v \in Workers : workers[v].hung
      /\ jobs' = [jobs EXCEPT ![j].status = "leased", ![j].owner = w, ![j].live = TRUE]
      /\ project' = [project EXCEPT !.owner = w, !.live = TRUE]
      /\ workers' = [workers EXCEPT ![w] =
           [IdleWorker EXCEPT !.pc = "claimed", !.job = j, !.chapter = jobs[j].chapter,
                              !.kind = jobs[j].kind, !.current = project.current,
                              !.deferred = jobs[j].deferred]]
      /\ UNCHANGED <<chapters, rowLock, crashesLeft>>

\* renew_lease of a lease that lapsed or may lapse (another one changes nothing here), or
\* the end of a hung one, whose expiry, computed before it hung, may be close or past
Renew(w) ==
  LET j == workers[w].job
  IN  /\ workers[w].pc \in Pipelining \cup {"returned", "raised"}
      /\ MyJob(w).status = "leased" /\ MyJob(w).owner = w
      /\ project.owner = w => rowLock[0] = Nobody
      /\ \/ workers[w].hung
         \/ workers[w].pc \in Pipelining /\ (workers[w].late \/ ~MyJob(w).live)
      /\ jobs' = [jobs EXCEPT ![j].live = TRUE]
      /\ project' = IF project.owner = w THEN [project EXCEPT !.live = TRUE] ELSE project
      /\ workers' = [workers EXCEPT ![w].hung = FALSE, ![w].late = workers[w].hung]
      /\ UNCHANGED <<chapters, rowLock, crashesLeft>>

RenewalHangs(w) ==
  /\ workers[w].pc \in Pipelining /\ ~workers[w].hung
  /\ MyJob(w).status = "leased" /\ MyJob(w).owner = w
  /\ project.owner = w /\ rowLock[0] # Nobody
  /\ workers' = [workers EXCEPT ![w].hung = TRUE, ![w].late = TRUE]
  /\ UNCHANGED <<rows, rowLock, crashesLeft>>

WaitForRenewal(w) ==                \* mutant: the renewal is awaited, not cancelled
  /\ workers[w].pc \in {"returned", "raised"} /\ workers[w].hung
  /\ rowLock[0] = Nobody
  /\ workers' = [workers EXCEPT ![w].hung = FALSE]
  /\ UNCHANGED <<rows, rowLock, crashesLeft>>
\* the pipeline is over: cancelling the monitor cancels the renewal it awaits, whose
\* update of the job is rolled back
StopRenewal(w) ==
  /\ workers[w].pc \in {"returned", "raised"} /\ workers[w].hung
  /\ workers' = [workers EXCEPT ![w].hung = FALSE]
  /\ UNCHANGED <<rows, rowLock, crashesLeft>>

\* every lease has the same length, so one that a crash left behind expires before
\* the one its owner took since
ExpireJob(j) ==
  /\ jobs[j].status = "leased" /\ jobs[j].live
  /\ workers[jobs[j].owner].job = j =>
       \A k \in JobIds \ {j} : jobs[k].live => jobs[k].owner # jobs[j].owner
  /\ ~\E w \in Workers : Renewing(w) /\ workers[w].job = j /\ jobs[j].owner = w
  /\ jobs' = [jobs EXCEPT ![j].live = FALSE]
  /\ UNCHANGED <<project, chapters, workers, rowLock, crashesLeft>>

\* the two leases are written together, so the job's never outlives the project's
ExpireProject ==
  /\ project.live
  /\ ~Renewing(project.owner)
  /\ ~\E j \in JobIds : jobs[j].live /\ jobs[j].owner = project.owner
  /\ project' = [project EXCEPT !.live = FALSE]
  /\ UNCHANGED <<chapters, jobs, workers, rowLock, crashesLeft>>

\* monitor_lease_task: the renewal found the job no longer leased by this worker
LoseLease(w) ==
  /\ workers[w].pc \in Pipelining
  /\ ~workers[w].hung
  /\ MyJob(w).status # "leased" \/ MyJob(w).owner # w
  /\ GoTo(w, "failing")
  /\ Release(w)
  /\ UNCHANGED <<rows, crashesLeft>>

-----------------------------------------------------------------------------
(* process_generate_chapter, for chapter c of the job *)

\* the early return of an accepted chapter, then _ensure_job_active
Open(w) ==
  LET row == chapters[workers[w].chapter]
  IN  /\ workers[w].pc = "claimed"
      /\ row.status = "passed" \/ (JobActive(w) /\ project.status = "running")
      /\ workers' = [workers EXCEPT
           ![w].pc = IF row.status = "passed" THEN "returned" ELSE "opened",
           ![w].status = row.status, ![w].retries = row.retries]
      /\ UNCHANGED <<rows, rowLock, crashesLeft>>

StartWriting(w) ==
  LET c == workers[w].chapter
  IN  /\ workers[w].pc = "opened"
      /\ ChapterFree(w, c)
      /\ chapters' = [chapters EXCEPT ![c].status = OrmSet(workers[w].status, "writing", @)]
      /\ workers' = [workers EXCEPT ![w].pc = "writing", ![w].status = "writing"]
      /\ UNCHANGED <<project, jobs, rowLock, crashesLeft>>

\* _stream_with_pause_support commits the attempt's text in batches
CommitChunks(w) ==
  /\ workers[w].pc = "writing"
  /\ chapters' = [chapters EXCEPT ![workers[w].chapter].draft = TRUE]
  /\ UNCHANGED <<project, jobs, workers, rowLock, crashesLeft>>

\* the text is complete and the job still leased; the status check of the project
\* may be skipped, it runs at most every two seconds
SubmitReview(w) ==
  LET c == workers[w].chapter
  IN  /\ workers[w].pc = "writing" /\ ~RushMode
      /\ JobActive(w)
      /\ ChapterFree(w, c)
      /\ chapters' = [chapters EXCEPT
           ![c].status = OrmSet(workers[w].status, "reviewing", @), ![c].draft = TRUE]
      /\ workers' = [workers EXCEPT ![w].pc = "reviewing", ![w].status = "reviewing"]
      /\ UNCHANGED <<project, jobs, rowLock, crashesLeft>>

\* apply_review_failure after a rejected review, a failed critic or a failed writer:
\* the retry is left in the job's payload, to be queued once the job is done
FailAttempt(w) ==
  LET c == workers[w].chapter
      again == RetriesLeft(workers[w].retries)
  IN  /\ workers[w].pc \in {"writing", "reviewing"}
      /\ MyJob(w).status # "deleted"
      /\ ProjectFree(w) /\ ChapterFree(w, c)
      /\ again => JobFree(workers[w].job)
      /\ chapters' = [chapters EXCEPT ![c] = ReviewFailed(@, workers[w].retries)]
      /\ project' = IF again THEN project ELSE [project EXCEPT !.status = "paused"]
      /\ jobs' = IF again THEN [jobs EXCEPT ![workers[w].job].deferred = TRUE] ELSE jobs
      /\ workers' = [workers EXCEPT ![w].pc = "returned", ![w].deferred = @ \/ again]
      /\ UNCHANGED <<rowLock, crashesLeft>>

\* the writer's or the critic's provider cannot be used
ProviderUnavailable(w) ==
  LET c == workers[w].chapter
  IN  /\ workers[w].pc \in {"writing", "reviewing"}
      /\ ProjectFree(w) /\ ChapterFree(w, c)
      /\ chapters' = [chapters EXCEPT ![c].status = "failed"]
      /\ project' = [project EXCEPT !.status = "paused"]
      /\ GoTo(w, "returned")
      /\ UNCHANGED <<jobs, rowLock, crashesLeft>>

\* accept_chapter in the session; the first query of the memory update flushes it,
\* and the project row with it when current_chapter moves
Accept(w) ==
  LET c == workers[w].chapter
      dirty == {c} \cup (IF workers[w].current = c THEN {} ELSE {0})
  IN  /\ workers[w].pc = "reviewing"
      /\ \A r \in dirty : rowLock[r] = Nobody
      /\ GoTo(w, "memory")
      /\ rowLock' = [r \in 0..N |-> IF r \in dirty THEN w ELSE rowLock[r]]
      /\ UNCHANGED <<rows, crashesLeft>>

AcceptedRow(w) ==
  [AcceptChapter(chapters[workers[w].chapter]) EXCEPT !.draft = TRUE]
AcceptedProject(w) ==
  [project EXCEPT !.current = OrmSet(workers[w].current, workers[w].chapter, @)]

\* _finalize_accepted_chapter: accept, choose what comes next, commit
FinalizeAccepted(w) ==
  LET c    == workers[w].chapter
      rep  == RepairOrphanQueuedChapters([chapters EXCEPT ![c] = AcceptedRow(w)], jobs, c)
      next == NextRunnableChapter(rep, c)
      s    == AdvanceAfterChapterSuccess(AcceptedProject(w), "running", rep, jobs, next,
                                         project.auto /\ workers[w].kind # "single")
      done == IF next = 0 THEN CleanupCompletedProject(s, workers[w].job) ELSE s
  IN  /\ ProjectFree(w)
      /\ Fresh(jobs) # {}
      /\ \A d \in Chapters : ~ChapterFree(w, d) => done.chapters[d] = chapters[d]
      /\ project' = done.project
      /\ chapters' = done.chapters
      /\ jobs' = done.jobs
      /\ GoTo(w, "returned")
      /\ Release(w)
      /\ UNCHANGED crashesLeft

Finalize(w) == workers[w].pc = "memory" /\ FinalizeAccepted(w)
\* _process_rush_chapter: no critic and no memory update, the text is accepted at once
FinalizeRush(w) ==
  workers[w].pc = "writing" /\ RushMode /\ JobActive(w) /\ FinalizeAccepted(w)

\* GenerationInterrupted, then _pause_current_generation.  What interrupts: the
\* project is no longer running, or the job is no longer this worker's live one
\* where the pipeline looks (before it starts and before the review).  During the
\* memory update the accepted text is already in the transaction that commits.
Interrupt(w) ==
  LET c  == workers[w].chapter
      pc == workers[w].pc
  IN  /\ \/ pc = "claimed" /\ chapters[c].status # "passed" /\ ~JobActive(w)
         \/ pc = "claimed" /\ chapters[c].status # "passed" /\ project.status # "running"
         \/ pc = "writing" /\ ~JobActive(w)
         \/ pc \in {"writing", "reviewing", "memory"} /\ project.status # "running"
      /\ ProjectFree(w) /\ ChapterFree(w, c)
      /\ IF pc = "memory"
           THEN /\ chapters' = [chapters EXCEPT ![c] = [AcceptedRow(w) EXCEPT !.status = "paused"]]
                /\ project' = [AcceptedProject(w) EXCEPT !.status = "paused"]
           ELSE /\ chapters' = [chapters EXCEPT ![c].status = "paused"]
                /\ project' = [project EXCEPT !.status = "paused"]
      /\ GoTo(w, "returned")
      /\ Release(w)
      /\ UNCHANGED <<jobs, crashesLeft>>

\* any other exception of the pipeline.  The runner stops the renewal before it rolls
\* the transaction back, and the lease may lapse before the failure is recorded.
PipelineError(w) ==
  /\ workers[w].pc \in Pipelining
  /\ GoTo(w, "raised")
  /\ UNCHANGED <<rows, rowLock, crashesLeft>>

Rollback(w) ==
  /\ workers[w].pc = "raised" /\ ~workers[w].hung
  /\ GoTo(w, "failing")
  /\ Release(w)
  /\ UNCHANGED <<rows, crashesLeft>>

-----------------------------------------------------------------------------
(* The end of run_worker's loop *)

FinishWithoutRetry(w) ==            \* mutant: the deferred retry is forgotten
  /\ workers[w].pc = "returned" /\ ~workers[w].hung
  /\ jobs' = [jobs EXCEPT ![workers[w].job] = Terminal("done")]
  /\ workers' = [workers EXCEPT ![w] = IdleWorker]
  /\ UNCHANGED <<project, chapters, rowLock, crashesLeft>>
\* mark_done, whoever owns the job by now, and the deferred retry in one commit;
\* a job deleted meanwhile, or a retry that conflicts, raises instead
Finish(w) ==
  LET c  == workers[w].chapter
      jb == [jobs EXCEPT ![workers[w].job] = Terminal("done")]
      raises == \/ MyJob(w).status = "deleted"
                \/ workers[w].deferred /\ EnqueueConflicts(jb, c)
  IN  /\ workers[w].pc = "returned" /\ ~workers[w].hung
      /\ Fresh(jobs) # {}
      /\ IF raises
           THEN GoTo(w, "failing") /\ UNCHANGED jobs
           ELSE /\ JobFree(workers[w].job)
                /\ workers' = [workers EXCEPT ![w] = IdleWorker]
                /\ jobs' = IF workers[w].deferred
                             THEN EnqueueGenerateJob(jb, c, "advance") ELSE jb
      /\ UNCHANGED <<project, chapters, rowLock, crashesLeft>>

\* mark_failed in a session of its own, whoever owns the job by now
Fail(w) ==
  LET c == workers[w].chapter
  IN  /\ workers[w].pc = "failing"
      /\ IF MyJob(w).status = "deleted" THEN UNCHANGED rows
         ELSE /\ rowLock[0] = Nobody /\ rowLock[c] = Nobody /\ JobFree(workers[w].job)
              /\ jobs' = [jobs EXCEPT ![workers[w].job] = Terminal("failed")]
              /\ chapters' = [chapters EXCEPT ![c] = JobFailed(@)]
              /\ project' = [project EXCEPT
                   !.status = "paused",
                   !.owner = IF @ = w THEN Nobody ELSE @,
                   !.live  = IF project.owner = w THEN FALSE ELSE @]
      /\ workers' = [workers EXCEPT ![w] = IdleWorker]
      /\ UNCHANGED <<rowLock, crashesLeft>>

\* the process is killed, its transaction is rolled back, and it starts again
Crash(w) ==
  /\ crashesLeft > 0
  /\ workers[w].pc # "idle"
  /\ crashesLeft' = crashesLeft - 1
  /\ workers' = [workers EXCEPT ![w] = IdleWorker]
  /\ Release(w)
  /\ UNCHANGED rows

-----------------------------------------------------------------------------
\* what a live worker does by itself, as opposed to errors and lapses
WorkerStep(w) ==
  \/ Claim(w) \/ Open(w) \/ StartWriting(w) \/ SubmitReview(w) \/ FailAttempt(w)
  \/ ProviderUnavailable(w) \/ Accept(w) \/ Finalize(w) \/ FinalizeRush(w) \/ Interrupt(w)
  \/ LoseLease(w) \/ PipelineError(w) \/ StopRenewal(w) \/ Rollback(w)
  \/ Finish(w) \/ Fail(w)
LeaseStep ==
  \/ \E w \in Workers : Renew(w) \/ RenewalHangs(w)
  \/ \E j \in JobIds : ExpireJob(j)
  \/ ExpireProject
=============================================================================
