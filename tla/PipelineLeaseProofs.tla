------------------------ MODULE PipelineLeaseProofs ------------------------
(***************************************************************************)
(* What the leases give the pipelines of a rush project: a busy worker is  *)
(* the owner of the project, so that there is never a second one, and      *)
(* nobody else touches its job or its chapter.  For every number of        *)
(* chapters, workers, requests and crashes, under Timely.  In rush mode no *)
(* transaction stays open over a model call, so that no renewal waits and  *)
(* none is late (RushQuiet); in standard mode the conclusions fail, as     *)
(* README shows.                                                           *)
(*                                                                         *)
(* LInv is the invariant behind it.  With it come the action properties    *)
(* PassedStable and CompletedStable: whoever writes a row that must stay   *)
(* holds neither the lease nor the chapter.                                *)
(*                                                                         *)
(* What needs no hypothesis, and holds in standard mode too, is proved     *)
(* with the refinement of JobLease: every step but a renewal by a worker   *)
(* that has lost the project maps to a step of JobLease or a stutter, and  *)
(* a lease shields the chapter that is worked on.  The facts about the     *)
(* table of jobs and its index (LeasesOK) are proved there.                *)
(***************************************************************************)
EXTENDS NovelGenerationProofs, FiniteSetTheorems

Busy(w) == workers[w].pc # "idle"

\* nothing that a renewal could wait for: no transaction stays open over a model call, and
\* nobody decides on revisions, which only a memory update proposes
RushQuiet ==
  /\ \A r \in 0..N : rowLock[r] = Nobody
  /\ \A w \in Workers : /\ workers[w].hung = FALSE /\ workers[w].late = FALSE
                        /\ workers[w].pc \notin {"reviewing", "memory"}
  /\ request.op \notin RevisionOps

\* the job it works on is leased to it, and the lease is live
Holds(w) ==
  /\ MyJob(w).status = "leased" /\ MyJob(w).owner = w /\ MyJob(w).live
  /\ MyJob(w).chapter = workers[w].chapter

\* a busy worker is the owner of the project
OwnsProject(w) == project.owner = w /\ project.live
\* ... and of its job, until the end of the loop: there retry_chapter and resume_project
\* may have cancelled the job of a chapter that is over
KeepsJob(w) ==
  Holds(w) \/ (workers[w].pc \in {"returned", "raised", "failing"} /\ request = NoRequest)
\* no chapter is opened while a request that saw the project stopped is served
NoneOpening(w) ==
  request # NoRequest /\ Cached.status # "running" => workers[w].pc \notin {"claimed", "opened"}
\* the chapter is as the session cached it; a pause may have taken it out of the queue
OpenedFresh(w) ==
  workers[w].pc = "opened" =>
    LET row == chapters[workers[w].chapter]
    IN  /\ workers[w].status # "passed"
        /\ row.retries = workers[w].retries
        /\ \/ row.status = workers[w].status
           \/ row.status = "paused" /\ workers[w].status = "queued"
WorkingFresh(w) ==
  w \in Working =>
    LET row == chapters[workers[w].chapter]
    IN  /\ workers[w].status = "writing" /\ row.status = "writing"
        /\ row.retries = workers[w].retries

Good(w) ==
  Busy(w) => /\ OwnsProject(w) /\ KeepsJob(w) /\ NoneOpening(w)
             /\ OpenedFresh(w) /\ WorkingFresh(w)

\* a request that saw the project stopped still finds it stopped
CachedRunning ==
  request # NoRequest /\ project.status = "running" => Cached.status = "running"

LInv == RushQuiet /\ CachedRunning /\ \A w \in Workers : Good(w)

-----------------------------------------------------------------------------
(* One worker at a time *)

\* The project has one owner, so at most one worker is busy.
LEMMA OneBusy ==
  ASSUME LInv, NEW v \in Workers, NEW w \in Workers, Busy(v), Busy(w)
  PROVE  v = w
BY DEF LInv, Good, OwnsProject

\* An idle worker has nothing to keep: a step of a busy worker is about that one only.
LEMMA OneGood ==
  ASSUME LInv, NEW v \in Workers, \A w \in Workers \ {v} : ~Busy(w),
         \A w \in Workers \ {v} : workers'[w] = workers[w],
         Good(v)'
  PROVE  \A w \in Workers : Good(w)'
BY DEF Good, Busy

\* What the step of a busy worker changes of the others: nothing.
LEMMA OthersIdle ==
  ASSUME LInv, NEW v \in Workers, Busy(v)
  PROVE  \A w \in Workers \ {v} : ~Busy(w)
BY OneBusy

-----------------------------------------------------------------------------
(* The steps of a worker *)

\* A worker that moves on without a change of its lease, its job or its chapter, to a
\* phase in which it may not even need them.
LEMMA MoveOnGood ==
  ASSUME LInv, NEW v \in Workers, Busy(v),
         NEW pc \in {"returned", "raised", "failing"},
         workers'[v].pc = pc,
         project'.owner = project.owner, project'.live = project.live,
         Holds(v) => Holds(v)',
         request' = request
  PROVE  Good(v)'
<1>1. OwnsProject(v) /\ KeepsJob(v)
  BY DEF LInv, Good
<1>2. OwnsProject(v)' /\ KeepsJob(v)'
  BY <1>1 DEF OwnsProject, KeepsJob
<1>3. NoneOpening(v)' /\ OpenedFresh(v)' /\ WorkingFresh(v)'
  BY DEF NoneOpening, OpenedFresh, WorkingFresh, Working
<1> QED  BY <1>2, <1>3 DEF Good

\* GoTo changes nothing but the phase of one worker.
LEMMA GoToFacts ==
  ASSUME WorkersOK, NEW v \in Workers, NEW pc, GoTo(v, pc)
  PROVE  /\ workers'[v].pc = pc
         /\ workers'[v].job = workers[v].job /\ workers'[v].chapter = workers[v].chapter
         /\ workers'[v].status = workers[v].status
         /\ workers'[v].retries = workers[v].retries
         /\ \A w \in Workers \ {v} : workers'[w] = workers[w]
BY DEF GoTo, WorkersOK, SoundWorker, WorkerRow

\* A worker that still has its job leased, by a row nobody wrote, holds it as before.
LEMMA SameHolds ==
  ASSUME NEW v \in Workers, Holds(v),
         workers'[v].job = workers[v].job, workers'[v].chapter = workers[v].chapter,
         jobs'[workers[v].job] = jobs[workers[v].job]
  PROVE  Holds(v)'
BY DEF Holds, MyJob

\* claim_next_job: nobody else is busy, because the project was nobody else's.
LEMMA ClaimGood ==
  ASSUME IInv, LInv, Timely, NEW v \in Workers, Claim(v), UNCHANGED serviceVars
  PROVE  \A w \in Workers : Good(w)'
<1> DEFINE j == Min(ClaimableJobs)
<1>1. \A w \in Workers \ {v} : ~Busy(w)
  BY DEF Claim, LInv, Good, OwnsProject
<1>2. j \in JobIds
  <2>1. ClaimableJobs \subseteq Nat /\ ClaimableJobs # {}
    <3>1. JobIds \subseteq Nat
      BY StateAssumption DEF JobIds
    <3> QED  BY <3>1 DEF Claim, ClaimableJobs
  <2> QED  BY <2>1, MinLeast DEF ClaimableJobs
<1>3. /\ jobs' = [jobs EXCEPT ![j] =
                    [jobs[j] EXCEPT !.status = "leased", !.owner = v, !.live = TRUE]]
      /\ project' = [project EXCEPT !.owner = v, !.live = TRUE]
      /\ project.status = "running" /\ request' = request
  BY DEF Claim, serviceVars
<1>4. workers' = [workers EXCEPT ![v] =
        [IdleWorker EXCEPT !.pc = "claimed", !.job = j, !.chapter = jobs[j].chapter,
                           !.kind = jobs[j].kind, !.current = project.current,
                           !.deferred = jobs[j].deferred]]
  BY DEF Claim
<1> HIDE DEF j
<1>5. /\ workers'[v].pc = "claimed" /\ workers'[v].job = j
      /\ workers'[v].chapter = jobs[j].chapter
  BY <1>4 DEF IInv, WorkersOK, IdleWorker
<1>6. /\ jobs'[j].status = "leased" /\ jobs'[j].owner = v /\ jobs'[j].live = TRUE
      /\ jobs'[j].chapter = jobs[j].chapter
  BY <1>2, <1>3 DEF IInv, RowsOK, SoundJob, JobRow
<1>7. project'.owner = v /\ project'.live = TRUE
  BY <1>3 DEF IInv, RowsOK, ProjectRow
<1>8. Holds(v)'
  BY <1>5, <1>6 DEF Holds, MyJob
<1>9. NoneOpening(v)'
  BY <1>3 DEF LInv, CachedRunning, NoneOpening, Cached
<1>10. OpenedFresh(v)' /\ WorkingFresh(v)'
  BY <1>5 DEF OpenedFresh, WorkingFresh, Working
<1>11. Good(v)'
  BY <1>7, <1>8, <1>9, <1>10 DEF Good, OwnsProject, KeepsJob
<1>12. \A w \in Workers \ {v} : workers'[w] = workers[w]
  BY <1>4 DEF IInv, WorkersOK
<1> QED  BY <1>1, <1>11, <1>12, OneGood

\* Opening a chapter, which is as the session has just read it.
LEMMA OpenGood ==
  ASSUME IInv, LInv, NEW v \in Workers, Open(v), UNCHANGED serviceVars
  PROVE  \A w \in Workers : Good(w)'
<1> DEFINE row == chapters[workers[v].chapter]
           pc == IF row.status = "passed" THEN "returned" ELSE "opened"
<1>1. Busy(v) /\ workers[v].pc = "claimed"
  BY DEF Open, Busy
<1>2. workers' = [workers EXCEPT ![v] =
        [workers[v] EXCEPT !.pc = pc, !.status = row.status, !.retries = row.retries]]
  BY DEF Open
<1>3. /\ workers'[v].pc = pc
      /\ workers'[v].job = workers[v].job /\ workers'[v].chapter = workers[v].chapter
      /\ workers'[v].status = row.status /\ workers'[v].retries = row.retries
      /\ \A w \in Workers \ {v} : workers'[w] = workers[w]
  BY <1>2 DEF IInv, WorkersOK, SoundWorker, WorkerRow
<1>4. UNCHANGED <<rows, rowLock, request>>
  BY DEF Open, serviceVars
<1>5. OwnsProject(v) /\ KeepsJob(v) /\ NoneOpening(v)
  BY <1>1 DEF LInv, Good
<1>6. Holds(v)
  BY <1>1, <1>5 DEF KeepsJob
<1>7. Holds(v)'
  BY <1>3, <1>4, <1>6, SameHolds DEF rows
<1>8. OwnsProject(v)' /\ KeepsJob(v)'
  BY <1>3, <1>4, <1>5, <1>6, <1>7 DEF OwnsProject, KeepsJob, rows
<1>9. NoneOpening(v)' /\ OpenedFresh(v)' /\ WorkingFresh(v)'
  BY <1>1, <1>3, <1>4, <1>5 DEF NoneOpening, OpenedFresh, WorkingFresh, Working, rows, Cached
<1>10. Good(v)'
  BY <1>8, <1>9 DEF Good
<1> QED  BY <1>1, <1>3, <1>10, OthersIdle, OneGood

\* The commits before a text is complete: the chapter has the status its session set.
LEMMA WritingGood ==
  ASSUME IInv, LInv, NEW v \in Workers, StartWriting(v) \/ CommitChunks(v),
         UNCHANGED serviceVars
  PROVE  \A w \in Workers : Good(w)'
<1> DEFINE c == workers[v].chapter
<1>1. Busy(v) /\ workers[v].pc \in {"opened", "writing"}
  BY DEF StartWriting, CommitChunks, Busy
<1>2. c \in Chapters /\ chapters[c] \in ChapterRow /\ workers[v] \in WorkerRow
  BY <1>1, BusyWorker DEF IInv, WorkersOK, SoundWorker, SoundChapter, Busy
<1>3. UNCHANGED <<project, jobs, rowLock, request>>
  BY DEF StartWriting, CommitChunks, serviceVars
<1>4. OwnsProject(v) /\ KeepsJob(v) /\ NoneOpening(v) /\ OpenedFresh(v) /\ WorkingFresh(v)
  BY <1>1 DEF LInv, Good
<1>5. /\ workers'[v].job = workers[v].job /\ workers'[v].chapter = c
      /\ workers'[v].retries = workers[v].retries /\ workers'[v].pc = "writing"
      /\ \A w \in Workers \ {v} : workers'[w] = workers[w]
  <2>1. CASE StartWriting(v)
    BY <1>2, <2>1 DEF StartWriting, IInv, WorkersOK, WorkerRow
  <2>2. CASE CommitChunks(v)
    BY <2>2 DEF CommitChunks
  <2> QED  BY <2>1, <2>2
<1>6. /\ workers'[v].status = "writing" /\ chapters'[c].status = "writing"
      /\ chapters'[c].retries = chapters[c].retries
  <2>1. CASE StartWriting(v)
    <3>1. workers'[v].status = "writing"
      BY <1>2, <2>1 DEF StartWriting, IInv, WorkersOK, WorkerRow
    <3>2. workers[v].status = "writing" => chapters[c].status = "writing"
      BY <1>4, <2>1 DEF OpenedFresh, StartWriting
    <3>3. OrmSet(workers[v].status, "writing", chapters[c].status) = "writing"
      BY <3>2 DEF OrmSet
    <3>4. chapters' = [chapters EXCEPT ![c] = [chapters[c] EXCEPT !.status = "writing"]]
      BY <2>1, <3>3 DEF StartWriting
    <3> QED  BY <1>2, <3>1, <3>4 DEF IInv, RowsOK, ChapterRow
  <2>2. CASE CommitChunks(v)
    <3>1. chapters' = [chapters EXCEPT ![c] = [chapters[c] EXCEPT !.draft = TRUE]]
      BY <2>2 DEF CommitChunks
    <3>2. workers' = workers /\ workers[v].pc = "writing"
      BY <2>2 DEF CommitChunks
    <3> QED  BY <1>2, <1>4, <3>1, <3>2 DEF IInv, RowsOK, ChapterRow, WorkingFresh, Working
  <2> QED  BY <2>1, <2>2
<1>7. Holds(v)
  BY <1>1, <1>4 DEF KeepsJob
<1>8. Holds(v)'
  BY <1>3, <1>5, <1>7, SameHolds
<1>9. OwnsProject(v)' /\ KeepsJob(v)'
  BY <1>3, <1>4, <1>5, <1>8 DEF OwnsProject, KeepsJob
<1>10. NoneOpening(v)' /\ OpenedFresh(v)'
  BY <1>5 DEF NoneOpening, OpenedFresh
<1>11. WorkingFresh(v)'
  <2>1. chapters[c].retries = workers[v].retries
    BY <1>1, <1>4 DEF OpenedFresh, WorkingFresh, Working
  <2> QED  BY <1>5, <1>6, <2>1 DEF WorkingFresh
<1>12. Good(v)'
  BY <1>9, <1>10, <1>11 DEF Good
<1> QED  BY <1>1, <1>5, <1>12, OthersIdle, OneGood

-----------------------------------------------------------------------------
(* What the helpers leave alone *)

\* A new job takes a row that was not there.
LEMMA EnqueueKeeps ==
  ASSUME NEW jb, NEW c, NEW kind, Fresh(jb) # {}, NEW j \in JobIds, jb[j].status # "absent",
         jb = [k \in JobIds |-> jb[k]]
  PROVE  EnqueueGenerateJob(jb, c, kind)[j] = jb[j]
<1>1. Fresh(jb) \subseteq Nat
  BY StateAssumption DEF Fresh, JobIds
<1>2. Min(Fresh(jb)) \in Fresh(jb)
  BY <1>1, MinLeast
<1>3. jb[Min(Fresh(jb))].status = "absent"
  <2>1. \A k \in Fresh(jb) : jb[k].status = "absent"
    BY StateAssumption DEF Fresh, JobIds
  <2> QED  BY <1>2, <2>1
<1>4. Min(Fresh(jb)) # j
  BY <1>3
<1> HIDE DEF Fresh
<1> QED  BY <1>4 DEF EnqueueGenerateJob

\* After an accepted chapter no leased job changes and no lease of the project either.
LEMMA AdvanceKeepsLease ==
  ASSUME NEW p \in ProjectRow, NEW cached, NEW ch, NEW jb, NEW next, NEW goOn,
         Fresh(jb) # {}, jb = [k \in JobIds |-> jb[k]]
  PROVE  LET s == AdvanceAfterChapterSuccess(p, cached, ch, jb, next, goOn)
         IN  /\ s.project.owner = p.owner /\ s.project.live = p.live
             /\ \A j \in JobIds : jb[j].status # "absent" => s.jobs[j] = jb[j]
<1>1. \A st : /\ [p EXCEPT !.status = st].owner = p.owner
             /\ [p EXCEPT !.status = st].live = p.live
  BY DEF ProjectRow
<1>2. \A j \in JobIds : jb[j].status # "absent"
        => EnqueueGenerateJob(jb, next, "advance")[j] = jb[j]
  BY EnqueueKeeps
<1> QED  BY <1>1, <1>2 DEF AdvanceAfterChapterSuccess, MarkProjectRunning

\* The last commit of the pipeline keeps leased jobs and the project's lease.
LEMMA FinalizeKeepsLease ==
  ASSUME RowsOK, WorkersOK, NEW w \in Workers, Finalize(w) \/ FinalizeRush(w)
  PROVE  /\ project'.owner = project.owner /\ project'.live = project.live
         /\ \A j \in JobIds : jobs[j].status = "leased" => jobs'[j] = jobs[j]
<1> DEFINE c    == workers[w].chapter
           rep  == RepairOrphanQueuedChapters([chapters EXCEPT ![c] = AcceptedRow(w)], jobs, c)
           next == NextRunnableChapter(rep, c)
           goOn == project.auto /\ workers[w].kind # "single"
           s    == AdvanceAfterChapterSuccess(AcceptedProject(w), "running", rep, jobs,
                                              next, goOn)
           done == IF next = 0 THEN CleanupCompletedProject(s, workers[w].job) ELSE s
<1>1. workers[w].pc # "idle"
  BY DEF Finalize, FinalizeRush, FinalizeAccepted
<1>2. AcceptedRow(w) \in SoundChapter /\ AcceptedProject(w) \in ProjectRow
  BY <1>1, AcceptedSound
<1>3. AcceptedProject(w).owner = project.owner /\ AcceptedProject(w).live = project.live
  BY DEF AcceptedProject, RowsOK, ProjectRow
<1>4. s \in ProgressRow
  <2>1. [chapters EXCEPT ![c] = AcceptedRow(w)] \in [Chapters -> SoundChapter]
    BY <1>2 DEF RowsOK
  <2>2. rep \in [Chapters -> SoundChapter] /\ next \in Chapters \cup {0}
    BY <2>1, RepairSound, RunnableType
  <2> HIDE DEF rep, next, goOn
  <2> QED  BY <1>2, <2>2, AdvanceSound DEF RowsOK
<1>5. /\ s.project.owner = AcceptedProject(w).owner
      /\ s.project.live = AcceptedProject(w).live
      /\ \A j \in JobIds : jobs[j].status # "absent" => s.jobs[j] = jobs[j]
  <2>1. Fresh(jobs) # {}
    BY DEF Finalize, FinalizeRush, FinalizeAccepted
  <2>2. jobs = [k \in JobIds |-> jobs[k]]
    BY DEF RowsOK
  <2> HIDE DEF rep, next, goOn
  <2> QED  BY <1>2, <2>1, <2>2, AdvanceKeepsLease
<1>6. /\ done.project = s.project
      /\ \A j \in JobIds : s.jobs[j].status = "leased" => done.jobs[j] = s.jobs[j]
  <2> HIDE DEF s, next
  <2> QED  BY <1>4, CleanupKeepsProject DEF CleanupCompletedProject, ProgressRow
<1>7. project' = done.project /\ jobs' = done.jobs
  BY DEF Finalize, FinalizeRush, FinalizeAccepted
<1> HIDE DEF s, done
<1> QED  BY <1>3, <1>5, <1>6, <1>7

-----------------------------------------------------------------------------
(* The end of a pipeline *)

\* A failed attempt, an unusable provider, an interruption and an accepted chapter end
\* the pipeline: the worker still has its job.
LEMMA ReturnHolds ==
  ASSUME IInv, LInv, NEW v \in Workers,
         \/ FailAttempt(v) \/ ProviderUnavailable(v) \/ Interrupt(v)
         \/ Finalize(v) \/ FinalizeRush(v)
  PROVE  /\ Busy(v) /\ Holds(v)'
         /\ workers'[v].pc = "returned"
         /\ workers'[v].chapter = workers[v].chapter
         /\ \A w \in Workers \ {v} : workers'[w] = workers[w]
         /\ project'.owner = project.owner /\ project'.live = project.live
<1> DEFINE j == workers[v].job
<1> USE DEF IInv
<1>1. Busy(v) /\ workers[v].pc \in {"claimed", "writing", "reviewing", "memory"}
  BY DEF FailAttempt, ProviderUnavailable, Interrupt, Finalize, FinalizeRush, Busy
<1>2. j \in JobIds /\ jobs[j] \in JobRow
  BY <1>1, BusyWorker DEF Busy, RowsOK, SoundJob
<1>3. Holds(v)
  BY <1>1 DEF LInv, Good, KeepsJob
<1>4. /\ workers'[v].pc = "returned"
      /\ workers'[v].job = j /\ workers'[v].chapter = workers[v].chapter
      /\ \A w \in Workers \ {v} : workers'[w] = workers[w]
  <2>1. CASE FailAttempt(v)
    BY <2>1 DEF FailAttempt, WorkersOK, SoundWorker, WorkerRow
  <2>2. CASE ~FailAttempt(v)
    <3>1. GoTo(v, "returned")
      BY <2>2 DEF ProviderUnavailable, Interrupt, Finalize, FinalizeRush, FinalizeAccepted
    <3> QED  BY <3>1, GoToFacts
  <2> QED  BY <2>1, <2>2
<1>5. /\ project'.owner = project.owner /\ project'.live = project.live
      /\ \/ jobs'[j] = jobs[j]
         \/ jobs'[j] = [jobs[j] EXCEPT !.deferred = TRUE]
  <2>1. \A p \in ProjectRow : /\ [p EXCEPT !.status = "paused"].owner = p.owner
                              /\ [p EXCEPT !.status = "paused"].live = p.live
    BY DEF ProjectRow
  <2>2. CASE FailAttempt(v)
    BY <1>2, <2>1, <2>2 DEF FailAttempt, RowsOK
  <2>3. CASE ProviderUnavailable(v)
    BY <2>1, <2>3 DEF ProviderUnavailable, RowsOK
  <2>4. CASE Interrupt(v)
    <3>1. /\ AcceptedProject(v) \in ProjectRow
          /\ AcceptedProject(v).owner = project.owner /\ AcceptedProject(v).live = project.live
      BY <1>1, AcceptedSound DEF Busy, AcceptedProject, RowsOK, ProjectRow
    <3> QED  BY <2>1, <2>4, <3>1 DEF Interrupt, RowsOK
  <2>5. CASE Finalize(v) \/ FinalizeRush(v)
    BY <1>2, <1>3, <2>5, FinalizeKeepsLease DEF Holds, MyJob
  <2> QED  BY <2>2, <2>3, <2>4, <2>5
<1>6. Holds(v)'
  <2>1. /\ jobs'[j].status = jobs[j].status /\ jobs'[j].owner = jobs[j].owner
        /\ jobs'[j].live = jobs[j].live /\ jobs'[j].chapter = jobs[j].chapter
    BY <1>2, <1>5 DEF JobRow
  <2> QED  BY <1>3, <1>4, <2>1 DEF Holds, MyJob
<1> QED  BY <1>1, <1>4, <1>5, <1>6

\* ... and is as it should be.
LEMMA ReturnGood ==
  ASSUME IInv, LInv, NEW v \in Workers,
         \/ FailAttempt(v) \/ ProviderUnavailable(v) \/ Interrupt(v)
         \/ Finalize(v) \/ FinalizeRush(v),
         UNCHANGED serviceVars
  PROVE  \A w \in Workers : Good(w)'
<1>1. Good(v)'
  BY ReturnHolds, MoveOnGood DEF serviceVars
<1> QED  BY <1>1, ReturnHolds, OthersIdle, OneGood

\* An exception, its rollback, and a lease found lost: the worker goes on to fail its job.
LEMMA ErrorGood ==
  ASSUME IInv, LInv, NEW v \in Workers,
         PipelineError(v) \/ Rollback(v) \/ LoseLease(v),
         UNCHANGED serviceVars
  PROVE  \A w \in Workers : Good(w)'
<1>1. Busy(v)
  BY DEF PipelineError, Rollback, LoseLease, Busy, Pipelining
<1>2. PICK pc \in {"raised", "failing"} : GoTo(v, pc)
  BY DEF PipelineError, Rollback, LoseLease
<1>3. UNCHANGED <<rows, request>>
  BY DEF PipelineError, Rollback, LoseLease, serviceVars
<1>4. /\ workers'[v].pc = pc
      /\ workers'[v].job = workers[v].job /\ workers'[v].chapter = workers[v].chapter
      /\ \A w \in Workers \ {v} : workers'[w] = workers[w]
  BY <1>2, GoToFacts DEF IInv
<1>5. Holds(v) => Holds(v)'
  BY <1>3, <1>4, SameHolds DEF rows
<1>6. Good(v)'
  BY <1>1, <1>3, <1>4, <1>5, MoveOnGood DEF rows
<1> QED  BY <1>1, <1>4, <1>6, OthersIdle, OneGood

\* The end of the loop, a failed job and a crash leave the worker idle, or about to fail.
LEMMA IdleGood ==
  ASSUME IInv, LInv, NEW v \in Workers, Finish(v) \/ Fail(v) \/ Crash(v),
         UNCHANGED serviceVars
  PROVE  \A w \in Workers : Good(w)'
<1>1. Busy(v)
  BY DEF Finish, Fail, Crash, Busy
<1>2. CASE workers' = [workers EXCEPT ![v] = IdleWorker]
  <2>1. /\ workers'[v].pc = "idle"
        /\ \A w \in Workers \ {v} : workers'[w] = workers[w]
    BY <1>2 DEF IInv, WorkersOK, IdleWorker
  <2> QED  BY <1>1, <2>1, OthersIdle, OneGood DEF Good, Busy
<1>3. CASE workers' # [workers EXCEPT ![v] = IdleWorker]
  <2>1. GoTo(v, "failing") /\ UNCHANGED <<project, jobs, request>>
    BY <1>3 DEF Finish, Fail, Crash, serviceVars
  <2>2. /\ workers'[v].pc = "failing"
        /\ workers'[v].job = workers[v].job /\ workers'[v].chapter = workers[v].chapter
        /\ \A w \in Workers \ {v} : workers'[w] = workers[w]
    BY <2>1, GoToFacts DEF IInv
  <2>3. Holds(v) => Holds(v)'
    BY <2>1, <2>2, SameHolds
  <2>4. Good(v)'
    BY <1>1, <2>1, <2>2, <2>3, MoveOnGood
  <2> QED  BY <1>1, <2>2, <2>4, OthersIdle, OneGood
<1> QED  BY <1>2, <1>3

-----------------------------------------------------------------------------
(* Renewals and lapses *)

\* What only a standard project does does not happen: no row is locked for long, so no
\* renewal waits, and the lease of a working worker is live already.
LEMMA NeverInRush ==
  ASSUME IInv, LInv, RushMode, NEW v \in Workers
  PROVE  /\ ~SubmitReview(v) /\ ~Accept(v) /\ ~Finalize(v) /\ ~StopRenewal(v)
         /\ ~RenewalHangs(v) /\ ~Renew(v)
<1>1. ~SubmitReview(v) /\ ~Accept(v) /\ ~Finalize(v) /\ ~StopRenewal(v)
  BY DEF LInv, RushQuiet, SubmitReview, Accept, Finalize, StopRenewal
<1>2. ~RenewalHangs(v)
  BY StateAssumption DEF LInv, RushQuiet, RenewalHangs
<1>3. ~Renew(v)
  <2> SUFFICES ASSUME Renew(v) PROVE FALSE
    OBVIOUS
  <2>1. workers[v].pc \in Pipelining /\ ~MyJob(v).live
    BY DEF LInv, RushQuiet, Renew
  <2>2. Busy(v) /\ KeepsJob(v)
    BY <2>1 DEF LInv, Good, Busy, Pipelining
  <2> QED  BY <2>1, <2>2 DEF KeepsJob, Holds, Pipelining
<1> QED  BY <1>1, <1>2, <1>3

\* Time does not take the lease of a busy worker, which is renewed before it ends.
LEMMA ExpiryGood ==
  ASSUME IInv, LInv, Timely, ExpireProject \/ \E j \in JobIds : ExpireJob(j),
         UNCHANGED serviceVars
  PROVE  \A w \in Workers : Good(w)'
<1> SUFFICES ASSUME NEW w \in Workers, Busy(w) PROVE Good(w)'
  BY DEF Good, Busy, ExpireProject, ExpireJob
<1>1. UNCHANGED <<chapters, workers, rowLock, request>>
  BY DEF ExpireProject, ExpireJob, serviceVars
<1>2. OwnsProject(w) /\ KeepsJob(w) /\ NoneOpening(w) /\ OpenedFresh(w) /\ WorkingFresh(w)
  BY DEF LInv, Good
<1>3. workers[w].job \in JobIds /\ Renewing(w)
  BY BusyWorker DEF IInv, Busy, LInv, RushQuiet, Renewing
<1>4. NoneOpening(w)' /\ OpenedFresh(w)' /\ WorkingFresh(w)'
  BY <1>1, <1>2 DEF NoneOpening, OpenedFresh, WorkingFresh, Working, Cached
<1>5. ~ExpireProject
  BY <1>2, <1>3 DEF ExpireProject, OwnsProject
<1>6. PICK j \in JobIds : ExpireJob(j)
  BY <1>5
<1>7. jobs' = [jobs EXCEPT ![j] = [jobs[j] EXCEPT !.live = FALSE]] /\ project' = project
  BY <1>6 DEF ExpireJob
<1>8. OwnsProject(w)'
  BY <1>2, <1>7 DEF OwnsProject
<1>9. Holds(w) => Holds(w)'
  <2> SUFFICES ASSUME Holds(w) PROVE Holds(w)'
    OBVIOUS
  <2>1. workers[w].job # j
    BY <1>3, <1>6 DEF ExpireJob, Holds, MyJob
  <2>2. jobs'[workers[w].job] = jobs[workers[w].job]
    BY <1>3, <1>7, <2>1 DEF IInv, RowsOK
  <2> QED  BY <1>1, <2>2, SameHolds
<1>10. KeepsJob(w)'
  BY <1>1, <1>2, <1>9 DEF KeepsJob
<1> QED  BY <1>4, <1>8, <1>10 DEF Good

-----------------------------------------------------------------------------
(* The row locks *)

\* No transaction of a rush project stays open over a model call.
LEMMA MachineRushQuiet ==
  ASSUME IInv, LInv, RushMode, Machine
  PROVE  RushQuiet'
<1> USE DEF IInv
<1>1. ASSUME NEW w \in Workers
      PROVE  ~SubmitReview(w) /\ ~Accept(w) /\ ~Finalize(w) /\ ~StopRenewal(w)
             /\ ~RenewalHangs(w) /\ ~Renew(w)
  BY NeverInRush
<1>2. request'.op \notin RevisionOps
  BY DEF Machine, serviceVars, LInv, RushQuiet
<1>3. RushQuiet
  BY DEF LInv
<1>4. CASE LeaseStep
  <2>1. UNCHANGED <<workers, rowLock>>
    BY <1>1, <1>4 DEF LeaseStep, ExpireJob, ExpireProject
  <2> QED  BY <1>2, <1>3, <2>1 DEF RushQuiet
<1>5. ASSUME NEW v \in Workers, WorkerStep(v) \/ CommitChunks(v) \/ Crash(v)
      PROVE  RushQuiet'
  <2>1. rowLock' = rowLock \/ Release(v)
    BY <1>1, <1>5
       DEF WorkerStep, Claim, Open, StartWriting, FailAttempt, ProviderUnavailable,
           FinalizeRush, FinalizeAccepted, Interrupt, LoseLease, PipelineError, Rollback,
           Finish, Fail, CommitChunks, Crash
  <2>2. \A r \in 0..N : rowLock'[r] = Nobody
    BY <1>3, <2>1 DEF RushQuiet, Release
  <2>3. /\ workers'[v].hung = FALSE /\ workers'[v].late = FALSE
        /\ workers'[v].pc \notin {"reviewing", "memory"}
        /\ \A w \in Workers \ {v} : workers'[w] = workers[w]
    <3>1. CASE Claim(v)
      BY <3>1 DEF Claim, WorkersOK, IdleWorker
    <3>2. CASE Open(v) \/ StartWriting(v) \/ FailAttempt(v) \/ CommitChunks(v)
      <4>1. /\ workers[v] \in WorkerRow
            /\ workers[v].hung = FALSE /\ workers[v].late = FALSE
            /\ workers[v].pc \notin {"reviewing", "memory"}
        BY <1>3 DEF RushQuiet, WorkersOK, SoundWorker
      <4>2. CASE Open(v)
        BY <4>1, <4>2 DEF Open, WorkersOK, WorkerRow
      <4>3. CASE StartWriting(v)
        BY <4>1, <4>3 DEF StartWriting, WorkersOK, WorkerRow
      <4>4. CASE FailAttempt(v)
        BY <4>1, <4>4 DEF FailAttempt, WorkersOK, WorkerRow
      <4>5. CASE CommitChunks(v)
        BY <4>1, <4>5 DEF CommitChunks
      <4> QED  BY <3>2, <4>2, <4>3, <4>4, <4>5
    <3>3. CASE workers' = [workers EXCEPT ![v] = IdleWorker]
      BY <3>3 DEF WorkersOK, IdleWorker
    <3>4. CASE \E pc \in {"returned", "raised", "failing"} : GoTo(v, pc)
      BY <1>3, <3>4 DEF GoTo, RushQuiet, WorkersOK, SoundWorker, WorkerRow
    <3> QED  BY <1>1, <1>5, <3>1, <3>2, <3>3, <3>4
             DEF WorkerStep, ProviderUnavailable, FinalizeRush, FinalizeAccepted, Interrupt,
                 LoseLease, PipelineError, Rollback, Finish, Fail, Crash
  <2>4. \A w \in Workers : /\ workers'[w].hung = FALSE /\ workers'[w].late = FALSE
                           /\ workers'[w].pc \notin {"reviewing", "memory"}
    BY <1>3, <2>3 DEF RushQuiet
  <2> QED  BY <1>2, <2>2, <2>4 DEF RushQuiet
<1> QED  BY <1>4, <1>5 DEF Machine

\* A step of a worker, or of time, keeps the invariant.
LEMMA MachineLInv ==
  ASSUME IInv, LInv, Timely, RushMode, Machine
  PROVE  LInv'
<1>1. UNCHANGED serviceVars
  BY DEF Machine
<1>2. CachedRunning'
  BY <1>1, MachineKeepsStopped DEF LInv, CachedRunning, Cached, serviceVars
<1>3. \A w \in Workers : Good(w)'
  <2>1. ASSUME NEW v \in Workers, WorkerStep(v) \/ CommitChunks(v) \/ Crash(v)
        PROVE  \A w \in Workers : Good(w)'
    BY <1>1, <2>1, NeverInRush, ClaimGood, OpenGood, WritingGood, ReturnGood, ErrorGood,
       IdleGood DEF WorkerStep
  <2>2. CASE LeaseStep
    BY <1>1, <2>2, NeverInRush, ExpiryGood DEF LeaseStep
  <2> QED  BY <2>1, <2>2 DEF Machine
<1> QED  BY <1>2, <1>3, MachineRushQuiet DEF LInv

-----------------------------------------------------------------------------
(* The handlers *)

\* The clean-ups of the handlers keep a live leased job and end a lapsed one.
LEMMA CleanedLeases ==
  ASSUME RowsOK, NEW C, NEW j \in JobIds, jobs[j].status = "leased"
  PROVE  /\ jobs[j].live => /\ CancelExpiredLeasedJobs(jobs, C)[j] = jobs[j]
                            /\ CleanedJobs(C)[j] = jobs[j]
         /\ ~jobs[j].live /\ jobs[j].chapter \in C =>
              /\ CancelExpiredLeasedJobs(jobs, C)[j].status = "cancelled"
              /\ CleanedJobs(C)[j].status = "cancelled"
<1>1. Terminal("cancelled").status = "cancelled"
  BY DEF Terminal, NoJob
<1>2. /\ jobs[j].live => CancelExpiredLeasedJobs(jobs, C)[j] = jobs[j]
      /\ ~jobs[j].live /\ jobs[j].chapter \in C =>
           CancelExpiredLeasedJobs(jobs, C)[j] = Terminal("cancelled")
  BY DEF CancelExpiredLeasedJobs
<1>3. \A jb : jb[j].status # "queued" => CancelQueuedJobs(jb, C)[j] = jb[j]
  BY DEF CancelQueuedJobs
<1> QED  BY <1>1, <1>2, <1>3 DEF CleanedJobs

\* A handler goes on only if no live leased job is left.
LEMMA IdleLeases ==
  ASSUME NEW jb, Idle(jb), NEW j \in JobIds, jb[j].status = "leased", jb[j].chapter \in Chapters
  PROVE  ~jb[j].live
BY DEF Idle, HasLiveLeasedJob, LiveLeased, Leased

\* Neither inserting a job nor the advance after a chapter makes a job leased.
LEMMA EnqueueLeases ==
  ASSUME NEW jb \in [JobIds -> SoundJob], NEW c, NEW kind, NEW j \in JobIds,
         jb[j].status # "leased"
  PROVE  EnqueueGenerateJob(jb, c, kind)[j].status # "leased"
<1>1. [NoJob EXCEPT !.status = "queued", !.chapter = c, !.kind = kind].status = "queued"
  BY DEF NoJob
<1> QED  BY <1>1 DEF EnqueueGenerateJob

\* The active job that retry_chapter and resume_project cancel is one of their chapter,
\* and only if that chapter failed or is paused.
LEMMA CleanupTerminalKeeps ==
  ASSUME NEW jb \in [JobIds -> SoundJob], NEW ch, NEW c, NEW j \in JobIds,
         jb[j].chapter # c \/ ch[c].status \notin {"failed", "paused"}
  PROVE  CleanupTerminalChapterActiveJob(jb, ch, c)[j] = jb[j]
<1> DEFINE A == Queued(jb, c) \cup LiveLeased(jb, c)
<1>1. A # {} => Min(A) \in A
  <2>1. A \subseteq Nat
    BY StateAssumption DEF Queued, LiveLeased, Leased, JobIds
  <2> HIDE DEF A
  <2> QED  BY <2>1, MinLeast
<1>2. \A k \in A : jb[k].chapter = c
  BY DEF Queued, LiveLeased, Leased
<1>3. HasActiveJob(jb, c) = (A # {})
  BY DEF HasActiveJob
<1> HIDE DEF A
<1>4. CleanupTerminalChapterActiveJob(jb, ch, c) =
        IF ch[c].status \in {"failed", "paused"} /\ A # {}
          THEN [jb EXCEPT ![Min(A)] = Terminal("cancelled")] ELSE jb
  BY <1>3 DEF CleanupTerminalChapterActiveJob, A
<1>5. A # {} /\ jb[j].chapter # c => Min(A) # j
  BY <1>1, <1>2
<1> QED  BY <1>4, <1>5

\* What a handler meets while a worker is busy.
LEMMA ServedBusy ==
  ASSUME IInv, LInv, NEW w \in Workers, Busy(w), request # NoRequest
  PROVE  /\ Holds(w) /\ workers[w].job \in JobIds /\ workers[w].chapter \in Chapters
         /\ jobs[workers[w].job] \in SoundJob
         /\ jobs[workers[w].job].chapter = workers[w].chapter
         /\ jobs[workers[w].job].live
<1>1. workers[w].job \in JobIds /\ workers[w].chapter \in Chapters /\ MyJob(w) \in SoundJob
  BY BusyWorker DEF IInv, Busy
<1>2. Holds(w)
  BY DEF LInv, Good, KeepsJob
<1> QED  BY <1>1, <1>2 DEF Holds, MyJob

\* While the lease of a job is live, start_project, manual_approve_chapter and
\* rewrite_from_chapter are refused; retry_chapter, continue_chapter and resume_project go on
\* only for a session that read the project as paused, and with the job of a chapter that
\* failed or was paused: they cancel it, and a chapter being worked on is neither.
LEMMA LiveJobRefuses ==
  ASSUME IInv, NEW j \in JobIds, jobs[j].status = "leased", jobs[j].live,
         jobs[j].chapter \in Chapters,
         \/ StartProject \/ RetryChapter \/ ContinueChapter \/ ResumeProject
         \/ ManualApproveChapter \/ RewriteFromChapter
  PROVE  /\ ~StartProject /\ ~ManualApproveChapter /\ ~RewriteFromChapter
         /\ Cached.status = "paused"
         /\ chapters[jobs[j].chapter].status \notin {"writing", "reviewing"}
<1> USE DEF IInv
<1>1. ASSUME NEW jb, Idle(jb), jb[j] = jobs[j]
      PROVE  FALSE
  BY <1>1, IdleLeases
<1>2. \A C : CancelExpiredLeasedJobs(jobs, C)[j] = jobs[j] /\ CleanedJobs(C)[j] = jobs[j]
  BY CleanedLeases
<1>3. ~StartProject /\ ~ManualApproveChapter /\ ~RewriteFromChapter
  BY <1>1, <1>2 DEF StartProject, ManualApproveChapter, RewriteFromChapter
<1>4. PICK C, c :
        LET ch == CleanedChapters(C)
            jb == CleanedJobs(C)
        IN  \/ Idle(jb)
            \/ /\ Cached.status = "paused"
               /\ Idle(CleanupTerminalChapterActiveJob(jb, ch, c))
  BY <1>3 DEF RetryChapter, ContinueChapter, ResumeProject
<1> DEFINE ch == CleanedChapters(C)
           jb == CleanedJobs(C)
<1>5. jb[j] = jobs[j] /\ jb \in [JobIds -> SoundJob]
  BY <1>2, CleanedSound
<1>6. /\ Cached.status = "paused"
      /\ Idle(CleanupTerminalChapterActiveJob(jb, ch, c))
  BY <1>1, <1>4, <1>5
<1>7. jobs[j].chapter = c /\ ch[c].status \in {"failed", "paused"}
  <2>1. CleanupTerminalChapterActiveJob(jb, ch, c)[j] # jb[j]
    BY <1>1, <1>5, <1>6
  <2> HIDE DEF jb, ch
  <2> QED  BY <1>5, <2>1, CleanupTerminalKeeps
<1>8. chapters[c].status \in {"writing", "reviewing"} => ch[c] = chapters[c]
  BY <1>7 DEF CleanedChapters, PauseQueuedChapters
<1> HIDE DEF ch
<1> QED  BY <1>3, <1>6, <1>7, <1>8

\* So no handler but a retry, a continuation or a resumption goes on beside a busy worker.
LEMMA Refused ==
  ASSUME IInv, LInv, NEW w \in Workers, Busy(w), Service,
         StartProject \/ ManualApproveChapter \/ RewriteFromChapter
  PROVE  FALSE
<1>1. request # NoRequest
  BY DEF StartProject, ManualApproveChapter, RewriteFromChapter, Serving, NoRequest
<1> QED  BY <1>1, ServedBusy, LiveJobRefuses DEF Holds, MyJob

\* ... and those do only if its pipeline is over.
LEMMA PipelineRefuses ==
  ASSUME IInv, LInv, NEW w \in Workers, Busy(w), Service,
         RetryChapter \/ ContinueChapter \/ ResumeProject
  PROVE  workers[w].pc \in {"returned", "raised", "failing"}
<1> SUFFICES ASSUME workers[w].pc \in Pipelining PROVE FALSE
  BY DEF IInv, WorkersOK, SoundWorker, WorkerRow, Busy
<1>1. request # NoRequest
  BY DEF RetryChapter, ContinueChapter, ResumeProject, Serving, NoRequest
<1>2. /\ Cached.status = "paused"
      /\ chapters[workers[w].chapter].status \notin {"writing", "reviewing"}
  BY <1>1, ServedBusy, LiveJobRefuses DEF Holds, MyJob
<1>3. NoneOpening(w) /\ WorkingFresh(w)
  BY DEF LInv, Good
<1> QED  BY <1>1, <1>2, <1>3 DEF NoneOpening, WorkingFresh, Working, Pipelining

\* What they leave of a busy worker is good.
LEMMA RequeueGood ==
  ASSUME IInv, LInv, NEW w \in Workers, Busy(w), Service,
         RetryChapter \/ ContinueChapter \/ ResumeProject
  PROVE  Good(w)'
<1> USE DEF IInv
<1>1. request # NoRequest
  BY DEF RetryChapter, ContinueChapter, ResumeProject, Serving, NoRequest
<1>2. workers' = workers /\ request' = NoRequest /\ rowLock' = rowLock /\ project' = Running
  BY DEF RetryChapter, ContinueChapter, ResumeProject, Service, workerVars, Commit
<1>3. project'.owner = project.owner /\ project'.live = project.live
  BY <1>2 DEF Running, MarkProjectRunning, RowsOK, ProjectRow
<1>4. OwnsProject(w)' /\ NoneOpening(w)'
  BY <1>2, <1>3 DEF LInv, Good, OwnsProject, NoneOpening
<1>5. KeepsJob(w)' /\ workers[w].pc \in {"returned", "raised", "failing"}
  BY <1>2, PipelineRefuses DEF KeepsJob
<1>6. OpenedFresh(w)' /\ WorkingFresh(w)'
  BY <1>2, <1>5 DEF OpenedFresh, WorkingFresh, Working
<1> QED  BY <1>4, <1>5, <1>6 DEF Good

\* pause_project takes chapters out of the queue and leaves a chapter in work alone.
LEMMA PauseGood ==
  ASSUME IInv, LInv, NEW w \in Workers, Busy(w), Service, PauseProject
  PROVE  Good(w)'
<1> DEFINE j == workers[w].job
           c == workers[w].chapter
<1> USE DEF IInv
<1>1. request # NoRequest
  BY DEF PauseProject, Serving, NoRequest
<1>2. /\ workers' = workers /\ request' = NoRequest /\ rowLock' = rowLock
      /\ project'.owner = project.owner /\ project'.live = project.live
      /\ jobs' = CancelQueuedJobs(jobs, Chapters)
      /\ chapters' = PauseQueuedChapters(chapters, Chapters)
  BY DEF PauseProject, Service, workerVars, Commit, RowsOK, ProjectRow
<1>3. Holds(w) /\ j \in JobIds /\ c \in Chapters
  BY <1>1, ServedBusy
<1>4. Holds(w)'
  <2>1. jobs'[j] = jobs[j]
    BY <1>2, <1>3 DEF CancelQueuedJobs, Holds, MyJob
  <2> QED  BY <1>2, <1>3, <2>1, SameHolds
<1>5. OwnsProject(w)' /\ KeepsJob(w)' /\ NoneOpening(w)'
  BY <1>2, <1>4 DEF LInv, Good, OwnsProject, KeepsJob, NoneOpening
<1>6. /\ chapters'[c].retries = chapters[c].retries
      /\ \/ chapters'[c].status = chapters[c].status
         \/ chapters[c].status = "queued" /\ chapters'[c].status = "paused"
  <2>1. chapters[c] \in ChapterRow
    BY <1>3 DEF RowsOK, SoundChapter
  <2> QED  BY <1>2, <1>3, <2>1 DEF PauseQueuedChapters, ChapterRow
<1>7. OpenedFresh(w) /\ WorkingFresh(w)
  BY DEF LInv, Good
<1>8. OpenedFresh(w)'
  BY <1>2, <1>6, <1>7 DEF OpenedFresh
<1>9. WorkingFresh(w)'
  BY <1>2, <1>6, <1>7 DEF WorkingFresh, Working
<1> QED  BY <1>5, <1>8, <1>9 DEF Good

\* A request is received while no worker is in a brief stretch: all keep their jobs, and
\* none is about to open a chapter.
LEMMA ReceiveGood ==
  ASSUME IInv, LInv, Timely, NEW w \in Workers, Busy(w), Service,
         NEW op, NEW c, Receive(op, c)
  PROVE  Good(w)'
<1>1. UNCHANGED <<project, chapters, jobs, workers, rowLock>> /\ ~Brief(w)
  BY DEF Receive, Service, rows, workerVars
<1>2. OwnsProject(w) /\ KeepsJob(w) /\ OpenedFresh(w) /\ WorkingFresh(w)
  BY DEF LInv, Good
<1>3. workers[w].pc \notin {"claimed", "opened", "returned", "raised", "failing"}
  <2>1. workers[w].chapter \in 0..N
    BY BusyWorker, StateAssumption DEF IInv, Busy, Chapters
  <2>2. ProjectFree(w) /\ ChapterFree(w, workers[w].chapter)
    BY <2>1, StateAssumption DEF LInv, RushQuiet, ProjectFree, ChapterFree
  <2> QED  BY <1>1, <2>2 DEF Brief
<1>4. Holds(w)
  BY <1>2, <1>3 DEF KeepsJob
<1>5. OwnsProject(w)' /\ KeepsJob(w)' /\ NoneOpening(w)'
  BY <1>1, <1>2, <1>3, <1>4 DEF OwnsProject, KeepsJob, Holds, MyJob, NoneOpening
<1>6. OpenedFresh(w)' /\ WorkingFresh(w)'
  BY <1>1, <1>2 DEF OpenedFresh, WorkingFresh, Working
<1> QED  BY <1>5, <1>6 DEF Good

\* A request that is received, served or rejected keeps the invariant.
LEMMA ServiceLInv ==
  ASSUME IInv, LInv, Timely, RushMode, Service
  PROVE  LInv'
<1>0. ~ReadPassed /\ ~DecideRevision
  BY DEF LInv, RushQuiet, RevisionOps, ReadPassed, DecideRevision, Serving
<1>1. RushQuiet'
  <2>1. workers' = workers /\ rowLock' = rowLock
    BY <1>0
       DEF Service, ServiceStep, Receive, Reject, StartProject, PauseProject, ResumeProject,
           RetryChapter, ContinueChapter, ManualApproveChapter, RewriteFromChapter, Commit,
           workerVars
  <2>2. request'.op \notin RevisionOps
    <3>1. CASE request' = NoRequest
      BY <3>1 DEF NoRequest, RevisionOps
    <3>2. CASE \E op, c : op \in ProjectOps \cup ChapterOps \cup {"decide"} /\ Receive(op, c)
      <4>1. request'.op \in ProjectOps \cup ChapterOps
        BY <3>2 DEF Receive, Service
      <4> QED  BY <4>1 DEF ProjectOps, ChapterOps, RevisionOps
    <3> QED  BY <1>0, <3>1, <3>2
             DEF Service, ServiceStep, Reject, StartProject, PauseProject, ResumeProject,
                 RetryChapter, ContinueChapter, ManualApproveChapter, RewriteFromChapter,
                 Commit
  <2> QED  BY <2>1, <2>2 DEF LInv, RushQuiet
<1>2. CachedRunning'
  <2>1. CASE \E op, c : Receive(op, c)
    BY <2>1 DEF Receive, CachedRunning, Cached, rows
  <2>2. CASE ~\E op, c : Receive(op, c)
    <3>1. request' = NoRequest
      BY <1>0, <2>2
         DEF Service, ServiceStep, Reject, StartProject, PauseProject, ResumeProject,
             RetryChapter, ContinueChapter, ManualApproveChapter, RewriteFromChapter, Commit
    <3> QED  BY <3>1 DEF CachedRunning
  <2> QED  BY <2>1, <2>2
<1>3. ASSUME NEW w \in Workers PROVE Good(w)'
  <2>1. workers' = workers
    BY DEF Service, workerVars
  <2>2. CASE ~Busy(w)
    BY <2>1, <2>2 DEF Good, Busy
  <2>3. CASE Busy(w) /\ Reject
    <3>1. request' = NoRequest /\ UNCHANGED <<project, chapters, jobs, rowLock>>
      BY <2>3 DEF Reject, rows
    <3> QED  BY <2>1, <2>3, <3>1 DEF LInv, Good, Busy, OwnsProject, KeepsJob, Holds, MyJob,
                 NoneOpening, OpenedFresh, WorkingFresh, Working
  <2>4. CASE Busy(w) /\ \E op, c : Receive(op, c)
    BY <2>4, ReceiveGood
  <2>5. CASE Busy(w) /\ ~Reject /\ ~\E op, c : Receive(op, c)
    BY <1>0, <2>5, Refused, RequeueGood, PauseGood DEF Service, ServiceStep
  <2> QED  BY <2>2, <2>3, <2>4, <2>5
<1> QED  BY <1>1, <1>2, <1>3 DEF LInv

-----------------------------------------------------------------------------
\* In a project just imported nobody is busy.
LEMMA InitLInv == Init => LInv
BY StateAssumption
   DEF Init, LInv, RushQuiet, RevisionOps, NoLocks, NoRequest, CachedRunning, Good, Busy,
       IdleWorker

\* The invariant is inductive, given types.
LEMMA NextLInv ==
  ASSUME Timely, RushMode
  PROVE  IInv /\ LInv /\ [Next]_vars => LInv'
<1> SUFFICES ASSUME IInv, LInv, [Next]_vars PROVE LInv'
  OBVIOUS
<1>1. CASE UNCHANGED vars
  BY <1>1 DEF vars, LInv, RushQuiet, CachedRunning, Cached, Good, Busy, OwnsProject, KeepsJob,
              Holds, MyJob, NoneOpening, OpenedFresh, WorkingFresh, Working
<1>2. CASE Next
  BY <1>2, ServiceLInv, MachineLInv DEF Next
<1> QED  BY <1>1, <1>2

\* In a rush project a busy worker has the project, its job and its chapter: no claim,
\* handler or lapse takes them from it.
THEOREM LeaseInvariance ==
  ASSUME Timely, RushMode
  PROVE  Spec => []LInv
BY Invariance, InitLInv, NextLInv, PTL DEF Spec

\* There is never a second pipeline at work on the project (claim_next_job takes a job only
\* when the project's lease is free, lapsed or its own).
THEOREM OnePipeline ==
  ASSUME Timely, RushMode
  PROVE  Spec => []OneActivePipeline
<1>1. LInv => OneActivePipeline
  <2> SUFFICES ASSUME LInv PROVE Cardinality(Working) <= 1
    BY DEF OneActivePipeline
  <2>1. Working = {} \/ \E w \in Workers : Working = {w}
    BY OneBusy DEF Working, Busy
  <2>2. CASE Working = {}
    <3>1. Cardinality(Working) = 0
      BY <2>2, FS_EmptySet
    <3> QED  BY <3>1
  <2>3. CASE \E w \in Workers : Working = {w}
    <3>1. Cardinality(Working) = 1
      BY <2>3, FS_Singleton
    <3> QED  BY <3>1
  <2> QED  BY <2>1, <2>2, <2>3
<1> QED  BY <1>1, LeaseInvariance, PTL

\* A session that still has its job has the status and the retries of its chapter, which
\* process_generate_chapter writes from its cached copy.
THEOREM CachedFresh ==
  ASSUME Timely, RushMode
  PROVE  Spec => []CachedChapterFresh
<1>1. LInv => CachedChapterFresh
  BY DEF LInv, Good, Busy, Working, WorkingFresh, CachedChapterFresh
<1> QED  BY <1>1, LeaseInvariance, PTL

-----------------------------------------------------------------------------
(* A passed chapter *)

Settled == {"passed", "writing", "reviewing"}

\* What follows an accepted chapter leaves alone the chapters that have passed or are in
\* work, because only a chapter that is runnable is queued.
LEMMA AdvanceKeepsSettled ==
  ASSUME NEW p, NEW cached, NEW ch \in [Chapters -> SoundChapter], NEW jb, NEW next, NEW goOn,
         next = 0 \/ Runnable(ch, next), NEW d \in Chapters, ch[d].status \in Settled
  PROVE  AdvanceAfterChapterSuccess(p, cached, ch, jb, next, goOn).chapters[d] = ch[d]
BY DEF AdvanceAfterChapterSuccess, QueueChapter, Runnable, Settled

\* So does the last commit of the pipeline, its own chapter being accepted by then.
LEMMA FinalizeKeepsSettled ==
  ASSUME RowsOK, WorkersOK, NEW w \in Workers, Finalize(w) \/ FinalizeRush(w),
         NEW d \in Chapters, NEW row,
         row = IF d = workers[w].chapter THEN AcceptedRow(w) ELSE chapters[d],
         row.status \in Settled
  PROVE  chapters'[d].status = row.status /\ chapters'[d].retries = row.retries
<1> DEFINE c    == workers[w].chapter
           ch   == [chapters EXCEPT ![c] = AcceptedRow(w)]
           rep  == RepairOrphanQueuedChapters(ch, jobs, c)
           next == NextRunnableChapter(rep, c)
           goOn == project.auto /\ workers[w].kind # "single"
           s    == AdvanceAfterChapterSuccess(AcceptedProject(w), "running", rep, jobs,
                                              next, goOn)
           done == IF next = 0 THEN CleanupCompletedProject(s, workers[w].job) ELSE s
<1>1. workers[w].pc # "idle"
  BY DEF Finalize, FinalizeRush, FinalizeAccepted
<1>2. c \in Chapters
  BY <1>1, BusyWorker
<1>3. AcceptedRow(w) \in SoundChapter /\ AcceptedProject(w) \in ProjectRow
  BY <1>1, AcceptedSound
<1>4. ch \in [Chapters -> SoundChapter] /\ ch[d] = row
  BY <1>2, <1>3 DEF RowsOK
<1>5. rep \in [Chapters -> SoundChapter] /\ rep[d] = row
  <2> HIDE DEF ch
  <2>1. rep[d] = row
    BY <1>4 DEF RepairOrphanQueuedChapters, PauseQueuedChapters, Settled
  <2> QED  BY <1>4, <2>1, RepairSound
<1>6. next \in Chapters \cup {0} /\ (next = 0 \/ Runnable(rep, next))
  <2> HIDE DEF rep
  <2> QED  BY RunnableType, FirstOfSet DEF NextRunnableChapter
<1>7. s \in ProgressRow /\ s.chapters[d] = row
  <2> HIDE DEF rep, next, goOn, ch
  <2> QED  BY <1>3, <1>5, <1>6, AdvanceSound, AdvanceKeepsSettled DEF RowsOK
<1>8. done.chapters[d].status = row.status /\ done.chapters[d].retries = row.retries
  <2>1. s.chapters[d] \in ChapterRow
    BY <1>7 DEF ProgressRow, SoundChapter
  <2> HIDE DEF s, next
  <2> QED  BY <1>7, <2>1 DEF done, CleanupCompletedProject, ProgressRow, ChapterRow
<1>9. chapters' = done.chapters
  BY DEF Finalize, FinalizeRush, FinalizeAccepted
<1> HIDE DEF done
<1> QED  BY <1>8, <1>9

\* The chapter that an accepting worker leaves behind has passed.
LEMMA FinalizePasses ==
  ASSUME RowsOK, WorkersOK, NEW w \in Workers, Finalize(w) \/ FinalizeRush(w)
  PROVE  chapters'[workers[w].chapter].status = "passed"
<1>1. workers[w].pc # "idle"
  BY DEF Finalize, FinalizeRush, FinalizeAccepted
<1>2. workers[w].chapter \in Chapters /\ chapters[workers[w].chapter] \in ChapterRow
  BY <1>1, BusyWorker DEF SoundChapter
<1>3. AcceptedRow(w).status = "passed"
  BY <1>2 DEF AcceptedRow, AcceptChapter, ChapterRow
<1> QED  BY <1>2, <1>3, FinalizeKeepsSettled DEF Settled

\* The steps in which a worker writes the status of its own chapter: that chapter has not
\* passed, because the worker is the only one who works on it.
LEMMA OwnChapterNotPassed ==
  ASSUME IInv, LInv, NEW w \in Workers,
         \/ StartWriting(w) \/ FailAttempt(w)
         \/ ProviderUnavailable(w) \/ Interrupt(w)
  PROVE  chapters[workers[w].chapter].status # "passed"
<1>1. CASE workers[w].pc = "claimed"
  BY <1>1 DEF StartWriting, FailAttempt, ProviderUnavailable, Interrupt
<1>2. CASE workers[w].pc # "claimed"
  <2>1. Busy(w) /\ workers[w].pc \in {"opened", "writing"}
    BY <1>2 DEF StartWriting, FailAttempt, ProviderUnavailable, Interrupt, Busy, LInv, RushQuiet
  <2>2. OpenedFresh(w) /\ WorkingFresh(w)
    BY <2>1 DEF LInv, Good
  <2> QED  BY <2>1, <2>2 DEF OpenedFresh, WorkingFresh, Working
<1> QED  BY <1>1, <1>2

\* No step of a worker, and no lapse, takes a passed chapter back.
LEMMA MachineKeepsPassed ==
  ASSUME IInv, LInv, RushMode, Machine, NEW d \in Chapters, chapters[d].status = "passed"
  PROVE  chapters'[d].status = "passed"
<1> USE DEF IInv
<1>1. CASE LeaseStep
  BY <1>1 DEF LeaseStep, Renew, RenewalHangs, ExpireJob, ExpireProject, rows
<1>2. ASSUME NEW w \in Workers,
             \/ StartWriting(w) \/ FailAttempt(w)
             \/ ProviderUnavailable(w) \/ Interrupt(w)
      PROVE  chapters'[d].status = "passed"
  <2> DEFINE c == workers[w].chapter
  <2>1. c # d
    BY <1>2, OwnChapterNotPassed
  <2>2. \E row : chapters' = [chapters EXCEPT ![c] = row]
    <3>1. CASE StartWriting(w)
      BY <3>1 DEF StartWriting
    <3>3. CASE FailAttempt(w)
      BY <3>3 DEF FailAttempt
    <3>4. CASE ProviderUnavailable(w)
      BY <3>4 DEF ProviderUnavailable
    <3>5. CASE Interrupt(w)
      BY <3>5 DEF Interrupt
    <3> QED  BY <1>2, <3>1, <3>3, <3>4, <3>5
  <2> QED  BY <2>1, <2>2 DEF RowsOK
<1>3. ASSUME NEW w \in Workers, CommitChunks(w)
      PROVE  chapters'[d].status = "passed"
  <2>1. chapters[d] \in ChapterRow
    BY DEF RowsOK, SoundChapter
  <2> QED  BY <1>3, <2>1 DEF CommitChunks, RowsOK, ChapterRow
<1>4. ASSUME NEW w \in Workers, Fail(w)
      PROVE  chapters'[d].status = "passed"
  BY <1>4 DEF Fail, JobFailed, RowsOK, rows
<1>5. ASSUME NEW w \in Workers,
             \/ Claim(w) \/ Open(w) \/ LoseLease(w) \/ PipelineError(w)
             \/ Rollback(w) \/ Finish(w) \/ Crash(w)
      PROVE  chapters'[d].status = "passed"
  <2>1. chapters' = chapters
    BY <1>5 DEF Claim, Open, LoseLease, PipelineError, Rollback, Finish, Crash, rows
  <2> QED  BY <2>1
<1> QED  BY <1>1, <1>2, <1>3, <1>4, <1>5, NeverInRush, FinalizeKeepsSettled, FinalizePasses
         DEF Machine, WorkerStep, Settled

\* Only a committed request changes a chapter on behalf of the user.
LEMMA ServiceCountsChapters ==
  ASSUME IInv, Service, chapters' # chapters
  PROVE  requestsLeft' < requestsLeft
<1>1. Commit
  BY DEF Service, ServiceStep, Receive, Reject, StartProject, PauseProject, ResumeProject,
         RetryChapter, ContinueChapter, ManualApproveChapter, RewriteFromChapter, ReadPassed,
         DecideRevision, rows
<1>2. requestsLeft \in Int
  BY ServiceAssumption DEF IInv, ServiceOK
<1> QED  BY <1>1, <1>2 DEF Commit

\* No worker rewrites, fails or pauses a chapter that has passed: only a user's request
\* takes it back.
THEOREM PassedStays ==
  ASSUME Timely, RushMode
  PROVE  Spec => PassedStable
<1> DEFINE A == \A c \in Chapters :
                  chapters[c].status = "passed" /\ chapters'[c].status # "passed"
                    => requestsLeft' < requestsLeft
<1>1. IInv /\ LInv /\ [Next]_vars => [A]_vars
  <2> SUFFICES ASSUME IInv, LInv, Next PROVE A
    OBVIOUS
  <2> QED  BY MachineKeepsPassed, ServiceCountsChapters DEF Next
<1> HIDE DEF A
<1>2. [][Next]_vars /\ []IInv /\ []LInv => [][A]_vars
  BY <1>1, PTL
<1>3. Spec => [][A]_vars
  BY <1>2, Invariance, LeaseInvariance, PTL DEF Spec
<1> QED  BY <1>3 DEF A, PassedStable

-----------------------------------------------------------------------------
(* What happens to the table of jobs, in terms of leases *)

Over(r)     == r.status \notin {"queued", "leased"} /\ r.owner = Nobody /\ r.live = FALSE
ReadyRow(r) == r.status = "queued" /\ r.owner = Nobody /\ r.live = FALSE
Unended(r)  == r.status \in {"queued", "leased"}
\* only a leased job has an owner; the job of a busy worker has been inserted, for its
\* chapter; a chapter has at most one job that is queued or leased (the partial unique index)
RowsLeased ==
  \A j \in JobIds : \/ Over(jobs[j]) \/ ReadyRow(jobs[j])
                    \/ jobs[j].status = "leased" /\ jobs[j].owner \in Workers
JobsPresent ==
  \A w \in Workers : Busy(w) =>
    /\ MyJob(w).status # "absent"
    /\ Unended(MyJob(w)) => MyJob(w).chapter = workers[w].chapter
OneJobPerChapter ==
  \A j, k \in JobIds : Unended(jobs[j]) /\ Unended(jobs[k]) /\ j # k
                         => jobs[j].chapter # jobs[k].chapter
LeasesOK == RowsLeased /\ JobsPresent /\ OneJobPerChapter

\* jb2 is jb after some jobs are over
EndedRow(r, r2) == r2 = r \/ (r.status # "absent" /\ Over(r2) /\ r2.status # "absent")
Ended(jb, jb2) == \A j \in JobIds : EndedRow(jb[j], jb2[j])
\* ... and after at most one, i, is inserted
Inserted(jb, jb2, i) ==
  /\ \A j \in JobIds \ {i} : EndedRow(jb[j], jb2[j])
  /\ i \in JobIds => /\ jb[i].status = "absent" /\ ReadyRow(jb2[i])
                     /\ \A j \in JobIds \ {i} :
                          Unended(jb2[j]) => jb2[j].chapter # jb2[i].chapter
Edited(jb, jb2) == \E i : Inserted(jb, jb2, i)

\* A job that is over has no lease left.
LEMMA TerminalOver ==
  ASSUME NEW s \in {"done", "failed", "cancelled", "deleted"}
  PROVE  Over(Terminal(s)) /\ Terminal(s).status # "absent"
BY DEF Terminal, NoJob, Over

\* The helpers of the handlers that cancel jobs end them.
LEMMA CancelEnds ==
  ASSUME NEW jb, NEW C
  PROVE  /\ Ended(jb, CancelExpiredLeasedJobs(jb, C))
         /\ Ended(jb, CancelQueuedJobs(jb, C))
BY TerminalOver DEF Ended, EndedRow, CancelExpiredLeasedJobs, CancelQueuedJobs

\* So does cancelling the active job of a chapter that failed or was paused.
LEMMA CleanupTerminalEnds ==
  ASSUME NEW jb \in [JobIds -> SoundJob], NEW ch, NEW c
  PROVE  Ended(jb, CleanupTerminalChapterActiveJob(jb, ch, c))
<1> DEFINE A == Queued(jb, c) \cup LiveLeased(jb, c)
<1>1. A # {} => Min(A) \in A
  <2>1. A \subseteq Nat
    BY StateAssumption DEF Queued, LiveLeased, Leased, JobIds
  <2> HIDE DEF A
  <2> QED  BY <2>1, MinLeast
<1>2. \A k \in A : jb[k].status # "absent"
  BY DEF Queued, LiveLeased, Leased
<1>3. HasActiveJob(jb, c) = (A # {})
  BY DEF HasActiveJob
<1> HIDE DEF A
<1>4. CleanupTerminalChapterActiveJob(jb, ch, c) =
        IF ch[c].status \in {"failed", "paused"} /\ A # {}
          THEN [jb EXCEPT ![Min(A)] = Terminal("cancelled")] ELSE jb
  BY <1>3 DEF CleanupTerminalChapterActiveJob, A
<1> QED  BY <1>1, <1>2, <1>4, TerminalOver DEF Ended, EndedRow

\* Jobs that are over stay so.
LEMMA EndedTransitive ==
  ASSUME NEW j1, NEW j2, NEW j3, Ended(j1, j2), Ended(j2, j3)
  PROVE  Ended(j1, j3)
BY DEF Ended, EndedRow

\* The clean-up that retry_chapter, continue_chapter and resume_project begin with.
LEMMA CleanedEnds ==
  ASSUME RowsOK, NEW C
  PROVE  Ended(jobs, CleanedJobs(C))
BY CancelEnds, EndedTransitive DEF CleanedJobs

\* Nothing happens to the table, or jobs end: a case of an edit.
LEMMA EndedEdited ==
  ASSUME NEW jb, NEW jb2, Ended(jb, jb2)
  PROVE  Edited(jb, jb2)
<1>1. 0 \notin JobIds
  BY StateAssumption DEF JobIds
<1>2. Inserted(jb, jb2, 0)
  BY <1>1 DEF Ended, Inserted
<1> QED  BY <1>2 DEF Edited

\* Jobs end and then one is enqueued: an edit that leaves the jobs that ended.
LEMMA EnqueueEdits ==
  ASSUME NEW jb, NEW jb2 \in [JobIds -> SoundJob], Ended(jb, jb2), NEW c, NEW kind,
         CanEnqueue(jb2, c)
  PROVE  LET jb3 == EnqueueGenerateJob(jb2, c, kind)
         IN  /\ Edited(jb, jb3)
             /\ \A j \in JobIds : jb2[j].status # "absent" => jb3[j] = jb2[j]
<1> DEFINE jb3 == EnqueueGenerateJob(jb2, c, kind)
           i   == Min(Fresh(jb2))
           new == [NoJob EXCEPT !.status = "queued", !.chapter = c, !.kind = kind]
<1>1. CASE HasActiveJob(jb2, c)
  BY <1>1, EndedEdited DEF EnqueueGenerateJob
<1>2. CASE ~HasActiveJob(jb2, c)
  <2>1. i \in JobIds /\ jb2[i].status = "absent"
    <3>1. Fresh(jb2) \subseteq Nat
      BY StateAssumption DEF Fresh, JobIds
    <3>2. i \in Fresh(jb2)
      BY <1>2, <3>1, MinLeast DEF CanEnqueue
    <3>3. \A k \in Fresh(jb2) : k \in JobIds /\ jb2[k].status = "absent"
      BY StateAssumption DEF Fresh, JobIds
    <3> QED  BY <3>2, <3>3
  <2>2. jb3 = [jb2 EXCEPT ![i] = new]
    BY <1>2 DEF EnqueueGenerateJob
  <2>3. ReadyRow(new) /\ new.chapter = c
    BY DEF ReadyRow, NoJob
  <2>6. \A j \in JobIds : Unended(jb2[j]) => jb2[j].chapter # c
    BY <1>2 DEF CanEnqueue, HasActiveJob, Queued, Leased, Unended
  <2> HIDE DEF jb3, i, new
  <2>4. jb[i].status = "absent"
    BY <2>1 DEF Ended, EndedRow
  <2>5. Inserted(jb, jb3, i)
    BY <2>1, <2>2, <2>3, <2>4, <2>6 DEF Ended, Inserted
  <2> QED  BY <2>1, <2>2, <2>5 DEF Edited, jb3
<1> QED  BY <1>1, <1>2

-----------------------------------------------------------------------------
(* The same in terms of JobLease *)

\* what the refinement mapping makes of a table of jobs
View(jb) ==
  [j \in JobIds |->
     [status |-> IF jb[j].status \in {"queued", "leased"} THEN jb[j].status ELSE "out",
      owner |-> jb[j].owner, live |-> jb[j].live]]

\* A row is out in JobLease just when it is over.
LEMMA ViewRow ==
  ASSUME NEW jb, NEW j \in JobIds
  PROVE  /\ Over(jb[j]) => View(jb)[j] = Lease!Out
         /\ ReadyRow(jb[j]) => View(jb)[j] = Lease!Queued
         /\ jb[j].status = "leased" => View(jb)[j].status = "leased"
         /\ View(jb)[j].owner = jb[j].owner /\ View(jb)[j].live = jb[j].live
BY DEF View, Over, ReadyRow, Lease!Out, Lease!Queued

\* An edit of the table of jobs ends the jobs C and inserts at most one.
LEMMA EditMaps ==
  ASSUME LeasesOK, NEW jb, Edited(jobs, jb)
  PROVE  LET C == {j \in Lease!Active : Over(jb[j])}
         IN  View(jb) \in Lease!EndAndEnqueue(C)
<1> DEFINE C == {j \in Lease!Active : Over(jb[j])}
           ended == [j \in JobIds |-> IF j \in C THEN Lease!Out ELSE View(jobs)[j]]
<1>1. Lease!EndAndEnqueue(C) =
        {ended} \cup {[ended EXCEPT ![j] = Lease!Queued] : j \in {k \in JobIds : ended[k] = Lease!Out}}
  BY DEF Lease!EndAndEnqueue, View
<1>2. PICK i : Inserted(jobs, jb, i)
  BY DEF Edited
<1>3. \A j \in JobIds : j \in Lease!Active <=> View(jobs)[j] # Lease!Out
  BY DEF Lease!Active, View
<1>4. ASSUME NEW j \in JobIds, j # i
      PROVE  View(jb)[j] = ended[j]
  <2>1. CASE Over(jb[j])
    BY <1>3, <2>1, ViewRow
  <2>2. CASE ~Over(jb[j]) /\ jb[j] = jobs[j]
    <3>1. View(jb)[j] = View(jobs)[j]
      BY <2>2 DEF View
    <3> QED  BY <2>2, <3>1
  <2> QED  BY <1>2, <1>4, <2>1, <2>2 DEF Inserted, EndedRow
<1>5. CASE i \notin JobIds
  <2>1. View(jb) = ended
    BY <1>4, <1>5 DEF View
  <2> QED  BY <1>1, <2>1
<1>6. CASE i \in JobIds
  <2>1. Over(jobs[i]) /\ ReadyRow(jb[i])
    BY <1>2, <1>6 DEF Inserted, LeasesOK, RowsLeased, ReadyRow, Over
  <2>2. ended[i] = Lease!Out /\ View(jb)[i] = Lease!Queued
    BY <1>6, <2>1, ViewRow
  <2>3. View(jb) = [ended EXCEPT ![i] = Lease!Queued]
    BY <1>4, <1>6, <2>2 DEF View
  <2> HIDE DEF ended
  <2> QED  BY <1>1, <1>6, <2>2, <2>3
<1> QED  BY <1>5, <1>6

\* What a step leaves alone of the project's lease and of its being running.
KeepsLease == project'.owner = project.owner /\ project'.live = project.live
KeepsStopped == project'.status = "running" => project.status = "running"

\* A step that changes no lease is none of JobLease.
LEMMA StutterMaps ==
  ASSUME jobs' = jobs, KeepsLease, project'.status = project.status
  PROVE  UNCHANGED Lease!vars
BY DEF KeepsLease, Lease!vars

\* A step that ends jobs and inserts one, and starts nothing, is progress.
LEMMA ProgressMaps ==
  ASSUME LeasesOK, NEW jb, Edited(jobs, jb), View(jobs') = View(jb), KeepsLease, KeepsStopped
  PROVE  Lease!Progress
<1> DEFINE C == {j \in Lease!Active : Over(jb[j])}
<1>1. View(jb) \in Lease!EndAndEnqueue(C)
  BY EditMaps
<1>2. C \in SUBSET Lease!Active
  OBVIOUS
<1>3. \E D \in SUBSET Lease!Active : View(jobs') \in Lease!EndAndEnqueue(D)
  BY <1>1, <1>2
<1>4. (project'.status = "running") \in {project.status = "running", FALSE}
  BY DEF KeepsStopped
<1>5. [owner |-> project'.owner, live |-> project'.live]
        = [owner |-> project.owner, live |-> project.live]
  BY DEF KeepsLease
<1> QED  BY <1>3, <1>4, <1>5 DEF Lease!Progress, View

\* A handler that ends the live jobs first may start the project and give its lease up.
LEMMA RestartMaps ==
  ASSUME LeasesOK, RowsOK, NEW jb, Ended(jobs, jb), Idle(jb),
         Edited(jobs, jobs'), \A j \in JobIds : jb[j].status # "absent" => jobs'[j] = jb[j],
         KeepsLease \/ (project'.owner = Nobody /\ project'.live = FALSE)
  PROVE  Lease!Restart
<1> DEFINE C == {j \in Lease!Active : Over(jobs'[j])}
<1>1. View(jobs') \in Lease!EndAndEnqueue(C)
  BY EditMaps
<1>2. Lease!Live \subseteq C
  <2> SUFFICES ASSUME NEW j \in Lease!Live PROVE j \in C
    OBVIOUS
  <2>1. j \in JobIds /\ jobs[j].status = "leased" /\ jobs[j].live
    BY DEF Lease!Live, Lease!Leased
  <2>2. j \in Lease!Active
    BY <2>1 DEF Lease!Active, Lease!Out
  <2>3. jb[j] # jobs[j]
    BY <2>1, IdleLeases DEF RowsOK, SoundJob
  <2>4. Over(jb[j]) /\ jobs'[j] = jb[j]
    BY <2>1, <2>3 DEF Ended, EndedRow
  <2> QED  BY <2>2, <2>4
<1>3. C \in SUBSET Lease!Active
  OBVIOUS
<1>4. \E D \in SUBSET Lease!Active : Lease!Live \subseteq D /\ View(jobs') \in Lease!EndAndEnqueue(D)
  BY <1>1, <1>2, <1>3
<1>5. (project'.status = "running") \in BOOLEAN
  OBVIOUS
<1>6. [owner |-> project'.owner, live |-> project'.live]
        \in {[owner |-> project.owner, live |-> project.live], Lease!Released}
  BY DEF KeepsLease, Lease!Released
<1> QED  BY <1>4, <1>5, <1>6 DEF Lease!Restart, View

-----------------------------------------------------------------------------
(* The steps of the system, in terms of JobLease *)

\* start_project, retry_chapter, continue_chapter, resume_project, manual_approve_chapter
\* and rewrite_from_chapter, all behind their test of the active jobs.
LEMMA HandlerMaps ==
  ASSUME IInv, LeasesOK,
         \/ StartProject \/ RetryChapter \/ ContinueChapter \/ ResumeProject
         \/ ManualApproveChapter \/ RewriteFromChapter
  PROVE  Edited(jobs, jobs') /\ Lease!Restart
<1> USE DEF IInv
<1>1. KeepsLease \/ (project'.owner = Nobody /\ project'.live = FALSE)
  <2>1. CASE StartProject \/ RetryChapter \/ ContinueChapter \/ ResumeProject
    BY <2>1 DEF StartProject, RetryChapter, ContinueChapter, ResumeProject, Running,
                MarkProjectRunning, KeepsLease, RowsOK, ProjectRow
  <2>2. CASE ManualApproveChapter
    <3> DEFINE p == [project EXCEPT !.current = OrmSet(Cached.current, request.chapter, @)]
    <3>1. \A st : /\ [p EXCEPT !.status = st].owner = project.owner
                  /\ [p EXCEPT !.status = st].live = project.live
      BY DEF RowsOK, ProjectRow
    <3>2. \E st : project' = [p EXCEPT !.status = st]
      BY <2>2 DEF ManualApproveChapter, AdvanceAfterChapterSuccess, MarkProjectRunning
    <3> HIDE DEF p
    <3> QED  BY <3>1, <3>2 DEF KeepsLease
  <2>3. CASE RewriteFromChapter
    BY <2>3 DEF RewriteFromChapter, Running, MarkProjectRunning, OrmSet, KeepsLease, RowsOK,
                ProjectRow
  <2> QED  BY <2>1, <2>2, <2>3
<1>2. \E jb \in [JobIds -> SoundJob] :
        /\ Ended(jobs, jb) /\ Idle(jb)
        /\ \/ jobs' = jb
           \/ \E c, kind : /\ CanEnqueue(jb, c)
                           /\ jobs' = EnqueueGenerateJob(jb, c, kind)
  <2>1. CASE StartProject
    <3> DEFINE jb == CancelExpiredLeasedJobs(jobs, Chapters)
    <3>1. jb \in [JobIds -> SoundJob] /\ Ended(jobs, jb)
      BY CancelSound, CancelEnds DEF RowsOK
    <3>2. /\ Idle(jb)
          /\ \E c, kind : /\ CanEnqueue(jb, c)
                          /\ jobs' = EnqueueGenerateJob(jb, c, kind)
      BY <2>1 DEF StartProject, Enqueue
    <3> HIDE DEF jb
    <3> QED  BY <3>1, <3>2
  <2>2. CASE RetryChapter \/ ContinueChapter \/ ResumeProject
    <3>1. PICK C, ch, d :
            \E jb \in {CleanedJobs(C), CleanupTerminalChapterActiveJob(CleanedJobs(C), ch, d)} :
              /\ Idle(jb)
              /\ \E c, kind : /\ CanEnqueue(jb, c)
                              /\ jobs' = EnqueueGenerateJob(jb, c, kind)
      <4>1. CASE RetryChapter
        BY <4>1 DEF RetryChapter, Enqueue
      <4>2. CASE ContinueChapter
        BY <4>2 DEF ContinueChapter, Enqueue
      <4>3. CASE ResumeProject
        BY <4>3 DEF ResumeProject, Enqueue
      <4> QED  BY <2>2, <4>1, <4>2, <4>3
    <3>2. CleanedJobs(C) \in [JobIds -> SoundJob] /\ Ended(jobs, CleanedJobs(C))
      BY CleanedSound, CleanedEnds
    <3>3. ASSUME NEW jb \in {CleanedJobs(C), CleanupTerminalChapterActiveJob(CleanedJobs(C), ch, d)}
          PROVE  jb \in [JobIds -> SoundJob] /\ Ended(jobs, jb)
      BY <3>2, CleanupTerminalSound, CleanupTerminalEnds, EndedTransitive
    <3> QED  BY <3>1, <3>3
  <2>3. CASE ManualApproveChapter \/ RewriteFromChapter
    <3> DEFINE jb == CleanedJobs(Chapters)
    <3>1. jb \in [JobIds -> SoundJob] /\ Ended(jobs, jb)
      BY CleanedSound, CleanedEnds
    <3>2. Idle(jb)
      BY <2>3 DEF ManualApproveChapter, RewriteFromChapter
    <3>3. \/ jobs' = jb
          \/ \E c, kind : /\ CanEnqueue(jb, c)
                          /\ jobs' = EnqueueGenerateJob(jb, c, kind)
      <4>1. CASE RewriteFromChapter
        BY <4>1 DEF RewriteFromChapter, Enqueue
      <4>2. CASE ManualApproveChapter
        <5>1. Fresh(jobs) # {} /\ Fresh(jobs) \subseteq Fresh(jb)
          BY <3>1, <4>2 DEF ManualApproveChapter, Ended, EndedRow, Fresh
        <5> QED  BY <4>2, <5>1 DEF ManualApproveChapter, AdvanceAfterChapterSuccess,
                                   EnqueueConflicts, CanEnqueue
      <4> QED  BY <2>3, <4>1, <4>2
    <3> HIDE DEF jb
    <3> QED  BY <3>1, <3>2, <3>3
  <2> QED  BY <2>1, <2>2, <2>3
<1>3. PICK jb \in [JobIds -> SoundJob] :
        /\ Ended(jobs, jb) /\ Idle(jb)
        /\ \/ jobs' = jb
           \/ \E c, kind : /\ CanEnqueue(jb, c)
                           /\ jobs' = EnqueueGenerateJob(jb, c, kind)
  BY <1>2
<1>4. /\ Edited(jobs, jobs')
      /\ \A j \in JobIds : jb[j].status # "absent" => jobs'[j] = jb[j]
  BY <1>3, EndedEdited, EnqueueEdits
<1> QED  BY <1>1, <1>3, <1>4, RestartMaps

\* A worker keeps its job until it is idle again.
SameJobs ==
  \A w \in Workers : Busy(w)' =>
    Busy(w) /\ workers'[w].job = workers[w].job /\ workers'[w].chapter = workers[w].chapter
\* a job once inserted is never absent again, nor queued or leased again once it is over
KeptJobs ==
  \A j \in JobIds : jobs[j].status # "absent" =>
    /\ jobs'[j].status # "absent"
    /\ Unended(jobs'[j]) => Unended(jobs[j]) /\ jobs'[j].chapter = jobs[j].chapter
\* a job that is queued or leased was so before, for the same chapter
SameTable ==
  /\ \A j \in JobIds : Unended(jobs'[j]) =>
       Unended(jobs[j]) /\ jobs'[j].chapter = jobs[j].chapter
  /\ \A j \in JobIds : jobs[j].status # "absent" => jobs'[j].status # "absent"

\* So a busy worker finds its job, and it is one of its chapter.
LEMMA PresentOK ==
  ASSUME IInv, JobsPresent, SameJobs, KeptJobs
  PROVE  JobsPresent'
<1>1. \A w \in Workers : Busy(w) => workers[w].job \in JobIds
  BY BusyWorker DEF IInv, Busy
<1>2. ASSUME NEW w \in Workers, Busy(w)'
      PROVE  LET r == jobs'[workers'[w].job]
             IN  r.status # "absent" /\ (Unended(r) => r.chapter = workers'[w].chapter)
  BY <1>1, <1>2 DEF SameJobs, KeptJobs, JobsPresent, MyJob
<1> QED  BY <1>2 DEF JobsPresent, MyJob, Unended

\* A step that inserts no job leaves the chapters with at most one each.
LEMMA SameTableOK ==
  ASSUME OneJobPerChapter, SameTable
  PROVE  OneJobPerChapter'
BY DEF OneJobPerChapter, SameTable, Unended

\* pause_project stops the project and ends the queued jobs.
LEMMA PauseMaps ==
  ASSUME IInv, LeasesOK, PauseProject
  PROVE  Edited(jobs, jobs') /\ Lease!Progress
<1>1. Edited(jobs, jobs')
  BY CancelEnds, EndedEdited DEF PauseProject
<1>2. KeepsLease /\ KeepsStopped
  BY DEF PauseProject, KeepsLease, KeepsStopped, OrmSet, IInv, RowsOK, ProjectRow
<1> QED  BY <1>1, <1>2, ProgressMaps

\* The project's lease, with another expiry.
LEMMA LeaseRow ==
  ASSUME NEW o \in Workers \cup {Nobody}, NEW l \in BOOLEAN, NEW m \in BOOLEAN
  PROVE  [[owner |-> o, live |-> l] EXCEPT !.live = m] = [owner |-> o, live |-> m]
<1> DEFINE R == [owner : Workers \cup {Nobody}, live : BOOLEAN]
           r == [owner |-> o, live |-> l]
           q == [owner |-> o, live |-> m]
<1>1. r \in R /\ r.owner = o /\ q \in R /\ q.owner = o /\ q.live = m
  OBVIOUS
<1> HIDE DEF r, q
<1>2. /\ [r EXCEPT !.live = m] \in R /\ [r EXCEPT !.live = m].owner = o
      /\ [r EXCEPT !.live = m].live = m
  BY <1>1
<1>3. [r EXCEPT !.live = m] = q
  BY <1>1, <1>2
<1> QED  BY <1>3 DEF r, q

\* claim_next_job takes the job and the project together.
LEMMA ClaimMaps ==
  ASSUME IInv, LeasesOK, NEW w \in Workers, Claim(w)
  PROVE  LeasesOK' /\ Lease!Next
<1> PICK j : j = Min(ClaimableJobs)
  OBVIOUS
<1>1. j \in ClaimableJobs /\ j \in JobIds
  <2>1. ClaimableJobs \subseteq Nat /\ ClaimableJobs # {}
    <3>1. JobIds \subseteq Nat
      BY StateAssumption DEF JobIds
    <3> QED  BY <3>1 DEF Claim, ClaimableJobs
  <2> QED  BY <2>1, MinLeast DEF ClaimableJobs
<1>2. jobs[j].status = "queued" \/ (jobs[j].status = "leased" /\ ~jobs[j].live)
  BY <1>1 DEF ClaimableJobs
<1>3. /\ jobs' = [jobs EXCEPT ![j] =
                    [jobs[j] EXCEPT !.status = "leased", !.owner = w, !.live = TRUE]]
      /\ project' = [project EXCEPT !.owner = w, !.live = TRUE]
      /\ project.status = "running" /\ (project.owner = w \/ ~project.live)
  BY DEF Claim
<1>4. /\ workers'[w].job = j /\ workers'[w].chapter = jobs[j].chapter
      /\ \A v \in Workers \ {w} : workers'[v] = workers[v]
  BY DEF Claim, IInv, WorkersOK, IdleWorker
<1>5. /\ jobs'[j].status = "leased" /\ jobs'[j].owner = w /\ jobs'[j].live = TRUE
      /\ jobs'[j].chapter = jobs[j].chapter
      /\ \A k \in JobIds \ {j} : jobs'[k] = jobs[k]
  BY <1>1, <1>3 DEF IInv, RowsOK, SoundJob, JobRow
<1>6. LeasesOK'
  <2>1. \A k \in JobIds : \/ Over(jobs'[k]) \/ ReadyRow(jobs'[k])
                          \/ jobs'[k].status = "leased" /\ jobs'[k].owner \in Workers
    BY <1>1, <1>5 DEF LeasesOK, RowsLeased
  <2>2. SameTable
    BY <1>1, <1>2, <1>5 DEF SameTable, Unended
  <2>3. ASSUME NEW v \in Workers, Busy(v)'
        PROVE  LET r == jobs'[workers'[v].job]
               IN  r.status # "absent" /\ (Unended(r) => r.chapter = workers'[v].chapter)
    <3>1. CASE v = w
      BY <1>4, <1>5, <3>1
    <3>2. CASE v # w
      <4>1. Busy(v) /\ workers'[v] = workers[v] /\ workers[v].job \in JobIds
        BY <1>4, <2>3, <3>2, BusyWorker DEF IInv, Busy
      <4> QED  BY <1>2, <1>5, <4>1 DEF LeasesOK, JobsPresent, MyJob, Unended
    <3> QED  BY <3>1, <3>2
  <2>4. RowsLeased' /\ JobsPresent'
    BY <2>1, <2>3 DEF RowsLeased, JobsPresent, Over, ReadyRow, MyJob, Unended
  <2> QED  BY <2>2, <2>4, SameTableOK DEF LeasesOK
<1>7. Lease!Claim(w, j)
  <2>1. View(jobs') = [View(jobs) EXCEPT ![j] = Lease!Held(w, TRUE)]
    BY <1>1, <1>5 DEF View, Lease!Held
  <2>2. project'.owner = w /\ project'.live = TRUE /\ project'.status = project.status
    BY <1>3 DEF IInv, RowsOK, ProjectRow
  <2>3. View(jobs)[j].status = "queued" \/ (j \in Lease!Leased /\ ~View(jobs)[j].live)
    BY <1>1, <1>2 DEF View, Lease!Leased
  <2> QED  BY <1>3, <2>1, <2>2, <2>3 DEF Lease!Claim, View
<1>8. \E v \in Workers, k \in JobIds : Lease!Claim(v, k) \/ Lease!Renew(v, k)
  BY <1>1, <1>7
<1> QED  BY <1>6, <1>8 DEF Lease!Next

\* Leases lapse as JobLease lets them.
LEMMA ExpiryMaps ==
  ASSUME IInv, LeasesOK, ExpireProject \/ \E j \in JobIds : ExpireJob(j)
  PROVE  LeasesOK' /\ Lease!Next
<1> USE DEF IInv
<1>1. CASE ExpireProject
  <2>1. project' = [project EXCEPT !.live = FALSE] /\ jobs' = jobs /\ workers' = workers
    BY <1>1 DEF ExpireProject
  <2>2. /\ project'.live = FALSE /\ project'.owner = project.owner
        /\ project'.status = project.status
    BY <2>1 DEF RowsOK, ProjectRow
  <2>3. \A j \in Lease!Live : View(jobs)[j].owner # project.owner
    BY <1>1 DEF ExpireProject, Lease!Live, Lease!Leased, View
  <2>4. project.live
    BY <1>1 DEF ExpireProject
  <2>5. [owner |-> project'.owner, live |-> project'.live]
          = [[owner |-> project.owner, live |-> project.live] EXCEPT !.live = FALSE]
    <3>1. [[owner |-> project.owner, live |-> project.live] EXCEPT !.live = FALSE]
            = [owner |-> project.owner, live |-> FALSE]
      BY LeaseRow DEF RowsOK, ProjectRow
    <3> QED  BY <2>2, <3>1
  <2>6. Lease!ExpireProject
    BY <2>1, <2>2, <2>3, <2>4, <2>5 DEF Lease!ExpireProject, View
  <2>7. LeasesOK'
    BY <2>1 DEF LeasesOK, RowsLeased, Over, ReadyRow, JobsPresent, Busy, MyJob,
                OneJobPerChapter, Unended
  <2> QED  BY <2>6, <2>7 DEF Lease!Next
<1>2. CASE \E j \in JobIds : ExpireJob(j)
  <2>1. PICK j \in JobIds : ExpireJob(j)
    BY <1>2
  <2>2. /\ jobs' = [jobs EXCEPT ![j] = [jobs[j] EXCEPT !.live = FALSE]]
        /\ jobs[j].status = "leased" /\ jobs[j].live
        /\ project' = project /\ workers' = workers
    BY <2>1 DEF ExpireJob
  <2>3. /\ jobs'[j].status = "leased" /\ jobs'[j].owner = jobs[j].owner /\ jobs'[j].live = FALSE
        /\ jobs'[j].chapter = jobs[j].chapter
        /\ \A k \in JobIds \ {j} : jobs'[k] = jobs[k]
    BY <2>2 DEF RowsOK, SoundJob, JobRow
  <2>4. LeasesOK'
    <3>1. RowsLeased'
      BY <2>2, <2>3 DEF LeasesOK, RowsLeased, Over, ReadyRow
    <3>2. SameTable
      BY <2>2, <2>3 DEF SameTable, Unended
    <3>3. SameJobs
      BY <2>2 DEF SameJobs, Busy
    <3> QED  BY <3>1, <3>2, <3>3, PresentOK, SameTableOK DEF LeasesOK, SameTable, KeptJobs
  <2>5. Lease!ExpireJob(j)
    <3>1. View(jobs') = [View(jobs) EXCEPT ![j].live = FALSE]
      BY <2>2, <2>3 DEF View
    <3>2. j \in Lease!Live
      BY <2>2 DEF Lease!Live, Lease!Leased
    <3> QED  BY <2>2, <3>1, <3>2 DEF Lease!ExpireJob, View
  <2>6. \E k \in JobIds : Lease!ExpireJob(k)
    BY <2>5
  <2> QED  BY <2>4, <2>6 DEF Lease!Next
<1> QED  BY <1>1, <1>2

\* A renewal by the worker that owns the project renews both leases.
LEMMA RenewMaps ==
  ASSUME IInv, NEW w \in Workers, Renew(w), project.owner = w
  PROVE  Lease!Next
<1> PICK j : j = workers[w].job
  OBVIOUS
<1> USE DEF IInv
<1>1. /\ j \in JobIds /\ jobs[j] \in JobRow
      /\ jobs[j].status = "leased" /\ jobs[j].owner = w
  <2>1. workers[w].pc # "idle"
    BY DEF Renew, Pipelining
  <2> QED  BY <2>1, BusyWorker DEF Renew, MyJob, SoundJob
<1>2. /\ jobs' = [jobs EXCEPT ![j] = [jobs[j] EXCEPT !.live = TRUE]]
      /\ project' = [project EXCEPT !.live = TRUE]
  BY DEF Renew
<1>3. /\ jobs'[j].status = "leased" /\ jobs'[j].owner = w /\ jobs'[j].live = TRUE
      /\ \A k \in JobIds \ {j} : jobs'[k] = jobs[k]
  BY <1>1, <1>2 DEF RowsOK, JobRow
<1>4. project'.live = TRUE /\ project'.owner = w /\ project'.status = project.status
  BY <1>2 DEF RowsOK, ProjectRow
<1>5. View(jobs') = [View(jobs) EXCEPT ![j] = Lease!Held(w, TRUE)]
  BY <1>1, <1>3 DEF View, Lease!Held
<1>6. j \in Lease!Leased /\ View(jobs)[j].owner = w
  BY <1>1 DEF Lease!Leased, View
<1>7. [owner |-> project'.owner, live |-> project'.live]
        = [[owner |-> project.owner, live |-> project.live] EXCEPT !.live = TRUE]
  <2>1. [[owner |-> project.owner, live |-> project.live] EXCEPT !.live = TRUE]
          = [owner |-> project.owner, live |-> TRUE]
    BY LeaseRow DEF RowsOK, ProjectRow
  <2> QED  BY <1>4, <2>1
<1>8. Lease!Renew(w, j)
  BY <1>4, <1>5, <1>6, <1>7 DEF Lease!Renew, View
<1>9. \E v \in Workers, k \in JobIds : Lease!Claim(v, k) \/ Lease!Renew(v, k)
  BY <1>1, <1>8
<1> QED  BY <1>9 DEF Lease!Next

\* An edit of the table of jobs leaves it sound, whoever is busy.
LEMMA EditLeasesOK ==
  ASSUME IInv, LeasesOK, Edited(jobs, jobs'), SameJobs
  PROVE  LeasesOK'
<1>1. PICK i : Inserted(jobs, jobs', i)
  BY DEF Edited
<1>2. RowsLeased'
  BY <1>1 DEF Inserted, EndedRow, LeasesOK, RowsLeased, Over, ReadyRow
<1>3. KeptJobs
  BY <1>1 DEF KeptJobs, Inserted, EndedRow, Over, Unended
<1>4. JobsPresent'
  BY <1>3, PresentOK DEF LeasesOK
<1>5. \A j \in JobIds \ {i} : Unended(jobs'[j]) => jobs'[j] = jobs[j]
  BY <1>1 DEF Inserted, EndedRow, Over, Unended
<1>6. ASSUME NEW j \in JobIds, NEW k \in JobIds, j # k, Unended(jobs'[j]), Unended(jobs'[k])
      PROVE  jobs'[j].chapter # jobs'[k].chapter
  <2>1. CASE j # i /\ k # i
    BY <1>5, <1>6, <2>1 DEF LeasesOK, OneJobPerChapter
  <2>2. CASE j = i \/ k = i
    BY <1>1, <1>6, <2>2 DEF Inserted
  <2> QED  BY <2>1, <2>2
<1> QED  BY <1>2, <1>4, <1>6 DEF LeasesOK, OneJobPerChapter, Unended

\* An accepted chapter: jobs end or one is inserted.
LEMMA FinalizeEdits ==
  ASSUME IInv, NEW w \in Workers, Finalize(w) \/ FinalizeRush(w)
  PROVE  Edited(jobs, jobs') /\ KeepsLease /\ KeepsStopped
<1> DEFINE c    == workers[w].chapter
           rep  == RepairOrphanQueuedChapters([chapters EXCEPT ![c] = AcceptedRow(w)], jobs, c)
           next == NextRunnableChapter(rep, c)
           goOn == project.auto /\ workers[w].kind # "single"
           s    == AdvanceAfterChapterSuccess(AcceptedProject(w), "running", rep, jobs,
                                              next, goOn)
           done == IF next = 0 THEN CleanupCompletedProject(s, workers[w].job) ELSE s
<1> USE DEF IInv
<1>1. KeepsLease /\ KeepsStopped
  BY FinalizeKeepsLease, FinalizeKeepsStopped DEF KeepsLease, KeepsStopped
<1>2. Fresh(jobs) # {} /\ jobs' = done.jobs
  BY DEF Finalize, FinalizeRush, FinalizeAccepted
<1>3. Ended(jobs, jobs) /\ jobs \in [JobIds -> SoundJob]
  BY DEF Ended, EndedRow, RowsOK
<1>4. CASE next = 0
  <2>1. s.jobs = jobs
    BY <1>4 DEF AdvanceAfterChapterSuccess
  <2>2. LET r == [NoJob EXCEPT !.status = "deleted"] IN Over(r) /\ r.status # "absent"
    BY DEF NoJob, Over
  <2> HIDE DEF s
  <2>3. s = [project |-> s.project, chapters |-> s.chapters, jobs |-> s.jobs]
    BY DEF s, AdvanceAfterChapterSuccess
  <2>4. \/ jobs' = jobs
        \/ jobs' = [j \in JobIds |->
                      IF jobs[j].status \in {"done", "failed", "cancelled"}
                        THEN [NoJob EXCEPT !.status = "deleted"] ELSE jobs[j]]
    BY <1>2, <1>4, <2>1, <2>3 DEF CleanupCompletedProject
  <2>5. Ended(jobs, jobs')
    BY <2>2, <2>4 DEF Ended, EndedRow
  <2> QED  BY <1>1, <2>5, EndedEdited
<1>5. CASE next # 0
  <2>1. \/ jobs' = jobs
        \/ CanEnqueue(jobs, next) /\ jobs' = EnqueueGenerateJob(jobs, next, "advance")
    BY <1>2, <1>5 DEF AdvanceAfterChapterSuccess, EnqueueConflicts, CanEnqueue
  <2> HIDE DEF next
  <2>2. Edited(jobs, jobs')
    BY <1>2, <1>3, <2>1, EndedEdited, EnqueueEdits
  <2> QED  BY <1>1, <2>2
<1> QED  BY <1>4, <1>5

\* mark_done and the deferred retry: the job of the worker ends, whoever has it by now.
LEMMA FinishEdits ==
  ASSUME IInv, LeasesOK, NEW w \in Workers, Finish(w)
  PROVE  Edited(jobs, jobs')
<1> DEFINE j  == workers[w].job
           jb == [jobs EXCEPT ![j] = Terminal("done")]
<1> USE DEF IInv
<1>1. j \in JobIds /\ jobs[j].status # "absent"
  BY BusyWorker DEF Finish, LeasesOK, JobsPresent, Busy, MyJob
<1>2. Ended(jobs, jobs) /\ Ended(jobs, jb) /\ jb \in [JobIds -> SoundJob]
  BY <1>1, TerminalOver, TerminalSound DEF Ended, EndedRow, RowsOK
<1>3. Fresh(jb) # {}
  <2>1. Fresh(jobs) # {}
    BY DEF Finish
  <2>2. \A k \in Fresh(jobs) : k \in Fresh(jb)
    BY <1>1 DEF Fresh, RowsOK
  <2> QED  BY <2>1, <2>2
<1>4. \/ jobs' = jobs \/ jobs' = jb
      \/ /\ CanEnqueue(jb, workers[w].chapter)
         /\ jobs' = EnqueueGenerateJob(jb, workers[w].chapter, "advance")
  BY <1>3 DEF Finish, EnqueueConflicts, CanEnqueue
<1> HIDE DEF jb
<1> QED  BY <1>2, <1>3, <1>4, EndedEdited, EnqueueEdits

\* mark_failed gives the project up and ends the job, whoever has it by now.
LEMMA FailMaps ==
  ASSUME IInv, LeasesOK, NEW w \in Workers, Fail(w)
  PROVE  Edited(jobs, jobs') /\ (Lease!Next \/ UNCHANGED Lease!vars)
<1> PICK j : j = workers[w].job
  OBVIOUS
<1> USE DEF IInv
<1>1. j \in JobIds /\ jobs[j].status # "absent"
  BY BusyWorker DEF Fail, LeasesOK, JobsPresent, Busy, MyJob
<1>2. CASE MyJob(w).status = "deleted"
  <2>1. UNCHANGED rows
    BY <1>2 DEF Fail
  <2> QED  BY <2>1, StutterMaps, EndedEdited DEF rows, KeepsLease, Ended, EndedRow
<1>3. CASE MyJob(w).status # "deleted"
  <2>1. /\ jobs' = [jobs EXCEPT ![j] = Terminal("failed")]
        /\ project' = [project EXCEPT
             !.status = "paused",
             !.owner = IF @ = w THEN Nobody ELSE @,
             !.live  = IF project.owner = w THEN FALSE ELSE @]
    BY <1>3 DEF Fail
  <2>2. Ended(jobs, jobs')
    BY <1>1, <2>1, TerminalOver DEF Ended, EndedRow, RowsOK
  <2>3. /\ project'.status = "paused"
        /\ project'.owner = IF project.owner = w THEN Nobody ELSE project.owner
        /\ project'.live = IF project.owner = w THEN FALSE ELSE project.live
    BY <2>1 DEF RowsOK, ProjectRow
  <2>4. View(jobs') = [View(jobs) EXCEPT ![j] = Lease!Out]
    <3>1. View(jobs')[j] = Lease!Out
      BY <1>1, <2>1, TerminalOver, ViewRow DEF RowsOK
    <3>2. \A k \in JobIds \ {j} : View(jobs')[k] = View(jobs)[k]
      BY <1>1, <2>1 DEF View, RowsOK
    <3> QED  BY <1>1, <3>1, <3>2 DEF View
  <2>5. (project'.status = "running") = FALSE
    BY <2>3
  <2>6. [owner |-> project'.owner, live |-> project'.live]
          = IF project.owner = w THEN Lease!Released
            ELSE [owner |-> project.owner, live |-> project.live]
    BY <2>3 DEF Lease!Released
  <2>7. View(jobs') \in {View(jobs)} \cup {[View(jobs) EXCEPT ![k] = Lease!Out] : k \in JobIds}
    BY <1>1, <2>4
  <2>8. Lease!Fail(w)
    BY <2>5, <2>6, <2>7 DEF Lease!Fail, View
  <2>9. \E v \in Workers : Lease!Fail(v)
    BY <2>8
  <2> QED  BY <2>2, <2>9, EndedEdited DEF Lease!Next
<1> QED  BY <1>2, <1>3

\* Every step of a worker but the claim keeps its job or drops it.
LEMMA WorkerKeepsJob ==
  ASSUME IInv, NEW w \in Workers, WorkerStep(w) \/ CommitChunks(w) \/ Crash(w), ~Claim(w)
  PROVE  SameJobs
<1> USE DEF IInv
<1>1. CASE \/ \E pc : GoTo(w, pc) /\ Busy(w)
           \/ workers' = [workers EXCEPT ![w] = IdleWorker]
           \/ workers' = workers
  BY <1>1, GoToFacts DEF SameJobs, Busy, WorkersOK, IdleWorker
<1>2. CASE Open(w) \/ StartWriting(w) \/ SubmitReview(w) \/ FailAttempt(w) \/ StopRenewal(w)
  <2>1. Busy(w) /\ workers[w] \in WorkerRow
    BY <1>2 DEF Open, StartWriting, SubmitReview, FailAttempt, StopRenewal, Busy, WorkersOK,
                SoundWorker
  <2>2. /\ workers'[w].job = workers[w].job /\ workers'[w].chapter = workers[w].chapter
        /\ \A v \in Workers \ {w} : workers'[v] = workers[v]
    <3>1. CASE Open(w)
      BY <2>1, <3>1 DEF Open, WorkersOK, WorkerRow
    <3>2. CASE StartWriting(w)
      BY <2>1, <3>2 DEF StartWriting, WorkersOK, WorkerRow
    <3>3. CASE SubmitReview(w)
      BY <2>1, <3>3 DEF SubmitReview, WorkersOK, WorkerRow
    <3>4. CASE FailAttempt(w)
      BY <2>1, <3>4 DEF FailAttempt, WorkersOK, WorkerRow
    <3>5. CASE StopRenewal(w)
      BY <2>1, <3>5 DEF StopRenewal, WorkersOK, WorkerRow
    <3> QED  BY <1>2, <3>1, <3>2, <3>3, <3>4, <3>5
  <2> QED  BY <2>1, <2>2 DEF SameJobs, Busy
<1>3. CASE \/ ProviderUnavailable(w) \/ Accept(w) \/ Finalize(w) \/ FinalizeRush(w)
           \/ Interrupt(w) \/ LoseLease(w) \/ PipelineError(w) \/ Rollback(w)
  <2>1. Busy(w) /\ \E pc : GoTo(w, pc)
    BY <1>3 DEF ProviderUnavailable, Accept, Finalize, FinalizeRush, FinalizeAccepted, Interrupt,
                LoseLease, PipelineError, Rollback, Pipelining, Busy
  <2> QED  BY <1>1, <2>1
<1>4. CASE Finish(w) \/ Fail(w) \/ Crash(w) \/ CommitChunks(w)
  <2>1. \/ \E pc : GoTo(w, pc) /\ Busy(w)
        \/ workers' = [workers EXCEPT ![w] = IdleWorker]
        \/ workers' = workers
    BY <1>4 DEF Finish, Fail, Crash, CommitChunks, Busy
  <2> QED  BY <1>1, <2>1
<1> QED  BY <1>2, <1>3, <1>4 DEF WorkerStep

\* Every step of a worker obeys the discipline of the leases or does not touch them.
LEMMA WorkerMaps ==
  ASSUME IInv, LeasesOK, NEW w \in Workers, WorkerStep(w) \/ CommitChunks(w) \/ Crash(w)
  PROVE  LeasesOK' /\ (Lease!Next \/ UNCHANGED Lease!vars)
<1> USE DEF IInv
<1>1. ASSUME ~Claim(w), Edited(jobs, jobs') PROVE LeasesOK'
  BY <1>1, WorkerKeepsJob, EditLeasesOK
<1>2. Edited(jobs, jobs)
  BY EndedEdited DEF Ended, EndedRow
<1>3. CASE Claim(w)
  BY <1>3, ClaimMaps
<1>4. CASE ~Claim(w) /\ (Finalize(w) \/ FinalizeRush(w))
  BY <1>1, <1>4, FinalizeEdits, ProgressMaps DEF Lease!Next
<1>5. CASE ~Claim(w) /\ Fail(w)
  BY <1>1, <1>5, FailMaps
<1>6. CASE ~Claim(w) /\ Finish(w)
  <2>1. KeepsLease /\ KeepsStopped
    BY <1>6 DEF Finish, KeepsLease, KeepsStopped
  <2> QED  BY <1>1, <1>6, <2>1, FinishEdits, ProgressMaps DEF Lease!Next
<1>7. CASE ~Claim(w) /\ (ProviderUnavailable(w) \/ Interrupt(w))
  <2>1. jobs' = jobs
    BY <1>7 DEF ProviderUnavailable, Interrupt
  <2>2. \E p \in {project, AcceptedProject(w)} : project' = [p EXCEPT !.status = "paused"]
    BY <1>7 DEF ProviderUnavailable, Interrupt
  <2>3. KeepsLease /\ KeepsStopped
    BY <2>2 DEF KeepsLease, KeepsStopped, AcceptedProject, RowsOK, ProjectRow
  <2> QED  BY <1>1, <1>2, <1>7, <2>1, <2>3, ProgressMaps DEF Lease!Next
<1>8. CASE ~Claim(w) /\ FailAttempt(w)
  <2>1. workers[w].job \in JobIds
    BY <1>8, BusyWorker DEF FailAttempt
  <2>2. jobs' = jobs \/ jobs' = [jobs EXCEPT ![workers[w].job] =
                                   [jobs[workers[w].job] EXCEPT !.deferred = TRUE]]
    BY <1>8 DEF FailAttempt
  <2>3. \A j \in JobIds : /\ jobs'[j].status = jobs[j].status /\ jobs'[j].owner = jobs[j].owner
                          /\ jobs'[j].live = jobs[j].live /\ jobs'[j].chapter = jobs[j].chapter
    BY <2>1, <2>2 DEF RowsOK, SoundJob, JobRow
  <2>4. View(jobs') = View(jobs)
    BY <2>3 DEF View
  <2>5. LeasesOK'
    <3>1. SameJobs /\ SameTable
      BY <1>8, <2>3, WorkerKeepsJob DEF SameTable, Unended
    <3>2. RowsLeased'
      BY <2>3 DEF LeasesOK, RowsLeased, Over, ReadyRow
    <3> QED  BY <3>1, <3>2, PresentOK, SameTableOK DEF LeasesOK, SameTable, KeptJobs
  <2>6. KeepsLease /\ KeepsStopped
    BY <1>8 DEF FailAttempt, KeepsLease, KeepsStopped, RowsOK, ProjectRow
  <2> QED  BY <1>2, <2>4, <2>5, <2>6, ProgressMaps DEF Lease!Next
<1>9. CASE /\ ~Claim(w)
           /\ \/ Open(w) \/ StartWriting(w) \/ SubmitReview(w) \/ Accept(w) \/ LoseLease(w)
              \/ PipelineError(w) \/ StopRenewal(w) \/ Rollback(w) \/ CommitChunks(w)
              \/ Crash(w)
  <2>1. jobs' = jobs /\ project' = project
    BY <1>9 DEF Open, StartWriting, SubmitReview, Accept, LoseLease, PipelineError, StopRenewal,
                Rollback, CommitChunks, Crash, rows
  <2> QED  BY <1>1, <1>2, <1>9, <2>1, StutterMaps DEF KeepsLease
<1> QED  BY <1>3, <1>4, <1>5, <1>6, <1>7, <1>8, <1>9 DEF WorkerStep

\* Whatever a renewal writes, it writes a leased row of its worker.
LEMMA RenewLeasesOK ==
  ASSUME IInv, LeasesOK, NEW w \in Workers, Renew(w) \/ RenewalHangs(w)
  PROVE  LeasesOK'
<1> USE DEF IInv
<1>1. workers[w].job \in JobIds /\ workers[w] \in WorkerRow /\ Busy(w) /\ MyJob(w).status = "leased"
  <2>1. workers[w].pc # "idle" /\ MyJob(w).status = "leased"
    BY DEF Renew, RenewalHangs, Pipelining
  <2> QED  BY <2>1, BusyWorker DEF Busy, WorkersOK, SoundWorker
<1>2. \A v \in Workers : /\ workers'[v].job = workers[v].job /\ workers'[v].pc = workers[v].pc
                        /\ workers'[v].chapter = workers[v].chapter
  <2>1. CASE Renew(w)
    BY <1>1, <2>1 DEF Renew, WorkersOK, WorkerRow
  <2>2. CASE RenewalHangs(w)
    BY <1>1, <2>2 DEF RenewalHangs, WorkersOK, WorkerRow
  <2> QED  BY <2>1, <2>2
<1>3. \/ jobs' = jobs
      \/ jobs' = [jobs EXCEPT ![workers[w].job] = [jobs[workers[w].job] EXCEPT !.live = TRUE]]
  BY DEF Renew, RenewalHangs, rows
<1>4. \A j \in JobIds : /\ jobs'[j].status = jobs[j].status /\ jobs'[j].owner = jobs[j].owner
                        /\ jobs'[j].chapter = jobs[j].chapter
                        /\ j # workers[w].job => jobs'[j] = jobs[j]
  BY <1>1, <1>3 DEF RowsOK, SoundJob, JobRow
<1>5. SameJobs /\ SameTable
  BY <1>2, <1>4 DEF SameJobs, SameTable, Busy, Unended
<1>6. RowsLeased'
  BY <1>1, <1>4 DEF LeasesOK, RowsLeased, Over, ReadyRow, MyJob
<1> QED  BY <1>5, <1>6, PresentOK, SameTableOK DEF LeasesOK, SameTable, KeptJobs

-----------------------------------------------------------------------------
(* NovelGeneration implements JobLease *)

\* A request ends and inserts jobs, is progress or a restart, or touches no lease.
LEMMA ServiceMaps ==
  ASSUME IInv, LeasesOK, Service
  PROVE  LeasesOK' /\ (Lease!Next \/ UNCHANGED Lease!vars)
<1>1. SameJobs
  BY DEF Service, workerVars, SameJobs, Busy
<1>2. CASE Reject \/ ReadPassed \/ \E op, c : Receive(op, c)
  <2>1. jobs' = jobs /\ project' = project
    BY <1>2 DEF Reject, ReadPassed, Receive, rows
  <2>2. Edited(jobs, jobs')
    BY <2>1, EndedEdited DEF Ended, EndedRow
  <2> QED  BY <1>1, <2>1, <2>2, EditLeasesOK, StutterMaps DEF KeepsLease
<1>3. CASE DecideRevision
  <2>1. jobs' = jobs /\ KeepsLease /\ KeepsStopped
    BY <1>3 DEF DecideRevision, KeepsLease, KeepsStopped, OrmSet, IInv, RowsOK, ProjectRow
  <2>2. Edited(jobs, jobs')
    BY <2>1, EndedEdited DEF Ended, EndedRow
  <2> QED  BY <1>1, <2>1, <2>2, EditLeasesOK, ProgressMaps DEF Lease!Next
<1>4. CASE PauseProject
  BY <1>1, <1>4, PauseMaps, EditLeasesOK DEF Lease!Next
<1>5. CASE \/ StartProject \/ RetryChapter \/ ContinueChapter \/ ResumeProject
           \/ ManualApproveChapter \/ RewriteFromChapter
  BY <1>1, <1>5, HandlerMaps, EditLeasesOK DEF Lease!Next
<1> QED  BY <1>2, <1>3, <1>4, <1>5 DEF Service, ServiceStep

\* Every step but a renewal by a worker that lost the project obeys the discipline; every
\* step keeps the table sound.
LEMMA StepMaps ==
  ASSUME IInv, LeasesOK, [Next]_vars
  PROVE  /\ LeasesOK'
         /\ \/ UNCHANGED Lease!vars
            \/ Lease!Next
            \/ \E w \in Workers : Renew(w) /\ project.owner # w
<1>1. CASE UNCHANGED vars
  BY <1>1, StutterMaps DEF vars, KeepsLease, LeasesOK, RowsLeased, Over, ReadyRow, JobsPresent,
                           Busy, MyJob, OneJobPerChapter, Unended
<1>2. CASE Service
  BY <1>2, ServiceMaps
<1>3. CASE Machine
  <2>1. CASE \E w \in Workers : WorkerStep(w) \/ CommitChunks(w) \/ Crash(w)
    BY <2>1, WorkerMaps
  <2>2. CASE \E w \in Workers : Renew(w)
    BY <2>2, RenewLeasesOK, RenewMaps
  <2>3. CASE \E w \in Workers : RenewalHangs(w)
    BY <2>3, RenewLeasesOK, StutterMaps DEF RenewalHangs, rows, KeepsLease
  <2>4. CASE ExpireProject \/ \E j \in JobIds : ExpireJob(j)
    BY <2>4, ExpiryMaps
  <2> QED  BY <1>3, <2>1, <2>2, <2>3, <2>4 DEF Machine, LeaseStep
<1> QED  BY <1>1, <1>2, <1>3 DEF Next

\* In a project just imported no job has a lease.
LEMMA InitMaps == Init => LeasesOK /\ Lease!Init
<1> SUFFICES ASSUME Init PROVE LeasesOK /\ Lease!Init
  OBVIOUS
<1>1. /\ jobs = [j \in JobIds |-> NoJob] /\ Over(NoJob)
      /\ project.status = "ready" /\ project.owner = Nobody /\ project.live = FALSE
  BY DEF Init, Over, NoJob
<1>2. LeasesOK
  BY <1>1 DEF Init, LeasesOK, RowsLeased, JobsPresent, OneJobPerChapter, Unended, NoJob, Busy,
              IdleWorker
<1>3. View(jobs) = [j \in JobIds |-> Lease!Out]
  <2>1. \A j \in JobIds : View(jobs)[j] = Lease!Out
    BY <1>1, ViewRow
  <2> QED  BY <2>1 DEF View
<1>4. (project.status = "running") = FALSE
  BY <1>1
<1>5. [owner |-> project.owner, live |-> project.live] = Lease!Released
  BY <1>1 DEF Lease!Released
<1>6. Lease!Init
  BY <1>3, <1>4, <1>5 DEF Lease!Init, View
<1> QED  BY <1>2, <1>6

\* Only a leased job has an owner, and the job of a busy worker is in the table: what
\* claim_next_job, mark_done, mark_failed and the cancellations make of the columns.
THEOREM LeasesSound == Spec => []LeasesOK
<1>1. IInv /\ LeasesOK /\ [Next]_vars => LeasesOK'
  BY StepMaps
<1> QED  BY <1>1, InitMaps, Invariance, PTL DEF Spec

\* Whatever the timing, the crashes and the mode of the project: claims, lapses, failures,
\* the handlers' edits, and the renewals of a worker that owns the project, all obey the
\* discipline of the leases.  The one step that does not is renew_lease for a worker that
\* has lost the project.
THEOREM StraysAreRenewals == Spec => OnlyRenewalsStray
<1> DEFINE A == \/ UNCHANGED Lease!vars
                \/ Lease!Next
                \/ \E w \in Workers : Renew(w) /\ project.owner # w
<1>1. IInv /\ LeasesOK /\ [Next]_vars => [A]_vars
  BY StepMaps
<1> HIDE DEF A
<1>2. [][Next]_vars /\ []IInv /\ []LeasesOK => [][A]_vars
  BY <1>1, PTL
<1>3. Spec => [][A]_vars
  BY <1>2, Invariance, LeasesSound, PTL DEF Spec
<1> QED  BY <1>3 DEF A, OnlyRenewalsStray

\* A rush project implements JobLease, crashes or not: no step gives it two live owners.
THEOREM LeaseImplemented ==
  ASSUME Timely, RushMode
  PROVE  Spec => ImplementsJobLease
<1>1. IInv /\ LeasesOK /\ LInv /\ [Next]_vars => [Lease!Next]_(Lease!vars)
  BY StepMaps, NeverInRush
<1>2. Spec => Lease!Init /\ [][Lease!Next]_(Lease!vars)
  BY <1>1, InitMaps, Invariance, LeasesSound, LeaseInvariance, PTL DEF Spec
<1> QED  BY <1>2 DEF ImplementsJobLease, Lease!Spec

\* what JobLeaseProofs proves of JobLease, for the rows of this system
LeaseTheorems == INSTANCE JobLeaseProofs WITH
  leases  <- [j \in JobIds |->
                [status |-> IF jobs[j].status \in {"queued", "leased"}
                              THEN jobs[j].status ELSE "out",
                 owner |-> jobs[j].owner, live |-> jobs[j].live]],
  lease   <- [owner |-> project.owner, live |-> project.live],
  running <- project.status = "running"

\* The live leases on the jobs of the project belong to one worker, whatever claim_next_job
\* and renew_lease overlap with.
THEOREM OneLeaseOwner ==
  ASSUME Timely, RushMode
  PROVE  Spec => []Lease!LeaseExclusive
<1>1. LeaseTheorems!Spec => []LeaseTheorems!LeaseExclusive
  BY StateAssumption, LeaseTheorems!Exclusive DEF LeaseTheorems!LeaseAssumption
<1>2. Lease!Spec => LeaseTheorems!Spec
  BY DEF Lease!Spec, LeaseTheorems!Spec, Lease!Init, LeaseTheorems!Init, Lease!vars,
         LeaseTheorems!vars, Lease!Next, LeaseTheorems!Next, Lease!Claim, LeaseTheorems!Claim,
         Lease!Renew, LeaseTheorems!Renew, Lease!Fail, LeaseTheorems!Fail,
         Lease!ExpireJob, LeaseTheorems!ExpireJob, Lease!ExpireProject,
         LeaseTheorems!ExpireProject, Lease!Progress, LeaseTheorems!Progress,
         Lease!Restart, LeaseTheorems!Restart, Lease!EndAndEnqueue,
         LeaseTheorems!EndAndEnqueue, Lease!Live, LeaseTheorems!Live, Lease!Leased,
         LeaseTheorems!Leased, Lease!Active, LeaseTheorems!Active, Lease!Out,
         LeaseTheorems!Out, Lease!Queued, LeaseTheorems!Queued, Lease!Held,
         LeaseTheorems!Held, Lease!Released, LeaseTheorems!Released
<1>3. LeaseTheorems!LeaseExclusive => Lease!LeaseExclusive
  BY DEF LeaseTheorems!LeaseExclusive, Lease!LeaseExclusive, Lease!Live, LeaseTheorems!Live,
         Lease!Leased, LeaseTheorems!Leased
<1> QED  BY <1>1, <1>2, <1>3, LeaseImplemented, PTL DEF ImplementsJobLease

-----------------------------------------------------------------------------
(* What a lease shields, in any mode *)

\* the session of a worker at work has cached the status it wrote
Phases ==
  \A w \in Working :
    workers[w].status = IF workers[w].pc = "writing" THEN "writing" ELSE "reviewing"

\* A step of a worker changes no other one, takes it to work only with the status it has
\* just written, and writes no chapter but the text of one it goes on with.
LEMMA OwnStep ==
  ASSUME IInv, NEW v \in Workers, WorkerStep(v) \/ CommitChunks(v) \/ Crash(v)
  PROVE  /\ \A u \in Workers \ {v} : workers'[u] = workers[u]
         /\ workers'[v] = workers[v] => CommitChunks(v) \/ chapters' = chapters
         /\ \/ workers'[v] = workers[v] \/ v \notin Working'
            \/ workers'[v].pc \in {"writing", "reviewing"} /\ workers'[v].status = workers'[v].pc
            \/ /\ workers[v].pc = "reviewing" /\ workers'[v].pc = "memory"
               /\ workers'[v].status = workers[v].status
<1> USE DEF IInv
<1>1. workers[v] \in WorkerRow
  BY DEF WorkersOK, SoundWorker
<1>2. CASE \E pc \in {"returned", "raised", "failing"} : GoTo(v, pc) /\ workers[v].pc # pc
  BY <1>1, <1>2 DEF GoTo, WorkersOK, WorkerRow, Working
<1>3. CASE workers' = [workers EXCEPT ![v] = IdleWorker] /\ workers[v].pc # "idle"
  BY <1>3 DEF WorkersOK, IdleWorker, Working
<1>4. CASE Claim(v) \/ Open(v)
  <2>1. CASE Claim(v)
    BY <2>1 DEF Claim, WorkersOK, IdleWorker, Working
  <2>2. CASE Open(v)
    BY <1>1, <2>2 DEF Open, WorkersOK, WorkerRow, Working, rows
  <2> QED  BY <1>4, <2>1, <2>2
<1>5. CASE StartWriting(v) \/ SubmitReview(v)
  <2>1. CASE StartWriting(v)
    BY <1>1, <2>1 DEF StartWriting, WorkersOK, WorkerRow
  <2>2. CASE SubmitReview(v)
    BY <1>1, <2>2 DEF SubmitReview, WorkersOK, WorkerRow
  <2> QED  BY <1>5, <2>1, <2>2
<1>6. CASE Accept(v)
  BY <1>1, <1>6 DEF Accept, GoTo, WorkersOK, WorkerRow
<1>7. CASE FailAttempt(v)
  BY <1>1, <1>7 DEF FailAttempt, WorkersOK, WorkerRow, Working
<1>8. CASE CommitChunks(v)
  BY <1>8 DEF CommitChunks
<1>9. CASE StopRenewal(v)
  BY <1>1, <1>9 DEF StopRenewal, WorkersOK, WorkerRow, Working
<1> QED  BY <1>2, <1>3, <1>4, <1>5, <1>6, <1>7, <1>8, <1>9
         DEF WorkerStep, ProviderUnavailable, Finalize, FinalizeRush, FinalizeAccepted, Interrupt,
             LoseLease, PipelineError, Rollback, Finish, Fail, Crash, Pipelining

\* A renewal leaves every worker where it is, with the columns of the chapter it cached.
LEMMA RenewalKeepsPhase ==
  ASSUME IInv, NEW v \in Workers, Renew(v) \/ RenewalHangs(v)
  PROVE  /\ chapters' = chapters
         /\ \A w \in Workers : workers'[w].pc = workers[w].pc /\ workers'[w].status = workers[w].status
<1>1. workers[v] \in WorkerRow
  BY DEF IInv, WorkersOK, SoundWorker
<1>2. CASE Renew(v)
  BY <1>1, <1>2 DEF Renew, IInv, WorkersOK, WorkerRow
<1>3. CASE RenewalHangs(v)
  BY <1>1, <1>3 DEF RenewalHangs, IInv, WorkersOK, WorkerRow, rows
<1> QED  BY <1>2, <1>3

\* The cached status of a chapter follows the phases of its pipeline.
LEMMA PhasesKept == IInv /\ Phases /\ [Next]_vars => Phases'
<1> SUFFICES ASSUME IInv, Phases, [Next]_vars PROVE Phases'
  OBVIOUS
<1>1. CASE workers' = workers
  BY <1>1 DEF Phases, Working
<1>2. CASE \E v \in Workers : WorkerStep(v) \/ CommitChunks(v) \/ Crash(v)
  BY <1>2, OwnStep DEF Phases, Working
<1>3. CASE \E v \in Workers : Renew(v) \/ RenewalHangs(v)
  BY <1>3, RenewalKeepsPhase DEF Phases, Working
<1> QED  BY <1>1, <1>2, <1>3
         DEF Next, Machine, LeaseStep, ExpireJob, ExpireProject, Service, workerVars, vars

\* The step of a worker keeps the status and the retries of a chapter that is worked on,
\* unless it is its own chapter and the worker goes on to another phase.
LEMMA OthersChapter ==
  ASSUME IInv, NEW v \in Workers, WorkerStep(v) \/ CommitChunks(v) \/ Crash(v),
         NEW c \in Chapters, chapters[c].status \in {"writing", "reviewing"},
         c # workers[v].chapter \/ workers'[v] = workers[v]
  PROVE  chapters'[c].status = chapters[c].status /\ chapters'[c].retries = chapters[c].retries
<1> USE DEF IInv
<1>1. CASE CommitChunks(v)
  BY <1>1 DEF CommitChunks, RowsOK, SoundChapter, ChapterRow
<1>2. CASE chapters' = chapters
  BY <1>2
<1>3. CASE ~CommitChunks(v) /\ chapters' # chapters
  <2>1. c # workers[v].chapter
    BY <1>3, OwnStep
  <2>2. CASE Finalize(v) \/ FinalizeRush(v)
    BY <2>1, <2>2, FinalizeKeepsSettled DEF Settled
  <2>3. CASE ~Finalize(v) /\ ~FinalizeRush(v)
    <3>1. \E row : chapters' = [chapters EXCEPT ![workers[v].chapter] = row]
      <4>1. CASE StartWriting(v)
        BY <4>1 DEF StartWriting
      <4>2. CASE SubmitReview(v)
        BY <4>2 DEF SubmitReview
      <4>3. CASE FailAttempt(v)
        BY <4>3 DEF FailAttempt
      <4>4. CASE ProviderUnavailable(v)
        BY <4>4 DEF ProviderUnavailable
      <4>5. CASE Interrupt(v)
        BY <4>5 DEF Interrupt
      <4>6. CASE Fail(v)
        BY <1>3, <4>6 DEF Fail, rows
      <4> QED  BY <1>3, <2>3, <4>1, <4>2, <4>3, <4>4, <4>5, <4>6
               DEF WorkerStep, Claim, Open, Accept, LoseLease, PipelineError, StopRenewal,
                   Rollback, Finish, Crash, rows
    <3> QED  BY <2>1, <3>1 DEF RowsOK
  <2> QED  BY <2>2, <2>3
<1> QED  BY <1>1, <1>2, <1>3

\* A handler keeps them too while the job behind the chapter has a live lease.
LEMMA HandlersShielded ==
  ASSUME IInv, Service, NEW j \in JobIds, jobs[j].status = "leased", jobs[j].live,
         NEW c \in Chapters, jobs[j].chapter = c, chapters[c].status \in {"writing", "reviewing"}
  PROVE  chapters'[c] = chapters[c]
<1>1. CASE PauseProject
  BY <1>1 DEF PauseProject, PauseQueuedChapters
<1>2. CASE ~PauseProject
  BY <1>2, LiveJobRefuses DEF Service, ServiceStep, Receive, Reject, ReadPassed, DecideRevision, rows
<1> QED  BY <1>1, <1>2

\* A worker beside the one whose lease is live has no live lease of the same chapter.
LEMMA OneHolder ==
  ASSUME IInv, LeasesOK, NEW v \in Workers, NEW w \in Workers, v # w, Busy(v), Busy(w),
         workers[v].chapter = workers[w].chapter, JobActive(w)
  PROVE  ~JobActive(v)
<1>1. workers[v].job \in JobIds /\ workers[w].job \in JobIds
  BY BusyWorker DEF IInv, Busy
<1> QED  BY <1>1 DEF JobActive, MyJob, LeasesOK, JobsPresent, OneJobPerChapter, Unended

\* Whatever the timing, the crashes and the mode: while a worker's lease is live, the chapter
\* it works on is taken from what it cached only by an earlier holder that lost its own.
\* The handlers of GenerationService ask for live leases, _finalize_accepted_chapter queues
\* what is runnable, and the unique index leaves a chapter one job.
THEOREM LeaseShields == Spec => LeaseShieldsChapter
<1> DEFINE Stale(w) == \E v \in Workers \ {w} :
                         /\ workers'[v] # workers[v]
                         /\ workers[v].chapter = workers[w].chapter /\ ~JobActive(v)
           A == \A w \in Working :
                  JobActive(w) /\ CacheFresh(w) /\ UNCHANGED workers[w] =>
                    \/ CacheFresh(w)'
                    \/ \E v \in Workers \ {w} :
                         /\ workers'[v] # workers[v]
                         /\ workers[v].chapter = workers[w].chapter /\ ~JobActive(v)
<1>1. IInv /\ LeasesOK /\ Phases /\ [Next]_vars => A
  <2> SUFFICES ASSUME IInv, LeasesOK, Phases, [Next]_vars,
                      NEW w \in Working, JobActive(w), CacheFresh(w), workers'[w] = workers[w]
               PROVE  CacheFresh(w)' \/ Stale(w)
    OBVIOUS
  <2> DEFINE c == workers[w].chapter
             j == workers[w].job
  <2>1. w \in Workers /\ Busy(w) /\ c \in Chapters /\ j \in JobIds
    BY BusyWorker DEF IInv, Working, Busy
  <2>2. /\ jobs[j].status = "leased" /\ jobs[j].live /\ jobs[j].chapter = c
        /\ chapters[c].status \in {"writing", "reviewing"}
    BY <2>1 DEF JobActive, MyJob, LeasesOK, JobsPresent, Unended, Phases, CacheFresh
  <2>3. SUFFICES ASSUME ~Stale(w)
                 PROVE  /\ chapters'[c].status = chapters[c].status
                        /\ chapters'[c].retries = chapters[c].retries
    BY DEF CacheFresh
  <2>4. CASE chapters' = chapters
    BY <2>4
  <2>5. CASE Service
    BY <2>1, <2>2, <2>5, HandlersShielded
  <2>6. ASSUME NEW v \in Workers, WorkerStep(v) \/ CommitChunks(v) \/ Crash(v), chapters' # chapters
        PROVE  c # workers[v].chapter \/ workers'[v] = workers[v]
    <3>1. ~Claim(v)
      BY <2>6 DEF Claim
    <3>2. Busy(v)
      BY <2>6, <3>1 DEF WorkerStep, Open, StartWriting, SubmitReview, FailAttempt,
         ProviderUnavailable, Accept, Finalize, FinalizeRush, Interrupt, LoseLease, PipelineError,
         StopRenewal, Rollback, Finish, Fail, CommitChunks, Crash, Pipelining, Busy
    <3> QED  BY <2>1, <2>3, <3>2, OneHolder
  <2>7. CASE Machine /\ chapters' # chapters
    <3>1. PICK v \in Workers : WorkerStep(v) \/ CommitChunks(v) \/ Crash(v)
      BY <2>7, RenewalKeepsPhase DEF Machine, LeaseStep, ExpireJob, ExpireProject
    <3> QED  BY <2>1, <2>2, <2>6, <2>7, <3>1, OthersChapter
  <2> QED  BY <2>4, <2>5, <2>7 DEF Next, vars
<1>2. Init => Phases
  BY DEF Init, Phases, Working, IdleWorker
<1>3. Spec => []Phases
  BY <1>2, PhasesKept, Invariance, PTL DEF Spec
<1> HIDE DEF A
<1>4. [][Next]_vars /\ []IInv /\ []LeasesOK /\ []Phases => [][A]_vars
  BY <1>1, PTL
<1>5. Spec => [][A]_vars
  BY <1>3, <1>4, Invariance, LeasesSound, PTL DEF Spec
<1> QED  BY <1>5 DEF A, LeaseShieldsChapter

-----------------------------------------------------------------------------
(* A completed project *)

HasJob(w) == MyJob(w).status = "leased" /\ MyJob(w).chapter = workers[w].chapter
\* a worker still busy when the project is completed has nothing left that could fail
CompletedQuiet ==
  project.status = "completed" =>
    \A w \in Workers : Busy(w) => /\ workers[w].pc = "returned" /\ HasJob(w)
                                  /\ chapters[workers[w].chapter].status = "passed"

\* Nor can what it does fail: a retry of the chapter meets no other job of the chapter,
\* so that the worker ends its job or is killed.
LEMMA CompletedEnds ==
  ASSUME IInv, LInv, LeasesOK, CompletedQuiet, project.status = "completed",
         NEW w \in Workers, WorkerStep(w) \/ CommitChunks(w) \/ Crash(w)
  PROVE  /\ Busy(w) /\ workers' = [workers EXCEPT ![w] = IdleWorker]
         /\ project' = project
<1>1. ~Claim(w)
  BY DEF Claim
<1>2. CASE ~Busy(w)
  BY <1>1, <1>2 DEF WorkerStep, Open, StartWriting, SubmitReview, FailAttempt,
       ProviderUnavailable, Accept, Finalize, FinalizeRush, Interrupt, LoseLease, PipelineError,
       StopRenewal, Rollback, Finish, Fail, CommitChunks, Crash, Pipelining, Busy
<1>3. CASE Busy(w)
  <2>1. workers[w].pc = "returned" /\ HasJob(w)
    BY <1>3 DEF CompletedQuiet
  <2>2. CASE Crash(w)
    BY <1>3, <2>2 DEF Crash, rows
  <2>3. CASE Finish(w)
    <3> DEFINE j  == workers[w].job
               c  == workers[w].chapter
               jb == [jobs EXCEPT ![j] = Terminal("done")]
    <3>1. j \in JobIds /\ jobs[j].status = "leased" /\ jobs[j].chapter = c
      BY <1>3, <2>1, BusyWorker DEF Busy, HasJob, MyJob, IInv
    <3>2. \A k \in JobIds : jb[k].status = "leased" => k # j /\ jobs[k].status = "leased" /\ jb[k] = jobs[k]
      BY <3>1 DEF IInv, RowsOK, Terminal, NoJob
    <3>3. Leased(jb, c) = {}
      BY <3>1, <3>2 DEF Leased, LeasesOK, OneJobPerChapter, Unended
    <3>4. ~EnqueueConflicts(jb, c) /\ MyJob(w).status # "deleted"
      BY <2>1, <3>3 DEF EnqueueConflicts, HasJob
    <3> QED  BY <1>3, <2>3, <3>4 DEF Finish
  <2>4. Finish(w) \/ Crash(w)
    BY <1>1, <2>1 DEF WorkerStep, Open, StartWriting, SubmitReview, FailAttempt,
         ProviderUnavailable, Accept, Finalize, FinalizeRush, Interrupt, LoseLease, PipelineError,
         StopRenewal, Rollback, Fail, CommitChunks, Pipelining, LInv, RushQuiet
  <2> QED  BY <2>2, <2>3, <2>4
<1> QED  BY <1>2, <1>3

\* A worker completes the project only by accepting a chapter.
LEMMA CompletedByFinalize ==
  ASSUME IInv, NEW w \in Workers, WorkerStep(w) \/ CommitChunks(w) \/ Crash(w),
         project.status # "completed", project'.status = "completed"
  PROVE  Finalize(w) \/ FinalizeRush(w)
<1> SUFFICES ASSUME ~Finalize(w), ~FinalizeRush(w) PROVE FALSE
  OBVIOUS
<1> USE DEF IInv
<1>1. \A p \in ProjectRow : [p EXCEPT !.status = "paused"].status = "paused"
  BY DEF ProjectRow
<1>2. CASE FailAttempt(w) \/ ProviderUnavailable(w)
  BY <1>1, <1>2 DEF FailAttempt, ProviderUnavailable, RowsOK
<1>3. CASE Interrupt(w)
  <2>1. workers[w].pc # "idle"
    BY <1>3 DEF Interrupt
  <2>2. AcceptedProject(w) \in ProjectRow
    BY <2>1, AcceptedSound
  <2> QED  BY <1>1, <1>3, <2>2 DEF Interrupt, RowsOK
<1>4. CASE Fail(w)
  <2>1. [project EXCEPT !.status = "paused",
                        !.owner = IF @ = w THEN Nobody ELSE @,
                        !.live  = IF project.owner = w THEN FALSE ELSE @].status = "paused"
    BY DEF RowsOK, ProjectRow
  <2> QED  BY <1>4, <2>1 DEF Fail, rows
<1>5. CASE Claim(w)
  BY <1>5 DEF Claim, RowsOK, ProjectRow
<1>6. CASE \/ Open(w) \/ StartWriting(w) \/ SubmitReview(w) \/ Accept(w) \/ LoseLease(w)
           \/ PipelineError(w) \/ StopRenewal(w) \/ Rollback(w) \/ Finish(w)
           \/ CommitChunks(w) \/ Crash(w)
  <2>1. project' = project
    BY <1>6 DEF Open, StartWriting, SubmitReview, Accept, LoseLease, PipelineError, StopRenewal,
                Rollback, Finish, CommitChunks, Crash, rows
  <2> QED  BY <2>1
<1> QED  BY <1>2, <1>3, <1>4, <1>5, <1>6 DEF WorkerStep

\* A lapse leaves everything but the lease alone.
LEMMA LapseKeeps ==
  ASSUME IInv, LInv, RushMode, LeaseStep
  PROVE  /\ project'.status = project.status /\ UNCHANGED <<chapters, workers>>
         /\ \A j \in JobIds : /\ jobs'[j].status = jobs[j].status
                              /\ jobs'[j].chapter = jobs[j].chapter
                              /\ jobs'[j].deferred = jobs[j].deferred
<1>1. CASE ExpireProject
  BY <1>1 DEF ExpireProject, IInv, RowsOK, ProjectRow
<1>2. CASE \E j \in JobIds : ExpireJob(j)
  <2>1. PICK j \in JobIds : ExpireJob(j)
    BY <1>2
  <2>2. /\ jobs' = [jobs EXCEPT ![j] = [jobs[j] EXCEPT !.live = FALSE]]
        /\ UNCHANGED <<project, chapters, workers>>
    BY <2>1 DEF ExpireJob
  <2> QED  BY <2>2 DEF IInv, RowsOK, SoundJob, JobRow
<1> QED  BY <1>1, <1>2, NeverInRush DEF LeaseStep

\* A retry, a continuation or a resumption leaves a project completed only for a session
\* that had read it running, which cancels no live job; so it is refused beside a worker.
LEMMA CompletedRefuses ==
  ASSUME IInv, LInv, NEW w \in Workers, Busy(w), Service,
         RetryChapter \/ ContinueChapter \/ ResumeProject,
         project'.status = "completed"
  PROVE  FALSE
<1>1. request # NoRequest /\ project' = Running
  BY DEF RetryChapter, ContinueChapter, ResumeProject, Serving, NoRequest
<1>2. Cached.status = "running"
  BY <1>1 DEF Running, MarkProjectRunning, OrmSet, IInv, RowsOK, ProjectRow
<1> QED  BY <1>1, <1>2, ServedBusy, LiveJobRefuses DEF Holds, MyJob

\* No handler leaves a worker busy in a project it completes or finds completed.
LEMMA ServiceQuiet ==
  ASSUME IInv, LInv, CompletedQuiet, Service
  PROVE  CompletedQuiet'
<1> SUFFICES ASSUME project'.status = "completed", NEW w \in Workers, Busy(w)'
    PROVE  (workers[w].pc = "returned" /\ HasJob(w) /\ chapters[workers[w].chapter].status = "passed")'
  BY DEF CompletedQuiet
<1>1. workers' = workers /\ Busy(w)
  BY DEF Service, workerVars, Busy
<1>2. CASE Reject \/ \E op, c : Receive(op, c)
  BY <1>1, <1>2 DEF Reject, Receive, rows, CompletedQuiet, HasJob, MyJob
<1>3. CASE PauseProject
  <2>1. project' = [project EXCEPT !.status = "paused"]
    BY <1>3 DEF PauseProject, OrmSet
  <2> QED  BY <2>1 DEF IInv, RowsOK, ProjectRow
<1>4. ~ReadPassed /\ ~DecideRevision
  BY DEF LInv, RushQuiet, RevisionOps, ReadPassed, DecideRevision, Serving
<1> QED  BY <1>1, <1>2, <1>3, <1>4, Refused, CompletedRefuses DEF Service, ServiceStep

\* The worker that completes the project is the only busy one and has ended its pipeline.
LEMMA MachineQuiet ==
  ASSUME IInv, LInv, LeasesOK, CompletedQuiet, RushMode, Machine
  PROVE  CompletedQuiet'
<1> SUFFICES ASSUME project'.status = "completed" PROVE CompletedQuiet'
  BY DEF CompletedQuiet
<1>1. CASE LeaseStep
  <2>1. \A w \in Workers : Busy(w) => workers[w].job \in JobIds
    BY BusyWorker DEF IInv, Busy
  <2> QED  BY <1>1, <2>1, LapseKeeps DEF CompletedQuiet, HasJob, MyJob, Busy
<1>2. ASSUME NEW w \in Workers, WorkerStep(w) \/ CommitChunks(w) \/ Crash(w)
      PROVE  CompletedQuiet'
  <2>1. CASE project.status = "completed"
    <3>1. Busy(w) /\ workers' = [workers EXCEPT ![w] = IdleWorker]
      BY <1>2, <2>1, CompletedEnds
    <3>2. \A v \in Workers : ~Busy(v)'
      BY <3>1, OthersIdle DEF IInv, WorkersOK, Busy, IdleWorker
    <3> QED  BY <3>2 DEF CompletedQuiet
  <2>2. CASE project.status # "completed"
    <3>1. Finalize(w) \/ FinalizeRush(w)
      BY <1>2, <2>2, CompletedByFinalize
    <3>2. /\ Busy(w) /\ Holds(w)' /\ workers'[w].pc = "returned"
          /\ workers'[w].chapter = workers[w].chapter
          /\ \A v \in Workers \ {w} : workers'[v] = workers[v]
      BY <3>1, ReturnHolds
    <3>3. chapters'[workers'[w].chapter].status = "passed"
      BY <3>1, <3>2, FinalizePasses DEF IInv
    <3>4. \A v \in Workers \ {w} : ~Busy(v)'
      BY <3>2, OthersIdle DEF Busy
    <3>5. HasJob(w)'
      BY <3>2 DEF Holds, HasJob
    <3> QED  BY <3>2, <3>3, <3>4, <3>5 DEF CompletedQuiet
  <2> QED  BY <2>1, <2>2
<1> QED  BY <1>1, <1>2 DEF Machine

\* Only a user's request reopens a completed project: whichever worker is left can
\* neither fail its chapter nor be interrupted.
THEOREM CompletedStays ==
  ASSUME Timely, RushMode
  PROVE  Spec => CompletedStable
<1> DEFINE A == project.status = "completed" /\ project'.status # "completed"
                  => requestsLeft' < requestsLeft
<1>1. Init => CompletedQuiet
  BY DEF Init, CompletedQuiet, Busy, IdleWorker
<1>2. IInv /\ LInv /\ LeasesOK /\ CompletedQuiet /\ [Next]_vars => CompletedQuiet'
  <2>1. CASE UNCHANGED vars
    BY <2>1 DEF vars, CompletedQuiet, HasJob, MyJob, Busy
  <2> QED  BY <2>1, ServiceQuiet, MachineQuiet DEF Next
<1>3. Spec => []CompletedQuiet
  BY <1>1, <1>2, Invariance, LeaseInvariance, LeasesSound, PTL DEF Spec
<1>4. IInv /\ LInv /\ LeasesOK /\ CompletedQuiet /\ [Next]_vars => [A]_vars
  <2> SUFFICES ASSUME IInv, LInv, LeasesOK, CompletedQuiet, Next PROVE A
    OBVIOUS
  <2>1. CASE Machine
    BY <2>1, CompletedEnds, LapseKeeps DEF Machine
  <2> QED  BY <2>1, ServiceCounts DEF Next
<1> HIDE DEF A
<1>5. [][Next]_vars /\ []IInv /\ []LInv /\ []LeasesOK /\ []CompletedQuiet => [][A]_vars
  BY <1>4, PTL
<1>6. Spec => [][A]_vars
  BY <1>3, <1>5, Invariance, LeaseInvariance, LeasesSound, PTL DEF Spec
<1> QED  BY <1>6 DEF A, CompletedStable

=============================================================================
