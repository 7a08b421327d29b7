------------------------ MODULE NovelGenerationProofs ------------------------
(***************************************************************************)
(* What NovelGeneration guarantees for every number of chapters, workers,  *)
(* requests and crashes, timely or not: the rows keep their types, a       *)
(* passed chapter has its accepted attempt, and no worker restarts what a  *)
(* user stopped.                                                           *)
(***************************************************************************)
EXTENDS NovelGeneration, TLAPS, WellFoundedInduction

\* A passed chapter has an accepted attempt; a job that may run has a chapter; so has a
\* request for a chapter; a busy worker has a job and a chapter.
SoundChapter == {r \in ChapterRow : r.status = "passed" => r.accepted}
SoundJob     == {r \in JobRow : r.status \in {"queued", "leased"} => r.chapter \in Chapters}
SoundRequest == {r \in RequestRow : r.op \in ChapterOps => r.chapter \in Chapters}
SoundWorker  == {r \in WorkerRow : r.pc # "idle" => r.job \in JobIds /\ r.chapter \in Chapters}

RowsOK ==
  /\ project \in ProjectRow
  /\ chapters \in [Chapters -> SoundChapter]
  /\ jobs \in [JobIds -> SoundJob]
LocksOK == rowLock \in [0..N -> Workers \cup {Nobody}]
ServiceOK ==
  /\ request \in SoundRequest
  /\ requestsLeft \in 0..MaxRequests
  /\ request # NoRequest => requestsLeft > 0
WorkersOK ==
  /\ workers \in [Workers -> SoundWorker]
  /\ crashesLeft \in 0..MaxCrashes
IInv == RowsOK /\ LocksOK /\ ServiceOK /\ WorkersOK

-----------------------------------------------------------------------------
(* Numbers *)

\* Min of a non-empty set of naturals is its least element (the ORDER BY ... LIMIT 1
\* of the queries over chapters and jobs).
LEMMA MinLeast ==
  ASSUME NEW S, S \subseteq Nat, S # {}
  PROVE  Min(S) \in S /\ \A y \in S : Min(S) <= y
<1> DEFINE R == {p \in Nat \X Nat : p[1] < p[2]}
<1>1. PICK x \in S : \A y \in S : <<y, x>> \notin R
  <2>1. IsWellFoundedOn(R, Nat)
    BY NatLessThanWellFounded DEF OpToRel
  <2> HIDE DEF R
  <2> QED  BY <2>1, WFMin
<1>2. \A y \in S : x <= y
  <2> SUFFICES ASSUME NEW y \in S, y < x PROVE FALSE
    OBVIOUS
  <2>1. <<y, x>> \in R
    OBVIOUS
  <2> QED  BY <1>1, <2>1
<1> QED  BY <1>2 DEF Min

\* The first chapter of a set is one of them, or 0 when there is none.
LEMMA FirstOfSet ==
  ASSUME NEW C, C \subseteq Chapters
  PROVE  FirstOf(C) = 0 \/ FirstOf(C) \in C
<1>1. C \subseteq Nat
  BY StateAssumption DEF Chapters
<1> QED  BY <1>1, MinLeast DEF FirstOf

\* An UPDATE that the session may or may not emit leaves one of the two values.
LEMMA OrmSetMember ==
  ASSUME NEW S, NEW cached, NEW value \in S, NEW stored \in S
  PROVE  OrmSet(cached, value, stored) \in S
BY DEF OrmSet

-----------------------------------------------------------------------------
(* The helpers over generation_jobs keep the table sound *)

\* The empty job row is a row of generation_jobs.
LEMMA NoJobType == NoJob \in JobRow
BY StateAssumption DEF NoJob, JobRow, JobStatus, JobKind

\* A job that is over needs no chapter (mark_done, mark_failed, the cancelling helpers).
LEMMA TerminalSound ==
  ASSUME NEW s \in {"done", "failed", "cancelled"}
  PROVE  Terminal(s) \in SoundJob
<1>1. Terminal(s) \in JobRow /\ Terminal(s).status = s
  BY NoJobType DEF Terminal, JobRow, JobStatus
<1> QED  BY <1>1 DEF SoundJob

\* _cancel_expired_leased_jobs and _cancel_queued_jobs keep the table of jobs sound.
LEMMA CancelSound ==
  ASSUME NEW jb \in [JobIds -> SoundJob], NEW C
  PROVE  /\ CancelExpiredLeasedJobs(jb, C) \in [JobIds -> SoundJob]
         /\ CancelQueuedJobs(jb, C) \in [JobIds -> SoundJob]
BY TerminalSound DEF CancelExpiredLeasedJobs, CancelQueuedJobs

\* So does cancelling the active job of a chapter that failed or was paused.
LEMMA CleanupTerminalSound ==
  ASSUME NEW jb \in [JobIds -> SoundJob], NEW ch, NEW c
  PROVE  CleanupTerminalChapterActiveJob(jb, ch, c) \in [JobIds -> SoundJob]
BY TerminalSound DEF CleanupTerminalChapterActiveJob

\* _enqueue_generate_job inserts only jobs that have a chapter.
LEMMA EnqueueSound ==
  ASSUME NEW jb \in [JobIds -> SoundJob], NEW c \in Chapters, NEW kind \in JobKind
  PROVE  EnqueueGenerateJob(jb, c, kind) \in [JobIds -> SoundJob]
<1> DEFINE new == [NoJob EXCEPT !.status = "queued", !.chapter = c, !.kind = kind]
<1>1. new \in SoundJob
  <2>1. c \in 0..N
    BY StateAssumption DEF Chapters
  <2>2. new \in JobRow /\ new.chapter = c
    BY <2>1, NoJobType DEF JobRow, JobStatus
  <2> HIDE DEF new
  <2> QED  BY <2>2 DEF SoundJob
<1>2. [jb EXCEPT ![Min(Fresh(jb))] = new] \in [JobIds -> SoundJob]
  <2> HIDE DEF new
  <2> QED  BY <1>1
<1> QED  BY <1>2 DEF EnqueueGenerateJob

-----------------------------------------------------------------------------
(* The helpers over chapters keep the table sound *)

\* Pausing queued chapters makes none of them passed.
LEMMA PauseQueuedSound ==
  ASSUME NEW ch \in [Chapters -> SoundChapter], NEW C
  PROVE  PauseQueuedChapters(ch, C) \in [Chapters -> SoundChapter]
<1>1. \A r \in SoundChapter : [r EXCEPT !.status = "paused"] \in SoundChapter
  BY DEF SoundChapter, ChapterRow, ChapterStatus
<1> QED  BY <1>1 DEF PauseQueuedChapters

\* Nor does the repair of chapters left queued without a job.
LEMMA RepairSound ==
  ASSUME NEW ch \in [Chapters -> SoundChapter], NEW jb, NEW after
  PROVE  RepairOrphanQueuedChapters(ch, jb, after) \in [Chapters -> SoundChapter]
BY PauseQueuedSound DEF RepairOrphanQueuedChapters

\* Queueing a chapter keeps the chapters sound, its accepted attempt kept or not.
LEMMA QueueSound ==
  ASSUME NEW ch \in [Chapters -> SoundChapter], NEW c \in Chapters
  PROVE  QueueChapter(ch, c) \in [Chapters -> SoundChapter]
<1>1. [ch[c] EXCEPT !.status = "queued"] \in SoundChapter
  BY DEF SoundChapter, ChapterRow, ChapterStatus
<1> QED  BY <1>1 DEF QueueChapter

\* accept_chapter: the status and the accepted attempt together.
LEMMA AcceptSound ==
  ASSUME NEW r \in ChapterRow
  PROVE  AcceptChapter(r) \in SoundChapter
BY DEF AcceptChapter, SoundChapter, ChapterRow, ChapterStatus

\* apply_review_failure: the chapter fails or is queued again, its retries bounded.
LEMMA ReviewFailedSound ==
  ASSUME NEW r \in ChapterRow, NEW retries \in 0..MaxRetries
  PROVE  ReviewFailed(r, retries) \in SoundChapter
<1>1. Min({retries + 1, MaxRetries}) \in 0..MaxRetries
  <2>1. {retries + 1, MaxRetries} \subseteq Nat
    BY StateAssumption
  <2>2. /\ Min({retries + 1, MaxRetries}) \in Nat
        /\ Min({retries + 1, MaxRetries}) <= MaxRetries
    BY <2>1, MinLeast
  <2> QED  BY <2>2, StateAssumption
<1>2. PICK m \in 0..MaxRetries : m = Min({retries + 1, MaxRetries})
  BY <1>1
<1>3. PICK s \in {"queued", "failed"} :
        ReviewFailed(r, retries) = [r EXCEPT !.retries = m, !.status = s]
  BY <1>2 DEF ReviewFailed
<1> QED  BY <1>3 DEF SoundChapter, ChapterRow, ChapterStatus

\* apply_job_failure leaves a passed or paused chapter alone and fails any other.
LEMMA JobFailedSound ==
  ASSUME NEW r \in SoundChapter
  PROVE  JobFailed(r) \in SoundChapter
BY DEF JobFailed, SoundChapter, ChapterRow, ChapterStatus

-----------------------------------------------------------------------------
(* What follows an accepted chapter *)

ProgressRow == [project : ProjectRow, chapters : [Chapters -> SoundChapter],
                jobs : [JobIds -> SoundJob]]

\* mark_project_running keeps the row a row.
LEMMA MarkRunningType ==
  ASSUME NEW p \in ProjectRow, NEW cached
  PROVE  MarkProjectRunning(p, cached) \in ProjectRow
<1>1. OrmSet(cached, "running", p.status) \in ProjectStatus
  BY DEF OrmSet, ProjectRow, ProjectStatus
<1> QED  BY <1>1 DEF MarkProjectRunning, ProjectRow

\* advance_after_chapter_success keeps the three tables sound, whichever branch it takes.
LEMMA AdvanceSound ==
  ASSUME NEW p \in ProjectRow, NEW cached, NEW ch \in [Chapters -> SoundChapter],
         NEW jb \in [JobIds -> SoundJob], NEW next \in Chapters \cup {0}, NEW goOn
  PROVE  AdvanceAfterChapterSuccess(p, cached, ch, jb, next, goOn) \in ProgressRow
<1> DEFINE adv == AdvanceAfterChapterSuccess(p, cached, ch, jb, next, goOn)
<1>1. ASSUME NEW v \in {"completed", "paused"}
      PROVE  [p EXCEPT !.status = OrmSet(cached, v, @)] \in ProjectRow
  <2>1. OrmSet(cached, v, p.status) \in ProjectStatus
    BY DEF OrmSet, ProjectRow, ProjectStatus
  <2> QED  BY <2>1 DEF ProjectRow
<1>2. CASE next = 0
  BY <1>1, <1>2 DEF AdvanceAfterChapterSuccess, ProgressRow
<1>3. CASE next # 0 /\ ~goOn
  BY <1>1, <1>3 DEF AdvanceAfterChapterSuccess, ProgressRow
<1>4. CASE next # 0 /\ goOn
  <2>1. next \in Chapters /\ "advance" \in JobKind
    BY <1>4 DEF JobKind
  <2>2. EnqueueGenerateJob(jb, next, "advance") \in [JobIds -> SoundJob]
    BY <2>1, EnqueueSound
  <2>3. QueueChapter(ch, next) \in [Chapters -> SoundChapter]
    BY <2>1, QueueSound
  <2> QED
    BY <1>4, <2>2, <2>3, MarkRunningType DEF AdvanceAfterChapterSuccess, ProgressRow
<1> QED  BY <1>2, <1>3, <1>4

\* cleanup_completed_project drops drafts and jobs that are over, and nothing else.
LEMMA CleanupSound ==
  ASSUME NEW s \in ProgressRow, NEW mine
  PROVE  CleanupCompletedProject(s, mine) \in ProgressRow
<1> DEFINE ch == [c \in Chapters |-> [s.chapters[c] EXCEPT !.draft = FALSE]]
           jb == [j \in JobIds |->
                    IF s.jobs[j].status \in {"done", "failed", "cancelled"}
                      THEN [NoJob EXCEPT !.status = "deleted"] ELSE s.jobs[j]]
<1>1. ch \in [Chapters -> SoundChapter]
  BY DEF ProgressRow, SoundChapter, ChapterRow
<1>2. [NoJob EXCEPT !.status = "deleted"] \in SoundJob
  BY NoJobType DEF SoundJob, JobRow, JobStatus
<1>3. jb \in [JobIds -> SoundJob]
  BY <1>2 DEF ProgressRow
<1>4. [s EXCEPT !.chapters = ch, !.jobs = jb] \in ProgressRow
  <2> HIDE DEF ch, jb
  <2> QED  BY <1>1, <1>3 DEF ProgressRow
<1> QED  BY <1>4 DEF CleanupCompletedProject

\* The next and the first runnable chapter are chapters, or there is none (0).
LEMMA RunnableType ==
  ASSUME NEW ch, NEW after
  PROVE  /\ NextRunnableChapter(ch, after) \in Chapters \cup {0}
         /\ FirstRunnableChapter(ch) \in Chapters \cup {0}
         /\ StaleInflightChapter(ch) \in Chapters \cup {0}
<1>1. \A C \in SUBSET Chapters : FirstOf(C) \in Chapters \cup {0}
  BY FirstOfSet
<1> QED  BY <1>1 DEF NextRunnableChapter, FirstRunnableChapter, StaleInflightChapter

-----------------------------------------------------------------------------
(* The handlers *)

\* What the handlers clean up first leaves sound tables.
LEMMA CleanedSound ==
  ASSUME RowsOK, NEW C
  PROVE  /\ CleanedJobs(C) \in [JobIds -> SoundJob]
         /\ CleanedChapters(C) \in [Chapters -> SoundChapter]
         /\ Running \in ProjectRow
<1>1. CleanedJobs(C) \in [JobIds -> SoundJob]
  BY CancelSound DEF CleanedJobs, RowsOK
<1>2. CleanedChapters(C) \in [Chapters -> SoundChapter]
  BY PauseQueuedSound DEF CleanedChapters, RowsOK
<1>3. Running \in ProjectRow
  BY MarkRunningType DEF Running, RowsOK
<1> QED  BY <1>1, <1>2, <1>3

\* A chapter queued again without its accepted text is sound.
LEMMA RequeueSound ==
  ASSUME NEW ch \in [Chapters -> SoundChapter], NEW c \in Chapters
  PROVE  Requeue(ch, c) \in [Chapters -> SoundChapter]
<1>1. [ch[c] EXCEPT !.status = "queued", !.accepted = FALSE] \in SoundChapter
  BY DEF SoundChapter, ChapterRow, ChapterStatus
<1>2. Requeue(ch, c) =
        [ch EXCEPT ![c] = [ch[c] EXCEPT !.status = "queued", !.accepted = FALSE]]
  BY DEF Requeue, QueueChapter
<1> QED  BY <1>1, <1>2

\* start_project and resume_project write sound rows.
LEMMA StartResumeSound ==
  ASSUME RowsOK, StartProject \/ ResumeProject
  PROVE  RowsOK'
<1>1. "advance" \in JobKind
  BY DEF JobKind
<1>2. CASE StartProject
  <2> DEFINE jb == CancelExpiredLeasedJobs(jobs, Chapters)
             ch == RepairOrphanQueuedChapters(chapters, jb, 0)
             c  == FirstRunnableChapter(ch)
  <2>1. jb \in [JobIds -> SoundJob]
    BY CancelSound DEF RowsOK
  <2>2. ch \in [Chapters -> SoundChapter]
    BY RepairSound DEF RowsOK
  <2>3. c \in Chapters
    BY <1>2, RunnableType DEF StartProject
  <2>4. /\ project' = Running
        /\ chapters' = QueueChapter(ch, c)
        /\ jobs' = EnqueueGenerateJob(jb, c, "advance")
    BY <1>2 DEF StartProject, Enqueue
  <2> HIDE DEF jb, ch, c
  <2> QED  BY <1>1, <2>1, <2>2, <2>3, <2>4, CleanedSound, QueueSound, EnqueueSound DEF RowsOK
<1>3. CASE ResumeProject
  <2> DEFINE ch    == CleanedChapters(Chapters)
             stale == StaleInflightChapter(ch)
             c     == IF stale # 0 THEN stale ELSE FirstRunnableChapter(ch)
             jb    == IF Cached.status = "paused" /\ c # 0
                        THEN CleanupTerminalChapterActiveJob(CleanedJobs(Chapters), ch, c)
                        ELSE CleanedJobs(Chapters)
  <2>1. jb \in [JobIds -> SoundJob]
    BY CleanedSound, CleanupTerminalSound
  <2>2. ch \in [Chapters -> SoundChapter]
    BY CleanedSound
  <2>3. c \in Chapters
    BY <1>3, RunnableType DEF ResumeProject
  <2>4. /\ project' = Running
        /\ chapters' = QueueChapter(ch, c)
        /\ jobs' = EnqueueGenerateJob(jb, c, "advance")
    BY <1>3 DEF ResumeProject, Enqueue
  <2> HIDE DEF jb, ch, c
  <2> QED  BY <1>1, <2>1, <2>2, <2>3, <2>4, CleanedSound, QueueSound, EnqueueSound DEF RowsOK
<1> QED  BY <1>2, <1>3

\* pause_project writes sound rows.
LEMMA PauseSound == RowsOK /\ PauseProject => RowsOK'
<1> SUFFICES ASSUME RowsOK, PauseProject PROVE RowsOK'
  OBVIOUS
<1>1. OrmSet(Cached.status, "paused", project.status) \in ProjectStatus
  BY DEF OrmSet, RowsOK, ProjectRow, ProjectStatus
<1>2. project' \in ProjectRow
  BY <1>1 DEF PauseProject, RowsOK, ProjectRow
<1> QED  BY <1>2, CancelSound, PauseQueuedSound DEF PauseProject, RowsOK

\* retry_chapter and continue_chapter write sound rows.
LEMMA RetryContinueSound ==
  ASSUME RowsOK, request \in SoundRequest, RetryChapter \/ ContinueChapter
  PROVE  RowsOK'
<1> DEFINE c  == request.chapter
           ch == CleanedChapters({c})
<1>1. "single" \in JobKind
  BY DEF JobKind
<1>2. c \in Chapters
  BY DEF SoundRequest, ChapterOps, RetryChapter, ContinueChapter, Serving
<1>3. PICK jb \in [JobIds -> SoundJob] :
        /\ project' = Running
        /\ chapters' = Requeue(ch, c)
        /\ jobs' = EnqueueGenerateJob(jb, c, "single")
  <2>1. CleanedJobs({c}) \in [JobIds -> SoundJob]
    BY CleanedSound
  <2>2. CleanupTerminalChapterActiveJob(CleanedJobs({c}), ch, c) \in [JobIds -> SoundJob]
    BY <2>1, CleanupTerminalSound
  <2> QED  BY <2>1, <2>2 DEF RetryChapter, ContinueChapter, Enqueue
<1>4. ch \in [Chapters -> SoundChapter]
  BY CleanedSound
<1> HIDE DEF c, ch
<1> QED  BY <1>1, <1>2, <1>3, <1>4, CleanedSound, RequeueSound, EnqueueSound DEF RowsOK

\* manual_approve_chapter writes sound rows.
LEMMA ApproveSound ==
  ASSUME RowsOK, request \in SoundRequest, ManualApproveChapter
  PROVE  RowsOK'
<1> DEFINE c    == request.chapter
           jb   == CleanedJobs(Chapters)
           ch   == [CleanedChapters(Chapters) EXCEPT ![c] = AcceptChapter(@)]
           rep  == RepairOrphanQueuedChapters(ch, jb, c)
           p    == [project EXCEPT !.current = OrmSet(Cached.current, c, @)]
           next == NextRunnableChapter(rep, c)
           s    == AdvanceAfterChapterSuccess(p, Cached.status, rep, jb, next, project.auto)
<1>1. c \in Chapters /\ c \in 0..N
  BY StateAssumption DEF SoundRequest, ChapterOps, ManualApproveChapter, Serving, Chapters
<1>2. jb \in [JobIds -> SoundJob]
  BY CleanedSound
<1>3. rep \in [Chapters -> SoundChapter]
  <2>1. CleanedChapters(Chapters) \in [Chapters -> SoundChapter]
    BY CleanedSound
  <2>2. AcceptChapter(CleanedChapters(Chapters)[c]) \in SoundChapter
    BY <1>1, <2>1, AcceptSound DEF SoundChapter
  <2>3. ch \in [Chapters -> SoundChapter]
    BY <2>1, <2>2
  <2> QED  BY <2>3, RepairSound
<1>4. p \in ProjectRow
  <2>1. OrmSet(Cached.current, c, project.current) \in 0..N
    BY <1>1 DEF OrmSet, RowsOK, ProjectRow
  <2> QED  BY <2>1 DEF RowsOK, ProjectRow
<1>5. next \in Chapters \cup {0}
  BY RunnableType
<1>6. project' = s.project /\ chapters' = s.chapters /\ jobs' = s.jobs
  BY DEF ManualApproveChapter
<1>7. s \in ProgressRow
  <2> HIDE DEF jb, rep, p, next
  <2> QED  BY <1>2, <1>3, <1>4, <1>5, AdvanceSound
<1> HIDE DEF s
<1> QED  BY <1>6, <1>7 DEF ProgressRow, RowsOK

\* rewrite_from_chapter writes sound rows.
LEMMA RewriteSound ==
  ASSUME RowsOK, request \in SoundRequest, RewriteFromChapter
  PROVE  RowsOK'
<1> DEFINE c     == request.chapter
           ch    == CleanedChapters(Chapters)
           jb    == CleanedJobs(Chapters)
           reset == [d \in Chapters |-> IF d >= c THEN NewChapter ELSE ch[d]]
<1>1. c \in Chapters /\ c - 1 \in 0..N /\ "advance" \in JobKind
  BY StateAssumption
     DEF SoundRequest, ChapterOps, RewriteFromChapter, Serving, Chapters, JobKind
<1>2. /\ jb \in [JobIds -> SoundJob]
      /\ ch \in [Chapters -> SoundChapter]
      /\ Running \in ProjectRow
  BY CleanedSound
<1>3. reset \in [Chapters -> SoundChapter]
  <2>1. NewChapter \in SoundChapter
    BY StateAssumption DEF NewChapter, SoundChapter, ChapterRow, ChapterStatus
  <2> QED  BY <1>2, <2>1
<1>4. project' \in ProjectRow
  <2>1. PICK cur \in 0..N, own \in Workers \cup {Nobody}, live \in BOOLEAN :
          project' = [Running EXCEPT !.current = cur, !.owner = own, !.live = live]
    <3>1. /\ OrmSet(Cached.current, c - 1, Running.current) \in 0..N
          /\ OrmSet(Cached.owner, Nobody, Running.owner) \in Workers \cup {Nobody}
          /\ (IF Cached.owner = Nobody THEN Running.live ELSE FALSE) \in BOOLEAN
      BY <1>1, <1>2 DEF OrmSet, ProjectRow
    <3> QED  BY <3>1 DEF RewriteFromChapter
  <2> QED  BY <1>2, <2>1 DEF ProjectRow
<1>5. chapters' = QueueChapter(reset, c) /\ jobs' = EnqueueGenerateJob(jb, c, "advance")
  BY DEF RewriteFromChapter, Enqueue
<1> HIDE DEF c, jb, reset
<1> QED  BY <1>1, <1>2, <1>3, <1>4, <1>5, QueueSound, EnqueueSound DEF RowsOK

\* A request that is received, served or rejected keeps the invariant.
LEMMA ServiceIInv ==
  ASSUME IInv, Service
  PROVE  IInv'
<1> USE DEF IInv
<1>1. WorkersOK'
  BY DEF Service, workerVars, WorkersOK
<1>2. NoRequest \in SoundRequest
  BY StateAssumption
     DEF NoRequest, SoundRequest, RequestRow, ProjectOps, ChapterOps, ProjectStatus
<1>3. ASSUME NEW op \in ProjectOps \cup ChapterOps \cup {"decide"}, NEW c \in 0..N,
             Receive(op, c), op \in ChapterOps => c \in Chapters
      PROVE  IInv'
  <2>1. request' \in SoundRequest
    BY <1>3 DEF Receive, SoundRequest, RequestRow, RevisionOps, RowsOK, ProjectRow
  <2>2. RowsOK' /\ LocksOK' /\ requestsLeft' = requestsLeft /\ requestsLeft > 0
    BY <1>3 DEF Receive, RowsOK, LocksOK, rows
  <2> QED  BY <1>1, <2>1, <2>2 DEF ServiceOK
<1>4. CASE Reject
  <2>1. RowsOK' /\ LocksOK' /\ requestsLeft' = requestsLeft /\ request' = NoRequest
    BY <1>4 DEF Reject, RowsOK, LocksOK, rows
  <2> QED  BY <1>1, <1>2, <2>1 DEF ServiceOK
<1>5. ASSUME RowsOK', Commit, request # NoRequest
      PROVE  IInv'
  <2>1. LocksOK' /\ request' = NoRequest /\ requestsLeft' = requestsLeft - 1
    BY <1>5 DEF Commit, LocksOK
  <2>2. requestsLeft' \in 0..MaxRequests
    BY <1>5, <2>1, ServiceAssumption DEF ServiceOK
  <2> QED  BY <1>1, <1>2, <1>5, <2>1, <2>2 DEF ServiceOK
<1>6. request.op \in ProjectOps \cup ChapterOps \cup RevisionOps => request # NoRequest
  BY DEF NoRequest, ProjectOps, ChapterOps, RevisionOps
<1>7. CASE StartProject \/ PauseProject \/ ResumeProject
  <2>1. RowsOK'
    BY <1>7, StartResumeSound, PauseSound
  <2>2. Commit /\ request # NoRequest
    BY <1>6, <1>7 DEF StartProject, PauseProject, ResumeProject, Serving, ProjectOps
  <2> QED  BY <1>5, <2>1, <2>2
<1>8. CASE RetryChapter \/ ContinueChapter \/ ManualApproveChapter \/ RewriteFromChapter
  <2>1. RowsOK'
    BY <1>8, RetryContinueSound, ApproveSound, RewriteSound DEF ServiceOK
  <2>2. Commit /\ request # NoRequest
    BY <1>6, <1>8
       DEF RetryChapter, ContinueChapter, ManualApproveChapter, RewriteFromChapter, Serving,
           ChapterOps
  <2> QED  BY <1>5, <2>1, <2>2
<1>9. CASE ReadPassed
  <2>1. [request EXCEPT !.op = "decided"] \in SoundRequest
    BY DEF ServiceOK, SoundRequest, RequestRow, RevisionOps, ChapterOps
  <2>2. RowsOK' /\ LocksOK' /\ requestsLeft' = requestsLeft /\ request # NoRequest
    BY <1>6, <1>9 DEF ReadPassed, RevisionOps, RowsOK, LocksOK, rows
  <2>3. request' = [request EXCEPT !.op = "decided"]
    BY <1>9 DEF ReadPassed
  <2> QED  BY <1>1, <2>1, <2>2, <2>3 DEF ServiceOK
<1>10. CASE DecideRevision
  <2>1. OrmSet(Cached.status, "completed", project.status) \in ProjectStatus
    BY OrmSetMember DEF RowsOK, ProjectRow, ProjectStatus
  <2>2. RowsOK'
    BY <1>10, <2>1 DEF DecideRevision, RowsOK, ProjectRow
  <2>3. Commit /\ request # NoRequest
    BY <1>6, <1>10 DEF DecideRevision, Serving, RevisionOps
  <2> QED  BY <1>5, <2>2, <2>3
<1>11. 0 \in 0..N /\ Chapters \subseteq 0..N /\ ProjectOps \cap ChapterOps = {}
       /\ "decide" \notin ChapterOps
  BY StateAssumption DEF Chapters, ProjectOps, ChapterOps
<1> QED  BY <1>3, <1>4, <1>7, <1>8, <1>9, <1>10, <1>11 DEF Service, ServiceStep

-----------------------------------------------------------------------------
(* The workers *)

\* What an action of a busy worker may rely on.
LEMMA BusyWorker ==
  ASSUME RowsOK, WorkersOK, NEW w \in Workers, workers[w].pc # "idle"
  PROVE  /\ workers[w].job \in JobIds /\ workers[w].chapter \in Chapters
         /\ MyJob(w) \in SoundJob
         /\ chapters[workers[w].chapter] \in SoundChapter
<1>1. workers[w].job \in JobIds /\ workers[w].chapter \in Chapters
  BY DEF WorkersOK, SoundWorker
<1> QED  BY <1>1 DEF RowsOK, MyJob

\* A worker that only moves on to another phase is still sound.
LEMMA GoToSound ==
  ASSUME WorkersOK, NEW w \in Workers, workers[w].pc # "idle",
         NEW pc \in {"returned", "raised", "failing", "memory"},
         GoTo(w, pc)
  PROVE  workers' \in [Workers -> SoundWorker]
<1>1. [workers[w] EXCEPT !.pc = pc] \in SoundWorker
  BY DEF WorkersOK, SoundWorker, WorkerRow, Pipelining
<1> QED  BY <1>1 DEF GoTo, WorkersOK

\* A worker back in its loop is sound.
LEMMA IdleSound == IdleWorker \in SoundWorker
<1>1. IdleWorker \in WorkerRow
  BY StateAssumption
     DEF IdleWorker, WorkerRow, JobKind, ChapterStatus, Pipelining
<1> QED  BY <1>1 DEF IdleWorker, SoundWorker

\* Releasing the row locks of a transaction leaves a table of locks.
LEMMA ReleaseLocks ==
  ASSUME LocksOK, NEW w, Release(w)
  PROVE  LocksOK'
BY DEF Release, LocksOK

\* Claiming: the job taken has a chapter, because only queued and leased jobs are taken.
LEMMA ClaimSound ==
  ASSUME RowsOK, WorkersOK, NEW w \in Workers, Claim(w)
  PROVE  RowsOK' /\ WorkersOK'
<1> DEFINE j == Min(ClaimableJobs)
<1>1. j \in JobIds /\ jobs[j].status \in {"queued", "leased"}
  <2>1. ClaimableJobs \subseteq Nat /\ ClaimableJobs # {}
    <3>1. JobIds \subseteq Nat
      BY StateAssumption DEF JobIds
    <3> QED  BY <3>1 DEF Claim, ClaimableJobs
  <2>2. j \in ClaimableJobs
    BY <2>1, MinLeast
  <2> QED  BY <2>2 DEF ClaimableJobs
<1>2. jobs[j] \in SoundJob /\ jobs[j].chapter \in Chapters
  BY <1>1 DEF RowsOK, SoundJob
<1>3. [jobs[j] EXCEPT !.status = "leased", !.owner = w, !.live = TRUE] \in SoundJob
  BY <1>2 DEF SoundJob, JobRow, JobStatus
<1>4. jobs' = [jobs EXCEPT ![j] =
                 [jobs[j] EXCEPT !.status = "leased", !.owner = w, !.live = TRUE]]
  BY DEF Claim
<1>5. project' \in ProjectRow
  BY DEF Claim, RowsOK, ProjectRow
<1> DEFINE new == [IdleWorker EXCEPT
                     !.pc = "claimed", !.job = j, !.chapter = jobs[j].chapter,
                     !.kind = jobs[j].kind, !.current = project.current,
                     !.deferred = jobs[j].deferred]
<1>6. new \in SoundWorker
  <2>1. IdleWorker \in WorkerRow
    BY IdleSound DEF SoundWorker
  <2>2. /\ j \in 0..MaxJobs /\ jobs[j].chapter \in 0..N /\ jobs[j].kind \in JobKind
        /\ project.current \in 0..N /\ jobs[j].deferred \in BOOLEAN
    BY <1>1, <1>2, StateAssumption DEF SoundJob, JobRow, RowsOK, ProjectRow, JobIds
  <2>3. new \in WorkerRow /\ new.job = j /\ new.chapter = jobs[j].chapter
    <3> HIDE DEF j
    <3> QED  BY <2>1, <2>2 DEF WorkerRow, Pipelining
  <2> HIDE DEF new, j
  <2> QED  BY <1>1, <1>2, <2>3 DEF SoundWorker
<1>7. workers' = [workers EXCEPT ![w] = new] /\ UNCHANGED <<chapters, crashesLeft>>
  BY DEF Claim
<1> HIDE DEF new, j
<1> QED  BY <1>1, <1>3, <1>4, <1>5, <1>6, <1>7 DEF RowsOK, WorkersOK

\* Renewals and lapses change no column but the flag of a lease.
LEMMA LeaseStepIInv ==
  ASSUME IInv, LeaseStep, UNCHANGED serviceVars
  PROVE  IInv'
<1> USE DEF IInv
<1>1. ServiceOK'
  BY DEF ServiceOK, serviceVars
<1>2. ASSUME NEW j, NEW live \in BOOLEAN
      PROVE  [jobs EXCEPT ![j].live = live] \in [JobIds -> SoundJob]
  <2>1. \A k \in JobIds : [jobs[k] EXCEPT !.live = live] \in SoundJob
    BY DEF RowsOK, SoundJob, JobRow
  <2> QED  BY <2>1 DEF RowsOK
<1>3. \A live \in BOOLEAN : [project EXCEPT !.live = live] \in ProjectRow
  BY DEF RowsOK, ProjectRow
<1>4. ASSUME NEW w \in Workers, NEW hung \in BOOLEAN, NEW late \in BOOLEAN,
             workers[w].pc # "idle"
      PROVE  [workers EXCEPT ![w].hung = hung, ![w].late = late] \in [Workers -> SoundWorker]
  <2>1. [workers[w] EXCEPT !.hung = hung, !.late = late] \in SoundWorker
    BY DEF WorkersOK, SoundWorker, WorkerRow
  <2> QED  BY <2>1 DEF WorkersOK
<1>5. ASSUME NEW w \in Workers, Renew(w)
      PROVE  IInv'
  <2>1. workers[w].pc # "idle" /\ MyJob(w).live \in BOOLEAN
    <3>1. workers[w].pc # "idle"
      BY <1>5 DEF Renew, Pipelining
    <3> QED  BY <3>1, BusyWorker DEF SoundJob, JobRow
  <2>2. jobs' \in [JobIds -> SoundJob] /\ project' \in ProjectRow
    <3>1. PICK live \in BOOLEAN :
            /\ jobs' = [jobs EXCEPT ![workers[w].job].live = live]
            /\ project' = IF project.owner = w THEN [project EXCEPT !.live = live]
                                               ELSE project
      BY <1>5, <2>1 DEF Renew
    <3> QED  BY <1>2, <1>3, <3>1 DEF RowsOK
  <2>3. workers' \in [Workers -> SoundWorker] /\ UNCHANGED <<chapters, rowLock, crashesLeft>>
    <3>1. workers[w].hung \in BOOLEAN
      BY DEF WorkersOK, SoundWorker, WorkerRow
    <3> QED  BY <1>4, <1>5, <2>1, <3>1 DEF Renew
  <2> QED  BY <1>1, <2>2, <2>3 DEF RowsOK, LocksOK, WorkersOK
<1>6. ASSUME NEW w \in Workers, RenewalHangs(w)
      PROVE  IInv'
  <2>1. workers[w].pc # "idle"
    BY <1>6 DEF RenewalHangs, Pipelining
  <2>2. workers' \in [Workers -> SoundWorker] /\ UNCHANGED <<rows, rowLock, crashesLeft>>
    BY <1>4, <1>6, <2>1 DEF RenewalHangs
  <2> QED  BY <1>1, <2>2 DEF RowsOK, LocksOK, WorkersOK, rows
<1>7. ASSUME NEW j \in JobIds, ExpireJob(j)
      PROVE  IInv'
  <2>1. jobs' \in [JobIds -> SoundJob]
    BY <1>2, <1>7 DEF ExpireJob
  <2> QED  BY <1>1, <1>7, <2>1 DEF ExpireJob, RowsOK, LocksOK, WorkersOK
<1>8. CASE ExpireProject
  <2>1. project' \in ProjectRow
    BY <1>3, <1>8 DEF ExpireProject
  <2> QED  BY <1>1, <1>8, <2>1 DEF ExpireProject, RowsOK, LocksOK, WorkersOK
<1> QED  BY <1>5, <1>6, <1>7, <1>8 DEF LeaseStep

\* Opening a chapter and starting to write it.
LEMMA OpenSound ==
  ASSUME RowsOK, WorkersOK, NEW w \in Workers, Open(w) \/ StartWriting(w)
  PROVE  RowsOK' /\ WorkersOK'
<1>1. workers[w].pc # "idle"
  BY DEF Open, StartWriting
<1> DEFINE c == workers[w].chapter
<1>2. c \in Chapters /\ chapters[c] \in SoundChapter
  BY <1>1, BusyWorker
<1>3. CASE Open(w)
  <2>1. PICK pc \in {"returned", "opened"} :
          workers' = [workers EXCEPT ![w].pc = pc, ![w].status = chapters[c].status,
                                     ![w].retries = chapters[c].retries]
    BY <1>3 DEF Open
  <2>2. ASSUME NEW st \in ChapterStatus, NEW re \in 0..MaxRetries
        PROVE  [workers[w] EXCEPT !.pc = pc, !.status = st, !.retries = re] \in SoundWorker
    BY <1>1 DEF WorkersOK, SoundWorker, WorkerRow, Pipelining
  <2>3. workers' \in [Workers -> SoundWorker]
    <3>1. chapters[c].status \in ChapterStatus /\ chapters[c].retries \in 0..MaxRetries
      BY <1>2 DEF SoundChapter, ChapterRow
    <3> QED  BY <2>1, <2>2, <3>1 DEF WorkersOK
  <2> QED  BY <1>3, <2>3 DEF Open, RowsOK, WorkersOK, rows
<1>4. CASE StartWriting(w)
  <2>1. [workers[w] EXCEPT !.pc = "writing", !.status = "writing"] \in SoundWorker
    BY <1>1 DEF WorkersOK, SoundWorker, WorkerRow, Pipelining, ChapterStatus
  <2>2. [chapters[c] EXCEPT !.status = OrmSet(workers[w].status, "writing", @)]
          \in SoundChapter
    <3>1. PICK s \in {"writing", chapters[c].status} :
            s = OrmSet(workers[w].status, "writing", chapters[c].status)
      BY DEF OrmSet
    <3>2. [chapters[c] EXCEPT !.status = s] \in SoundChapter
      BY <1>2 DEF SoundChapter, ChapterRow, ChapterStatus
    <3> QED  BY <3>1, <3>2
  <2>3. chapters' = [chapters EXCEPT ![c] =
          [chapters[c] EXCEPT !.status = OrmSet(workers[w].status, "writing", @)]]
    BY <1>4 DEF StartWriting
  <2>4. /\ workers' = [workers EXCEPT ![w] =
                         [workers[w] EXCEPT !.pc = "writing", !.status = "writing"]]
        /\ UNCHANGED <<project, jobs, crashesLeft>>
    BY <1>4 DEF StartWriting, WorkersOK
  <2> HIDE DEF c
  <2> QED  BY <2>1, <2>2, <2>3, <2>4, <1>2 DEF RowsOK, WorkersOK
<1> QED  BY <1>3, <1>4

\* Text that is committed, and a text handed to the critic.
LEMMA WriteSound ==
  ASSUME RowsOK, WorkersOK, NEW w \in Workers, CommitChunks(w) \/ SubmitReview(w)
  PROVE  RowsOK' /\ WorkersOK'
<1>1. workers[w].pc = "writing"
  BY DEF CommitChunks, SubmitReview
<1> DEFINE c == workers[w].chapter
<1>2. c \in Chapters /\ chapters[c] \in SoundChapter
  BY <1>1, BusyWorker
<1>3. PICK s \in {chapters[c].status, "reviewing"} :
        chapters' = [chapters EXCEPT ![c] = [chapters[c] EXCEPT !.status = s, !.draft = TRUE]]
  <2>1. CASE CommitChunks(w)
    <3>1. [chapters[c] EXCEPT !.status = chapters[c].status, !.draft = TRUE]
            = [chapters[c] EXCEPT !.draft = TRUE]
      BY <1>2 DEF SoundChapter, ChapterRow
    <3> QED  BY <2>1, <3>1 DEF CommitChunks
  <2>2. CASE SubmitReview(w)
    <3>1. OrmSet(workers[w].status, "reviewing", chapters[c].status)
            \in {chapters[c].status, "reviewing"}
      BY DEF OrmSet
    <3>2. chapters' = [chapters EXCEPT ![c] = [chapters[c] EXCEPT
            !.status = OrmSet(workers[w].status, "reviewing", chapters[c].status),
            !.draft = TRUE]]
      BY <2>2 DEF SubmitReview
    <3> QED  BY <3>1, <3>2
  <2> QED  BY <2>1, <2>2
<1>4. [chapters[c] EXCEPT !.status = s, !.draft = TRUE] \in SoundChapter
  BY <1>2 DEF SoundChapter, ChapterRow, ChapterStatus
<1>5. workers' \in [Workers -> SoundWorker]
  <2>1. [workers[w] EXCEPT !.pc = "reviewing", !.status = "reviewing"] \in SoundWorker
    BY <1>1 DEF WorkersOK, SoundWorker, WorkerRow, Pipelining, ChapterStatus
  <2>2. \/ workers' = workers
        \/ workers' = [workers EXCEPT ![w] =
                         [workers[w] EXCEPT !.pc = "reviewing", !.status = "reviewing"]]
    BY DEF CommitChunks, SubmitReview
  <2> QED  BY <2>1, <2>2 DEF WorkersOK
<1>6. UNCHANGED <<project, jobs, crashesLeft>>
  BY DEF CommitChunks, SubmitReview
<1> HIDE DEF c
<1> QED  BY <1>2, <1>3, <1>4, <1>5, <1>6 DEF RowsOK, WorkersOK

\* The chapter of a worker edited to a sound row, and the project stopped.
LEMMA EditedSound ==
  ASSUME RowsOK, NEW c \in Chapters, NEW row \in SoundChapter, NEW p \in ProjectRow,
         project' \in {project, p, [p EXCEPT !.status = "paused"]},
         chapters' = [chapters EXCEPT ![c] = row]
  PROVE  project' \in ProjectRow /\ chapters' \in [Chapters -> SoundChapter]
BY DEF RowsOK, ProjectRow, ProjectStatus

\* A rejected draft, and a provider that cannot be used.
LEMMA FailAttemptSound ==
  ASSUME RowsOK, WorkersOK, NEW w \in Workers, FailAttempt(w)
  PROVE  RowsOK' /\ WorkersOK'
<1> DEFINE c == workers[w].chapter
           again == RetriesLeft(workers[w].retries)
<1>1. workers[w].pc # "idle" /\ workers[w] \in SoundWorker
  BY DEF FailAttempt, WorkersOK
<1>2. c \in Chapters /\ chapters[c] \in ChapterRow /\ workers[w].retries \in 0..MaxRetries
  BY <1>1, BusyWorker DEF SoundChapter, SoundWorker, WorkerRow
<1>3. project' \in ProjectRow /\ chapters' \in [Chapters -> SoundChapter]
  <2>1. ReviewFailed(chapters[c], workers[w].retries) \in SoundChapter
    BY <1>2, ReviewFailedSound
  <2>2. chapters' = [chapters EXCEPT ![c] = ReviewFailed(chapters[c], workers[w].retries)]
    BY DEF FailAttempt
  <2>3. project' \in {project, [project EXCEPT !.status = "paused"]}
    BY DEF FailAttempt
  <2> QED  BY <1>2, <2>1, <2>2, <2>3, EditedSound DEF RowsOK
<1>4. jobs' \in [JobIds -> SoundJob]
  <2>1. \A k \in JobIds : [jobs[k] EXCEPT !.deferred = TRUE] \in SoundJob
    BY DEF RowsOK, SoundJob, JobRow
  <2>2. jobs' \in {jobs, [jobs EXCEPT ![workers[w].job].deferred = TRUE]}
    BY DEF FailAttempt
  <2> QED  BY <2>1, <2>2 DEF RowsOK
<1>5. workers' \in [Workers -> SoundWorker]
  <2>1. PICK d \in BOOLEAN :
          workers' = [workers EXCEPT ![w].pc = "returned", ![w].deferred = d]
    <3>1. (workers[w].deferred \/ again) \in BOOLEAN
      OBVIOUS
    <3> QED  BY <3>1 DEF FailAttempt
  <2>2. [workers[w] EXCEPT !.pc = "returned", !.deferred = d] \in SoundWorker
    BY <1>1 DEF SoundWorker, WorkerRow
  <2> QED  BY <2>1, <2>2 DEF WorkersOK
<1> QED  BY <1>3, <1>4, <1>5 DEF FailAttempt, RowsOK, WorkersOK

\* A provider that cannot be used fails the chapter.
LEMMA ProviderSound ==
  ASSUME RowsOK, WorkersOK, NEW w \in Workers, ProviderUnavailable(w)
  PROVE  RowsOK' /\ WorkersOK'
<1> DEFINE c == workers[w].chapter
<1>1. workers[w].pc # "idle"
  BY DEF ProviderUnavailable
<1>2. c \in Chapters /\ [chapters[c] EXCEPT !.status = "failed"] \in SoundChapter
  BY <1>1, BusyWorker DEF SoundChapter, ChapterRow, ChapterStatus
<1>3. /\ chapters' = [chapters EXCEPT ![c] = [chapters[c] EXCEPT !.status = "failed"]]
      /\ project' = [project EXCEPT !.status = "paused"]
      /\ GoTo(w, "returned") /\ UNCHANGED <<jobs, crashesLeft>>
  BY DEF ProviderUnavailable
<1>4. project' \in ProjectRow /\ chapters' \in [Chapters -> SoundChapter]
  <2> HIDE DEF c
  <2> QED  BY <1>2, <1>3, EditedSound DEF RowsOK
<1>5. workers' \in [Workers -> SoundWorker]
  BY <1>1, <1>3, GoToSound
<1> QED  BY <1>3, <1>4, <1>5 DEF RowsOK, WorkersOK

\* The accepted chapter and its project, as the open transaction holds them.
LEMMA AcceptedSound ==
  ASSUME RowsOK, WorkersOK, NEW w \in Workers, workers[w].pc # "idle"
  PROVE  /\ AcceptedRow(w) \in SoundChapter
         /\ AcceptedProject(w) \in ProjectRow
<1> DEFINE c == workers[w].chapter
<1>1. c \in Chapters /\ chapters[c] \in ChapterRow
  BY BusyWorker DEF SoundChapter
<1>2. AcceptedRow(w) \in SoundChapter
  <2>1. AcceptChapter(chapters[c]) \in SoundChapter
    BY <1>1, AcceptSound
  <2> QED  BY <2>1 DEF AcceptedRow, SoundChapter, ChapterRow
<1>3. OrmSet(workers[w].current, c, project.current) \in 0..N
  <2>1. c \in 0..N
    BY <1>1, StateAssumption DEF Chapters
  <2> QED  BY <2>1 DEF OrmSet, RowsOK, ProjectRow
<1>4. AcceptedProject(w) \in ProjectRow
  BY <1>3 DEF AcceptedProject, RowsOK, ProjectRow
<1> QED  BY <1>2, <1>4

\* What _finalize_accepted_chapter commits.
LEMMA FinalizeSound ==
  ASSUME RowsOK, WorkersOK, NEW w \in Workers, Finalize(w) \/ FinalizeRush(w)
  PROVE  RowsOK' /\ WorkersOK'
<1> DEFINE c    == workers[w].chapter
           rep  == RepairOrphanQueuedChapters([chapters EXCEPT ![c] = AcceptedRow(w)], jobs, c)
           next == NextRunnableChapter(rep, c)
           goOn == project.auto /\ workers[w].kind # "single"
           s    == AdvanceAfterChapterSuccess(AcceptedProject(w), "running", rep, jobs,
                                              next, goOn)
           done == IF next = 0 THEN CleanupCompletedProject(s, workers[w].job) ELSE s
<1>1. workers[w].pc # "idle"
  BY DEF Finalize, FinalizeRush, FinalizeAccepted
<1>2. AcceptedRow(w) \in SoundChapter /\ AcceptedProject(w) \in ProjectRow
  BY <1>1, AcceptedSound
<1>3. rep \in [Chapters -> SoundChapter]
  <2>1. [chapters EXCEPT ![c] = AcceptedRow(w)] \in [Chapters -> SoundChapter]
    BY <1>2 DEF RowsOK
  <2> QED  BY <2>1, RepairSound
<1>4. next \in Chapters \cup {0}
  BY RunnableType
<1>5. s \in ProgressRow
  <2> HIDE DEF rep, next, goOn
  <2> QED  BY <1>2, <1>3, <1>4, AdvanceSound DEF RowsOK
<1>6. done \in ProgressRow
  <2> HIDE DEF s, next
  <2> QED  BY <1>5, CleanupSound
<1>7. /\ project' = done.project /\ chapters' = done.chapters /\ jobs' = done.jobs
      /\ GoTo(w, "returned") /\ crashesLeft' = crashesLeft
  BY DEF Finalize, FinalizeRush, FinalizeAccepted
<1>8. workers' \in [Workers -> SoundWorker]
  BY <1>1, <1>7, GoToSound
<1> HIDE DEF done
<1> QED  BY <1>6, <1>7, <1>8 DEF ProgressRow, RowsOK, WorkersOK

\* What _pause_current_generation commits, the acceptance of the open transaction included.
LEMMA InterruptSound ==
  ASSUME RowsOK, WorkersOK, NEW w \in Workers, Interrupt(w)
  PROVE  RowsOK' /\ WorkersOK'
<1> DEFINE c == workers[w].chapter
<1>1. workers[w].pc # "idle"
  BY DEF Interrupt
<1>2. c \in Chapters
  BY <1>1, BusyWorker
<1>3. /\ [chapters[c] EXCEPT !.status = "paused"] \in SoundChapter
      /\ [AcceptedRow(w) EXCEPT !.status = "paused"] \in SoundChapter
  <2>1. \A r \in SoundChapter : [r EXCEPT !.status = "paused"] \in SoundChapter
    BY DEF SoundChapter, ChapterRow, ChapterStatus
  <2> QED  BY <1>1, <2>1, BusyWorker, AcceptedSound
<1>4. /\ GoTo(w, "returned") /\ UNCHANGED <<jobs, crashesLeft>>
      /\ \/ /\ chapters' = [chapters EXCEPT ![c] = [AcceptedRow(w) EXCEPT !.status = "paused"]]
            /\ project' = [AcceptedProject(w) EXCEPT !.status = "paused"]
         \/ /\ chapters' = [chapters EXCEPT ![c] = [chapters[c] EXCEPT !.status = "paused"]]
            /\ project' = [project EXCEPT !.status = "paused"]
  BY DEF Interrupt
<1>5. project' \in ProjectRow /\ chapters' \in [Chapters -> SoundChapter]
  <2>1. AcceptedProject(w) \in ProjectRow /\ project \in ProjectRow
    BY <1>1, AcceptedSound DEF RowsOK
  <2> HIDE DEF c
  <2> QED  BY <1>2, <1>3, <1>4, <2>1, EditedSound
<1>6. workers' \in [Workers -> SoundWorker]
  BY <1>1, <1>4, GoToSound
<1> QED  BY <1>4, <1>5, <1>6 DEF RowsOK, WorkersOK

\* The end of the loop: job done and deferred retry, a failed job, a crash, and the steps
\* that only move on.
LEMMA EndSound ==
  ASSUME RowsOK, WorkersOK, NEW w \in Workers,
         \/ Finish(w) \/ Fail(w) \/ Crash(w)
         \/ Accept(w) \/ LoseLease(w) \/ PipelineError(w) \/ StopRenewal(w) \/ Rollback(w)
  PROVE  RowsOK' /\ WorkersOK'
<1> DEFINE c == workers[w].chapter
           j == workers[w].job
<1>1. workers[w].pc # "idle"
  BY DEF Finish, Fail, Crash, Accept, LoseLease, PipelineError, StopRenewal, Rollback, Pipelining
<1>2. c \in Chapters /\ chapters[c] \in SoundChapter
  BY <1>1, BusyWorker
<1>3. \A s \in {"done", "failed"} : [jobs EXCEPT ![j] = Terminal(s)] \in [JobIds -> SoundJob]
  BY TerminalSound DEF RowsOK
<1>4. [workers EXCEPT ![w] = IdleWorker] \in [Workers -> SoundWorker]
  BY IdleSound DEF WorkersOK
<1>5. CASE Finish(w)
  <2>1. UNCHANGED <<project, chapters, crashesLeft>>
    BY <1>5 DEF Finish
  <2>2. CASE GoTo(w, "failing") /\ jobs' = jobs
    BY <1>1, <2>1, <2>2, GoToSound DEF RowsOK, WorkersOK
  <2>3. CASE ~(GoTo(w, "failing") /\ jobs' = jobs)
    <3> DEFINE jb == [jobs EXCEPT ![j] = Terminal("done")]
    <3>1. /\ workers' = [workers EXCEPT ![w] = IdleWorker]
          /\ jobs' \in {jb, EnqueueGenerateJob(jb, c, "advance")}
      BY <1>5, <2>3 DEF Finish
    <3>2. jb \in [JobIds -> SoundJob] /\ "advance" \in JobKind
      BY <1>3 DEF JobKind
    <3>3. jobs' \in [JobIds -> SoundJob]
      <4> HIDE DEF jb, c
      <4> QED  BY <1>2, <3>1, <3>2, EnqueueSound
    <3> QED  BY <1>4, <2>1, <3>1, <3>3 DEF RowsOK, WorkersOK
  <2> QED  BY <2>2, <2>3
<1>6. CASE Fail(w)
  <2>1. workers' \in [Workers -> SoundWorker] /\ crashesLeft' = crashesLeft
    BY <1>4, <1>6 DEF Fail
  <2>2. CASE UNCHANGED rows
    BY <2>1, <2>2 DEF RowsOK, WorkersOK, rows
  <2>3. CASE ~UNCHANGED rows
    <3>1. /\ jobs' = [jobs EXCEPT ![j] = Terminal("failed")]
          /\ chapters' = [chapters EXCEPT ![c] = JobFailed(chapters[c])]
          /\ project' = [project EXCEPT
               !.status = "paused",
               !.owner = IF @ = w THEN Nobody ELSE @,
               !.live  = IF project.owner = w THEN FALSE ELSE @]
      BY <1>6, <2>3 DEF Fail
    <3>2. project' \in ProjectRow
      BY <3>1 DEF RowsOK, ProjectRow, ProjectStatus
    <3>3. chapters' \in [Chapters -> SoundChapter]
      BY <1>2, <3>1, JobFailedSound DEF RowsOK
    <3> QED  BY <1>3, <2>1, <3>1, <3>2, <3>3 DEF RowsOK, WorkersOK
  <2> QED  BY <2>2, <2>3
<1>7. CASE Crash(w)
  <2>1. crashesLeft' \in 0..MaxCrashes
    BY <1>7, WorkerAssumption DEF Crash, WorkersOK
  <2> QED  BY <1>4, <1>7, <2>1 DEF Crash, RowsOK, WorkersOK, rows
<1>8. CASE StopRenewal(w)
  <2>1. [workers[w] EXCEPT !.hung = FALSE] \in SoundWorker
    BY DEF WorkersOK, SoundWorker, WorkerRow
  <2>2. workers' \in [Workers -> SoundWorker]
    BY <1>8, <2>1 DEF StopRenewal, WorkersOK
  <2> QED  BY <1>8, <2>2 DEF StopRenewal, RowsOK, WorkersOK, rows
<1>9. CASE Accept(w) \/ LoseLease(w) \/ PipelineError(w) \/ Rollback(w)
  <2>1. PICK pc \in {"raised", "failing", "memory"} : GoTo(w, pc)
    BY <1>9 DEF Accept, LoseLease, PipelineError, Rollback
  <2>2. UNCHANGED <<rows, crashesLeft>>
    BY <1>9 DEF Accept, LoseLease, PipelineError, Rollback
  <2>3. workers' \in [Workers -> SoundWorker]
    BY <1>1, <2>1, GoToSound
  <2> QED  BY <2>2, <2>3 DEF RowsOK, WorkersOK, rows
<1> QED  BY <1>5, <1>6, <1>7, <1>8, <1>9

\* Every step of a worker leaves a table of row locks.
LEMMA WorkerLocks ==
  ASSUME LocksOK, NEW w \in Workers, WorkerStep(w) \/ CommitChunks(w) \/ Crash(w)
  PROVE  LocksOK'
<1>1. CASE Accept(w)
  BY <1>1 DEF Accept, LocksOK
<1>2. CASE \/ Finalize(w) \/ FinalizeRush(w) \/ Interrupt(w) \/ LoseLease(w) \/ Rollback(w)
           \/ Crash(w)
  BY <1>2, ReleaseLocks DEF Finalize, FinalizeRush, FinalizeAccepted, Interrupt, LoseLease,
                            Rollback, Crash
<1>3. CASE \/ Claim(w) \/ Open(w) \/ StartWriting(w) \/ SubmitReview(w) \/ FailAttempt(w)
           \/ ProviderUnavailable(w) \/ PipelineError(w) \/ StopRenewal(w) \/ Finish(w)
           \/ Fail(w) \/ CommitChunks(w)
  BY <1>3 DEF Claim, Open, StartWriting, SubmitReview, FailAttempt, ProviderUnavailable,
              PipelineError, StopRenewal, Finish, Fail, CommitChunks, LocksOK
<1> QED  BY <1>1, <1>2, <1>3 DEF WorkerStep

\* A step of the workers, or of time, keeps the invariant.
LEMMA MachineIInv ==
  ASSUME IInv, Machine
  PROVE  IInv'
<1> USE DEF IInv
<1>1. ServiceOK' /\ UNCHANGED serviceVars
  BY DEF Machine, ServiceOK, serviceVars
<1>2. ASSUME NEW w \in Workers, WorkerStep(w) \/ CommitChunks(w) \/ Crash(w)
      PROVE  RowsOK' /\ WorkersOK'
  BY <1>2, ClaimSound, OpenSound, WriteSound, FailAttemptSound, ProviderSound,
     FinalizeSound, InterruptSound, EndSound DEF WorkerStep
<1>3. CASE LeaseStep
  BY <1>1, <1>3, LeaseStepIInv
<1> QED  BY <1>1, <1>2, <1>3, WorkerLocks DEF Machine

-----------------------------------------------------------------------------
\* A project just imported satisfies the invariant.
LEMMA InitIInv == Init => IInv
<1> SUFFICES ASSUME Init PROVE IInv
  OBVIOUS
<1>1. RowsOK
  <2>1. project \in ProjectRow
    <3>1. AutoModes \subseteq BOOLEAN
      BY AutoModesAssumption
    <3>2. 0 \in 0..N
      BY StateAssumption
    <3> QED  BY <3>1, <3>2 DEF Init, ProjectRow, ProjectStatus
  <2>2. NewChapter \in SoundChapter
    BY StateAssumption DEF NewChapter, SoundChapter, ChapterRow, ChapterStatus
  <2>3. NoJob \in SoundJob
    BY NoJobType DEF NoJob, SoundJob
  <2> QED  BY <2>1, <2>2, <2>3 DEF Init, RowsOK
<1>2. LocksOK
  BY DEF Init, LocksOK, NoLocks
<1>3. ServiceOK
  BY StateAssumption, ServiceAssumption
     DEF Init, ServiceOK, NoRequest, SoundRequest, RequestRow, ChapterOps, ProjectStatus
<1>4. WorkersOK
  BY IdleSound, WorkerAssumption DEF Init, WorkersOK
<1> QED  BY <1>1, <1>2, <1>3, <1>4 DEF IInv

\* The invariant is inductive.
LEMMA NextIInv == IInv /\ [Next]_vars => IInv'
<1> SUFFICES ASSUME IInv, [Next]_vars PROVE IInv'
  OBVIOUS
<1>1. CASE UNCHANGED vars
  BY <1>1 DEF vars, IInv, RowsOK, LocksOK, ServiceOK, WorkersOK
<1>2. CASE Next
  BY <1>2, ServiceIInv, MachineIInv DEF Next
<1> QED  BY <1>1, <1>2

\* The inductive invariant holds in every state of the generation system.
THEOREM Invariance == Spec => []IInv
BY InitIInv, NextIInv, PTL DEF Spec

\* The rows of the tables, the sessions' copies of them and the row locks keep their types.
THEOREM TypeCorrect == Spec => []TypeOK
<1>1. IInv => TypeOK
  BY DEF IInv, RowsOK, LocksOK, ServiceOK, WorkersOK, TypeOK,
         SoundChapter, SoundJob, SoundRequest, SoundWorker
<1> QED  BY <1>1, Invariance, PTL

\* A passed chapter has an accepted attempt, even when leases lapse under workers that
\* go on and end each other's jobs.
THEOREM PassedAccepted == Spec => []PassedIsAccepted
<1>1. IInv => PassedIsAccepted
  BY DEF IInv, RowsOK, PassedIsAccepted, SoundChapter
<1> QED  BY <1>1, Invariance, PTL

-----------------------------------------------------------------------------
(* No worker restarts what a user stopped *)

\* The pipeline's advance does not set a project running that is not: its session has
\* "running" cached, so that assigning "running" emits no UPDATE.
LEMMA AdvanceKeepsStopped ==
  ASSUME NEW p \in ProjectRow, NEW ch, NEW jb, NEW next, NEW goOn,
         AdvanceAfterChapterSuccess(p, "running", ch, jb, next, goOn).project.status
           = "running"
  PROVE  p.status = "running"
<1>1. \A v \in ProjectStatus :
        [p EXCEPT !.status = v].status = v
  BY DEF ProjectRow
<1>2. MarkProjectRunning(p, "running").status = p.status
  BY DEF MarkProjectRunning, OrmSet, ProjectRow
<1>3. OrmSet("running", "completed", p.status) = "completed"
  BY DEF OrmSet
<1>4. OrmSet("running", "paused", p.status) = "paused"
  BY DEF OrmSet
<1>5. CASE next = 0
  BY <1>1, <1>3, <1>5 DEF AdvanceAfterChapterSuccess, ProjectStatus
<1>6. CASE next # 0 /\ ~goOn
  BY <1>1, <1>4, <1>6 DEF AdvanceAfterChapterSuccess, ProjectStatus
<1>7. CASE next # 0 /\ goOn
  BY <1>2, <1>7 DEF AdvanceAfterChapterSuccess
<1> QED  BY <1>5, <1>6, <1>7

\* The cleanup of a completed project leaves its row alone.
LEMMA CleanupKeepsProject ==
  ASSUME NEW s \in ProgressRow, NEW mine
  PROVE  CleanupCompletedProject(s, mine).project = s.project
BY DEF CleanupCompletedProject, ProgressRow

\* The last commit of the pipeline does not restart a stopped project.
LEMMA FinalizeKeepsStopped ==
  ASSUME RowsOK, WorkersOK, NEW w \in Workers, Finalize(w) \/ FinalizeRush(w),
         project'.status = "running"
  PROVE  project.status = "running"
<1> DEFINE c    == workers[w].chapter
           rep  == RepairOrphanQueuedChapters([chapters EXCEPT ![c] = AcceptedRow(w)], jobs, c)
           next == NextRunnableChapter(rep, c)
           goOn == project.auto /\ workers[w].kind # "single"
           s    == AdvanceAfterChapterSuccess(AcceptedProject(w), "running", rep, jobs,
                                              next, goOn)
<1>1. workers[w].pc # "idle"
  BY DEF Finalize, FinalizeRush, FinalizeAccepted
<1>2. AcceptedRow(w) \in SoundChapter /\ AcceptedProject(w) \in ProjectRow
  BY <1>1, AcceptedSound
<1>3. AcceptedProject(w).status = project.status
  BY DEF AcceptedProject, RowsOK, ProjectRow
<1>4. s \in ProgressRow
  <2>1. [chapters EXCEPT ![c] = AcceptedRow(w)] \in [Chapters -> SoundChapter]
    BY <1>2 DEF RowsOK
  <2>2. rep \in [Chapters -> SoundChapter] /\ next \in Chapters \cup {0}
    BY <2>1, RepairSound, RunnableType
  <2> HIDE DEF rep, next, goOn
  <2> QED  BY <1>2, <2>2, AdvanceSound DEF RowsOK
<1>5. project' \in {s.project, CleanupCompletedProject(s, workers[w].job).project}
  BY DEF Finalize, FinalizeRush, FinalizeAccepted
<1>6. s.project.status = "running"
  <2> HIDE DEF s
  <2> QED  BY <1>4, <1>5, CleanupKeepsProject
<1> HIDE DEF rep, next, goOn
<1> QED  BY <1>2, <1>3, <1>6, AdvanceKeepsStopped

\* No step of a worker, and no lapse, sets a project running that is not.
LEMMA MachineKeepsStopped ==
  ASSUME IInv, Machine, project'.status = "running"
  PROVE  project.status = "running"
<1> USE DEF IInv
<1>1. \A own, live : [project EXCEPT !.owner = own, !.live = live].status = project.status
  BY DEF RowsOK, ProjectRow
<1>2. \A live : [project EXCEPT !.live = live].status = project.status
  BY DEF RowsOK, ProjectRow
<1>3. \A p \in ProjectRow : [p EXCEPT !.status = "paused"].status = "paused"
  BY DEF ProjectRow
<1>4. CASE LeaseStep
  BY <1>2, <1>4 DEF LeaseStep, Renew, RenewalHangs, ExpireJob, ExpireProject, rows
<1>5. ASSUME NEW w \in Workers, Claim(w)
      PROVE  project.status = "running"
  BY <1>5 DEF Claim
<1>6. ASSUME NEW w \in Workers, FailAttempt(w) \/ ProviderUnavailable(w)
      PROVE  project.status = "running"
  BY <1>3, <1>6 DEF FailAttempt, ProviderUnavailable, RowsOK
<1>7. ASSUME NEW w \in Workers, Interrupt(w)
      PROVE  project.status = "running"
  <2>1. workers[w].pc # "idle"
    BY <1>7 DEF Interrupt
  <2>2. AcceptedProject(w) \in ProjectRow
    BY <2>1, AcceptedSound
  <2> QED  BY <1>3, <1>7, <2>2 DEF Interrupt, RowsOK
<1>8. ASSUME NEW w \in Workers, Fail(w)
      PROVE  project.status = "running"
  <2>1. [project EXCEPT !.status = "paused",
                        !.owner = IF @ = w THEN Nobody ELSE @,
                        !.live  = IF project.owner = w THEN FALSE ELSE @].status = "paused"
    BY DEF RowsOK, ProjectRow
  <2> QED  BY <1>8, <2>1 DEF Fail, rows
<1>9. ASSUME NEW w \in Workers,
             \/ Open(w) \/ StartWriting(w) \/ SubmitReview(w) \/ Accept(w) \/ LoseLease(w)
             \/ PipelineError(w) \/ StopRenewal(w) \/ Rollback(w) \/ Finish(w)
             \/ CommitChunks(w) \/ Crash(w)
      PROVE  project.status = "running"
  <2>1. project' = project
    BY <1>9 DEF Open, StartWriting, SubmitReview, Accept, LoseLease, PipelineError,
                StopRenewal, Rollback, Finish, CommitChunks, Crash, rows
  <2> QED  BY <2>1
<1> QED  BY <1>4, <1>5, <1>6, <1>7, <1>8, <1>9, FinalizeKeepsStopped DEF Machine, WorkerStep

\* Only a committed request sets a project running.
LEMMA ServiceCounts ==
  ASSUME IInv, Service, project' # project
  PROVE  requestsLeft' < requestsLeft
<1>1. Commit
  BY DEF Service, ServiceStep, Receive, Reject, StartProject, PauseProject, ResumeProject,
         RetryChapter, ContinueChapter, ManualApproveChapter, RewriteFromChapter, ReadPassed,
         DecideRevision, rows
<1>2. requestsLeft \in Int
  BY ServiceAssumption DEF IInv, ServiceOK
<1> QED  BY <1>1, <1>2 DEF Commit

\* Only a user's committed request takes a project out of ready, paused or completed:
\* for any number of workers, with or without timely renewals and crashes.
THEOREM NeverUnpauses == Spec => WorkerNeverUnpauses
<1> DEFINE A == project.status # "running" /\ project'.status = "running"
                  => requestsLeft' < requestsLeft
<1>1. IInv /\ [Next]_vars => A \/ UNCHANGED vars
  <2> SUFFICES ASSUME IInv, Next PROVE A
    OBVIOUS
  <2> QED  BY MachineKeepsStopped, ServiceCounts DEF Next
<1>2. IInv /\ [Next]_vars => [A]_vars
  BY <1>1
<1> HIDE DEF A
<1>3. [][Next]_vars /\ []IInv => [][A]_vars
  BY <1>2, PTL
<1>4. Spec => [][A]_vars
  BY <1>3, Invariance, PTL DEF Spec
<1> QED  BY <1>4 DEF A, WorkerNeverUnpauses
=============================================================================
