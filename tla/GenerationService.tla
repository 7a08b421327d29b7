------------------------- MODULE GenerationService -------------------------
(***************************************************************************)
(* The control operations a user reaches over HTTP: backend/api/           *)
(* generation.py and GenerationService of backend/services/                *)
(* generation_service.py.  A handler reads the project (get_project), then *)
(* locks its row (SELECT ... FOR UPDATE), edits projects, chapters and     *)
(* generation_jobs in one transaction, and commits; a ValueError or an     *)
(* error of a model call rolls everything back.                            *)
(*                                                                         *)
(* The read and the locked part are two steps: the session keeps the row   *)
(* it read first, because the locking SELECT does not refresh an object    *)
(* already in the session, so every later test and every UPDATE of a       *)
(* project column is made against that possibly stale copy.                *)
(***************************************************************************)
EXTENDS GenerationState

CONSTANT MaxRequests      \* bound: control operations committed in a behaviour

ASSUME ServiceAssumption == MaxRequests \in Nat

VARIABLES
  request,        \* the HTTP request being served, or NoRequest
  requestsLeft    \* how many more may commit

serviceVars == <<request, requestsLeft>>

ProjectOps == {"start", "pause", "resume"}
ChapterOps == {"retry", "approve", "continue", "rewrite"}
RevisionOps == {"decide", "decided"}     \* decided: with all chapters read as passed

NoRequest == [op |-> "none", chapter |-> 0,
              cached |-> [status |-> "ready", current |-> 0, owner |-> Nobody]]
RequestRow ==
  [op : {"none"} \cup ProjectOps \cup ChapterOps \cup RevisionOps, chapter : 0..N,
   cached : [status : ProjectStatus, current : 0..N, owner : Workers \cup {Nobody}]]

\* get_project of a handler: the copy of the row its session keeps
Receive(op, c) ==
  /\ request = NoRequest
  /\ requestsLeft > 0
  /\ request' = [op |-> op, chapter |-> c,
                 cached |-> [status |-> project.status, current |-> project.current,
                             owner |-> project.owner]]
  /\ UNCHANGED <<rows, requestsLeft, rowLock>>

Cached == request.cached

\* _lock_project: waits while a worker holds the row
Serving(op) == request.op = op /\ rowLock[0] = Nobody

\* an UPDATE of a chapter waits for the transaction that wrote the row before
Commit ==
  /\ \A c \in Chapters : rowLock[c] # Nobody => chapters'[c] = chapters[c]
  /\ request' = NoRequest
  /\ requestsLeft' = requestsLeft - 1
  /\ UNCHANGED rowLock

\* a ValueError, a missing chapter or an error of a model call: no commit
Reject ==
  /\ request # NoRequest
  /\ rowLock[0] = Nobody
  /\ request' = NoRequest
  /\ UNCHANGED <<rows, requestsLeft, rowLock>>

-----------------------------------------------------------------------------
(* What the handlers share *)

\* _cancel_expired_leased_jobs, then _cleanup_paused_queued_generation_state of a
\* project read as paused; C is one chapter for retry and continue, else all
CleanedJobs(C) ==
  LET live == CancelExpiredLeasedJobs(jobs, C)
  IN  IF Cached.status = "paused" THEN CancelQueuedJobs(live, C) ELSE live
CleanedChapters(C) ==
  IF Cached.status = "paused" THEN PauseQueuedChapters(chapters, C) ELSE chapters

Idle(jb) == ~HasQueuedJob(jb) /\ ~HasLiveLeasedJob(jb)

Running == MarkProjectRunning(project, Cached.status)

\* the chapter of a retry or continue: queued again, its accepted text dropped
Requeue(ch, c) == [QueueChapter(ch, c) EXCEPT ![c].accepted = FALSE]

Enqueue(jb, c, kind) ==
  /\ CanEnqueue(jb, c)
  /\ jobs' = EnqueueGenerateJob(jb, c, kind)

-----------------------------------------------------------------------------
(* The handlers *)

StartProject ==
  LET jb == CancelExpiredLeasedJobs(jobs, Chapters)
      ch == RepairOrphanQueuedChapters(chapters, jb, 0)
      c  == FirstRunnableChapter(ch)
  IN  /\ Serving("start")
      /\ Idle(jb)
      /\ c # 0
      /\ project' = Running
      /\ chapters' = QueueChapter(ch, c)
      /\ Enqueue(jb, c, "advance")
      /\ Commit

PauseProject ==
  /\ Serving("pause")
  /\ Cached.status = "running"
  /\ project' = [project EXCEPT !.status = OrmSet(Cached.status, "paused", @)]
  /\ jobs' = CancelQueuedJobs(jobs, Chapters)
  /\ chapters' = PauseQueuedChapters(chapters, Chapters)
  /\ Commit

RetryChapter ==
  LET c  == request.chapter
      ch == CleanedChapters({c})
      jb == IF Cached.status = "paused"
              THEN CleanupTerminalChapterActiveJob(CleanedJobs({c}), ch, c)
              ELSE CleanedJobs({c})
  IN  /\ Serving("retry")
      /\ Idle(jb)
      /\ ch[c].status \in {"failed", "paused", "passed"}
      /\ project' = Running
      /\ chapters' = Requeue(ch, c)
      /\ Enqueue(jb, c, "single")
      /\ Commit

ContinueChapter ==
  LET c  == request.chapter
      ch == CleanedChapters({c})
      jb == CleanedJobs({c})
  IN  /\ Serving("continue")
      /\ Idle(jb)
      /\ ch[c].status \in {"failed", "paused", "passed"}
      /\ ch[c].draft
      /\ project' = Running
      /\ chapters' = Requeue(ch, c)
      /\ Enqueue(jb, c, "single")
      /\ Commit

\* the chapter interrupted in flight, else the first one still to be written; the
\* active job of a chapter already paused or failed is cancelled on the way
ResumeProject ==
  LET ch    == CleanedChapters(Chapters)
      stale == StaleInflightChapter(ch)
      c     == IF stale # 0 THEN stale ELSE FirstRunnableChapter(ch)
      jb    == IF Cached.status = "paused" /\ c # 0
                 THEN CleanupTerminalChapterActiveJob(CleanedJobs(Chapters), ch, c)
                 ELSE CleanedJobs(Chapters)
  IN  /\ Serving("resume")
      /\ c # 0
      /\ Idle(jb)
      /\ project' = Running
      /\ chapters' = QueueChapter(ch, c)
      /\ Enqueue(jb, c, "advance")
      /\ Commit

\* accept_chapter, the memory update, then the same advance as the pipeline's
ManualApproveChapter ==
  LET c    == request.chapter
      jb   == CleanedJobs(Chapters)
      ch   == [CleanedChapters(Chapters) EXCEPT ![c] = AcceptChapter(@)]
      rep  == RepairOrphanQueuedChapters(ch, jb, c)
      p    == [project EXCEPT !.current = OrmSet(Cached.current, c, @)]
      s    == AdvanceAfterChapterSuccess(p, Cached.status, rep, jb,
                                         NextRunnableChapter(rep, c), project.auto)
  IN  /\ Serving("approve")
      /\ Idle(jb)
      /\ CleanedChapters(Chapters)[c].status = "failed"
      /\ chapters[c].draft
      /\ Fresh(jobs) # {}
      /\ project' = s.project
      /\ chapters' = s.chapters
      /\ jobs' = s.jobs
      /\ Commit

\* _reset_generation_from_chapter drops attempts, and the project lease goes with
\* the reset unless the session read the row without one
RewriteFromChapter ==
  LET c  == request.chapter
      ch == CleanedChapters(Chapters)
      jb == CleanedJobs(Chapters)
      reset == [d \in Chapters |-> IF d >= c THEN NewChapter ELSE ch[d]]
  IN  /\ Serving("rewrite")
      /\ Idle(jb)
      /\ ch[c].status # "pending"
      /\ project' = [Running EXCEPT
                       !.current = OrmSet(Cached.current, c - 1, @),
                       !.owner = OrmSet(Cached.owner, Nobody, @),
                       !.live = IF Cached.owner = Nobody THEN @ ELSE FALSE]
      /\ chapters' = QueueChapter(reset, c)
      /\ Enqueue(jb, c, "advance")
      /\ Commit

\* apply and reject of a revision, with none left to decide: the project is completed if
\* all its chapters have passed when they are read, without the project's lock
ReadPassed ==
  /\ request.op = "decide"
  /\ \A c \in Chapters : chapters[c].status = "passed"
  /\ request' = [request EXCEPT !.op = "decided"]
  /\ UNCHANGED <<rows, requestsLeft, rowLock>>
DecideRevision ==
  /\ Serving("decided")
  /\ project' = [project EXCEPT !.status = OrmSet(Cached.status, "completed", @)]
  /\ UNCHANGED <<chapters, jobs>>
  /\ Commit

ServiceStep ==
  \/ \E op \in ProjectOps \cup {"decide"} : Receive(op, 0)
  \/ \E op \in ChapterOps, c \in Chapters : Receive(op, c)
  \/ Reject
  \/ StartProject \/ PauseProject \/ ResumeProject
  \/ RetryChapter \/ ContinueChapter \/ ManualApproveChapter \/ RewriteFromChapter
  \/ ReadPassed \/ DecideRevision
=============================================================================
