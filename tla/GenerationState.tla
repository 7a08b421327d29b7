-------------------------- MODULE GenerationState --------------------------
(***************************************************************************)
(* The persistent state of one novel project (the rows of projects,        *)
(* chapters and generation_jobs) and the state transitions that the HTTP   *)
(* handlers and the workers share: backend/services/generation_state.py    *)
(* and the private helpers of GenerationService and Pipeline that only     *)
(* read or rewrite these rows.                                             *)
(*                                                                         *)
(* Helpers are functions from rows to rows, so that a handler, which runs  *)
(* several of them in one database transaction, is a chain of LETs.        *)
(***************************************************************************)
EXTENDS Naturals, FiniteSets, FiniteSetsExt, Functions

CONSTANTS
  N,            \* number of chapters of the outline
  MaxRetries,   \* projects.max_retries
  MaxJobs,      \* bound: rows generation_jobs may ever hold
  Workers,      \* worker processes, one NOVEL_AI_WORKER_NAME each
  Nobody        \* SQL NULL of lease_owner, and the free row lock

ASSUME StateAssumption ==
  /\ N \in Nat \ {0}
  /\ MaxRetries \in Nat \ {0}
  /\ MaxJobs \in Nat \ {0}
  /\ Nobody \notin Workers

Chapters == 1..N
JobIds   == 1..MaxJobs

VARIABLES
  project,      \* the row of projects
  chapters,     \* the rows of chapters, by chapter_number
  jobs,         \* the rows of generation_jobs, by order of created_at
  rowLock       \* which worker's open transaction has written the row of the
                \* project (0) and of each chapter; Nobody's if it is free

rows == <<project, chapters, jobs>>

ProjectStatus == {"ready", "running", "paused", "completed"}
ChapterStatus ==
  {"pending", "queued", "writing", "reviewing", "passed", "failed", "paused"}
\* "absent": not inserted yet; "deleted": removed by the retention cleanup
JobStatus == {"absent", "queued", "leased", "done", "failed", "cancelled", "deleted"}
\* what the payload asks for: "single" stands for chapter_retry/chapter_continue
JobKind == {"advance", "single"}

ProjectRow == [status : ProjectStatus, current : 0..N, auto : BOOLEAN,
               owner : Workers \cup {Nobody}, live : BOOLEAN]
\* accepted: accepted_attempt_id is set;
\* draft: some attempt of the chapter has non-empty content
ChapterRow == [status : ChapterStatus, retries : 0..MaxRetries,
               accepted : BOOLEAN, draft : BOOLEAN]
\* live: lease_expires_at >= now; deferred: the payload holds a deferred retry
JobRow == [status : JobStatus, chapter : 0..N, kind : JobKind,
           owner : Workers \cup {Nobody}, live : BOOLEAN, deferred : BOOLEAN]

NewChapter == [status |-> "pending", retries |-> 0, accepted |-> FALSE, draft |-> FALSE]
NoJob == [status |-> "absent", chapter |-> 0, kind |-> "advance",
          owner |-> Nobody, live |-> FALSE, deferred |-> FALSE]

-----------------------------------------------------------------------------
(* Queries over generation_jobs *)

Queued(jb, c)     == {j \in JobIds : jb[j].status = "queued" /\ jb[j].chapter = c}
Leased(jb, c)     == {j \in JobIds : jb[j].status = "leased" /\ jb[j].chapter = c}
LiveLeased(jb, c) == {j \in Leased(jb, c) : jb[j].live}

HasQueuedJob(jb)     == \E c \in Chapters : Queued(jb, c) # {}
HasLiveLeasedJob(jb) == \E c \in Chapters : LiveLeased(jb, c) # {}
\* _get_active_job: queued, or leased and not expired
HasActiveJob(jb, c)  == Queued(jb, c) \cup LiveLeased(jb, c) # {}

\* a job that is over: nothing reads its other columns again
Terminal(status) == [NoJob EXCEPT !.status = status]

CancelLeasedJobs(jb, C) ==          \* mutant: live leases are cancelled too
  [j \in JobIds |->
     IF jb[j].status = "leased" /\ jb[j].chapter \in C
       THEN Terminal("cancelled") ELSE jb[j]]
CancelExpiredLeasedJobs(jb, C) ==
  [j \in JobIds |->
     IF jb[j].status = "leased" /\ ~jb[j].live /\ jb[j].chapter \in C
       THEN Terminal("cancelled") ELSE jb[j]]

CancelQueuedJobs(jb, C) ==
  [j \in JobIds |->
     IF jb[j].status = "queued" /\ jb[j].chapter \in C
       THEN Terminal("cancelled") ELSE jb[j]]

\* _cleanup_terminal_chapter_active_job of a chapter that failed or was paused
CleanupTerminalChapterActiveJob(jb, ch, c) ==
  IF ch[c].status \in {"failed", "paused"} /\ HasActiveJob(jb, c)
    THEN LET j == Min(Queued(jb, c) \cup LiveLeased(jb, c))
         IN  [jb EXCEPT ![j] = Terminal("cancelled")]
    ELSE jb

\* The partial unique index on (project, chapter, type) over queued and leased rows
\* makes the INSERT a no-op when an expired lease is still in the table.
EnqueueConflicts(jb, c) == ~HasActiveJob(jb, c) /\ Leased(jb, c) # {}

\* the rows still to be inserted; the bound MaxJobs is a guard where a row may be needed
Fresh(jb) == {j \in JobIds : \A k \in JobIds : k >= j => jb[k].status = "absent"}

\* _enqueue_generate_job: the existing active job, else a new queued row
EnqueueGenerateJob(jb, c, kind) ==
  IF HasActiveJob(jb, c) THEN jb
  ELSE [jb EXCEPT ![Min(Fresh(jb))] =
          [NoJob EXCEPT !.status = "queued", !.chapter = c, !.kind = kind]]

CanEnqueue(jb, c) == HasActiveJob(jb, c) \/ (Leased(jb, c) = {} /\ Fresh(jb) # {})

-----------------------------------------------------------------------------
(* Queries and repairs over chapters *)

PauseUnfinishedChapters(ch, C) ==   \* mutant: a chapter in flight is paused too
  [c \in Chapters |->
     IF c \in C /\ ch[c].status \in {"queued", "writing", "reviewing"}
       THEN [ch[c] EXCEPT !.status = "paused"] ELSE ch[c]]
PauseQueuedChapters(ch, C) ==
  [c \in Chapters |->
     IF c \in C /\ ch[c].status = "queued" THEN [ch[c] EXCEPT !.status = "paused"]
     ELSE ch[c]]

RepairOrphanQueuedChapters(ch, jb, after) ==
  PauseQueuedChapters(ch, {c \in Chapters : c > after /\ ~HasActiveJob(jb, c)})

Runnable(ch, c) == ch[c].status \in {"pending", "failed", "paused"}

\* 0 stands for the missing row of scalar_one_or_none
FirstOf(C) == IF C = {} THEN 0 ELSE Min(C)

\* to be read after RepairOrphanQueuedChapters
FirstRunnableChapter(ch) == FirstOf({c \in Chapters : Runnable(ch, c) /\ ~ch[c].accepted})
NextRunnableChapter(ch, after) == FirstOf({c \in Chapters : c > after /\ Runnable(ch, c)})
StaleInflightChapter(ch) ==
  FirstOf({c \in Chapters : ch[c].status \in {"writing", "reviewing", "queued"}})

-----------------------------------------------------------------------------
(* State transitions of generation_state.py.  The ORM session of a caller   *)
(* emits an UPDATE of a column only when the new value differs from the one *)
(* the session has cached, which SELECT ... FOR UPDATE does not refresh.    *)

OrmSet(cached, value, stored) == IF value = cached THEN stored ELSE value

MarkProjectRunning(p, cached) == [p EXCEPT !.status = OrmSet(cached, "running", @)]

QueueChapter(ch, c) == [ch EXCEPT ![c].status = "queued"]

AcceptWithoutAttempt(row) ==        \* mutant: accepted_attempt_id is not set
  [row EXCEPT !.status = "passed"]
AcceptAsCompleted(row) ==           \* mutant: a project status on a chapter
  [row EXCEPT !.status = "completed", !.accepted = TRUE]
AcceptChapter(row) == [row EXCEPT !.status = "passed", !.accepted = TRUE]

AdvanceUnconditionally(p, cached, ch, jb, next, goOn) ==   \* mutant: an UPDATE that
  [project |-> [p EXCEPT !.status = "running"],            \* overwrites any status
   chapters |-> ch, jobs |-> jb]
AdvanceWithoutJob(p, cached, ch, jb, next, goOn) ==        \* mutant: no job is queued
  [project |-> MarkProjectRunning(p, cached),
   chapters |-> IF next = 0 THEN ch ELSE QueueChapter(ch, next), jobs |-> jb]
\* advance_after_chapter_success followed by its enqueue: rows of the three tables
AdvanceAfterChapterSuccess(p, cached, ch, jb, next, goOn) ==
  IF next = 0 THEN
    [project |-> [p EXCEPT !.status = OrmSet(cached, "completed", @)],
     chapters |-> ch, jobs |-> jb]
  ELSE IF ~goOn THEN
    [project |-> [p EXCEPT !.status = OrmSet(cached, "paused", @)],
     chapters |-> ch, jobs |-> jb]
  ELSE
    [project |-> MarkProjectRunning(p, cached), chapters |-> QueueChapter(ch, next),
     jobs |-> IF EnqueueConflicts(jb, next) THEN jb
              ELSE EnqueueGenerateJob(jb, next, "advance")]

\* apply_review_failure: the chapter row after the failed attempt, whose retry_count
\* is that of the session; a chapter at its limit fails, any other is queued again
RetriesLeft(retries) == retries + 1 < MaxRetries
ReviewFailed(row, retries) ==
  [row EXCEPT !.retries = Min({retries + 1, MaxRetries}),
              !.status = IF RetriesLeft(retries) THEN "queued" ELSE "failed"]

\* apply_job_failure on the chapter
JobFailed(row) ==
  IF row.status \in {"passed", "paused"} THEN row ELSE [row EXCEPT !.status = "failed"]

\* RetentionCleanupService.cleanup_completed_project, run by the job `mine`:
\* keeps everything while another job is active, else drops drafts and old jobs
OtherActiveJobs(jb, mine) ==
  {j \in JobIds \ {mine} : jb[j].status \in {"queued", "leased"}}
CleanupCompletedProject(s, mine) ==
  IF OtherActiveJobs(s.jobs, mine) # {} THEN s
  ELSE [s EXCEPT
          !.chapters = [c \in Chapters |-> [@[c] EXCEPT !.draft = FALSE]],
          !.jobs = [j \in JobIds |->
                      IF @[j].status \in {"done", "failed", "cancelled"}
                        THEN [NoJob EXCEPT !.status = "deleted"] ELSE @[j]]]
=============================================================================
