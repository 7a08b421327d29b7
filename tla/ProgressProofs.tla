--------------------------- MODULE ProgressProofs ---------------------------
(***************************************************************************)
(* Work is not lost although it changes hands in several transactions: the *)
(* pipeline's, the one in which run_worker queues what comes next, and     *)
(* those of the handlers.  A running rush project has a job to be claimed  *)
(* or to be taken over, or a worker at work, after any number of crashes   *)
(* (KInv).  As long as no worker has crashed, a queued chapter has one of  *)
(* the two for itself (UInv).  Under Timely and RushMode, as in            *)
(* PipelineLeaseProofs; what the handlers repair (RestartRepairs) needs    *)
(* neither.                                                                *)
(***************************************************************************)
EXTENDS PipelineLeaseProofs

\* no worker process has been killed yet
Uncrashed == crashesLeft = MaxCrashes

\* the end of its loop queues another attempt of the chapter
Deferring(w)  == workers[w].pc = "returned" /\ workers[w].deferred
\* the chapter it works on may be queued: it has not started writing or it failed
Due(w)        == workers[w].pc \in {"claimed", "opened", "raised", "failing"} \/ Deferring(w)
\* it has not yet decided what comes next, or left it to the end of its loop; if it is
\* killed, the next worker finds its job and something to do about the chapter
Undecided(w)  == workers[w].pc \in Pipelining \cup {"raised", "failing"} \/ Deferring(w)
Unfinished(w) == /\ Undecided(w) /\ HasJob(w)
                 /\ chapters[workers[w].chapter].status # "passed"
\* a job to be claimed, or to be taken over from a worker that is gone, of a chapter
\* that process_generate_chapter would not skip
Waiting(j) ==
  /\ \/ jobs[j].status = "queued"
     \/ jobs[j].status = "leased" /\ \A w \in Workers : Busy(w) => workers[w].job # j
  /\ chapters[jobs[j].chapter].status # "passed"

\* the job of a busy worker is not queued again, nor removed by the cleanup
JobKept ==
  \A w \in Workers : Busy(w) => MyJob(w).status \notin {"queued", "deleted"}
WorkLeft ==
  project.status = "running" => (\E j \in JobIds : Waiting(j)) \/ \E w \in Workers : Unfinished(w)

KInv == JobKept /\ WorkLeft

\* a leased job is the one of the busy worker
LeasedBusy ==
  \A j \in JobIds : jobs[j].status = "leased" => \E w \in Workers : Busy(w) /\ workers[w].job = j
\* only a failed attempt defers a retry, so that a deferring worker is at its end
DeferredLate ==
  /\ \A j \in JobIds : jobs[j].status = "queued" => ~jobs[j].deferred
  /\ \A w \in Workers : Busy(w) /\ workers[w].deferred => workers[w].pc = "returned"
\* nobody is about to write a chapter that has passed
Unpassed ==
  /\ \A j \in JobIds : jobs[j].status = "queued" => chapters[jobs[j].chapter].status # "passed"
  /\ \A w \in Workers : workers[w].pc = "claimed" \/ Deferring(w)
                          => chapters[workers[w].chapter].status # "passed"
QueuedDue ==
  \A c \in Chapters : chapters[c].status = "queued" =>
    Queued(jobs, c) # {} \/ \E w \in Workers : workers[w].chapter = c /\ Due(w)

UInv == LeasedBusy /\ DeferredLate /\ Unpassed /\ QueuedDue

-----------------------------------------------------------------------------
(* A worker moves on *)

\* A worker goes on, and nothing else changes but its chapter and the lease of its job: what
\* a running project has left to do it keeps, unless the worker had it and gives it up.
LEMMA PhaseKInv ==
  ASSUME IInv, LInv, KInv, NEW w \in Workers, Busy(w),
         workers'[w].job = workers[w].job, workers'[w].chapter = workers[w].chapter,
         workers'[w].pc # "idle",
         \A v \in Workers \ {w} : workers'[v] = workers[v],
         \A j \in JobIds : /\ jobs'[j].status = jobs[j].status
                           /\ jobs'[j].chapter = jobs[j].chapter,
         \A d \in Chapters \ {workers[w].chapter} : chapters'[d] = chapters[d],
         chapters'[workers[w].chapter].status = "passed"
           => chapters[workers[w].chapter].status = "passed",
         project'.status = "running" => project.status = "running" /\ (Undecided(w) => Undecided(w)')
  PROVE  KInv'
<1>1. workers[w].job \in JobIds /\ workers[w].chapter \in Chapters
  BY BusyWorker DEF IInv, Busy
<1>2. \A v \in Workers : Busy(v)' => Busy(v) /\ workers'[v].job = workers[v].job
  BY DEF Busy
<1>3. JobKept'
  <2>1. \A v \in Workers : Busy(v) => workers[v].job \in JobIds
    BY BusyWorker DEF IInv, Busy
  <2> QED  BY <1>2, <2>1 DEF KInv, JobKept, MyJob
<1>4. WorkLeft'
  <2> SUFFICES ASSUME project'.status = "running"
               PROVE  (\E j \in JobIds : Waiting(j)') \/ \E v \in Workers : Unfinished(v)'
    BY DEF WorkLeft
  <2>1. \A d \in Chapters : chapters'[d].status = "passed" => chapters[d].status = "passed"
    OBVIOUS
  <2>2. ASSUME NEW j \in JobIds, Waiting(j) PROVE Waiting(j)'
    <3>1. jobs[j].chapter \in Chapters
      BY <2>2 DEF Waiting, IInv, RowsOK, SoundJob
    <3> QED  BY <1>2, <2>1, <2>2, <3>1 DEF Waiting
  <2>3. ASSUME NEW v \in Workers, Unfinished(v) PROVE Unfinished(v)'
    <3>1. v = w
      BY <2>3, OthersIdle DEF Unfinished, Undecided, Deferring, Pipelining, Busy
    <3> QED  BY <1>1, <2>1, <2>3, <3>1 DEF Unfinished, HasJob, MyJob
  <2> QED  BY <2>2, <2>3 DEF KInv, WorkLeft
<1> QED  BY <1>3, <1>4 DEF KInv

\* A worker goes on to a phase in which its chapter, if it is queued, is still its own
\* affair, and nothing else changes but the row of its job.
LEMMA PhaseUInv ==
  ASSUME IInv, LInv, UInv, NEW w \in Workers, Busy(w),
         workers'[w].job = workers[w].job, workers'[w].chapter = workers[w].chapter,
         workers'[w].pc \notin {"idle", "claimed"},
         \A v \in Workers \ {w} : workers'[v] = workers[v],
         \A j \in JobIds : /\ jobs'[j].status = jobs[j].status
                           /\ jobs'[j].chapter = jobs[j].chapter
                           /\ jobs[j].status = "queued" => jobs'[j] = jobs[j],
         \A d \in Chapters \ {workers[w].chapter} : chapters'[d] = chapters[d],
         LET row == chapters'[workers[w].chapter]
         IN  /\ row.status = "passed" => chapters[workers[w].chapter].status = "passed"
             /\ row.status = "queued" => Due(w)'
             /\ workers'[w].deferred => workers'[w].pc = "returned" /\ row.status # "passed"
  PROVE  UInv'
<1> DEFINE c == workers[w].chapter
<1>1. \A v \in Workers \ {w} : ~Busy(v) /\ ~Busy(v)'
  BY OthersIdle DEF Busy
<1>2. c \in Chapters /\ workers[w].job \in JobIds
  BY BusyWorker DEF IInv, Busy
<1>3. \A d \in Chapters : Queued(jobs', d) = Queued(jobs, d)
  BY DEF Queued
<1>4. LeasedBusy'
  BY <1>1 DEF UInv, LeasedBusy, Busy
<1>5. DeferredLate'
  BY <1>1 DEF UInv, DeferredLate
<1>6. Unpassed'
  <2>1. \A j \in JobIds : jobs[j].status = "queued" => jobs[j].chapter \in Chapters
    BY DEF IInv, RowsOK, SoundJob
  <2>2. \A v \in Workers : workers'[v].pc = "claimed" \/ Deferring(v)' => v = w /\ Deferring(w)'
    BY <1>1 DEF Busy, Deferring
  <2>3. Deferring(w)' => chapters'[c].status # "passed"
    BY DEF Deferring
  <2> QED  BY <2>1, <2>2, <2>3 DEF UInv, Unpassed
<1>7. QueuedDue'
  <2>1. \A v \in Workers \ {w} : ~Due(v)
    BY <1>1 DEF Busy, Due, Deferring
  <2>2. ASSUME NEW d \in Chapters, chapters'[d].status = "queued", d # c
        PROVE  Queued(jobs', d) # {}
    BY <1>3, <2>1, <2>2 DEF UInv, QueuedDue
  <2> QED  BY <2>2 DEF QueuedDue
<1> QED  BY <1>4, <1>5, <1>6, <1>7 DEF UInv

\* The pipeline up to its last commit: the chapter is not queued once it is being written.
LEMMA WorkKeeps ==
  ASSUME IInv, LInv, LInv', KInv, NEW w \in Workers,
         StartWriting(w) \/ CommitChunks(w)
  PROVE  KInv' /\ (UInv => UInv')
<1> DEFINE c == workers[w].chapter
<1> USE DEF IInv
<1>1. Busy(w) /\ workers[w].pc \in Pipelining \ {"claimed"}
  BY DEF StartWriting, CommitChunks, Busy, Pipelining
<1>2. c \in Chapters /\ chapters[c] \in ChapterRow /\ workers[w] \in WorkerRow
  BY <1>1, BusyWorker DEF WorkersOK, SoundWorker, SoundChapter, Busy
<1>3. /\ workers'[w].pc = "writing"
      /\ workers'[w].job = workers[w].job /\ workers'[w].chapter = c
      /\ workers'[w].deferred = workers[w].deferred
      /\ \A v \in Workers \ {w} : workers'[v] = workers[v]
  <2>1. CASE StartWriting(w)
    BY <1>2, <2>1 DEF StartWriting, WorkersOK, WorkerRow
  <2>2. CASE CommitChunks(w)
    BY <2>2 DEF CommitChunks
  <2> QED  BY <2>1, <2>2
<1>4. UNCHANGED <<project, jobs>>
  BY DEF StartWriting, CommitChunks, rows
<1>5. \A d \in Chapters \ {c} : chapters'[d] = chapters[d]
  <2>1. CASE StartWriting(w)
    BY <2>1 DEF StartWriting, RowsOK
  <2>2. CASE CommitChunks(w)
    BY <2>2 DEF CommitChunks, RowsOK
  <2> QED  BY <2>1, <2>2
<1>6. chapters'[c].status = "writing"
  <2>1. WorkingFresh(w)' /\ w \in Working'
    BY <1>3 DEF LInv, Good, Busy, Working
  <2> QED  BY <1>3, <2>1 DEF WorkingFresh
<1>7. UInv => ~workers'[w].deferred
  BY <1>1, <1>3 DEF UInv, DeferredLate, Pipelining, WorkersOK, SoundWorker, WorkerRow
<1>8. KInv'
  <2>1. Undecided(w)'
    BY <1>3 DEF Undecided, Pipelining
  <2> QED  BY <1>1, <1>3, <1>4, <1>5, <1>6, <2>1, PhaseKInv
<1> QED  BY <1>1, <1>3, <1>4, <1>5, <1>6, <1>7, <1>8, PhaseUInv

\* The chapter of a job just claimed is opened; one that has passed, as after a crash
\* between the acceptance and mark_done, was not what kept the project running.
LEMMA OpenKeeps ==
  ASSUME IInv, LInv, KInv, NEW w \in Workers, Open(w)
  PROVE  KInv' /\ (UInv => UInv')
<1> DEFINE c  == workers[w].chapter
           pc == IF chapters[c].status = "passed" THEN "returned" ELSE "opened"
<1> USE DEF IInv
<1>1. Busy(w) /\ workers[w].pc = "claimed"
  BY DEF Open, Busy
<1>2. /\ workers' = [workers EXCEPT ![w] =
           [workers[w] EXCEPT !.pc = pc, !.status = chapters[c].status,
                              !.retries = chapters[c].retries]]
      /\ UNCHANGED <<project, chapters, jobs>>
  BY DEF Open, rows
<1> HIDE DEF pc
<1>3. /\ workers'[w].pc = pc
      /\ workers'[w].job = workers[w].job /\ workers'[w].chapter = c
      /\ workers'[w].deferred = workers[w].deferred
      /\ \A v \in Workers \ {w} : workers'[v] = workers[v]
  BY <1>2 DEF WorkersOK, SoundWorker, WorkerRow
<1>4. KInv'
  <2>1. CASE chapters[c].status = "passed"
    <3>1. JobKept'
      <4>1. \A v \in Workers : Busy(v)' => Busy(v) /\ workers'[v].job = workers[v].job
        BY <1>1, <1>3 DEF Busy
      <4> QED  BY <1>2, <4>1 DEF KInv, JobKept, MyJob
    <3>2. WorkLeft'
      <4>1. \A v \in Workers : ~Unfinished(v)
        <5>1. ~Unfinished(w)
          BY <2>1 DEF Unfinished
        <5>2. \A v \in Workers \ {w} : ~Unfinished(v)
          BY <1>1, OthersIdle DEF Unfinished, Undecided, Deferring, Pipelining, Busy
        <5> QED  BY <5>1, <5>2
      <4>2. \A j \in JobIds : Waiting(j) => Waiting(j)'
        BY <1>1, <1>2, <1>3 DEF Waiting, Busy
      <4> QED  BY <1>2, <4>1, <4>2 DEF KInv, WorkLeft
    <3> QED  BY <3>1, <3>2 DEF KInv
  <2>2. CASE chapters[c].status # "passed"
    <3>1. pc = "opened"
      BY <2>2 DEF pc
    <3>2. Undecided(w)'
      BY <1>3, <3>1 DEF Undecided, Pipelining
    <3> QED  BY <1>1, <1>2, <1>3, <3>1, <3>2, PhaseKInv
  <2> QED  BY <2>1, <2>2
<1>5. ASSUME UInv PROVE UInv'
  <2>1. chapters[c].status # "passed" /\ pc = "opened"
    BY <1>1, <1>5 DEF UInv, Unpassed, pc
  <2>2. ~workers'[w].deferred
    BY <1>1, <1>3, <1>5 DEF UInv, DeferredLate, WorkersOK, SoundWorker, WorkerRow
  <2>3. Due(w)'
    BY <1>3, <2>1 DEF Due
  <2> QED  BY <1>1, <1>2, <1>3, <1>5, <2>1, <2>2, <2>3, PhaseUInv
<1> QED  BY <1>4, <1>5

\* An exception, or a lost lease, leaves the chapter to mark_failed.
LEMMA ErrorKeeps ==
  ASSUME IInv, LInv, KInv, NEW w \in Workers, LoseLease(w) \/ PipelineError(w) \/ Rollback(w)
  PROVE  KInv' /\ (UInv => UInv')
<1> DEFINE c == workers[w].chapter
<1>1. Busy(w) /\ workers[w].pc \in Pipelining \cup {"raised"}
  BY DEF LoseLease, PipelineError, Rollback, Busy, Pipelining
<1>2. /\ workers'[w].pc \in {"raised", "failing"}
      /\ workers'[w].job = workers[w].job /\ workers'[w].chapter = c
      /\ workers'[w].deferred = workers[w].deferred
      /\ \A v \in Workers \ {w} : workers'[v] = workers[v]
  <2>1. GoTo(w, "raised") \/ GoTo(w, "failing")
    BY DEF LoseLease, PipelineError, Rollback
  <2>2. \A pc : GoTo(w, pc) => workers'[w].deferred = workers[w].deferred
    BY DEF GoTo, IInv, WorkersOK, SoundWorker, WorkerRow
  <2> QED  BY <2>1, <2>2, GoToFacts DEF IInv
<1>3. UNCHANGED <<project, chapters, jobs>>
  BY DEF LoseLease, PipelineError, Rollback, rows
<1>4. UInv => ~workers'[w].deferred
  BY <1>1, <1>2 DEF UInv, DeferredLate, Pipelining, IInv, WorkersOK, SoundWorker, WorkerRow
<1>5. Undecided(w)' /\ Due(w)'
  BY <1>2 DEF Undecided, Due
<1>6. KInv'
  BY <1>1, <1>2, <1>3, <1>5, PhaseKInv
<1> QED  BY <1>1, <1>2, <1>3, <1>4, <1>5, <1>6, PhaseUInv

\* A pipeline that gives its chapter up pauses the project, or leaves the next attempt to
\* the end of the loop.
LEMMA GiveUpKeeps ==
  ASSUME IInv, LInv, KInv, NEW w \in Workers,
         FailAttempt(w) \/ ProviderUnavailable(w) \/ Interrupt(w)
  PROVE  KInv' /\ (UInv => UInv')
<1> DEFINE c == workers[w].chapter
<1> USE DEF IInv
<1>1. /\ Busy(w) /\ Holds(w)' /\ workers'[w].pc = "returned" /\ workers'[w].chapter = c
      /\ \A v \in Workers \ {w} : workers'[v] = workers[v]
  BY ReturnHolds
<1>2. workers[w].pc \in {"claimed", "writing", "reviewing", "memory"}
  BY DEF FailAttempt, ProviderUnavailable, Interrupt
<1>3. /\ c \in Chapters /\ chapters[c] \in ChapterRow /\ workers[w] \in WorkerRow
      /\ workers[w].job \in JobIds /\ jobs[workers[w].job] \in JobRow
  BY <1>1, BusyWorker DEF WorkersOK, SoundWorker, SoundChapter, Busy, RowsOK, SoundJob
<1>4. /\ jobs[workers[w].job].status = "leased"
      /\ UInv => ~workers[w].deferred
  BY <1>1, <1>2, <1>3 DEF LInv, Good, KeepsJob, Holds, MyJob, UInv, DeferredLate, WorkerRow
<1>5. \A d \in Chapters \ {c} : chapters'[d] = chapters[d]
  BY DEF FailAttempt, ProviderUnavailable, Interrupt, RowsOK
<1>6. CASE FailAttempt(w) /\ RetriesLeft(workers[w].retries)
  <2>1. workers' = [workers EXCEPT ![w] = [workers[w] EXCEPT !.pc = "returned", !.deferred = TRUE]]
    <3>1. (workers[w].deferred \/ RetriesLeft(workers[w].retries)) = TRUE
      BY <1>3, <1>6 DEF WorkerRow
    <3> QED  BY <1>3, <1>6, <3>1 DEF FailAttempt, WorkerRow
  <2>2. workers'[w].job = workers[w].job /\ workers'[w].deferred = TRUE
    BY <1>3, <2>1 DEF WorkersOK, WorkerRow
  <2>3. /\ jobs' = [jobs EXCEPT ![workers[w].job] = [jobs[workers[w].job] EXCEPT !.deferred = TRUE]]
        /\ project' = project
    BY <1>6 DEF FailAttempt
  <2>4. \A j \in JobIds : /\ jobs'[j].status = jobs[j].status
                          /\ jobs'[j].chapter = jobs[j].chapter
                          /\ jobs[j].status = "queued" => jobs'[j] = jobs[j]
    BY <1>3, <1>4, <2>3 DEF RowsOK, JobRow
  <2>5. chapters'[c].status = "queued"
    <3>1. chapters'[c] = ReviewFailed(chapters[c], workers[w].retries)
      BY <1>3, <1>6 DEF FailAttempt, RowsOK
    <3> QED  BY <1>3, <1>6, <3>1 DEF ReviewFailed, ChapterRow
  <2>6. Undecided(w)' /\ Due(w)'
    BY <1>1, <2>2 DEF Undecided, Due, Deferring
  <2>7. KInv'
    BY <1>1, <1>5, <2>2, <2>3, <2>4, <2>5, <2>6, PhaseKInv
  <2> QED  BY <1>1, <1>5, <2>2, <2>3, <2>4, <2>5, <2>6, <2>7, PhaseUInv
<1>7. CASE ~(FailAttempt(w) /\ RetriesLeft(workers[w].retries))
  <2>1. /\ workers'[w].job = workers[w].job
        /\ workers'[w].deferred = workers[w].deferred
    <3>1. CASE FailAttempt(w)
      BY <1>3, <1>7, <3>1 DEF FailAttempt, WorkersOK, WorkerRow
    <3>2. CASE ~FailAttempt(w)
      <4>1. GoTo(w, "returned")
        BY <3>2 DEF ProviderUnavailable, Interrupt
      <4> QED  BY <1>3, <4>1 DEF GoTo, WorkersOK, WorkerRow
    <3> QED  BY <3>1, <3>2
  <2>2. jobs' = jobs
    BY <1>7 DEF FailAttempt, ProviderUnavailable, Interrupt
  <2>3. project'.status = "paused"
    <3>1. \A p \in ProjectRow : [p EXCEPT !.status = "paused"].status = "paused"
      BY DEF ProjectRow
    <3>2. AcceptedProject(w) \in ProjectRow
      BY <1>1, AcceptedSound DEF Busy
    <3> QED  BY <1>7, <3>1, <3>2 DEF FailAttempt, ProviderUnavailable, Interrupt, RowsOK
  <2>4. chapters'[c].status \in {"failed", "paused"}
    <3>1. CASE FailAttempt(w)
      <4>1. chapters'[c] = ReviewFailed(chapters[c], workers[w].retries)
        BY <1>3, <3>1 DEF FailAttempt, RowsOK
      <4> QED  BY <1>3, <1>7, <3>1, <4>1 DEF ReviewFailed, ChapterRow
    <3>2. CASE ProviderUnavailable(w)
      BY <1>3, <3>2 DEF ProviderUnavailable, RowsOK, ChapterRow
    <3>3. CASE Interrupt(w)
      <4>1. AcceptedRow(w) \in ChapterRow
        BY <1>1, AcceptedSound DEF Busy, SoundChapter
      <4>2. \A r \in ChapterRow : [r EXCEPT !.status = "paused"].status = "paused"
        BY DEF ChapterRow
      <4>3. chapters'[c] \in {[AcceptedRow(w) EXCEPT !.status = "paused"],
                              [chapters[c] EXCEPT !.status = "paused"]}
        BY <1>3, <3>3 DEF Interrupt, RowsOK
      <4> QED  BY <1>3, <4>1, <4>2, <4>3
    <3> QED  BY <3>1, <3>2, <3>3
  <2>5. KInv'
    BY <1>1, <1>5, <2>1, <2>2, <2>3, <2>4, PhaseKInv
  <2> QED  BY <1>1, <1>4, <1>5, <2>1, <2>2, <2>4, <2>5, PhaseUInv
<1> QED  BY <1>6, <1>7

-----------------------------------------------------------------------------
(* The table of jobs grows *)

\* What enqueueing for a chapter adds: at most one queued job of that chapter.
Extended(jb, jb2, c) ==
  \A j \in JobIds : \/ jb2[j] = jb[j]
                    \/ /\ jb[j].status = "absent" /\ jb2[j].status = "queued"
                       /\ jb2[j].chapter = c /\ ~jb2[j].deferred
Grown(jb, jb2, c) == Extended(jb, jb2, c) /\ Queued(jb2, c) # {}

\* A chapter has a job then: the new one, or the one it had, be it one to take over.
LEMMA EnqueueGrows ==
  ASSUME NEW jb \in [JobIds -> SoundJob], NEW c \in Chapters, NEW kind \in JobKind,
         Fresh(jb) # {}
  PROVE  /\ ~EnqueueConflicts(jb, c) =>
              LET jb2 == EnqueueGenerateJob(jb, c, kind)
              IN  Extended(jb, jb2, c) /\ Queued(jb2, c) \cup Leased(jb2, c) # {}
         /\ Leased(jb, c) = {} => Grown(jb, EnqueueGenerateJob(jb, c, kind), c)
<1> DEFINE i   == Min(Fresh(jb))
           new == [NoJob EXCEPT !.status = "queued", !.chapter = c, !.kind = kind]
<1>1. CASE HasActiveJob(jb, c)
  <2>1. EnqueueGenerateJob(jb, c, kind) = jb
    BY <1>1 DEF EnqueueGenerateJob
  <2>2. Queued(jb, c) # {} \/ Leased(jb, c) # {}
    BY <1>1 DEF HasActiveJob, LiveLeased
  <2> QED  BY <2>1, <2>2 DEF Grown, Extended
<1>2. CASE ~HasActiveJob(jb, c)
  <2>1. i \in JobIds /\ jb[i].status = "absent"
    <3>1. Fresh(jb) \subseteq Nat
      BY StateAssumption DEF Fresh, JobIds
    <3>2. i \in Fresh(jb)
      BY <3>1, MinLeast
    <3>3. \A k \in Fresh(jb) : k \in JobIds /\ jb[k].status = "absent"
      BY StateAssumption DEF Fresh, JobIds
    <3> QED  BY <3>2, <3>3
  <2>2. EnqueueGenerateJob(jb, c, kind) = [jb EXCEPT ![i] = new]
    BY <1>2 DEF EnqueueGenerateJob
  <2>3. new.status = "queued" /\ new.chapter = c /\ new.deferred = FALSE
    BY DEF NoJob
  <2> HIDE DEF i, new
  <2>4. i \in Queued([jb EXCEPT ![i] = new], c)
    BY <2>1, <2>3 DEF Queued
  <2> QED  BY <2>1, <2>2, <2>3, <2>4 DEF Grown, Extended
<1> QED  BY <1>1, <1>2

-----------------------------------------------------------------------------
(* The loop around the pipeline *)

\* claim_next_job makes a job that waits the worker's; without a crash it is a queued one,
\* for no lease is left without its worker.
LEMMA ClaimKeeps ==
  ASSUME Timely, IInv, LInv, KInv, NEW w \in Workers, Claim(w)
  PROVE  KInv' /\ (UInv => UInv')
<1> USE DEF IInv
<1>1. \A v \in Workers : ~Busy(v)
  BY DEF Claim, LInv, Good, OwnsProject, Busy
<1>2. Min(ClaimableJobs) \in ClaimableJobs
  <2>1. ClaimableJobs \subseteq Nat
    BY StateAssumption DEF ClaimableJobs, JobIds
  <2>2. ClaimableJobs # {}
    BY DEF Claim
  <2> QED  BY <2>1, <2>2, MinLeast
<1>3. PICK j \in JobIds :
        /\ j \in ClaimableJobs
        /\ jobs' = [jobs EXCEPT ![j] =
                      [jobs[j] EXCEPT !.status = "leased", !.owner = w, !.live = TRUE]]
        /\ workers' = [workers EXCEPT ![w] =
             [IdleWorker EXCEPT !.pc = "claimed", !.job = j, !.chapter = jobs[j].chapter,
                                !.kind = jobs[j].kind, !.current = project.current,
                                !.deferred = jobs[j].deferred]]
        /\ chapters' = chapters
  <2>1. Min(ClaimableJobs) \in JobIds
    BY <1>2 DEF ClaimableJobs
  <2> QED  BY <1>2, <2>1 DEF Claim
<1>4. UInv => \A k \in JobIds : jobs[k].status # "leased"
  BY <1>1 DEF UInv, LeasedBusy
<1>5. /\ jobs[j] \in JobRow /\ jobs[j].chapter \in Chapters
      /\ UInv => jobs[j].status = "queued"
  BY <1>3, <1>4 DEF ClaimableJobs, RowsOK, SoundJob
<1>6. /\ workers'[w].pc = "claimed" /\ workers'[w].job = j
      /\ workers'[w].chapter = jobs[j].chapter /\ workers'[w].deferred = jobs[j].deferred
      /\ \A v \in Workers \ {w} : workers'[v] = workers[v] /\ ~Busy(v)'
  BY <1>1, <1>3 DEF WorkersOK, IdleWorker, Busy
<1>7. /\ jobs'[j].status = "leased" /\ jobs'[j].chapter = jobs[j].chapter
      /\ \A k \in JobIds \ {j} : jobs'[k] = jobs[k]
  BY <1>3, <1>5 DEF RowsOK, JobRow
<1>8. JobKept'
  BY <1>6, <1>7 DEF JobKept, MyJob
<1>9. WorkLeft'
  <2> SUFFICES ASSUME project'.status = "running"
               PROVE  (\E k \in JobIds : Waiting(k)') \/ \E v \in Workers : Unfinished(v)'
    BY DEF WorkLeft
  <2>1. project.status = "running"
    BY DEF Claim
  <2>2. PICK k \in JobIds : Waiting(k)
    BY <1>1, <2>1 DEF KInv, WorkLeft, Unfinished, Undecided, Deferring, Pipelining, Busy
  <2>3. CASE k = j
    <3>1. Undecided(w)' /\ HasJob(w)'
      BY <1>6, <1>7 DEF Undecided, Pipelining, HasJob, MyJob
    <3>2. chapters'[workers'[w].chapter].status # "passed"
      BY <1>3, <1>6, <2>2, <2>3 DEF Waiting
    <3> QED  BY <3>1, <3>2 DEF Unfinished
  <2>4. CASE k # j
    <3>1. Waiting(k)'
      BY <1>3, <1>6, <1>7, <2>2, <2>4 DEF Waiting
    <3> QED  BY <3>1
  <2> QED  BY <2>3, <2>4
<1>10. ASSUME UInv PROVE UInv'
  <2>1. LeasedBusy'
    BY <1>4, <1>6, <1>7, <1>10 DEF LeasedBusy, Busy
  <2>2. DeferredLate'
    <3>1. ~workers'[w].deferred
      BY <1>5, <1>6, <1>10 DEF UInv, DeferredLate
    <3> QED  BY <1>6, <1>7, <1>10, <3>1 DEF UInv, DeferredLate
  <2>3. Unpassed'
    <3>1. chapters'[workers'[w].chapter].status # "passed"
      BY <1>3, <1>5, <1>6, <1>10 DEF UInv, Unpassed
    <3> QED  BY <1>3, <1>6, <1>7, <1>10, <3>1 DEF UInv, Unpassed, Busy, Deferring
  <2>4. QueuedDue'
    <3>1. \A v \in Workers : ~Due(v)
      BY <1>1 DEF Busy, Due, Deferring
    <3>2. ASSUME NEW d \in Chapters, chapters'[d].status = "queued", d # jobs[j].chapter
          PROVE  Queued(jobs', d) # {}
      BY <1>3, <1>7, <1>10, <3>1, <3>2 DEF UInv, QueuedDue, Queued
    <3>3. Due(w)'
      BY <1>6 DEF Due
    <3> QED  BY <1>6, <3>2, <3>3 DEF QueuedDue
  <2> QED  BY <2>1, <2>2, <2>3, <2>4 DEF UInv
<1> QED  BY <1>8, <1>9, <1>10 DEF KInv

\* mark_done ends the worker's job; the retry it deferred, if the chapter has no other job,
\* is queued in its place.
LEMMA FinishKInv ==
  ASSUME IInv, LInv, LeasesOK, KInv, NEW w \in Workers, Finish(w)
  PROVE  KInv'
<1> DEFINE c  == workers[w].chapter
           i  == workers[w].job
           jb == [jobs EXCEPT ![i] = Terminal("done")]
<1> USE DEF IInv
<1>1. Busy(w) /\ workers[w].pc = "returned"
  BY DEF Finish, Busy
<1>2. \A v \in Workers \ {w} : ~Busy(v)
  BY <1>1, OthersIdle
<1>3. i \in JobIds /\ c \in Chapters
  BY <1>1, BusyWorker DEF Busy
<1>4. MyJob(w).status \notin {"queued", "deleted"}
  BY <1>1 DEF KInv, JobKept
<1>5. /\ jb \in [JobIds -> SoundJob] /\ jb[i].status = "done"
      /\ \A j \in JobIds \ {i} : jb[j] = jobs[j]
  <2>1. Terminal("done").status = "done"
    BY DEF Terminal, NoJob
  <2> QED  BY <1>3, <2>1, TerminalSound DEF RowsOK
<1> HIDE DEF jb
<1>6. CASE workers[w].deferred /\ EnqueueConflicts(jb, c)
  <2>1. GoTo(w, "failing") /\ UNCHANGED <<project, chapters, jobs>>
    BY <1>6 DEF Finish, jb
  <2>2. /\ workers'[w].pc = "failing" /\ workers'[w].job = i /\ workers'[w].chapter = c
        /\ \A v \in Workers \ {w} : workers'[v] = workers[v]
    BY <2>1, GoToFacts
  <2>3. Undecided(w)'
    BY <2>2 DEF Undecided
  <2> QED  BY <1>1, <2>1, <2>2, <2>3, PhaseKInv
<1>7. CASE ~(workers[w].deferred /\ EnqueueConflicts(jb, c))
  <2>1. /\ workers' = [workers EXCEPT ![w] = IdleWorker]
        /\ jobs' = IF workers[w].deferred THEN EnqueueGenerateJob(jb, c, "advance") ELSE jb
        /\ UNCHANGED <<project, chapters>>
    BY <1>4, <1>7 DEF Finish, jb
  <2>2. \A v \in Workers : ~Busy(v)'
    BY <1>2, <2>1 DEF WorkersOK, Busy, IdleWorker
  <2>3. Fresh(jb) # {}
    <3>1. MyJob(w).status # "absent"
      BY <1>1 DEF LeasesOK, JobsPresent
    <3>2. \A k \in Fresh(jobs) : k \in Fresh(jb)
      BY <1>3, <1>5, <3>1 DEF Fresh, MyJob
    <3> QED  BY <3>2 DEF Finish
  <2>4. /\ Extended(jb, jobs', c)
        /\ workers[w].deferred => Queued(jobs', c) \cup Leased(jobs', c) # {}
    <3>1. CASE workers[w].deferred
      <4>1. "advance" \in JobKind
        BY DEF JobKind
      <4> QED  BY <1>3, <1>5, <1>7, <2>1, <2>3, <3>1, <4>1, EnqueueGrows
    <3>2. CASE ~workers[w].deferred
      BY <2>1, <3>2 DEF Extended
    <3> QED  BY <3>1, <3>2
  <2>5. WorkLeft'
    <3> SUFFICES ASSUME project.status = "running"
                 PROVE  \E j \in JobIds : Waiting(j)'
      BY <2>1 DEF WorkLeft
    <3>1. ASSUME NEW j \in JobIds, Waiting(j) PROVE Waiting(j)'
      <4>1. j # i /\ jobs[j].status # "absent"
        BY <1>1, <1>4, <3>1 DEF Waiting, MyJob
      <4>2. jobs'[j] = jobs[j]
        BY <1>5, <2>4, <4>1 DEF Extended
      <4> QED  BY <2>1, <2>2, <3>1, <4>2 DEF Waiting
    <3>2. ASSUME NEW v \in Workers, Unfinished(v) PROVE \E j \in JobIds : Waiting(j)'
      <4>1. v = w
        BY <1>2, <3>2 DEF Unfinished, Undecided, Deferring, Pipelining, Busy
      <4>2. workers[w].deferred /\ chapters[c].status # "passed"
        BY <1>1, <3>2, <4>1 DEF Unfinished, Undecided, Deferring, Pipelining
      <4>3. PICK j \in JobIds : jobs'[j].status \in {"queued", "leased"} /\ jobs'[j].chapter = c
        BY <2>4, <4>2 DEF Queued, Leased
      <4>4. Waiting(j)'
        BY <2>1, <2>2, <4>2, <4>3 DEF Waiting
      <4> QED  BY <4>4
    <3> QED  BY <3>1, <3>2 DEF KInv, WorkLeft
  <2> QED  BY <2>2, <2>5 DEF KInv, JobKept
<1> QED  BY <1>6, <1>7

\* Without a crash it is the only leased job: nothing is in the way of the retry.
LEMMA FinishUInv ==
  ASSUME IInv, LInv, LeasesOK, KInv, UInv, NEW w \in Workers, Finish(w)
  PROVE  UInv'
<1> DEFINE c  == workers[w].chapter
           jb == [jobs EXCEPT ![workers[w].job] = Terminal("done")]
<1> USE DEF IInv
<1>1. Busy(w) /\ workers[w].pc = "returned"
  BY DEF Finish, Busy
<1>2. \A v \in Workers \ {w} : ~Busy(v)
  BY <1>1, OthersIdle
<1>3. workers[w].job \in JobIds /\ c \in Chapters
  BY <1>1, BusyWorker DEF Busy
<1>4. MyJob(w).status \notin {"queued", "deleted"}
  BY <1>1 DEF KInv, JobKept
<1>5. Terminal("done").status = "done"
  BY DEF Terminal, NoJob
<1>6. jb \in [JobIds -> SoundJob]
  BY <1>3, TerminalSound DEF RowsOK
<1>7. /\ \A j \in JobIds : jb[j].status # "leased"
      /\ \A j \in JobIds : jb[j].status = "queued" => jb[j] = jobs[j]
      /\ \A d \in Chapters : Queued(jb, d) = Queued(jobs, d)
  <2>1. \A j \in JobIds \ {workers[w].job} : jb[j] = jobs[j] /\ jobs[j].status # "leased"
    BY <1>1, <1>2 DEF RowsOK, UInv, LeasedBusy
  <2>2. jb[workers[w].job].status = "done"
    BY <1>3, <1>5 DEF RowsOK
  <2> HIDE DEF jb
  <2>3. \A j \in JobIds : jb[j].status = "queued" => jb[j] = jobs[j]
    BY <2>1, <2>2
  <2>4. \A j \in JobIds : jobs[j].status = "queued" => jb[j] = jobs[j]
    BY <1>4, <2>1 DEF MyJob
  <2>5. \A d \in Chapters : Queued(jb, d) = Queued(jobs, d)
    BY <2>3, <2>4 DEF Queued
  <2> QED  BY <2>1, <2>2, <2>3, <2>5
<1>8. Fresh(jb) # {}
  <2>1. MyJob(w).status # "absent"
    BY <1>1 DEF LeasesOK, JobsPresent
  <2>2. \A k \in Fresh(jobs) : k \in Fresh(jb)
    BY <1>3, <2>1 DEF Fresh, RowsOK, MyJob
  <2> QED  BY <2>2 DEF Finish
<1>9. Leased(jb, c) = {}
  BY <1>7 DEF Leased
<1>10. /\ workers' = [workers EXCEPT ![w] = IdleWorker]
       /\ jobs' = IF workers[w].deferred THEN EnqueueGenerateJob(jb, c, "advance") ELSE jb
       /\ UNCHANGED <<project, chapters>>
  BY <1>4, <1>9 DEF Finish, EnqueueConflicts
<1>11. \A v \in Workers : ~Busy(v)'
  BY <1>2, <1>10 DEF WorkersOK, Busy, IdleWorker
<1>12. workers[w].deferred => Grown(jb, jobs', c)
  <2>1. "advance" \in JobKind
    BY DEF JobKind
  <2> HIDE DEF jb
  <2> QED  BY <1>3, <1>6, <1>8, <1>9, <1>10, <2>1, EnqueueGrows
<1>13. ~workers[w].deferred => jobs' = jb
  BY <1>10
<1> HIDE DEF jb
<1>14. /\ \A j \in JobIds : jobs'[j].status # "leased"
       /\ \A j \in JobIds : jobs'[j].status = "queued" =>
            \/ jobs'[j] = jobs[j]
            \/ workers[w].deferred /\ jobs'[j].chapter = c /\ ~jobs'[j].deferred
       /\ \A d \in Chapters : Queued(jobs, d) # {} => Queued(jobs', d) # {}
       /\ workers[w].deferred => Queued(jobs', c) # {}
  <2>1. CASE workers[w].deferred
    <3>1. Grown(jb, jobs', c)
      BY <1>12, <2>1
    <3>2. \A d \in Chapters, j \in JobIds : j \in Queued(jb, d) => j \in Queued(jobs', d)
      BY <3>1 DEF Grown, Extended, Queued
    <3> QED  BY <1>7, <2>1, <3>1, <3>2 DEF Grown, Extended, Queued
  <2>2. CASE ~workers[w].deferred
    BY <1>7, <1>13, <2>2
  <2> QED  BY <2>1, <2>2
<1>15. LeasedBusy'
  BY <1>14 DEF LeasedBusy
<1>16. DeferredLate'
  BY <1>11, <1>14 DEF UInv, DeferredLate
<1>17. Unpassed'
  <2>1. workers[w].deferred => chapters[c].status # "passed"
    BY <1>1 DEF UInv, Unpassed, Deferring
  <2>2. \A v \in Workers : workers'[v].pc = "idle"
    BY <1>11 DEF Busy
  <2> QED  BY <1>10, <1>14, <2>1, <2>2 DEF UInv, Unpassed, Deferring
<1>18. QueuedDue'
  <2>1. \A v \in Workers : Due(v) => v = w /\ workers[w].deferred
    BY <1>1, <1>2 DEF Due, Deferring, Busy
  <2> QED  BY <1>10, <1>14, <2>1 DEF UInv, QueuedDue
<1> QED  BY <1>15, <1>16, <1>17, <1>18 DEF UInv

\* mark_failed pauses the project and leaves nothing queued of the chapter.
LEMMA FailKeeps ==
  ASSUME IInv, LInv, KInv, NEW w \in Workers, Fail(w)
  PROVE  KInv' /\ (UInv => UInv')
<1> DEFINE c == workers[w].chapter
           j == workers[w].job
<1> USE DEF IInv
<1>1. Busy(w) /\ workers[w].pc = "failing"
  BY DEF Fail, Busy
<1>2. \A v \in Workers \ {w} : ~Busy(v)
  BY <1>1, OthersIdle
<1>3. j \in JobIds /\ c \in Chapters /\ chapters[c] \in ChapterRow
  BY <1>1, BusyWorker DEF Busy, SoundChapter
<1>4. MyJob(w).status \notin {"queued", "deleted"}
  BY <1>1 DEF KInv, JobKept
<1>5. /\ jobs' = [jobs EXCEPT ![j] = Terminal("failed")]
      /\ chapters' = [chapters EXCEPT ![c] = JobFailed(@)]
      /\ project' = [project EXCEPT
           !.status = "paused",
           !.owner = IF @ = w THEN Nobody ELSE @,
           !.live  = IF project.owner = w THEN FALSE ELSE @]
      /\ workers' = [workers EXCEPT ![w] = IdleWorker]
  BY <1>4 DEF Fail
<1>6. \A v \in Workers : ~Busy(v)'
  BY <1>2, <1>5 DEF WorkersOK, Busy, IdleWorker
<1>7. KInv'
  <2>1. project'.status = "paused"
    BY <1>5 DEF RowsOK, ProjectRow
  <2> QED  BY <1>6, <2>1 DEF KInv, JobKept, WorkLeft
<1>8. /\ jobs'[j].status = "failed"
      /\ \A k \in JobIds \ {j} : jobs'[k] = jobs[k]
  BY <1>3, <1>5 DEF RowsOK, Terminal, NoJob
<1>9. /\ chapters'[c].status # "queued"
      /\ chapters'[c].status = "passed" => chapters[c].status = "passed"
      /\ \A d \in Chapters \ {c} : chapters'[d] = chapters[d]
  BY <1>3, <1>5 DEF RowsOK, JobFailed, ChapterRow
<1>10. ASSUME UInv PROVE UInv'
  <2>1. LeasedBusy'
    <3>1. \A k \in JobIds \ {j} : jobs[k].status # "leased"
      BY <1>1, <1>2, <1>10 DEF UInv, LeasedBusy
    <3> QED  BY <1>8, <3>1 DEF LeasedBusy
  <2>2. DeferredLate'
    BY <1>6, <1>8, <1>10 DEF UInv, DeferredLate
  <2>3. Unpassed'
    <3>1. \A k \in JobIds : jobs[k].status = "queued" => jobs[k].chapter \in Chapters
      BY DEF RowsOK, SoundJob
    <3>2. \A v \in Workers : workers'[v].pc = "idle"
      BY <1>6 DEF Busy
    <3> QED  BY <1>8, <1>9, <1>10, <3>1, <3>2 DEF UInv, Unpassed, Deferring
  <2>4. QueuedDue'
    <3>1. \A v \in Workers : Due(v) => v = w
      BY <1>2 DEF Busy, Due, Deferring
    <3>2. \A d \in Chapters : Queued(jobs', d) = Queued(jobs, d)
      BY <1>4, <1>8 DEF Queued, MyJob
    <3> QED  BY <1>9, <1>10, <3>1, <3>2 DEF UInv, QueuedDue
  <2> QED  BY <2>1, <2>2, <2>3, <2>4 DEF UInv
<1> QED  BY <1>7, <1>10

\* A killed worker leaves its job leased: it waits to be taken over.
LEMMA CrashKInv ==
  ASSUME IInv, LInv, KInv, NEW w \in Workers, Crash(w)
  PROVE  KInv'
<1>1. /\ workers' = [workers EXCEPT ![w] = IdleWorker]
      /\ UNCHANGED <<project, chapters, jobs>> /\ Busy(w)
  BY DEF Crash, rows, Busy
<1>2. \A v \in Workers : ~Busy(v)'
  BY <1>1, OthersIdle DEF IInv, WorkersOK, Busy, IdleWorker
<1>3. ASSUME NEW j \in JobIds, Waiting(j) PROVE Waiting(j)'
  BY <1>1, <1>2, <1>3 DEF Waiting
<1>4. ASSUME NEW v \in Workers, Unfinished(v) PROVE \E j \in JobIds : Waiting(j)'
  <2>1. Busy(v) /\ HasJob(v) /\ chapters[workers[v].chapter].status # "passed"
    BY <1>4 DEF Unfinished, Undecided, Deferring, Pipelining, Busy
  <2>2. PICK j \in JobIds : j = workers[v].job
    BY <2>1, BusyWorker DEF IInv, Busy
  <2>3. Waiting(j)'
    BY <1>1, <1>2, <2>1, <2>2 DEF Waiting, HasJob, MyJob
  <2> QED  BY <2>3
<1>5. WorkLeft'
  BY <1>1, <1>3, <1>4 DEF KInv, WorkLeft
<1> QED  BY <1>2, <1>5 DEF KInv, JobKept

\* A lapse changes neither the queue nor what a worker does.
LEMMA LapseKeepsWork ==
  ASSUME IInv, LInv, KInv, RushMode, LeaseStep
  PROVE  KInv' /\ (UInv => UInv')
<1>1. \A w \in Workers : Busy(w) => workers[w].job \in JobIds
  BY BusyWorker DEF IInv, Busy
<1>2. \A d \in Chapters : Queued(jobs', d) = Queued(jobs, d)
  BY LapseKeeps DEF Queued
<1>3. KInv'
  <2>1. JobKept'
    BY <1>1, LapseKeeps DEF KInv, JobKept, Busy, MyJob
  <2>2. \A j \in JobIds : Waiting(j) => Waiting(j)'
    BY LapseKeeps DEF Waiting, Busy
  <2>3. ASSUME NEW w \in Workers, Unfinished(w) PROVE Unfinished(w)'
    <3>1. Busy(w)
      BY <2>3 DEF Unfinished, Undecided, Deferring, Pipelining, Busy
    <3> QED  BY <1>1, <2>3, <3>1, LapseKeeps DEF Unfinished, Undecided, Deferring, HasJob, MyJob
  <2>4. WorkLeft'
    BY <2>2, <2>3, LapseKeeps DEF KInv, WorkLeft
  <2> QED  BY <2>1, <2>4 DEF KInv
<1>4. ASSUME UInv PROVE UInv'
  <2>1. LeasedBusy'
    BY <1>4, LapseKeeps DEF UInv, LeasedBusy, Busy
  <2>2. DeferredLate'
    BY <1>4, LapseKeeps DEF UInv, DeferredLate, Busy
  <2>3. Unpassed'
    BY <1>4, LapseKeeps DEF UInv, Unpassed, Deferring
  <2>4. QueuedDue'
    <3>1. \A w \in Workers : Due(w) => Due(w)'
      BY LapseKeeps DEF Due, Deferring
    <3> QED  BY <1>2, <1>4, <3>1, LapseKeeps DEF UInv, QueuedDue
  <2> QED  BY <2>1, <2>2, <2>3, <2>4 DEF UInv
<1> QED  BY <1>3, <1>4

-----------------------------------------------------------------------------
(* An accepted chapter *)

\* cleanup_completed_project touches no job in the queue and no status of a chapter.
LEMMA CleanupKeepsQueue ==
  ASSUME NEW s \in ProgressRow, NEW mine
  PROVE  LET done == CleanupCompletedProject(s, mine)
         IN  /\ done.project = s.project
             /\ \A d \in Chapters : done.chapters[d].status = s.chapters[d].status
             /\ \A j \in JobIds : Unended(s.jobs[j]) \/ Unended(done.jobs[j])
                                    => done.jobs[j] = s.jobs[j]
<1> DEFINE dropped == [NoJob EXCEPT !.status = "deleted"]
           kept    == [d \in Chapters |-> [s.chapters[d] EXCEPT !.draft = FALSE]]
           jb      == [j \in JobIds |-> IF s.jobs[j].status \in {"done", "failed", "cancelled"}
                                          THEN dropped ELSE s.jobs[j]]
<1>1. dropped.status = "deleted"
  BY DEF NoJob
<1>2. \/ CleanupCompletedProject(s, mine) = s
      \/ CleanupCompletedProject(s, mine) = [s EXCEPT !.chapters = kept, !.jobs = jb]
  BY DEF CleanupCompletedProject
<1> HIDE DEF dropped
<1>3. /\ \A d \in Chapters : kept[d].status = s.chapters[d].status
      /\ \A j \in JobIds : Unended(s.jobs[j]) \/ Unended(jb[j]) => jb[j] = s.jobs[j]
  BY <1>1 DEF ProgressRow, SoundChapter, ChapterRow, Unended
<1> HIDE DEF kept, jb
<1> QED  BY <1>2, <1>3 DEF ProgressRow

\* What _finalize_accepted_chapter makes of the three tables: a chapter is queued and has a
\* job, new or old, the queued ones behind it that had none are not queued any more, and a
\* project that is still running has that job.
LEMMA FinalizeShape ==
  ASSUME IInv, NEW w \in Workers, Finalize(w) \/ FinalizeRush(w)
  PROVE  \E next \in Chapters \cup {0} :
           /\ next # workers[w].chapter
           /\ chapters'[workers[w].chapter].status = "passed"
           /\ \A d \in Chapters \ {workers[w].chapter, next} :
                /\ chapters'[d].status = "queued" => chapters[d].status = "queued"
                /\ chapters'[d].status = "passed" => chapters[d].status = "passed"
           /\ \/ /\ project'.status # "running"
                 /\ \A j \in JobIds : Unended(jobs[j]) \/ Unended(jobs'[j]) => jobs'[j] = jobs[j]
                 /\ next \in Chapters =>
                      /\ chapters'[next].status = "queued" => chapters[next].status = "queued"
                      /\ chapters'[next].status = "passed" => chapters[next].status = "passed"
              \/ /\ next \in Chapters /\ chapters'[next].status = "queued"
                 /\ Extended(jobs, jobs', next)
                 /\ Queued(jobs', next) \cup Leased(jobs', next) # {}
<1> DEFINE c    == workers[w].chapter
           ch   == [chapters EXCEPT ![c] = AcceptedRow(w)]
           rep  == RepairOrphanQueuedChapters(ch, jobs, c)
           next == NextRunnableChapter(rep, c)
           goOn == project.auto /\ workers[w].kind # "single"
           s    == AdvanceAfterChapterSuccess(AcceptedProject(w), "running", rep, jobs,
                                              next, goOn)
           done == IF next = 0 THEN CleanupCompletedProject(s, workers[w].job) ELSE s
<1> USE DEF IInv
<1>1. Busy(w) /\ workers[w].pc \in {"writing", "memory"}
  BY DEF Finalize, FinalizeRush, Busy
<1>2. /\ c \in Chapters /\ chapters'[c].status = "passed"
  BY <1>1, BusyWorker, FinalizePasses DEF Busy
<1>3. AcceptedRow(w) \in SoundChapter /\ AcceptedProject(w) \in ProjectRow
  BY <1>1, AcceptedSound DEF Busy
<1>4. /\ project' = done.project /\ chapters' = done.chapters /\ jobs' = done.jobs
      /\ Fresh(jobs) # {}
  BY DEF Finalize, FinalizeRush, FinalizeAccepted
<1>5. /\ ch \in [Chapters -> SoundChapter]
      /\ \A d \in Chapters \ {c} : ch[d] = chapters[d]
  BY <1>2, <1>3 DEF RowsOK
<1> HIDE DEF c, ch
<1>6. /\ rep \in [Chapters -> SoundChapter]
      /\ \A d \in Chapters \ {c} : /\ rep[d].status = "queued" => chapters[d].status = "queued"
                                   /\ rep[d].status = "passed" => chapters[d].status = "passed"
  <2>1. \A r \in SoundChapter : [r EXCEPT !.status = "paused"].status = "paused"
    BY DEF SoundChapter, ChapterRow
  <2> QED  BY <1>5, <2>1, RepairSound DEF RepairOrphanQueuedChapters, PauseQueuedChapters
<1>7. next \in Chapters \cup {0} /\ next # c
  <2> HIDE DEF rep
  <2>1. next = 0 \/ next \in {d \in Chapters : d > c /\ Runnable(rep, d)}
    BY FirstOfSet DEF NextRunnableChapter
  <2> QED  BY <1>2, <2>1, StateAssumption DEF Chapters
<1> HIDE DEF rep, next, goOn
<1>8. CASE next = 0
  <2> DEFINE p == [AcceptedProject(w) EXCEPT !.status = "completed"]
  <2>1. s = [project |-> p, chapters |-> rep, jobs |-> jobs]
    BY <1>8 DEF AdvanceAfterChapterSuccess, OrmSet
  <2>2. p \in ProjectRow /\ p.status = "completed"
    BY <1>3 DEF ProjectRow, ProjectStatus
  <2>3. done = CleanupCompletedProject(s, workers[w].job)
    BY <1>8
  <2> HIDE DEF done, s, p
  <2>4. /\ s \in ProgressRow /\ s.project.status = "completed"
        /\ s.chapters = rep /\ s.jobs = jobs
    BY <1>6, <2>1, <2>2 DEF ProgressRow, RowsOK
  <2>5. /\ project'.status = "completed"
        /\ \A d \in Chapters : chapters'[d].status = rep[d].status
        /\ \A j \in JobIds : Unended(jobs[j]) \/ Unended(jobs'[j]) => jobs'[j] = jobs[j]
    BY <1>4, <2>3, <2>4, CleanupKeepsQueue
  <2>6. 0 \notin Chapters
    BY StateAssumption DEF Chapters
  <2> QED  BY <1>2, <1>6, <1>7, <1>8, <2>5, <2>6 DEF c
<1>9. CASE next # 0 /\ ~goOn
  <2> DEFINE p == [AcceptedProject(w) EXCEPT !.status = "paused"]
  <2>1. done = [project |-> p, chapters |-> rep, jobs |-> jobs]
    BY <1>9 DEF AdvanceAfterChapterSuccess, OrmSet
  <2>2. p.status = "paused"
    BY <1>3 DEF ProjectRow
  <2> HIDE DEF done, p
  <2>3. project'.status = "paused" /\ chapters' = rep /\ jobs' = jobs
    BY <1>4, <2>1, <2>2
  <2> QED  BY <1>2, <1>6, <1>7, <1>9, <2>3 DEF c
<1>10. CASE next # 0 /\ goOn
  <2>1. next \in Chapters /\ "advance" \in JobKind
    BY <1>7, <1>10 DEF JobKind
  <2>2. PICK jb : /\ jb = IF EnqueueConflicts(jobs, next) THEN jobs
                            ELSE EnqueueGenerateJob(jobs, next, "advance")
                  /\ done.chapters = QueueChapter(rep, next) /\ done.jobs = jb
    BY <1>10 DEF AdvanceAfterChapterSuccess
  <2>3. Extended(jobs, jb, next) /\ Queued(jb, next) \cup Leased(jb, next) # {}
    <3>1. CASE EnqueueConflicts(jobs, next)
      BY <2>2, <3>1 DEF Extended, EnqueueConflicts
    <3>2. CASE ~EnqueueConflicts(jobs, next)
      BY <1>4, <2>1, <2>2, <3>2, EnqueueGrows DEF RowsOK
    <3> QED  BY <3>1, <3>2
  <2>4. jobs' = jb /\ chapters' = QueueChapter(rep, next)
    BY <1>4, <2>2
  <2>5. /\ QueueChapter(rep, next)[next].status = "queued"
        /\ \A d \in Chapters \ {next} : QueueChapter(rep, next)[d] = rep[d]
    BY <1>6, <2>1 DEF QueueChapter, SoundChapter, ChapterRow
  <2> HIDE DEF done
  <2> QED  BY <1>2, <1>6, <1>7, <2>1, <2>3, <2>4, <2>5 DEF c
<1> QED  BY <1>8, <1>9, <1>10

\* A worker that accepts its chapter leaves the project stopped or the next chapter with
\* a job.
LEMMA FinalizeKeeps ==
  ASSUME IInv, LInv, LeasesOK, KInv, NEW w \in Workers, Finalize(w) \/ FinalizeRush(w)
  PROVE  KInv' /\ (UInv => UInv')
<1> DEFINE c == workers[w].chapter
           j == workers[w].job
<1> USE DEF IInv
<1>1. /\ Busy(w) /\ Holds(w)' /\ workers'[w].pc = "returned" /\ workers'[w].chapter = c
      /\ \A v \in Workers \ {w} : workers'[v] = workers[v]
  BY ReturnHolds
<1>2. workers[w].pc \in {"writing", "memory"}
  BY DEF Finalize, FinalizeRush
<1>3. /\ \A v \in Workers \ {w} : ~Busy(v) /\ ~Busy(v)'
      /\ c \in Chapters /\ j \in JobIds
      /\ jobs[j].status = "leased" /\ jobs[j].chapter = c
  BY <1>1, <1>2, OthersIdle, BusyWorker DEF Busy, LInv, Good, KeepsJob, Holds, MyJob
<1>4. workers'[w].job = j /\ workers'[w].deferred = workers[w].deferred
  <2>1. GoTo(w, "returned")
    BY DEF Finalize, FinalizeRush, FinalizeAccepted
  <2>2. workers'[w].deferred = workers[w].deferred
    BY <2>1 DEF GoTo, WorkersOK, SoundWorker, WorkerRow
  <2> QED  BY <2>1, <2>2, GoToFacts
<1>5. PICK next \in Chapters \cup {0} :
        /\ next # c
        /\ chapters'[c].status = "passed"
        /\ \A d \in Chapters \ {c, next} :
             /\ chapters'[d].status = "queued" => chapters[d].status = "queued"
             /\ chapters'[d].status = "passed" => chapters[d].status = "passed"
        /\ \/ /\ project'.status # "running"
              /\ \A k \in JobIds : Unended(jobs[k]) \/ Unended(jobs'[k]) => jobs'[k] = jobs[k]
              /\ next \in Chapters =>
                   /\ chapters'[next].status = "queued" => chapters[next].status = "queued"
                   /\ chapters'[next].status = "passed" => chapters[next].status = "passed"
           \/ /\ next \in Chapters /\ chapters'[next].status = "queued"
              /\ Extended(jobs, jobs', next)
              /\ Queued(jobs', next) \cup Leased(jobs', next) # {}
  BY FinalizeShape
<1>6. /\ \A k \in JobIds : jobs[k].status = "queued" => jobs'[k] = jobs[k]
      /\ \A k \in JobIds : jobs'[k].status = "leased" => jobs'[k] = jobs[k]
      /\ \A k \in JobIds : jobs'[k].status = "queued" =>
           \/ jobs'[k] = jobs[k]
           \/ /\ jobs'[k].chapter = next /\ ~jobs'[k].deferred
              /\ chapters'[next].status = "queued"
      /\ jobs'[j] = jobs[j]
  BY <1>3, <1>5 DEF Extended, Unended
<1>7. KInv'
  <2>1. JobKept'
    BY <1>3, <1>4, <1>6 DEF JobKept, Busy, MyJob
  <2>2. WorkLeft'
    <3> SUFFICES ASSUME project'.status = "running" PROVE \E k \in JobIds : Waiting(k)'
      BY DEF WorkLeft
    <3>1. PICK k \in JobIds : jobs'[k].status \in {"queued", "leased"} /\ jobs'[k].chapter = next
      BY <1>5 DEF Queued, Leased
    <3>2. k # j /\ chapters'[jobs'[k].chapter].status # "passed"
      BY <1>3, <1>5, <1>6, <3>1
    <3>3. Waiting(k)'
      BY <1>3, <1>4, <3>1, <3>2 DEF Waiting
    <3> QED  BY <3>3
  <2> QED  BY <2>1, <2>2 DEF KInv
<1>8. ASSUME UInv PROVE UInv'
  <2>1. ~Deferring(w)' /\ ~workers'[w].deferred
    <3>1. ~workers[w].deferred
      BY <1>1, <1>2, <1>8 DEF UInv, DeferredLate
    <3> QED  BY <1>4, <3>1 DEF Deferring
  <2>2. LeasedBusy'
    BY <1>1, <1>3, <1>4, <1>6, <1>8 DEF UInv, LeasedBusy, Busy
  <2>3. DeferredLate'
    BY <1>1, <1>3, <1>6, <1>8, <2>1 DEF UInv, DeferredLate
  <2>4. Unpassed'
    <3>1. ASSUME NEW k \in JobIds, jobs'[k].status = "queued", jobs'[k] = jobs[k]
          PROVE  chapters'[jobs[k].chapter].status # "passed"
      <4>1. k # j /\ jobs[k].chapter # c
        BY <1>3, <3>1 DEF LeasesOK, OneJobPerChapter, Unended
      <4>2. jobs[k].chapter \in Chapters /\ chapters[jobs[k].chapter].status # "passed"
        BY <1>8, <3>1 DEF RowsOK, SoundJob, UInv, Unpassed
      <4> QED  BY <1>5, <4>1, <4>2
    <3>2. \A v \in Workers : ~(workers'[v].pc = "claimed" \/ Deferring(v)')
      BY <1>1, <1>3, <2>1 DEF Busy, Deferring
    <3> QED  BY <1>6, <3>1, <3>2 DEF Unpassed
  <2>5. QueuedDue'
    <3>1. ASSUME NEW d \in Chapters, d # c, chapters[d].status = "queued"
          PROVE  Queued(jobs', d) # {}
      <4>1. Queued(jobs, d) # {}
        BY <1>3, <1>8, <3>1 DEF UInv, QueuedDue, Due, Deferring, Busy, Pipelining
      <4> QED  BY <1>6, <4>1 DEF Queued
    <3>2. Leased(jobs', next) = {}
      <4>1. \A k \in JobIds : jobs[k].status = "leased" => k = j
        BY <1>3, <1>8 DEF UInv, LeasedBusy
      <4> QED  BY <1>3, <1>5, <1>6, <4>1 DEF Leased
    <3> QED  BY <1>5, <3>1, <3>2 DEF QueuedDue
  <2> QED  BY <2>2, <2>3, <2>4, <2>5 DEF UInv
<1> QED  BY <1>7, <1>8

-----------------------------------------------------------------------------
(* The handlers *)

\* A row that a handler leaves alone, or cancels.
KeptRow(r, r2) == r2 = r \/ (Unended(r) /\ r2.status = "cancelled")

\* What the handlers clean up: a chapter that stays queued keeps its queued jobs.
LEMMA CleanedKeeps ==
  ASSUME IInv, NEW C
  PROVE  /\ \A j \in JobIds : KeptRow(jobs[j], CleanedJobs(C)[j])
         /\ \A d \in Chapters :
              /\ CleanedChapters(C)[d].status = "queued" =>
                   /\ chapters[d].status = "queued"
                   /\ \A j \in JobIds : jobs[j].status = "queued" /\ jobs[j].chapter = d
                                          => CleanedJobs(C)[j] = jobs[j]
              /\ CleanedChapters(C)[d].status = "passed" => chapters[d].status = "passed"
<1> DEFINE live == CancelExpiredLeasedJobs(jobs, C)
<1>1. Terminal("cancelled").status = "cancelled"
  BY DEF Terminal, NoJob
<1>2. \A j \in JobIds : \/ live[j] = jobs[j]
                        \/ jobs[j].status = "leased" /\ live[j] = Terminal("cancelled")
  BY DEF CancelExpiredLeasedJobs
<1>3. \A r \in ChapterRow : [r EXCEPT !.status = "paused"].status = "paused"
  BY DEF ChapterRow
<1>4. \A d \in Chapters : chapters[d] \in ChapterRow
  BY DEF IInv, RowsOK, SoundChapter
<1> HIDE DEF live
<1>5. CASE Cached.status # "paused"
  <2>1. CleanedJobs(C) = live /\ CleanedChapters(C) = chapters
    BY <1>5 DEF CleanedJobs, CleanedChapters, live
  <2> QED  BY <1>1, <1>2, <2>1 DEF KeptRow, Unended
<1>6. CASE Cached.status = "paused"
  <2>1. CleanedJobs(C) = CancelQueuedJobs(live, C)
    BY <1>6 DEF CleanedJobs, live
  <2>2. CleanedChapters(C) = PauseQueuedChapters(chapters, C)
    BY <1>6 DEF CleanedChapters
  <2>3. \A j \in JobIds :
          CancelQueuedJobs(live, C)[j] = IF live[j].status = "queued" /\ live[j].chapter \in C
                                           THEN Terminal("cancelled") ELSE live[j]
    BY DEF CancelQueuedJobs
  <2>4. \A d \in Chapters :
          PauseQueuedChapters(chapters, C)[d] =
            IF d \in C /\ chapters[d].status = "queued"
              THEN [chapters[d] EXCEPT !.status = "paused"] ELSE chapters[d]
    BY DEF PauseQueuedChapters
  <2>5. \A j \in JobIds : KeptRow(jobs[j], CleanedJobs(C)[j])
    BY <1>1, <1>2, <2>1, <2>3 DEF KeptRow, Unended
  <2>6. ASSUME NEW d \in Chapters, CleanedChapters(C)[d].status = "queued"
        PROVE  /\ chapters[d].status = "queued"
               /\ \A j \in JobIds : jobs[j].status = "queued" /\ jobs[j].chapter = d
                                      => CleanedJobs(C)[j] = jobs[j]
    <3>1. chapters[d].status = "queued" /\ d \notin C
      BY <1>3, <1>4, <2>2, <2>4, <2>6
    <3> QED  BY <1>2, <2>1, <2>3, <3>1
  <2>7. \A d \in Chapters : CleanedChapters(C)[d].status = "passed" => chapters[d].status = "passed"
    BY <1>3, <1>4, <2>2, <2>4
  <2> QED  BY <2>5, <2>6, <2>7
<1> QED  BY <1>5, <1>6

\* The active job that retry_chapter and resume_project cancel is cancelled, no other.
LEMMA CleanupTerminalKept ==
  ASSUME NEW jb \in [JobIds -> SoundJob], NEW ch, NEW c, NEW j \in JobIds
  PROVE  /\ KeptRow(jb[j], CleanupTerminalChapterActiveJob(jb, ch, c)[j])
         /\ jb[j].chapter # c => CleanupTerminalChapterActiveJob(jb, ch, c)[j] = jb[j]
<1> DEFINE A == Queued(jb, c) \cup LiveLeased(jb, c)
<1>1. A # {} => Min(A) \in A
  <2>1. A \subseteq Nat
    BY StateAssumption DEF Queued, LiveLeased, Leased, JobIds
  <2> HIDE DEF A
  <2> QED  BY <2>1, MinLeast
<1>2. \A k \in A : Unended(jb[k])
  BY DEF Queued, LiveLeased, Leased, Unended
<1>3. HasActiveJob(jb, c) = (A # {})
  BY DEF HasActiveJob
<1>4. Terminal("cancelled").status = "cancelled"
  BY DEF Terminal, NoJob
<1> HIDE DEF A
<1>5. CleanupTerminalChapterActiveJob(jb, ch, c) =
        IF ch[c].status \in {"failed", "paused"} /\ A # {}
          THEN [jb EXCEPT ![Min(A)] = Terminal("cancelled")] ELSE jb
  BY <1>3 DEF CleanupTerminalChapterActiveJob, A
<1> QED  BY <1>1, <1>2, <1>4, <1>5, CleanupTerminalKeeps DEF KeptRow

\* A handler that found no active job inserts one.
LEMMA IdleGrows ==
  ASSUME NEW jb \in [JobIds -> SoundJob], Idle(jb), NEW c \in Chapters, NEW kind \in JobKind,
         CanEnqueue(jb, c)
  PROVE  Grown(jb, EnqueueGenerateJob(jb, c, kind), c)
<1>1. ~HasActiveJob(jb, c)
  BY DEF Idle, HasQueuedJob, HasLiveLeasedJob, HasActiveJob
<1>2. Leased(jb, c) = {} /\ Fresh(jb) # {}
  BY <1>1 DEF CanEnqueue
<1> QED  BY <1>2, EnqueueGrows

\* A chapter queued by a handler, its accepted attempt kept or not.
LEMMA QueueStatus ==
  ASSUME NEW ch \in [Chapters -> SoundChapter], NEW c \in Chapters
  PROVE  /\ QueueChapter(ch, c)[c].status = "queued" /\ Requeue(ch, c)[c].status = "queued"
         /\ \A d \in Chapters \ {c} : QueueChapter(ch, c)[d] = ch[d] /\ Requeue(ch, c)[d] = ch[d]
<1>1. QueueChapter(ch, c) \in [Chapters -> SoundChapter]
  BY QueueSound
<1>2. /\ QueueChapter(ch, c)[c].status = "queued"
      /\ \A d \in Chapters \ {c} : QueueChapter(ch, c)[d] = ch[d]
  BY DEF QueueChapter, SoundChapter, ChapterRow
<1>3. Requeue(ch, c) = [QueueChapter(ch, c) EXCEPT ![c] =
                          [QueueChapter(ch, c)[c] EXCEPT !.accepted = FALSE]]
  BY DEF Requeue
<1>4. \A r \in SoundChapter : [r EXCEPT !.accepted = FALSE].status = r.status
  BY DEF SoundChapter, ChapterRow
<1> QED  BY <1>1, <1>2, <1>3, <1>4

\* What a handler that serves its request makes of the queue, c being the chapter it
\* queues, or 0.
HandlerShape(jb, c) ==
  /\ Idle(jb)
  /\ \A j \in JobIds : KeptRow(jobs[j], jb[j])
  /\ \A d \in Chapters \ {c} :
       chapters'[d].status = "queued" =>
         /\ chapters[d].status = "queued"
         /\ \A j \in JobIds : jobs[j].status = "queued" /\ jobs[j].chapter = d => jb[j] = jobs[j]
  /\ (\E w \in Workers : Busy(w)) =>
       \A d \in Chapters : chapters'[d].status = "passed" => chapters[d].status = "passed"
  /\ \/ jobs' = jb /\ project'.status # "running" /\ c = 0
     \/ c \in Chapters /\ chapters'[c].status = "queued" /\ Grown(jb, jobs', c)

\* start_project queues the first chapter still to be written.
LEMMA StartShape ==
  ASSUME IInv, LInv, Service, StartProject
  PROVE  \E jb \in [JobIds -> SoundJob], c \in Chapters \cup {0} : HandlerShape(jb, c)
<1> DEFINE jb == CancelExpiredLeasedJobs(jobs, Chapters)
           ch == RepairOrphanQueuedChapters(chapters, jb, 0)
           c  == FirstRunnableChapter(ch)
<1> USE DEF IInv
<1>1. jb \in [JobIds -> SoundJob] /\ ch \in [Chapters -> SoundChapter]
  BY CancelSound, RepairSound DEF RowsOK
<1>2. /\ \A j \in JobIds : KeptRow(jobs[j], jb[j])
      /\ \A j \in JobIds : jobs[j].status = "queued" => jb[j] = jobs[j]
  BY DEF CancelExpiredLeasedJobs, KeptRow, Unended, Terminal, NoJob
<1>3. \A d \in Chapters : ch[d].status = "queued" => chapters[d].status = "queued"
  <2>1. \A r \in SoundChapter : [r EXCEPT !.status = "paused"].status = "paused"
    BY DEF SoundChapter, ChapterRow
  <2> QED  BY <2>1 DEF RepairOrphanQueuedChapters, PauseQueuedChapters, RowsOK
<1> HIDE DEF ch, jb
<1>4. c \in Chapters
  <2>1. c # 0
    BY DEF StartProject, ch, jb
  <2> QED  BY <2>1, RunnableType
<1>5. Idle(jb) /\ chapters' = QueueChapter(ch, c) /\ Enqueue(jb, c, "advance")
  BY DEF StartProject, ch, jb
<1> HIDE DEF c
<1>6. Grown(jb, jobs', c)
  <2>1. "advance" \in JobKind
    BY DEF JobKind
  <2> QED  BY <1>1, <1>4, <1>5, <2>1, IdleGrows DEF Enqueue
<1>7. ~\E w \in Workers : Busy(w)
  BY Refused
<1>8. HandlerShape(jb, c)
  BY <1>1, <1>2, <1>3, <1>4, <1>5, <1>6, <1>7, QueueStatus DEF HandlerShape
<1> QED  BY <1>1, <1>4, <1>8

\* retry_chapter and continue_chapter queue the chapter of the request.
LEMMA RetryShape ==
  ASSUME IInv, LInv, Service, RetryChapter \/ ContinueChapter
  PROVE  \E jb \in [JobIds -> SoundJob], c \in Chapters \cup {0} : HandlerShape(jb, c)
<1> DEFINE c  == request.chapter
           ch == CleanedChapters({c})
           j1 == CleanedJobs({c})
           jb == IF Cached.status = "paused" /\ RetryChapter
                   THEN CleanupTerminalChapterActiveJob(j1, ch, c) ELSE j1
<1> USE DEF IInv
<1>1. c \in Chapters
  BY DEF RetryChapter, ContinueChapter, Serving, ServiceOK, SoundRequest, ChapterOps
<1>2. /\ j1 \in [JobIds -> SoundJob] /\ ch \in [Chapters -> SoundChapter]
      /\ jb \in [JobIds -> SoundJob]
  BY CleanedSound, CleanupTerminalSound
<1>3. Idle(jb) /\ chapters' = Requeue(ch, c) /\ Enqueue(jb, c, "single")
  BY DEF RetryChapter, ContinueChapter, Serving
<1>4. \A j \in JobIds : /\ KeptRow(j1[j], jb[j])
                        /\ j1[j].chapter # c => jb[j] = j1[j]
  <2> HIDE DEF j1, ch
  <2> QED  BY <1>2, CleanupTerminalKept DEF KeptRow
<1>5. /\ \A j \in JobIds : KeptRow(jobs[j], j1[j])
      /\ \A d \in Chapters :
           /\ ch[d].status = "queued" =>
                /\ chapters[d].status = "queued"
                /\ \A j \in JobIds : jobs[j].status = "queued" /\ jobs[j].chapter = d
                                       => j1[j] = jobs[j]
           /\ ch[d].status = "passed" => chapters[d].status = "passed"
  BY CleanedKeeps
<1> HIDE DEF jb, ch, j1, c
<1>6. Grown(jb, jobs', c)
  <2>1. "single" \in JobKind
    BY DEF JobKind
  <2> QED  BY <1>1, <1>2, <1>3, <2>1, IdleGrows DEF Enqueue
<1>7. \A j \in JobIds : KeptRow(jobs[j], jb[j])
  BY <1>4, <1>5 DEF KeptRow, Unended
<1>8. /\ chapters'[c].status = "queued"
      /\ \A d \in Chapters \ {c} : chapters'[d] = ch[d]
  BY <1>1, <1>2, <1>3, QueueStatus
<1>9. HandlerShape(jb, c)
  BY <1>1, <1>3, <1>4, <1>5, <1>6, <1>7, <1>8 DEF HandlerShape
<1> QED  BY <1>1, <1>2, <1>9

\* resume_project queues the chapter that was interrupted, or the next one.
LEMMA ResumeShape ==
  ASSUME IInv, LInv, Service, ResumeProject
  PROVE  \E jb \in [JobIds -> SoundJob], c \in Chapters \cup {0} : HandlerShape(jb, c)
<1> DEFINE ch    == CleanedChapters(Chapters)
           stale == StaleInflightChapter(ch)
           c     == IF stale # 0 THEN stale ELSE FirstRunnableChapter(ch)
           j1    == CleanedJobs(Chapters)
           jb    == IF Cached.status = "paused" /\ c # 0
                      THEN CleanupTerminalChapterActiveJob(j1, ch, c) ELSE j1
<1> USE DEF IInv
<1>1. c \in Chapters
  <2>1. c # 0
    BY DEF ResumeProject
  <2> QED  BY <2>1, RunnableType
<1>2. /\ j1 \in [JobIds -> SoundJob] /\ ch \in [Chapters -> SoundChapter]
      /\ jb \in [JobIds -> SoundJob]
  BY CleanedSound, CleanupTerminalSound
<1>3. Idle(jb) /\ chapters' = QueueChapter(ch, c) /\ Enqueue(jb, c, "advance")
  BY DEF ResumeProject
<1>4. \A j \in JobIds : /\ KeptRow(j1[j], jb[j])
                        /\ j1[j].chapter # c => jb[j] = j1[j]
  <2> HIDE DEF j1, ch, c
  <2> QED  BY <1>2, CleanupTerminalKept DEF KeptRow
<1>5. /\ \A j \in JobIds : KeptRow(jobs[j], j1[j])
      /\ \A d \in Chapters :
           /\ ch[d].status = "queued" =>
                /\ chapters[d].status = "queued"
                /\ \A j \in JobIds : jobs[j].status = "queued" /\ jobs[j].chapter = d
                                       => j1[j] = jobs[j]
           /\ ch[d].status = "passed" => chapters[d].status = "passed"
  BY CleanedKeeps
<1> HIDE DEF jb, ch, j1, c
<1>6. Grown(jb, jobs', c)
  <2>1. "advance" \in JobKind
    BY DEF JobKind
  <2> QED  BY <1>1, <1>2, <1>3, <2>1, IdleGrows DEF Enqueue
<1>7. \A j \in JobIds : KeptRow(jobs[j], jb[j])
  BY <1>4, <1>5 DEF KeptRow, Unended
<1>8. /\ chapters'[c].status = "queued"
      /\ \A d \in Chapters \ {c} : chapters'[d] = ch[d]
  BY <1>1, <1>2, <1>3, QueueStatus
<1>9. HandlerShape(jb, c)
  BY <1>1, <1>3, <1>4, <1>5, <1>6, <1>7, <1>8 DEF HandlerShape
<1> QED  BY <1>1, <1>2, <1>9

\* rewrite_from_chapter queues its chapter and makes those behind it pending.
LEMMA RewriteShape ==
  ASSUME IInv, LInv, Service, RewriteFromChapter
  PROVE  \E jb \in [JobIds -> SoundJob], c \in Chapters \cup {0} : HandlerShape(jb, c)
<1> DEFINE c     == request.chapter
           ch    == CleanedChapters(Chapters)
           jb    == CleanedJobs(Chapters)
           reset == [d \in Chapters |-> IF d >= c THEN NewChapter ELSE ch[d]]
<1> USE DEF IInv
<1>1. c \in Chapters
  BY DEF RewriteFromChapter, Serving, ServiceOK, SoundRequest, ChapterOps
<1>2. jb \in [JobIds -> SoundJob] /\ ch \in [Chapters -> SoundChapter]
  BY CleanedSound
<1>3. Idle(jb) /\ chapters' = QueueChapter(reset, c) /\ Enqueue(jb, c, "advance")
  BY DEF RewriteFromChapter
<1>4. NewChapter \in SoundChapter /\ NewChapter.status = "pending"
  BY StateAssumption DEF NewChapter, SoundChapter, ChapterRow, ChapterStatus
<1>5. /\ \A j \in JobIds : KeptRow(jobs[j], jb[j])
      /\ \A d \in Chapters :
           ch[d].status = "queued" =>
             /\ chapters[d].status = "queued"
             /\ \A j \in JobIds : jobs[j].status = "queued" /\ jobs[j].chapter = d
                                    => jb[j] = jobs[j]
  BY CleanedKeeps
<1> HIDE DEF jb, ch, c
<1>6. /\ reset \in [Chapters -> SoundChapter]
      /\ \A d \in Chapters : reset[d].status = "queued" => ch[d].status = "queued"
  BY <1>2, <1>4
<1> HIDE DEF reset
<1>7. Grown(jb, jobs', c)
  <2>1. "advance" \in JobKind
    BY DEF JobKind
  <2> QED  BY <1>1, <1>2, <1>3, <2>1, IdleGrows DEF Enqueue
<1>8. /\ chapters'[c].status = "queued"
      /\ \A d \in Chapters \ {c} : chapters'[d] = reset[d]
  BY <1>1, <1>3, <1>6, QueueStatus
<1>9. ~\E w \in Workers : Busy(w)
  BY Refused
<1>10. HandlerShape(jb, c)
  BY <1>1, <1>3, <1>5, <1>6, <1>7, <1>8, <1>9 DEF HandlerShape
<1> QED  BY <1>1, <1>2, <1>10

\* No job is leased when a handler that cleaned up every chapter finds none active.
LEMMA IdleCleaned ==
  ASSUME IInv, Idle(CleanedJobs(Chapters)), NEW d \in Chapters
  PROVE  Leased(CleanedJobs(Chapters), d) = {}
<1> DEFINE jb == CleanedJobs(Chapters)
<1>1. jb \in [JobIds -> SoundJob] /\ \A j \in JobIds : KeptRow(jobs[j], jb[j])
  BY CleanedSound, CleanedKeeps DEF IInv
<1> SUFFICES ASSUME NEW j \in JobIds, jb[j].status = "leased", jb[j].chapter = d PROVE FALSE
  BY DEF Leased
<1>2. jb[j] = jobs[j]
  BY <1>1 DEF KeptRow
<1>3. jobs[j].live
  BY <1>2, CleanedLeases DEF IInv
<1> HIDE DEF jb
<1>4. j \in LiveLeased(jb, d)
  BY <1>2, <1>3 DEF LiveLeased, Leased
<1> QED  BY <1>4 DEF Idle, HasLiveLeasedJob, jb

\* manual_approve_chapter queues the next chapter with a job, for no job is leased, or
\* leaves the project stopped: one read as stopped has not been started since.
LEMMA ApproveShape ==
  ASSUME IInv, LInv, Service, ManualApproveChapter
  PROVE  \E jb \in [JobIds -> SoundJob], c \in Chapters \cup {0} : HandlerShape(jb, c)
<1> DEFINE c    == request.chapter
           jb   == CleanedJobs(Chapters)
           c1   == CleanedChapters(Chapters)
           ch   == [c1 EXCEPT ![c] = AcceptChapter(@)]
           rep  == RepairOrphanQueuedChapters(ch, jb, c)
           p    == [project EXCEPT !.current = OrmSet(Cached.current, c, @)]
           next == NextRunnableChapter(rep, c)
           s    == AdvanceAfterChapterSuccess(p, Cached.status, rep, jb, next, project.auto)
<1> USE DEF IInv
<1>1. c \in Chapters
  BY DEF ManualApproveChapter, Serving, ServiceOK, SoundRequest, ChapterOps
<1>2. jb \in [JobIds -> SoundJob] /\ c1 \in [Chapters -> SoundChapter]
  BY CleanedSound
<1>3. /\ Idle(jb) /\ Fresh(jobs) # {}
      /\ project' = s.project /\ chapters' = s.chapters /\ jobs' = s.jobs
      /\ request # NoRequest
  BY DEF ManualApproveChapter, Serving, NoRequest
<1>4. /\ \A j \in JobIds : KeptRow(jobs[j], jb[j])
      /\ \A d \in Chapters :
           c1[d].status = "queued" =>
             /\ chapters[d].status = "queued"
             /\ \A j \in JobIds : jobs[j].status = "queued" /\ jobs[j].chapter = d
                                    => jb[j] = jobs[j]
  BY CleanedKeeps
<1>5. ~\E w \in Workers : Busy(w)
  BY Refused
<1>6. p \in ProjectRow /\ p.status = project.status
  <2>1. OrmSet(Cached.current, c, project.current) \in 0..N
    BY <1>1, StateAssumption DEF OrmSet, RowsOK, ProjectRow, Chapters
  <2> QED  BY <2>1 DEF RowsOK, ProjectRow
<1>7. CachedRunning
  BY DEF LInv
<1> HIDE DEF jb, c1, c, p
<1>8. /\ ch \in [Chapters -> SoundChapter]
      /\ \A d \in Chapters : ch[d].status = "queued" => c1[d].status = "queued"
  <2>1. c1[c] \in ChapterRow
    BY <1>1, <1>2 DEF SoundChapter
  <2>2. AcceptChapter(c1[c]) \in SoundChapter /\ AcceptChapter(c1[c]).status = "passed"
    BY <2>1, AcceptSound DEF AcceptChapter, ChapterRow
  <2> QED  BY <1>1, <1>2, <2>2
<1> HIDE DEF ch
<1>9. /\ rep \in [Chapters -> SoundChapter]
      /\ \A d \in Chapters : rep[d].status = "queued" => ch[d].status = "queued"
  <2>1. \A r \in SoundChapter : [r EXCEPT !.status = "paused"].status = "paused"
    BY DEF SoundChapter, ChapterRow
  <2> QED  BY <1>8, <2>1, RepairSound DEF RepairOrphanQueuedChapters, PauseQueuedChapters
<1> HIDE DEF rep
<1>10. next \in Chapters \cup {0}
  BY RunnableType
<1> HIDE DEF next
<1>11. CASE next = 0 \/ ~project.auto
  <2>1. \E v \in {"completed", "paused"} :
          s = [project |-> [p EXCEPT !.status = OrmSet(Cached.status, v, @)],
               chapters |-> rep, jobs |-> jb]
    BY <1>11 DEF AdvanceAfterChapterSuccess
  <2>2. PICK v \in {"completed", "paused"} :
          s = [project |-> [p EXCEPT !.status = OrmSet(Cached.status, v, @)],
               chapters |-> rep, jobs |-> jb]
    BY <2>1
  <2> DEFINE q == [p EXCEPT !.status = OrmSet(Cached.status, v, @)]
  <2>3. q.status # "running"
    <3>1. q.status = OrmSet(Cached.status, v, project.status)
      BY <1>6 DEF ProjectRow
    <3> QED  BY <1>3, <1>7, <3>1 DEF OrmSet, CachedRunning
  <2> HIDE DEF q, s
  <2>4. project' = q /\ chapters' = rep /\ jobs' = jb
    BY <1>3, <2>2 DEF q
  <2>5. HandlerShape(jb, 0)
    BY <1>3, <1>4, <1>5, <1>8, <1>9, <2>3, <2>4 DEF HandlerShape
  <2> QED  BY <1>2, <2>5
<1>12. CASE next # 0 /\ project.auto
  <2>1. next \in Chapters /\ "advance" \in JobKind
    BY <1>10, <1>12 DEF JobKind
  <2>2. Leased(jb, next) = {}
    BY <1>3, <2>1, IdleCleaned DEF jb
  <2>3. Fresh(jb) # {}
    <3>1. \A k \in Fresh(jobs) : k \in Fresh(jb)
      BY <1>4 DEF Fresh, KeptRow, Unended
    <3> QED  BY <1>3, <3>1
  <2>4. Grown(jb, EnqueueGenerateJob(jb, next, "advance"), next)
    BY <1>2, <2>1, <2>2, <2>3, EnqueueGrows
  <2>5. /\ s.chapters = QueueChapter(rep, next)
        /\ s.jobs = EnqueueGenerateJob(jb, next, "advance")
    BY <1>12, <2>2 DEF AdvanceAfterChapterSuccess, EnqueueConflicts
  <2> HIDE DEF s
  <2>6. /\ chapters'[next].status = "queued"
        /\ \A d \in Chapters \ {next} : chapters'[d] = rep[d]
    BY <1>3, <1>9, <2>1, <2>5, QueueStatus
  <2>7. HandlerShape(jb, next)
    BY <1>3, <1>4, <1>5, <1>8, <1>9, <2>1, <2>4, <2>5, <2>6 DEF HandlerShape
  <2> QED  BY <1>2, <2>1, <2>7
<1> QED  BY <1>11, <1>12

\* A handler that serves its request leaves a job for what it queues and for what it leaves
\* running.
LEMMA HandlerKeeps ==
  ASSUME IInv, LeasesOK, KInv, workers' = workers,
         NEW jb \in [JobIds -> SoundJob], NEW c \in Chapters \cup {0}, HandlerShape(jb, c)
  PROVE  KInv' /\ (UInv => UInv')
<1> USE DEF IInv
<1>1. \A j \in JobIds : jb[j].status # "queued"
  BY DEF HandlerShape, Idle, HasQueuedJob, Queued, SoundJob
<1>2. \A j \in JobIds : \/ jobs'[j] = jb[j]
                        \/ /\ jb[j].status = "absent" /\ jobs'[j].status = "queued"
                           /\ jobs'[j].chapter = c /\ ~jobs'[j].deferred
                           /\ chapters'[c].status = "queued"
  BY DEF HandlerShape, Grown, Extended
<1>3. \A j \in JobIds : KeptRow(jobs[j], jb[j])
  BY DEF HandlerShape
<1>4. KInv'
  <2>1. ASSUME NEW w \in Workers, Busy(w)
        PROVE  jobs'[workers[w].job].status \notin {"queued", "deleted"}
    <3>1. workers[w].job \in JobIds /\ MyJob(w).status \notin {"queued", "deleted", "absent"}
      BY <2>1, BusyWorker DEF KInv, JobKept, LeasesOK, JobsPresent, Busy
    <3> QED  BY <1>2, <1>3, <3>1 DEF KeptRow, MyJob
  <2>2. JobKept'
    BY <2>1 DEF JobKept, Busy, MyJob
  <2>3. WorkLeft'
    <3> SUFFICES ASSUME project'.status = "running" PROVE \E j \in JobIds : Waiting(j)'
      BY DEF WorkLeft
    <3>1. chapters'[c].status = "queued" /\ Queued(jobs', c) # {}
      BY DEF HandlerShape, Grown
    <3>2. PICK j \in JobIds : jobs'[j].status = "queued" /\ jobs'[j].chapter = c
      BY <3>1 DEF Queued
    <3>3. Waiting(j)'
      BY <3>1, <3>2 DEF Waiting
    <3> QED  BY <3>3
  <2> QED  BY <2>2, <2>3 DEF KInv
<1>5. ASSUME UInv PROVE UInv'
  <2>1. LeasedBusy'
    BY <1>2, <1>3, <1>5 DEF UInv, LeasedBusy, KeptRow, Busy
  <2>2. DeferredLate'
    BY <1>1, <1>2, <1>5 DEF UInv, DeferredLate, Busy
  <2>3. Unpassed'
    <3>1. \A w \in Workers : workers[w].pc = "claimed" \/ Deferring(w)
                               => Busy(w) /\ workers[w].chapter \in Chapters
      BY BusyWorker DEF Deferring, Busy
    <3> QED  BY <1>1, <1>2, <1>5, <3>1 DEF UInv, Unpassed, Deferring, HandlerShape
  <2>4. QueuedDue'
    <3>1. ASSUME NEW d \in Chapters, chapters'[d].status = "queued", d # c
          PROVE  \E w \in Workers : workers[w].chapter = d /\ Due(w)
      <4>1. chapters[d].status = "queued" /\ Queued(jobs, d) = {}
        BY <1>1, <3>1 DEF HandlerShape, Queued
      <4> QED  BY <1>5, <4>1 DEF UInv, QueuedDue
    <3>2. ASSUME NEW w \in Workers, Due(w)
          PROVE  Due(w)'
      BY <3>2 DEF Due, Deferring
    <3>3. c \in Chapters => Queued(jobs', c) # {}
      BY DEF HandlerShape, Grown, Chapters
    <3> QED  BY <3>1, <3>2, <3>3 DEF QueuedDue
  <2> QED  BY <2>1, <2>2, <2>3, <2>4 DEF UInv
<1> QED  BY <1>4, <1>5

\* pause_project leaves nothing queued.
LEMMA PauseKeeps ==
  ASSUME IInv, KInv, Service, PauseProject
  PROVE  KInv' /\ (UInv => UInv')
<1> USE DEF IInv
<1>1. /\ project'.status = "paused" /\ workers' = workers
      /\ jobs' = CancelQueuedJobs(jobs, Chapters)
      /\ chapters' = PauseQueuedChapters(chapters, Chapters)
  BY DEF PauseProject, OrmSet, Service, workerVars, RowsOK, ProjectRow
<1>2. /\ \A j \in JobIds : jobs'[j].status # "queued"
      /\ \A j \in JobIds : jobs'[j] = jobs[j] \/ jobs'[j].status = "cancelled"
  BY <1>1 DEF CancelQueuedJobs, Terminal, NoJob, RowsOK, SoundJob
<1>3. \A d \in Chapters : /\ chapters'[d].status # "queued"
                          /\ chapters'[d].status = "passed" => chapters[d].status = "passed"
  BY <1>1 DEF PauseQueuedChapters, RowsOK, SoundChapter, ChapterRow
<1>4. KInv'
  BY <1>1, <1>2, BusyWorker DEF KInv, JobKept, WorkLeft, Busy, MyJob
<1>5. ASSUME UInv PROVE UInv'
  <2>1. LeasedBusy'
    BY <1>1, <1>2, <1>5 DEF UInv, LeasedBusy, Busy
  <2>2. DeferredLate'
    BY <1>1, <1>2, <1>5 DEF UInv, DeferredLate, Busy
  <2>3. Unpassed'
    <3>1. \A w \in Workers : workers[w].pc = "claimed" \/ Deferring(w)
                               => workers[w].chapter \in Chapters
      BY BusyWorker DEF Deferring
    <3> QED  BY <1>1, <1>2, <1>3, <1>5, <3>1 DEF UInv, Unpassed, Deferring
  <2>4. QueuedDue'
    BY <1>3 DEF QueuedDue
  <2> QED  BY <2>1, <2>2, <2>3, <2>4 DEF UInv
<1> QED  BY <1>4, <1>5

\* No request loses work.
LEMMA ServiceKeeps ==
  ASSUME IInv, LInv, LeasesOK, KInv, Service
  PROVE  KInv' /\ (UInv => UInv')
<1>1. workers' = workers
  BY DEF Service, workerVars
<1>2. CASE Reject \/ \E op, c : Receive(op, c)
  <2>1. UNCHANGED <<project, chapters, jobs, workers>>
    BY <1>1, <1>2 DEF Reject, Receive, rows
  <2>2. KInv'
    BY <2>1 DEF KInv, JobKept, WorkLeft, Waiting, Unfinished, Undecided, HasJob, Deferring, Busy, MyJob
  <2>3. UInv => UInv'
    BY <2>1 DEF UInv, LeasedBusy, DeferredLate, Unpassed, QueuedDue, Queued, Due, Deferring, Busy
  <2> QED  BY <2>2, <2>3
<1>3. CASE PauseProject
  BY <1>3, PauseKeeps
<1>4. CASE \/ StartProject \/ RetryChapter \/ ContinueChapter \/ ResumeProject
           \/ ManualApproveChapter \/ RewriteFromChapter
  <2>1. \E jb \in [JobIds -> SoundJob], c \in Chapters \cup {0} : HandlerShape(jb, c)
    BY <1>4, StartShape, RetryShape, ResumeShape, ApproveShape, RewriteShape
  <2> QED  BY <1>1, <2>1, HandlerKeeps
<1>5. ~ReadPassed /\ ~DecideRevision
  BY DEF LInv, RushQuiet, RevisionOps, ReadPassed, DecideRevision, Serving
<1> QED  BY <1>2, <1>3, <1>4, <1>5 DEF Service, ServiceStep

-----------------------------------------------------------------------------
(* Whatever happens, and until a worker crashes *)

\* In a project just imported there is nothing to do.
LEMMA InitKeeps == Init => KInv /\ UInv
<1> SUFFICES ASSUME Init PROVE KInv /\ UInv
  OBVIOUS
<1>1. /\ \A j \in JobIds : jobs[j].status = "absent"
      /\ \A c \in Chapters : chapters[c].status = "pending"
      /\ \A w \in Workers : workers[w].pc = "idle"
      /\ project.status = "ready"
  BY DEF Init, NoJob, NewChapter, IdleWorker
<1> QED  BY <1>1 DEF KInv, JobKept, WorkLeft, UInv, LeasedBusy, DeferredLate, Unpassed, QueuedDue,
                     Busy, Deferring

\* A worker's step, and a lease's, keep both invariants.
LEMMA MachineKeeps ==
  ASSUME Timely, RushMode, IInv, LInv, LInv', LeasesOK, KInv,
         LeaseStep \/ \E w \in Workers : WorkerStep(w) \/ CommitChunks(w)
  PROVE  KInv' /\ (UInv => UInv')
<1>1. ASSUME NEW w \in Workers, Finish(w)
      PROVE  KInv' /\ (UInv => UInv')
  BY <1>1, FinishKInv, FinishUInv
<1>2. ASSUME NEW w \in Workers, WorkerStep(w) \/ CommitChunks(w), ~Finish(w)
      PROVE  KInv' /\ (UInv => UInv')
  BY <1>2, NeverInRush, ClaimKeeps, OpenKeeps, WorkKeeps, GiveUpKeeps, ErrorKeeps, FinalizeKeeps,
     FailKeeps DEF WorkerStep
<1> QED  BY <1>1, <1>2, LapseKeepsWork

\* KInv is inductive, crashes included.
LEMMA NextKInv ==
  ASSUME Timely, RushMode
  PROVE  IInv /\ LInv /\ LInv' /\ LeasesOK /\ KInv /\ [Next]_vars => KInv'
<1> SUFFICES ASSUME IInv, LInv, LInv', LeasesOK, KInv, [Next]_vars PROVE KInv'
  OBVIOUS
<1>1. CASE UNCHANGED vars
  BY <1>1 DEF vars, KInv, JobKept, WorkLeft, Waiting, Unfinished, Undecided, HasJob, Deferring,
              Busy, MyJob
<1>2. CASE Service
  BY <1>2, ServiceKeeps
<1>3. CASE Machine
  BY <1>3, MachineKeeps, CrashKInv DEF Machine
<1> QED  BY <1>1, <1>2, <1>3 DEF Next

\* UInv is inductive as long as no worker process is killed.
LEMMA NextUInv ==
  ASSUME Timely, RushMode
  PROVE  IInv /\ LInv /\ LInv' /\ LeasesOK /\ KInv /\ (Uncrashed => UInv) /\ [Next]_vars
           => (Uncrashed => UInv)'
<1> SUFFICES ASSUME IInv, LInv, LInv', LeasesOK, KInv, Uncrashed => UInv, [Next]_vars, Uncrashed'
    PROVE  UInv'
  OBVIOUS
<1>1. CASE UNCHANGED vars
  BY <1>1 DEF vars, Uncrashed, UInv, LeasedBusy, DeferredLate, Unpassed, QueuedDue, Queued,
       Due, Deferring, Busy
<1>2. CASE Service
  <2>1. UInv
    BY <1>2 DEF Service, workerVars, Uncrashed
  <2> QED  BY <1>2, <2>1, ServiceKeeps
<1>3. CASE Machine
  <2>1. \A w \in Workers : ~Crash(w)
    <3>1. crashesLeft \in 0..MaxCrashes /\ MaxCrashes \in Nat
      BY WorkerAssumption DEF IInv, WorkersOK
    <3> QED  BY <3>1 DEF Crash, Uncrashed
  <2>2. crashesLeft' = crashesLeft
    <3>1. ASSUME NEW w \in Workers, WorkerStep(w) \/ CommitChunks(w)
          PROVE  crashesLeft' = crashesLeft
      <4>1. CASE Claim(w) \/ Open(w) \/ StartWriting(w) \/ SubmitReview(w) \/ CommitChunks(w)
        BY <4>1 DEF Claim, Open, StartWriting, SubmitReview, CommitChunks
      <4>2. CASE FailAttempt(w) \/ ProviderUnavailable(w) \/ Accept(w)
        BY <4>2 DEF FailAttempt, ProviderUnavailable, Accept
      <4>3. CASE Finalize(w) \/ FinalizeRush(w)
        BY <4>3 DEF Finalize, FinalizeRush, FinalizeAccepted
      <4>4. CASE \/ Interrupt(w) \/ LoseLease(w) \/ PipelineError(w) \/ StopRenewal(w)
                 \/ Rollback(w)
        BY <4>4 DEF Interrupt, LoseLease, PipelineError, StopRenewal, Rollback
      <4>5. CASE Finish(w) \/ Fail(w)
        BY <4>5 DEF Finish, Fail
      <4> QED  BY <3>1, <4>1, <4>2, <4>3, <4>4, <4>5 DEF WorkerStep
    <3>2. LeaseStep => crashesLeft' = crashesLeft
      BY DEF LeaseStep, Renew, RenewalHangs, ExpireJob, ExpireProject
    <3> QED  BY <1>3, <2>1, <3>1, <3>2 DEF Machine
  <2>3. UInv
    BY <2>2 DEF Uncrashed
  <2> QED  BY <1>3, <2>1, <2>3, MachineKeeps DEF Machine
<1> QED  BY <1>1, <1>2, <1>3 DEF Next

\* No work is lost between the pipeline's transaction and the one in which run_worker queues
\* what comes next, nor when a worker dies anywhere between the two: the next worker takes
\* its job over.
THEOREM WorkKept ==
  ASSUME Timely, RushMode
  PROVE  Spec => [](KInv /\ (Uncrashed => UInv))
<1> DEFINE U == Uncrashed => UInv
           P == IInv /\ LInv /\ LeasesOK
<1>1. Init => KInv /\ U
  BY InitKeeps
<1>2. P /\ P' /\ KInv /\ U /\ [Next]_vars => KInv' /\ U'
  BY NextKInv, NextUInv
<1>3. Spec => []P
  BY Invariance, LeaseInvariance, LeasesSound, PTL
<1> HIDE DEF U, P
<1>4. Spec => [](KInv /\ U)
  BY <1>1, <1>2, <1>3, PTL DEF Spec
<1> QED  BY <1>4 DEF U

\* A running project has a job or a worker at work, whichever of mark_done,
\* _enqueue_generate_job and the handlers comes last and whoever is killed in between.
THEOREM NeverStranded ==
  ASSUME Timely, RushMode
  PROVE  Spec => []RunningHasWork
<1>1. IInv /\ KInv => RunningHasWork
  <2> SUFFICES ASSUME IInv, KInv, project.status = "running"
               PROVE  \/ \E c \in Chapters : Queued(jobs, c) \cup Leased(jobs, c) # {}
                      \/ \E w \in Workers : workers[w].pc # "idle"
    BY DEF RunningHasWork
  <2>1. ASSUME NEW j \in JobIds, Waiting(j)
        PROVE  j \in Queued(jobs, jobs[j].chapter) \cup Leased(jobs, jobs[j].chapter)
    BY <2>1 DEF Waiting, Queued, Leased
  <2>2. \A j \in JobIds : Waiting(j) => jobs[j].chapter \in Chapters
    BY DEF Waiting, IInv, RowsOK, SoundJob
  <2>3. \A w \in Workers : Unfinished(w) => workers[w].pc # "idle"
    BY DEF Unfinished, Undecided, Deferring, Pipelining
  <2> QED  BY <2>1, <2>2, <2>3 DEF KInv, WorkLeft
<1> QED  BY <1>1, Invariance, WorkKept, PTL

\* Until a worker crashes, a queued chapter of it has a job or its worker, which queues it
\* again (the deferred retry of run_worker).
THEOREM QueuedCovered ==
  ASSUME Timely, RushMode
  PROVE  Spec => [](Uncrashed => QueuedChapterCovered)
<1>1. UInv => QueuedChapterCovered
  BY DEF UInv, QueuedDue, QueuedChapterCovered, Due, Deferring
<1> QED  BY <1>1, WorkKept, PTL

-----------------------------------------------------------------------------
(* What is left of QueuedChapterCovered after a crash *)

\* A start, a pause, and whatever else goes through every chapter of a project it read as
\* paused, leaves no queued chapter without a queued job: an orphan that a crash left does
\* not outlive _repair_orphan_queued_chapters and _cleanup_paused_queued_generation_state.
Restarting ==
  \/ StartProject \/ PauseProject
  \/ /\ Cached.status = "paused"
     /\ ResumeProject \/ ManualApproveChapter \/ RewriteFromChapter
NothingOrphaned ==
  \A c \in Chapters : chapters[c].status = "queued" => Queued(jobs, c) # {}

\* A handler that queues its chapter, when nothing else is queued, leaves it a job.
LEMMA QueuesOne ==
  ASSUME NEW ch \in [Chapters -> SoundChapter], \A d \in Chapters : ch[d].status # "queued",
         NEW c \in Chapters, chapters' = QueueChapter(ch, c),
         NEW jb \in [JobIds -> SoundJob], Idle(jb), Enqueue(jb, c, "advance")
  PROVE  NothingOrphaned'
<1>1. Queued(jobs', c) # {}
  <2>1. "advance" \in JobKind
    BY DEF JobKind
  <2> QED  BY <2>1, IdleGrows DEF Enqueue, Grown
<1>2. \A d \in Chapters \ {c} : chapters'[d].status # "queued"
  BY QueueStatus
<1> QED  BY <1>1, <1>2 DEF NothingOrphaned

\* start_project pauses every queued chapter behind which it finds no active job, and it is
\* served only when there is none.
LEMMA StartRepairs ==
  ASSUME IInv, StartProject
  PROVE  NothingOrphaned'
<1> DEFINE jb == CancelExpiredLeasedJobs(jobs, Chapters)
           ch == RepairOrphanQueuedChapters(chapters, jb, 0)
           c  == FirstRunnableChapter(ch)
<1>1. jb \in [JobIds -> SoundJob] /\ ch \in [Chapters -> SoundChapter]
  BY CancelSound, RepairSound DEF IInv, RowsOK
<1>2. /\ Idle(jb) /\ c # 0
      /\ chapters' = QueueChapter(ch, c) /\ Enqueue(jb, c, "advance")
  BY DEF StartProject
<1> HIDE DEF jb
<1>3. \A d \in Chapters : ~HasActiveJob(jb, d) /\ d > 0
  BY <1>2, StateAssumption DEF Idle, HasQueuedJob, HasLiveLeasedJob, HasActiveJob, Chapters
<1>4. \A d \in Chapters : ch[d].status # "queued"
  <2>1. \A r \in SoundChapter : [r EXCEPT !.status = "paused"].status = "paused"
    BY DEF SoundChapter, ChapterRow
  <2> QED  BY <1>3, <2>1 DEF RepairOrphanQueuedChapters, PauseQueuedChapters, IInv, RowsOK
<1> HIDE DEF ch
<1>5. c \in Chapters
  BY <1>2, RunnableType
<1> HIDE DEF c
<1> QED  BY <1>1, <1>2, <1>4, <1>5, QueuesOne

\* A project read as paused has all its queued chapters paused and their jobs cancelled.
LEMMA CleanedPauses ==
  ASSUME IInv, Cached.status = "paused"
  PROVE  \A d \in Chapters : CleanedChapters(Chapters)[d].status # "queued"
<1>1. \A r \in SoundChapter : [r EXCEPT !.status = "paused"].status = "paused"
  BY DEF SoundChapter, ChapterRow
<1> QED  BY <1>1 DEF CleanedChapters, PauseQueuedChapters, IInv, RowsOK

\* So resume_project queues one chapter, with a job.
LEMMA ResumeRepairs ==
  ASSUME IInv, Cached.status = "paused", ResumeProject
  PROVE  NothingOrphaned'
<1> DEFINE ch    == CleanedChapters(Chapters)
           stale == StaleInflightChapter(ch)
           c     == IF stale # 0 THEN stale ELSE FirstRunnableChapter(ch)
           j1    == CleanedJobs(Chapters)
           jb    == CleanupTerminalChapterActiveJob(j1, ch, c)
<1>1. j1 \in [JobIds -> SoundJob] /\ ch \in [Chapters -> SoundChapter]
  BY CleanedSound DEF IInv
<1>2. /\ Idle(jb) /\ c # 0
      /\ chapters' = QueueChapter(ch, c) /\ Enqueue(jb, c, "advance")
  BY DEF ResumeProject
<1>3. \A d \in Chapters : ch[d].status # "queued"
  BY CleanedPauses
<1> HIDE DEF ch, j1
<1>4. jb \in [JobIds -> SoundJob]
  BY <1>1, CleanupTerminalSound
<1>5. c \in Chapters
  BY <1>2, RunnableType
<1> HIDE DEF c, jb
<1> QED  BY <1>1, <1>2, <1>3, <1>4, <1>5, QueuesOne

\* rewrite_from_chapter resets the chapters behind its own to pending.
LEMMA RewriteRepairs ==
  ASSUME IInv, Cached.status = "paused", RewriteFromChapter
  PROVE  NothingOrphaned'
<1> DEFINE c     == request.chapter
           ch    == CleanedChapters(Chapters)
           jb    == CleanedJobs(Chapters)
           reset == [d \in Chapters |-> IF d >= c THEN NewChapter ELSE ch[d]]
<1>1. c \in Chapters
  BY DEF RewriteFromChapter, Serving, IInv, ServiceOK, SoundRequest, ChapterOps
<1>2. jb \in [JobIds -> SoundJob] /\ ch \in [Chapters -> SoundChapter]
  BY CleanedSound DEF IInv
<1>3. Idle(jb) /\ chapters' = QueueChapter(reset, c) /\ Enqueue(jb, c, "advance")
  BY DEF RewriteFromChapter
<1>4. NewChapter \in SoundChapter /\ NewChapter.status = "pending"
  BY StateAssumption DEF NewChapter, SoundChapter, ChapterRow, ChapterStatus
<1>5. \A d \in Chapters : ch[d].status # "queued"
  BY CleanedPauses
<1> HIDE DEF jb, ch, c
<1>6. reset \in [Chapters -> SoundChapter] /\ \A d \in Chapters : reset[d].status # "queued"
  BY <1>2, <1>4, <1>5
<1> HIDE DEF reset
<1> QED  BY <1>1, <1>2, <1>3, <1>6, QueuesOne

\* manual_approve_chapter queues the chapter after its own, if it goes on: no job of it is
\* leased any more, an expired one having been cancelled.
LEMMA ApproveRepairs ==
  ASSUME IInv, Cached.status = "paused", ManualApproveChapter
  PROVE  NothingOrphaned'
<1> DEFINE c    == request.chapter
           jb   == CleanedJobs(Chapters)
           c1   == CleanedChapters(Chapters)
           ch   == [c1 EXCEPT ![c] = AcceptChapter(@)]
           rep  == RepairOrphanQueuedChapters(ch, jb, c)
           p    == [project EXCEPT !.current = OrmSet(Cached.current, c, @)]
           next == NextRunnableChapter(rep, c)
           s    == AdvanceAfterChapterSuccess(p, Cached.status, rep, jb, next, project.auto)
<1> USE DEF IInv
<1>1. c \in Chapters
  BY DEF ManualApproveChapter, Serving, ServiceOK, SoundRequest, ChapterOps
<1>2. jb \in [JobIds -> SoundJob] /\ c1 \in [Chapters -> SoundChapter]
  BY CleanedSound
<1>3. /\ Idle(jb) /\ Fresh(jobs) # {}
      /\ chapters' = s.chapters /\ jobs' = s.jobs
  BY DEF ManualApproveChapter
<1>4. \A d \in Chapters : c1[d].status # "queued"
  BY CleanedPauses
<1>5. ch \in [Chapters -> SoundChapter] /\ \A d \in Chapters : ch[d].status # "queued"
  <2> HIDE DEF c1
  <2>1. c1[c] \in ChapterRow
    BY <1>1, <1>2 DEF SoundChapter
  <2>2. AcceptChapter(c1[c]) \in SoundChapter /\ AcceptChapter(c1[c]).status = "passed"
    BY <2>1, AcceptSound DEF AcceptChapter, ChapterRow
  <2> QED  BY <1>1, <1>2, <1>4, <2>2
<1> HIDE DEF ch
<1>6. rep \in [Chapters -> SoundChapter] /\ \A d \in Chapters : rep[d].status # "queued"
  <2>1. \A r \in SoundChapter : [r EXCEPT !.status = "paused"].status = "paused"
    BY DEF SoundChapter, ChapterRow
  <2>2. \A d \in Chapters : rep[d].status # "queued"
    BY <1>5, <2>1 DEF RepairOrphanQueuedChapters, PauseQueuedChapters
  <2> HIDE DEF jb
  <2> QED  BY <1>5, <2>2, RepairSound
<1> HIDE DEF rep
<1>7. next \in Chapters \cup {0}
  BY RunnableType
<1> HIDE DEF next, p
<1>8. CASE next = 0 \/ ~project.auto
  <2>1. s.chapters = rep
    BY <1>8 DEF AdvanceAfterChapterSuccess
  <2> QED  BY <1>3, <1>6, <2>1 DEF NothingOrphaned
<1>9. CASE next # 0 /\ project.auto
  <2>1. next \in Chapters
    BY <1>7, <1>9
  <2>2. Leased(jb, next) = {}
    BY <2>1, IdleCleaned, <1>3 DEF jb
  <2>3. Fresh(jb) # {}
    <3>1. \A j \in JobIds : KeptRow(jobs[j], jb[j])
      BY CleanedKeeps
    <3>2. \A k \in Fresh(jobs) : k \in Fresh(jb)
      BY <3>1 DEF Fresh, KeptRow, Unended
    <3> QED  BY <1>3, <3>2
  <2>4. /\ s.chapters = QueueChapter(rep, next)
        /\ s.jobs = EnqueueGenerateJob(jb, next, "advance")
    BY <1>9, <2>2 DEF AdvanceAfterChapterSuccess, EnqueueConflicts
  <2>5. Enqueue(jb, next, "advance")
    BY <1>3, <2>2, <2>3, <2>4 DEF Enqueue, CanEnqueue
  <2> HIDE DEF s, jb
  <2> QED  BY <1>2, <1>3, <1>6, <2>1, <2>4, <2>5, QueuesOne
<1> QED  BY <1>8, <1>9

\* Whatever crashes, late renewals and requests came before, a project taken up again has no
\* chapter queued without a job.
THEOREM RestartRepairs == Spec => [][Restarting => NothingOrphaned']_vars
<1>1. IInv /\ Restarting => NothingOrphaned'
  <2>1. IInv /\ PauseProject => NothingOrphaned'
    <3>1. \A r \in SoundChapter : [r EXCEPT !.status = "paused"].status # "queued"
      BY DEF SoundChapter, ChapterRow
    <3> QED  BY <3>1 DEF PauseProject, PauseQueuedChapters, NothingOrphaned, IInv, RowsOK
  <2> QED  BY <2>1, StartRepairs, ResumeRepairs, RewriteRepairs, ApproveRepairs DEF Restarting
<1> QED  BY <1>1, Invariance, PTL
=============================================================================
