------------------------------ MODULE JobLease ------------------------------
(***************************************************************************)
(* What the leases of backend/worker/job_queue.py promise, away from what  *)
(* is generated under them: a worker takes a job together with the lease   *)
(* of the whole project, so that at any time the live leases on a          *)
(* project's jobs belong to a single worker.                               *)
(*                                                                         *)
(* NovelGeneration implements this specification for rush projects; in     *)
(* standard mode the memory update keeps renewals waiting, and a late one  *)
(* of a worker that lost the project is the only step that strays.         *)
(* JobLeaseProofs proves the promise for any set of workers and jobs.      *)
(***************************************************************************)
CONSTANTS
  Workers,   \* worker names
  Nobody,    \* SQL NULL of lease_owner
  JobIds     \* rows of generation_jobs

ASSUME LeaseAssumption == Nobody \notin Workers

VARIABLES
  leases,    \* by job: is it runnable and, if leased, by whom
  lease,     \* the project row's lease_owner and its lease_expires_at >= now
  running    \* projects.status is running

vars == <<leases, lease, running>>

\* "out" is a job not inserted yet, done, failed, cancelled or deleted
LeaseRow == [status : {"out", "queued", "leased"},
             owner : Workers \cup {Nobody}, live : BOOLEAN]
Out    == [status |-> "out", owner |-> Nobody, live |-> FALSE]
Queued == [status |-> "queued", owner |-> Nobody, live |-> FALSE]
HeldWrongStatus(w, live) ==         \* mutant: a status the table does not know
  [status |-> "running", owner |-> w, live |-> live]
Held(w, live) == [status |-> "leased", owner |-> w, live |-> live]
Released == [owner |-> Nobody, live |-> FALSE]

Leased == {j \in JobIds : leases[j].status = "leased"}
Live   == {j \in Leased : leases[j].live}
Active == {j \in JobIds : leases[j] # Out}

Init ==
  /\ leases = [j \in JobIds |-> Out]
  /\ lease = Released
  /\ running = FALSE

\* the table after the jobs in C are over, and possibly one job is inserted
EndAndEnqueue(C) ==
  LET ended == [j \in JobIds |-> IF j \in C THEN Out ELSE leases[j]]
  IN  {ended} \cup {[ended EXCEPT ![j] = Queued] : j \in {k \in JobIds : ended[k] = Out}}

\* claim_next_job
Claim(w, j) ==
  /\ running
  /\ lease.owner = w \/ ~lease.live
  /\ leases[j].status = "queued" \/ (j \in Leased /\ ~leases[j].live)
  /\ leases' = [leases EXCEPT ![j] = Held(w, TRUE)]
  /\ lease' = [owner |-> w, live |-> TRUE]
  /\ UNCHANGED running

\* renew_lease of a job whose worker still owns the project
Renew(w, j) ==
  /\ j \in Leased /\ leases[j].owner = w
  /\ lease.owner = w
  /\ leases' = [leases EXCEPT ![j] = Held(w, TRUE)]
  /\ lease' = [lease EXCEPT !.live = TRUE]
  /\ UNCHANGED running

ExpireJob(j) ==
  /\ j \in Live
  /\ leases' = [leases EXCEPT ![j].live = FALSE]
  /\ UNCHANGED <<lease, running>>

ExpireProjectEarly ==               \* mutant: the project's lease is the shorter one
  /\ lease.live
  /\ lease' = [lease EXCEPT !.live = FALSE]
  /\ UNCHANGED <<leases, running>>
\* both leases are written with one expiry, so the project's outlives the job's
ExpireProject ==
  /\ lease.live
  /\ \A j \in Live : leases[j].owner # lease.owner
  /\ lease' = [lease EXCEPT !.live = FALSE]
  /\ UNCHANGED <<leases, running>>

\* a worker or the pause handler stops the project, ends jobs, or queues the next
\* chapter; none of it starts a project that is not running
Progress ==
  /\ \E C \in SUBSET Active : leases' \in EndAndEnqueue(C)
  /\ running' \in {running, FALSE}
  /\ UNCHANGED lease

\* mark_failed: the failing worker gives the project up
Fail(w) ==
  /\ leases' \in {leases} \cup {[leases EXCEPT ![j] = Out] : j \in JobIds}
  /\ running' = FALSE
  /\ lease' = IF lease.owner = w THEN Released ELSE lease

RestartBesideLive ==                \* mutant: the live jobs are not looked at
  /\ \E C \in SUBSET Active : leases' \in EndAndEnqueue(C)
  /\ running' \in BOOLEAN
  /\ lease' \in {lease, Released}
\* start, retry, continue, resume, approve, rewrite: refused if a live job remains
Restart ==
  /\ \E C \in SUBSET Active : Live \subseteq C /\ leases' \in EndAndEnqueue(C)
  /\ running' \in BOOLEAN
  /\ lease' \in {lease, Released}

Next ==
  \/ \E w \in Workers, j \in JobIds : Claim(w, j) \/ Renew(w, j)
  \/ \E w \in Workers : Fail(w)
  \/ \E j \in JobIds : ExpireJob(j)
  \/ ExpireProject \/ Progress \/ Restart

Spec == Init /\ [][Next]_vars

-----------------------------------------------------------------------------
\* Every job row is out, queued or leased, and the project's lease is a lease.
TypeOK ==
  /\ leases \in [JobIds -> LeaseRow]
  /\ lease \in [owner : Workers \cup {Nobody}, live : BOOLEAN]
  /\ running \in BOOLEAN

\* No two workers hold live leases on jobs of one project at the same time: what
\* lets the pipeline of claim_next_job's winner assume it is alone.
LeaseExclusive == \A j, k \in Live : leases[j].owner = leases[k].owner

\* A live job lease of a running project is backed by the live project lease of the
\* same worker, so that claim_next_job's test of the project row alone is enough;
\* only a stopped project may have released its lease (mark_failed) before that.
LeaseCovers ==
  \A j \in Live : \/ lease.live /\ lease.owner = leases[j].owner
                  \/ ~running /\ lease.owner = Nobody
=============================================================================
