--------------------------- MODULE JobLeaseProofs ---------------------------
(***************************************************************************)
(* JobLease keeps its promise for any workers and any jobs.  LeaseCovers   *)
(* is what makes LeaseExclusive inductive: claim_next_job looks at the     *)
(* lease of the project only, so that lease must stand for every live      *)
(* lease on a job.                                                         *)
(***************************************************************************)
EXTENDS JobLease, TLAPS

IInv == TypeOK /\ LeaseExclusive /\ LeaseCovers

-----------------------------------------------------------------------------
\* Ending jobs and inserting one creates no lease: a job leased afterwards was leased
\* before, in the same way, and was not among the ended ones (the helpers of
\* GenerationService that cancel and enqueue).
LEMMA EndAndEnqueueLeases ==
  ASSUME TypeOK, NEW C, NEW f \in EndAndEnqueue(C)
  PROVE  /\ f \in [JobIds -> LeaseRow]
         /\ \A j \in JobIds : f[j].status = "leased" => j \notin C /\ f[j] = leases[j]
<1> DEFINE ended == [j \in JobIds |-> IF j \in C THEN Out ELSE leases[j]]
<1>1. Out \in LeaseRow /\ Queued \in LeaseRow
  BY DEF Out, Queued, LeaseRow
<1>2. ended \in [JobIds -> LeaseRow]
  BY <1>1 DEF TypeOK
<1>3. \A j \in JobIds : ended[j].status = "leased" => j \notin C /\ ended[j] = leases[j]
  BY DEF Out
<1>4. CASE f = ended
  BY <1>2, <1>3, <1>4
<1>5. CASE \E j \in JobIds : f = [ended EXCEPT ![j] = Queued]
  <2>1. PICK j \in JobIds : f = [ended EXCEPT ![j] = Queued]
    BY <1>5
  <2>2. f \in [JobIds -> LeaseRow]
    BY <1>1, <1>2, <2>1
  <2>3. ASSUME NEW k \in JobIds, f[k].status = "leased" PROVE f[k] = ended[k]
    <3>1. CASE k = j
      BY <1>2, <2>1, <2>3, <3>1 DEF Queued
    <3>2. CASE k # j
      BY <1>2, <2>1, <3>2
    <3> QED  BY <3>1, <3>2
  <2> QED  BY <1>3, <2>2, <2>3
<1> QED  BY <1>4, <1>5 DEF EndAndEnqueue

\* The lease that mark_failed and rewrite_from_chapter leave behind is a lease.
LEMMA ReleasedType == Released \in [owner : Workers \cup {Nobody}, live : BOOLEAN]
BY DEF Released

\* The same for a step of the system that ends jobs and possibly inserts one.
LEMMA EndAndEnqueueStep ==
  ASSUME TypeOK, NEW C, leases' \in EndAndEnqueue(C)
  PROVE  /\ leases' \in [JobIds -> LeaseRow]
         /\ Live' \subseteq Live \ C
         /\ \A j \in Live' : leases'[j] = leases[j]
<1>1. /\ leases' \in [JobIds -> LeaseRow]
      /\ \A j \in JobIds : leases'[j].status = "leased" => j \notin C /\ leases'[j] = leases[j]
  BY EndAndEnqueueLeases
<1>2. \A j \in Live' : j \in JobIds /\ leases'[j].status = "leased" /\ leases'[j].live
  BY DEF Live, Leased
<1> QED  BY <1>1, <1>2 DEF Live, Leased

-----------------------------------------------------------------------------
\* The empty table of jobs satisfies the inductive invariant.
LEMMA InitIInv == Init => IInv
<1> SUFFICES ASSUME Init PROVE IInv
  OBVIOUS
<1>1. TypeOK
  BY DEF Init, TypeOK, Out, Released, LeaseRow
<1>2. Live = {}
  BY DEF Init, Live, Leased, Out
<1> QED  BY <1>1, <1>2 DEF IInv, LeaseExclusive, LeaseCovers

\* claim_next_job keeps the invariant: it tests the project's lease only, and
\* LeaseCovers turns that into a fact about every live lease on a job.
LEMMA ClaimIInv ==
  ASSUME IInv, NEW w \in Workers, NEW j \in JobIds, Claim(w, j)
  PROVE  IInv'
<1> USE DEF IInv
<1>1. leases' = [leases EXCEPT ![j] = Held(w, TRUE)] /\ lease' = [owner |-> w, live |-> TRUE]
  BY DEF Claim
<1>2. TypeOK'
  BY <1>1 DEF TypeOK, Claim, Held, LeaseRow
<1>3. \A k \in Live : leases[k].owner = w
  BY DEF Claim, LeaseCovers
<1>4. \A k \in Live' : leases'[k].owner = w
  <2> SUFFICES ASSUME NEW k \in Live' PROVE leases'[k].owner = w
    OBVIOUS
  <2>1. CASE k = j
    BY <1>1, <2>1 DEF TypeOK, Held
  <2>2. CASE k # j
    BY <1>1, <1>3, <2>2 DEF TypeOK, Live, Leased
  <2> QED  BY <2>1, <2>2
<1> QED  BY <1>1, <1>2, <1>4 DEF LeaseExclusive, LeaseCovers

\* renew_lease keeps the invariant, even when it revives a lease that has lapsed: it
\* still needs the project's lease, and nobody claimed under that one meanwhile.
LEMMA RenewIInv ==
  ASSUME IInv, NEW w \in Workers, NEW j \in JobIds, Renew(w, j)
  PROVE  IInv'
<1> USE DEF IInv
<1>1. leases' = [leases EXCEPT ![j] = Held(w, TRUE)] /\ lease' = [lease EXCEPT !.live = TRUE]
  BY DEF Renew
<1>2. lease.owner = w /\ w # Nobody
  BY LeaseAssumption DEF Renew
<1>3. TypeOK'
  <2>1. leases' \in [JobIds -> LeaseRow]
    BY <1>1 DEF TypeOK, Held, LeaseRow
  <2>2. lease' \in [owner : Workers \cup {Nobody}, live : BOOLEAN]
    BY <1>1 DEF TypeOK
  <2> QED  BY <2>1, <2>2 DEF TypeOK, Renew
<1>4. \A k \in Live : leases[k].owner = w
  BY <1>2 DEF LeaseCovers
<1>5. \A k \in Live' : leases'[k].owner = w
  <2> SUFFICES ASSUME NEW k \in Live' PROVE leases'[k].owner = w
    OBVIOUS
  <2>1. CASE k = j
    BY <1>1, <2>1 DEF TypeOK, Held
  <2>2. CASE k # j
    BY <1>1, <1>4, <2>2 DEF TypeOK, Live, Leased
  <2> QED  BY <2>1, <2>2
<1>6. lease'.live /\ lease'.owner = w
  BY <1>1, <1>2 DEF TypeOK
<1> QED  BY <1>3, <1>5, <1>6 DEF LeaseExclusive, LeaseCovers

\* Time passing keeps it: a project's lease lapses only after those of its jobs.
LEMMA ExpiryIInv ==
  ASSUME IInv, ExpireProject \/ \E j \in JobIds : ExpireJob(j)
  PROVE  IInv'
<1> USE DEF IInv
<1>1. CASE ExpireProject
  <2>1. TypeOK'
    BY <1>1 DEF ExpireProject, TypeOK
  <2>2. Live' = Live /\ leases' = leases /\ running' = running /\ lease'.owner = lease.owner
    BY <1>1 DEF ExpireProject, Live, Leased, TypeOK
  <2>3. \A k \in Live : ~running /\ lease.owner = Nobody
    BY <1>1 DEF ExpireProject, LeaseCovers
  <2> QED  BY <2>1, <2>2, <2>3 DEF LeaseExclusive, LeaseCovers
<1>2. ASSUME NEW j \in JobIds, ExpireJob(j) PROVE IInv'
  <2>1. TypeOK'
    BY <1>2 DEF ExpireJob, TypeOK, LeaseRow
  <2>2. \A k \in Live' : k \in Live /\ leases'[k].owner = leases[k].owner
    BY <1>2 DEF ExpireJob, Live, Leased, TypeOK, LeaseRow
  <2>3. lease' = lease /\ running' = running
    BY <1>2 DEF ExpireJob
  <2>4. LeaseExclusive'
    BY <2>2 DEF LeaseExclusive
  <2>5. LeaseCovers'
    BY <2>2, <2>3 DEF LeaseCovers
  <2> QED  BY <2>1, <2>4, <2>5
<1> QED  BY <1>1, <1>2

\* The pipeline, the end of run_worker and the pause handler keep it: they end jobs and
\* insert queued ones, and never start a project that is not running.
LEMMA ProgressIInv == IInv /\ Progress => IInv'
<1> SUFFICES ASSUME IInv, Progress PROVE IInv'
  OBVIOUS
<1> USE DEF IInv
<1>1. PICK C \in SUBSET Active : leases' \in EndAndEnqueue(C)
  BY DEF Progress
<1>2. /\ leases' \in [JobIds -> LeaseRow]
      /\ Live' \subseteq Live
      /\ \A j \in Live' : leases'[j] = leases[j]
  BY <1>1, EndAndEnqueueStep
<1>3. lease' = lease /\ running' \in {running, FALSE}
  BY DEF Progress
<1>4. TypeOK'
  BY <1>2, <1>3 DEF TypeOK
<1>5. LeaseExclusive'
  BY <1>2 DEF LeaseExclusive
<1>6. LeaseCovers'
  BY <1>2, <1>3 DEF LeaseCovers, TypeOK
<1> QED  BY <1>4, <1>5, <1>6

\* mark_failed keeps it: it releases the project's lease, but stops the project too.
LEMMA FailIInv == ASSUME IInv, NEW w \in Workers, Fail(w) PROVE IInv'
<1> USE DEF IInv
<1>1. /\ leases' \in [JobIds -> LeaseRow]
      /\ \A k \in JobIds : leases'[k].status = "leased" => leases'[k] = leases[k]
  <2>1. Out \in LeaseRow /\ Out.status # "leased"
    BY DEF Out, LeaseRow
  <2>2. CASE leases' = leases
    BY <2>2 DEF TypeOK
  <2>3. ASSUME NEW j \in JobIds, leases' = [leases EXCEPT ![j] = Out]
        PROVE  <1>1!1 /\ <1>1!2
    BY <2>1, <2>3 DEF TypeOK
  <2> QED  BY <2>2, <2>3 DEF Fail
<1>2. \A k \in Live' : k \in Live /\ leases'[k] = leases[k]
  BY <1>1 DEF Live, Leased
<1>3. running' = FALSE /\ lease' = IF lease.owner = w THEN Released ELSE lease
  BY DEF Fail
<1>4. TypeOK'
  <2>1. lease' \in [owner : Workers \cup {Nobody}, live : BOOLEAN]
    BY <1>3, ReleasedType DEF TypeOK
  <2> QED  BY <1>1, <1>3, <2>1 DEF TypeOK
<1>5. LeaseExclusive'
  BY <1>2 DEF LeaseExclusive
<1>6. LeaseCovers'
  BY <1>2, <1>3 DEF LeaseCovers, Released
<1> QED  BY <1>4, <1>5, <1>6

\* The handlers that start the project again keep it: they are refused while a live
\* job remains that they do not cancel themselves.
LEMMA RestartIInv == IInv /\ Restart => IInv'
<1> SUFFICES ASSUME IInv, Restart PROVE IInv'
  OBVIOUS
<1> USE DEF IInv
<1>1. PICK C \in SUBSET Active : Live \subseteq C /\ leases' \in EndAndEnqueue(C)
  BY DEF Restart
<1>2. leases' \in [JobIds -> LeaseRow] /\ Live' = {}
  BY <1>1, EndAndEnqueueStep
<1>3. TypeOK'
  <2>1. lease' \in [owner : Workers \cup {Nobody}, live : BOOLEAN]
    BY ReleasedType DEF Restart, TypeOK
  <2> QED  BY <1>2, <2>1 DEF TypeOK, Restart
<1> QED  BY <1>2, <1>3 DEF LeaseExclusive, LeaseCovers

\* Every step of the lease discipline, and every stutter, keeps the invariant.
LEMMA NextIInv == IInv /\ [Next]_vars => IInv'
<1> SUFFICES ASSUME IInv, [Next]_vars PROVE IInv'
  OBVIOUS
<1>1. CASE UNCHANGED vars
  BY <1>1 DEF vars, IInv, TypeOK, LeaseExclusive, LeaseCovers, Live, Leased
<1>2. CASE Next
  BY <1>2, ClaimIInv, RenewIInv, ExpiryIInv, ProgressIInv, FailIInv, RestartIInv DEF Next
<1> QED  BY <1>1, <1>2

\* The inductive invariant holds in every state of the lease discipline.
THEOREM Invariance == Spec => []IInv
BY InitIInv, NextIInv, PTL DEF Spec

-----------------------------------------------------------------------------
\* The rows of the lease discipline keep their types.
THEOREM TypeCorrect == Spec => []TypeOK
<1>1. IInv => TypeOK
  BY DEF IInv
<1> QED  BY <1>1, Invariance, PTL

\* Two live leases on jobs of one project always belong to the same worker.
THEOREM Exclusive == Spec => []LeaseExclusive
<1>1. IInv => LeaseExclusive
  BY DEF IInv
<1> QED  BY <1>1, Invariance, PTL

\* The project's lease stands for every live lease on one of its jobs.
THEOREM Covers == Spec => []LeaseCovers
<1>1. IInv => LeaseCovers
  BY DEF IInv
<1> QED  BY <1>1, Invariance, PTL
=============================================================================
