----------------------- MODULE DurableJobsRefinement -----------------------
(***************************************************************************)
(* DurableJobs implements JobLifecycle, for every value of the constants.  *)
(*                                                                         *)
(* DurableJobsProofs reduces every step to one RowMove per job.  Here a    *)
(* RowMove of a good row is classified by the move of the abstract life it *)
(* makes (RowLives), and the moves of the jobs are put together.           *)
(***************************************************************************)
EXTENDS DurableJobsProofs

(***************************************************************************)
(* The moves of JobLifecycle written with the fields of the row before and *)
(* after.                                                                  *)
(***************************************************************************)
Counts(r, s, tries, starts, grants) ==
    /\ s.attempts = r.attempts + tries
    /\ s.starts = r.starts + starts
    /\ s.grants = r.grants + grants

LifeMove(j, r, s) ==
    \/ /\ s.status = r.status /\ s.cancel = r.cancel
       /\ Counts(r, s, 0, 0, 0)
    \/ /\ r.status = "queued" /\ ~r.cancel /\ r.attempts < r.max
       /\ s.status = "running" /\ ~s.cancel
       /\ Counts(r, s, 1, 1, 0)
    \/ /\ r.status = "running" /\ ~r.cancel
       /\ s.status \in {"succeeded", "failed"} /\ ~s.cancel
       /\ Counts(r, s, 0, 0, 0)
    \/ /\ r.status = "running" /\ ~r.cancel
       /\ s.status = "waiting_approval" /\ ~s.cancel
       /\ Counts(r, s, 0, 0, 0) \/ (Counts(r, s, -1, 0, 0) /\ s.attempts >= 0)
    \/ /\ r.status = "running" /\ ~r.cancel /\ ~UnsafeJob(j)
       /\ r.attempts < r.max
       /\ s.status = "queued" /\ ~s.cancel
       /\ Counts(r, s, 0, 0, 0)
    \/ /\ r.status = "waiting_approval" /\ ~r.cancel
       /\ s.status = IF r.attempts < r.max THEN "queued" ELSE "failed"
       /\ ~s.cancel
       /\ Counts(r, s, 0, 0, 1)
    \/ /\ r.status = "running"
       /\ s.status = "running" /\ s.cancel
       /\ Counts(r, s, 0, 0, 0)
    \/ /\ r.status \in {"queued", "running", "waiting_approval"}
       /\ s.status = "cancelled" /\ s.cancel
       /\ Counts(r, s, 0, 0, 0)

LEMMA RowLives ==
    ASSUME NEW j \in Jobs, NEW r, NEW s, GoodRow(j, r), MethodMove(j, r, s)
    PROVE  LifeMove(j, r, s)
  <1>1. /\ r \in Row
        /\ r.attempts \in Nat /\ r.starts \in Nat /\ r.grants \in Nat
        /\ r.max \in Nat /\ r.cancel \in BOOLEAN
        /\ r.status \in Status
    BY RowCounters DEF GoodRow, Row
  <1> DEFINE Plain(t) == /\ t.attempts = r.attempts
                         /\ t.starts = r.starts /\ t.grants = r.grants
  <1>2. ASSUME NEW t, Plain(t) PROVE Counts(r, t, 0, 0, 0)
    BY <1>1, <1>2 DEF Counts
  <1>3. Plain(r)
    OBVIOUS
  <1>4. /\ Plain(Cancelled(r))
        /\ Cancelled(r).status = "cancelled" /\ Cancelled(r).cancel
        /\ Plain(Failed(r))
        /\ Failed(r).status = "failed" /\ Failed(r).cancel = r.cancel
    BY <1>1 DEF Cancelled, Failed, Row
  <1>5. CASE s = r
    BY <1>2, <1>3, <1>5 DEF LifeMove
  <1>6. CASE s = Cancelled(r) /\ r.status \notin Terminal
    <2>1. r.status \in {"queued", "running", "waiting_approval"}
      BY <1>1, <1>6 DEF Status
    <2>2. QED
      BY <1>2, <1>4, <1>6, <2>1 DEF LifeMove
  <1>7. CASE s = Failed(r) /\ r.status = "running" /\ ~r.cancel
    BY <1>2, <1>4, <1>7 DEF LifeMove
  <1>8. CASE r.status = "queued" /\ s = [r EXCEPT !.due = TRUE]
    <2>1. Plain(s) /\ s.status = r.status /\ s.cancel = r.cancel
      BY <1>1, <1>8 DEF Row
    <2>2. QED
      BY <1>2, <2>1 DEF LifeMove
  <1>9. CASE s = RequestCancel(r)
    <2>1. CASE r.status = "running" /\ ~r.cancel
      <3>1. s = [r EXCEPT !.cancel = TRUE]
        BY <1>9, <2>1 DEF RequestCancel, Exists, Terminal
      <3>2. Plain(s) /\ s.status = "running" /\ s.cancel
        BY <1>1, <2>1, <3>1 DEF Row
      <3>3. QED
        BY <1>2, <2>1, <3>2 DEF LifeMove
    <2>2. CASE ~(r.status = "running" /\ ~r.cancel)
      <3>1. s = r \/ (s = Cancelled(r) /\ r.status \notin Terminal)
        BY <1>1, <1>9, <2>2 DEF RequestCancel, Status, Terminal
      <3>2. QED
        BY <1>5, <1>6, <3>1
    <2>3. QED
      BY <2>1, <2>2
  <1>10. ASSUME NEW b \in BOOLEAN, s = ResolveApproval(r, b)
         PROVE  LifeMove(j, r, s)
    <2>1. CASE r.status # "waiting_approval"
      BY <1>5, <1>10, <2>1 DEF ResolveApproval
    <2>2. CASE r.status = "waiting_approval" /\ b = FALSE
      <3>1. s = Cancelled([r EXCEPT !.approval = "denied", !.grants = r.grants])
        BY <1>10, <2>2 DEF ResolveApproval
      <3>2. Plain(s) /\ s.status = "cancelled" /\ s.cancel
        BY <1>1, <3>1 DEF Cancelled, Row
      <3>3. QED
        BY <1>2, <2>2, <3>2 DEF LifeMove
    <2>3. CASE r.status = "waiting_approval" /\ b = TRUE
      <3>1. ~r.cancel
        BY <2>3 DEF GoodRow
      <3>2. /\ s.cancel = r.cancel
            /\ s.status = IF r.attempts < r.max THEN "queued" ELSE "failed"
            /\ s.attempts = r.attempts /\ s.starts = r.starts
            /\ s.grants = r.grants + 1
        BY <1>1, <1>10, <2>3, ApproveFields
      <3>3. Counts(r, s, 0, 0, 1)
        BY <1>1, <3>2 DEF Counts
      <3>4. QED
        BY <2>3, <3>1, <3>2, <3>3 DEF LifeMove
    <2>4. QED
      BY <2>1, <2>2, <2>3
  <1>11. CASE Claimable(r) /\ s = Claim(r)
    <2>1. /\ s.cancel = r.cancel /\ s.status = "running"
          /\ s.attempts = r.attempts + 1 /\ s.starts = r.starts + 1
          /\ s.grants = r.grants
      BY <1>1, <1>11, ClaimFields
    <2>2. Counts(r, s, 1, 1, 0)
      BY <1>1, <2>1 DEF Counts
    <2>3. QED
      BY <1>11, <2>1, <2>2 DEF LifeMove, Claimable
  <1>12. CASE s = Complete(r)
    <2>1. CASE r.status = "running" /\ ~r.cancel
      <3>1. Plain(s) /\ s.status = "succeeded" /\ s.cancel = r.cancel
        BY <1>1, <1>12, <2>1 DEF Complete, Row
      <3>2. QED
        BY <1>2, <2>1, <3>1 DEF LifeMove
    <2>2. CASE ~(r.status = "running" /\ ~r.cancel)
      BY <1>5, <1>6, <1>12, <2>2 DEF Complete, Terminal
    <2>3. QED
      BY <2>1, <2>2
  <1>13. CASE s = MarkCancelled(r)
    BY <1>5, <1>6, <1>13 DEF MarkCancelled
  <1>14. CASE s = WaitForApproval(r)
    <2>1. CASE r.status = "running" /\ ~r.cancel
      <3>1. r.attempts > 0
        BY <2>1 DEF GoodRow
      <3>2. /\ s.cancel = r.cancel /\ s.status = "waiting_approval"
            /\ s.attempts = r.attempts - 1 /\ s.starts = r.starts
            /\ s.grants = r.grants
        BY <1>1, <1>14, <2>1, <3>1, WaitFields
      <3>3. Counts(r, s, -1, 0, 0) /\ s.attempts >= 0
        BY <1>1, <3>1, <3>2 DEF Counts
      <3>4. QED
        BY <2>1, <3>2, <3>3 DEF LifeMove
    <2>2. CASE ~(r.status = "running" /\ ~r.cancel)
      BY <1>5, <1>6, <1>14, <2>2 DEF WaitForApproval, Terminal
    <2>3. QED
      BY <2>1, <2>2
  <1>15. ASSUME NEW b \in BOOLEAN, b => ~UnsafeJob(j), s = Fail(r, b)
         PROVE  LifeMove(j, r, s)
    <2>1. CASE r.status = "running" /\ ~r.cancel /\ b /\ r.attempts < r.max
      <3>1. Plain(s) /\ s.status = "queued" /\ s.cancel = r.cancel
        BY <1>1, <1>15, <2>1 DEF Fail, Row
      <3>2. QED
        BY <1>2, <1>15, <2>1, <3>1 DEF LifeMove
    <2>2. CASE ~(r.status = "running" /\ ~r.cancel /\ b /\ r.attempts < r.max)
      BY <1>5, <1>6, <1>7, <1>15, <2>2 DEF Fail, Terminal
    <2>3. QED
      BY <2>1, <2>2
  <1>16. ASSUME NEW b \in BOOLEAN, b => ~UnsafeJob(j), s = Recover(r, b)
         PROVE  LifeMove(j, r, s)
    <2>1. CASE r.status # "running" \/ r.cancel \/ r.attempts >= r.max
      BY <1>5, <1>6, <1>7, <1>16, <2>1 DEF Recover, Terminal
    <2>2. CASE r.status = "running" /\ ~r.cancel /\ ~(r.attempts >= r.max)
      <3>1. r.attempts < r.max
        BY <1>1, <2>2
      <3>2. /\ Plain(s) /\ s.cancel = r.cancel
            /\ s.status = IF b THEN "queued" ELSE "waiting_approval"
        BY <1>1, <1>16, <2>2 DEF Recover, Row
      <3>3. QED
        BY <1>2, <1>16, <2>2, <3>1, <3>2 DEF LifeMove
    <2>3. QED
      BY <2>1, <2>2
  <1>17. QED
    BY <1>8, <1>9, <1>10, <1>11, <1>12, <1>13, <1>14, <1>15, <1>16
       DEF MethodMove

-----------------------------------------------------------------------------
LEMMA InitImplements == Init => Lifecycle!Init
  <1> SUFFICES ASSUME Init PROVE Lifecycle!Init
    OBVIOUS
  <1>1. \A j \in Jobs : jobs[j] = Absent
    BY DEF Init
  <1>2. \A j \in Jobs : jobs[j].status = "absent" /\ Exists(jobs[j]) = FALSE
    BY <1>1 DEF Absent, Exists
  <1>3. [j \in Jobs |-> jobs[j].status] = [j \in Jobs |-> "absent"]
    BY <1>2
  <1>4. {j \in Jobs : Exists(jobs[j]) /\ jobs[j].cancel} = {}
    BY <1>2
  <1>5. [j \in Jobs |-> IF Exists(jobs[j]) THEN jobs[j].attempts ELSE 0]
          = [j \in Jobs |-> 0]
    BY <1>2
  <1>6. [j \in Jobs |-> IF Exists(jobs[j])
                        THEN 1 + jobs[j].grants - jobs[j].starts ELSE 1]
          = [j \in Jobs |-> 1]
    BY <1>2
  <1>7. QED
    BY <1>3, <1>4, <1>5, <1>6, Zenon DEF Lifecycle!Init

LEMMA StepImplements ==
    ASSUME IInv, [Next]_vars
    PROVE  Lifecycle!Next
  <1>1. RowsMove /\ TypeOK /\ TypeOK'
    BY NextRows, TypeStep DEF IInv
  <1>2. /\ Lifecycle!Total([j \in Jobs |-> jobs[j].status])'
        /\ {j \in Jobs : Exists(jobs[j]) /\ jobs[j].cancel}' \subseteq Jobs
        /\ Lifecycle!Total([j \in Jobs |-> IF Exists(jobs[j])
                                           THEN jobs[j].attempts ELSE 0])'
        /\ Lifecycle!Total([j \in Jobs |-> IF Exists(jobs[j])
                                     THEN 1 + jobs[j].grants - jobs[j].starts
                                     ELSE 1])'
    BY DEF Lifecycle!Total
  <1>3. ASSUME NEW j \in Jobs PROVE Lifecycle!Move(j)
    <2> DEFINE r == jobs[j]
               s == jobs'[j]
    <2>1. /\ RowMove(j, r, s)
          /\ r = Absent \/ GoodRow(j, r)
      BY <1>1 DEF RowsMove, IInv, RowsGood
    <2>2. CASE ~Exists(s)
      <3>1. ~Exists(r)
        BY <2>2, RowsStep
      <3>2. r = Absent /\ s = Absent
        BY <1>1, <2>2, <3>1, AbsentNotRow DEF TypeOK
      <3>3. QED
        BY <3>2 DEF Lifecycle!Move, Lifecycle!Stays, Lifecycle!Becomes
    <2>3. CASE ~Exists(r) /\ Exists(s)
      <3>1. r = Absent /\ s # r
        BY <1>1, <2>3, AbsentNotRow DEF TypeOK
      <3>2. PICK due \in BOOLEAN :
              s = NewRow(ScopeOf[j], KeyOf[j],
                         MaxAttempts[TypeOf[ScopeOf[j]]], due)
        BY <2>1, <2>3, <3>1 DEF RowMove
      <3>3. /\ s.status = "queued" /\ s.cancel = FALSE /\ s.attempts = 0
            /\ 1 + s.grants - s.starts = 1
        BY <3>2 DEF NewRow
      <3>4. Lifecycle!Submit(j)
        BY <2>3, <3>1, <3>3 DEF Lifecycle!Submit, Lifecycle!Becomes, Absent
      <3>5. QED
        BY <3>4 DEF Lifecycle!Move
    <2>4. CASE Exists(r) /\ Exists(s)
      <3>1. GoodRow(j, r) /\ GoodRow(j, s)
        BY <1>1, <2>1, <2>4, RowMoveGood DEF Exists, Absent
      <3>2. /\ r.attempts \in Nat /\ r.starts \in Nat /\ r.grants \in Nat
            /\ s.attempts \in Nat /\ s.starts \in Nat /\ s.grants \in Nat
            /\ r.cancel \in BOOLEAN /\ s.cancel \in BOOLEAN
            /\ r.max = MaxAttempts[TypeOf[ScopeOf[j]]]
        BY <3>1, RowCounters DEF GoodRow, Row
      <3>3. LifeMove(j, r, s)
        <4>1. CASE s = r
          BY <3>2, <4>1 DEF LifeMove, Counts
        <4>2. CASE MethodMove(j, r, s)
          BY <3>1, <4>2, RowLives
        <4>3. QED
          BY <2>1, <2>4, <4>1, <4>2 DEF RowMove, Exists, Absent
      <3>4. CASE /\ s.status = r.status /\ s.cancel = r.cancel
                 /\ Counts(r, s, 0, 0, 0)
        <4>1. Lifecycle!Stays(j)
          BY <2>4, <3>2, <3>4 DEF Lifecycle!Stays, Lifecycle!Becomes, Counts
        <4>2. QED
          BY <4>1 DEF Lifecycle!Move
      <3>5. CASE /\ r.status = "queued" /\ ~r.cancel /\ r.attempts < r.max
                 /\ s.status = "running" /\ ~s.cancel
                 /\ Counts(r, s, 1, 1, 0)
        <4>1. UnsafeJob(j) => 1 + r.grants - r.starts > 0
          BY <3>1, <3>2, <3>5 DEF GoodRow
        <4>2. Lifecycle!Start(j)
          BY <2>4, <3>2, <3>5, <4>1
             DEF Lifecycle!Start, Lifecycle!Becomes, Counts, UnsafeJob
        <4>3. QED
          BY <4>2 DEF Lifecycle!Move
      <3>6. CASE /\ r.status = "running" /\ ~r.cancel
                 /\ s.status \in {"succeeded", "failed"} /\ ~s.cancel
                 /\ Counts(r, s, 0, 0, 0)
        <4>1. Lifecycle!Finish(j)
          BY <2>4, <3>2, <3>6 DEF Lifecycle!Finish, Lifecycle!Becomes, Counts
        <4>2. QED
          BY <4>1 DEF Lifecycle!Move
      <3>7. CASE /\ r.status = "running" /\ ~r.cancel
                 /\ s.status = "waiting_approval" /\ ~s.cancel
                 /\ \/ Counts(r, s, 0, 0, 0)
                    \/ Counts(r, s, -1, 0, 0) /\ s.attempts >= 0
        <4>1. Lifecycle!Ask(j)
          BY <2>4, <3>2, <3>7 DEF Lifecycle!Ask, Lifecycle!Becomes, Counts
        <4>2. QED
          BY <4>1 DEF Lifecycle!Move
      <3>8. CASE /\ r.status = "running" /\ ~r.cancel /\ ~UnsafeJob(j)
                 /\ r.attempts < r.max
                 /\ s.status = "queued" /\ ~s.cancel
                 /\ Counts(r, s, 0, 0, 0)
        <4>1. Lifecycle!Repeat(j)
          BY <2>4, <3>2, <3>8
             DEF Lifecycle!Repeat, Lifecycle!Becomes, Counts, UnsafeJob
        <4>2. QED
          BY <4>1 DEF Lifecycle!Move
      <3>9. CASE /\ r.status = "waiting_approval" /\ ~r.cancel
                 /\ s.status = IF r.attempts < r.max THEN "queued" ELSE "failed"
                 /\ ~s.cancel
                 /\ Counts(r, s, 0, 0, 1)
        <4>1. Lifecycle!Permit(j)
          BY <2>4, <3>2, <3>9 DEF Lifecycle!Permit, Lifecycle!Becomes, Counts
        <4>2. QED
          BY <4>1 DEF Lifecycle!Move
      <3>10. CASE /\ r.status = "running" /\ s.status = "running" /\ s.cancel
                  /\ Counts(r, s, 0, 0, 0)
        <4>1. Lifecycle!Doom(j)
          BY <2>4, <3>2, <3>10 DEF Lifecycle!Doom, Lifecycle!Becomes, Counts
        <4>2. QED
          BY <4>1 DEF Lifecycle!Move
      <3>11. CASE /\ r.status \in {"queued", "running", "waiting_approval"}
                  /\ s.status = "cancelled" /\ s.cancel
                  /\ Counts(r, s, 0, 0, 0)
        <4>1. Lifecycle!Cancel(j)
          BY <2>4, <3>2, <3>11 DEF Lifecycle!Cancel, Lifecycle!Becomes, Counts
        <4>2. QED
          BY <4>1 DEF Lifecycle!Move
      <3>12. QED
        BY <3>3, <3>4, <3>5, <3>6, <3>7, <3>8, <3>9, <3>10, <3>11 DEF LifeMove
    <2>5. QED
      BY <2>2, <2>3, <2>4
  <1>4. QED
    BY <1>2, <1>3 DEF Lifecycle!Next

(***************************************************************************)
(* Every behaviour of the processes, workers and callers is, for each job, *)
(* the life its owner may rely on: never started beyond its limit, never   *)
(* repeated without a permit when unsafe, cancelled once cancellation was  *)
(* requested, final once finished.                                         *)
(***************************************************************************)
THEOREM Implements == Spec => ImplementsLifecycle
  <1>1. IInv /\ [Next]_vars => [Lifecycle!Next]_(Lifecycle!jobVars)
    BY StepImplements
  <1>2. QED
    BY <1>1, InitImplements, InvariantHolds, PTL
       DEF Spec, ImplementsLifecycle, Lifecycle!Spec
=============================================================================
