------------------------- MODULE DurableJobsProofs -------------------------
(***************************************************************************)
(* Theorems about DurableJobs for every set of jobs, processes and types,  *)
(* every attempt limit and every bound.                                    *)
(*                                                                         *)
(* The argument has two halves.  One lemma goes through the actions and    *)
(* says which repository method each of them applies to which row          *)
(* (NextRows); everything else about rows is about RowMove alone.          *)
(***************************************************************************)
EXTENDS DurableJobs, TLAPS

USE JobsAssumption, ValuesAssumption

(***************************************************************************)
(* Row r of job j becomes s: by the insert, by the clock, or by a          *)
(* repository method called the way the runtime calls it.                  *)
(***************************************************************************)
MethodMove(j, r, s) ==
    \/ r.status = "queued" /\ s = [r EXCEPT !.due = TRUE]
    \/ s = RequestCancel(r)
    \/ \E b \in BOOLEAN : s = ResolveApproval(r, b)
    \/ Claimable(r) /\ s = Claim(r)
    \/ s = Complete(r)
    \/ s = MarkCancelled(r)
    \/ s = WaitForApproval(r)
    \/ \E b \in BOOLEAN : (b => ~UnsafeJob(j)) /\ s = Fail(r, b)
    \/ \E b \in BOOLEAN : (b => ~UnsafeJob(j)) /\ s = Recover(r, b)

RowMove(j, r, s) ==
    \/ s = r
    \/ /\ r = Absent
       /\ \E due \in BOOLEAN :
             s = NewRow(ScopeOf[j], KeyOf[j], MaxAttempts[TypeOf[ScopeOf[j]]], due)
    \/ Exists(r) /\ MethodMove(j, r, s)

-----------------------------------------------------------------------------
(* What a move does to one row. *)

LEMMA AbsentNotRow == \A r \in Row : r # Absent /\ Exists(r)
  BY DEF Row, Status, Terminal, Absent, Exists

LEMMA NewRowGood ==
    ASSUME NEW j \in Jobs, NEW due \in BOOLEAN
    PROVE  GoodRow(j, NewRow(ScopeOf[j], KeyOf[j],
                             MaxAttempts[TypeOf[ScopeOf[j]]], due))
  <1>1. /\ ScopeOf[j] \in Scopes
        /\ KeyOf[j] \in Keys \cup {NoKey}
        /\ MaxAttempts[TypeOf[ScopeOf[j]]] \in Nat \ {0}
    OBVIOUS
  <1>2. QED
    BY <1>1 DEF GoodRow, NewRow, Row, Status, Terminal, Approval

LEMMA RowCounters ==
    ASSUME NEW r \in Row
    PROVE  /\ r.attempts \in Nat /\ r.attempts + 1 \in Nat
           /\ r.max \in Nat \ {0}
           /\ r.starts \in Nat /\ r.starts + 1 \in Nat
           /\ r.pauses \in Nat /\ r.pauses + 1 \in Nat
           /\ r.grants \in Nat /\ r.grants + 1 \in Nat
           /\ r.attempts > 0 => r.attempts - 1 \in Nat
  BY DEF Row

(***************************************************************************)
(* The three methods that count: what each leaves in the fields, and that  *)
(* the result is a row.                                                    *)
(***************************************************************************)
LEMMA ClaimFields ==
    ASSUME NEW r \in Row
    PROVE  LET s == Claim(r) IN
           /\ s \in Row
           /\ s.scope = r.scope /\ s.key = r.key /\ s.max = r.max
           /\ s.cancel = r.cancel /\ s.status = "running"
           /\ s.attempts = r.attempts + 1 /\ s.starts = r.starts + 1
           /\ s.pauses = r.pauses /\ s.grants = r.grants
  BY RowCounters DEF Claim, Row, Status, Terminal

LEMMA WaitFields ==
    ASSUME NEW r \in Row, r.status = "running", ~r.cancel, r.attempts > 0
    PROVE  LET s == WaitForApproval(r) IN
           /\ s \in Row
           /\ s.scope = r.scope /\ s.key = r.key /\ s.max = r.max
           /\ s.cancel = r.cancel /\ s.status = "waiting_approval"
           /\ s.attempts = r.attempts - 1 /\ s.starts = r.starts
           /\ s.pauses = r.pauses + 1 /\ s.grants = r.grants
  BY RowCounters DEF WaitForApproval, Row, Status, Terminal, Approval

LEMMA ApproveFields ==
    ASSUME NEW r \in Row, r.status = "waiting_approval"
    PROVE  LET s == ResolveApproval(r, TRUE) IN
           /\ s \in Row
           /\ s.scope = r.scope /\ s.key = r.key /\ s.max = r.max
           /\ s.cancel = r.cancel
           /\ s.status = IF r.attempts < r.max THEN "queued" ELSE "failed"
           /\ s.attempts = r.attempts /\ s.starts = r.starts
           /\ s.pauses = r.pauses /\ s.grants = r.grants + 1
  BY RowCounters DEF ResolveApproval, Failed, Row, Status, Terminal, Approval

LEMMA MethodMoveGood ==
    ASSUME NEW j \in Jobs, NEW r, NEW s, GoodRow(j, r), MethodMove(j, r, s)
    PROVE  GoodRow(j, s)
  <1>1. r \in Row
    BY DEF GoodRow
  <1> DEFINE Plain(t) ==
        /\ t \in Row
        /\ t.scope = r.scope /\ t.key = r.key /\ t.max = r.max
        /\ t.attempts = r.attempts /\ t.starts = r.starts
        /\ t.pauses = r.pauses /\ t.grants = r.grants
  <1>2. /\ Plain(r) /\ Plain([r EXCEPT !.due = TRUE])
        /\ Plain(Cancelled(r)) /\ Plain(Failed(r))
    BY <1>1 DEF Row, Status, Terminal, Cancelled, Failed
  <1>3. /\ Cancelled(r).status = "cancelled" /\ Cancelled(r).cancel
        /\ Failed(r).status = "failed" /\ Failed(r).cancel = r.cancel
    BY <1>1 DEF Row, Cancelled, Failed
  <1>4. GoodRow(j, Cancelled(r))
    BY <1>2, <1>3 DEF GoodRow
  <1>5. ~r.cancel => GoodRow(j, Failed(r))
    BY <1>2, <1>3 DEF GoodRow
  <1>6. CASE r.status = "queued" /\ s = [r EXCEPT !.due = TRUE]
    <2>1. s.status = r.status /\ s.cancel = r.cancel
      BY <1>1, <1>6 DEF Row
    <2>2. QED
      BY <1>6, <1>2, <2>1 DEF GoodRow
  <1>7. CASE s = RequestCancel(r)
    <2>1. CASE r.status = "running" /\ ~r.cancel
      <3>1. s = [r EXCEPT !.cancel = TRUE]
        BY <1>7, <2>1 DEF RequestCancel, Exists, Terminal
      <3>2. Plain(s) /\ s.status = "running" /\ s.cancel
        BY <1>1, <2>1, <3>1 DEF Row
      <3>3. QED
        BY <2>1, <3>2 DEF GoodRow
    <2>2. CASE ~(r.status = "running" /\ ~r.cancel)
      <3>1. s = r \/ s = Cancelled(r)
        BY <1>1, <1>7, <2>2 DEF RequestCancel, Row, Status
      <3>2. QED
        BY <1>4, <3>1
    <2>3. QED
      BY <2>1, <2>2
  <1>8. ASSUME NEW b \in BOOLEAN, s = ResolveApproval(r, b)
        PROVE  GoodRow(j, s)
    <2>1. CASE r.status # "waiting_approval"
      BY <1>8, <2>1 DEF ResolveApproval
    <2>2. CASE r.status = "waiting_approval" /\ b = FALSE
      <3>1. s = Cancelled([r EXCEPT !.approval = "denied", !.grants = r.grants])
        BY <1>8, <2>2 DEF ResolveApproval
      <3>2. Plain(s) /\ s.status = "cancelled" /\ s.cancel
        BY <1>1, <3>1 DEF Cancelled, Row, Status, Terminal, Approval
      <3>3. QED
        BY <3>2 DEF GoodRow
    <2>3. CASE r.status = "waiting_approval" /\ b = TRUE
      <3>1. s = ResolveApproval(r, TRUE)
        BY <1>8, <2>3
      <3>2. ~r.cancel
        BY <2>3 DEF GoodRow
      <3>3. /\ s \in Row
            /\ s.scope = r.scope /\ s.key = r.key /\ s.max = r.max
            /\ s.cancel = r.cancel
            /\ s.status = IF r.attempts < r.max THEN "queued" ELSE "failed"
            /\ s.attempts = r.attempts /\ s.starts = r.starts
            /\ s.pauses = r.pauses /\ s.grants = r.grants + 1
        BY <1>1, <2>3, <3>1, ApproveFields
      <3>4. CASE r.attempts < r.max
        <4>1. s.status = "queued" /\ ~s.cancel
          BY <3>2, <3>4, <3>3
        <4>2. QED
          BY <1>1, <2>3, <3>4, <3>3, <4>1, RowCounters DEF GoodRow
      <3>5. CASE ~(r.attempts < r.max)
        <4>1. s.status = "failed" /\ ~s.cancel
          BY <3>2, <3>5, <3>3
        <4>2. QED
          BY <1>1, <2>3, <3>5, <3>3, <4>1, RowCounters DEF GoodRow
      <3>6. QED
        BY <3>4, <3>5
    <2>4. QED
      BY <2>1, <2>2, <2>3
  <1>9. CASE Claimable(r) /\ s = Claim(r)
    BY <1>1, <1>9, ClaimFields, RowCounters DEF GoodRow, Claimable
  <1>10. CASE s = Complete(r)
    <2>1. CASE r.status = "running" /\ ~r.cancel
      <3>1. Plain(s) /\ s.status = "succeeded" /\ s.cancel = r.cancel
        BY <1>1, <1>10, <2>1 DEF Complete, Row, Status, Terminal
      <3>2. QED
        BY <2>1, <3>1 DEF GoodRow
    <2>2. CASE ~(r.status = "running" /\ ~r.cancel)
      BY <1>10, <2>2, <1>4 DEF Complete
    <2>3. QED
      BY <2>1, <2>2
  <1>11. CASE s = MarkCancelled(r)
    BY <1>11, <1>4 DEF MarkCancelled
  <1>12. CASE s = WaitForApproval(r)
    <2>1. CASE r.status # "running" \/ r.cancel
      BY <1>12, <2>1, <1>4 DEF WaitForApproval
    <2>2. CASE r.status = "running" /\ ~r.cancel
      BY <1>1, <1>12, <2>2, WaitFields, RowCounters DEF GoodRow
    <2>3. QED
      BY <2>1, <2>2
  <1> DEFINE Queued(t) ==
        Plain(t) /\ t.status = "queued" /\ t.cancel = r.cancel
  <1>13. r.status = "running" /\ ~r.cancel /\ r.attempts < r.max
          /\ ~UnsafeJob(j) /\ Queued(s) => GoodRow(j, s)
    BY DEF GoodRow
  <1>14. ASSUME NEW b \in BOOLEAN, b => ~UnsafeJob(j), s = Fail(r, b)
        PROVE  GoodRow(j, s)
    <2>1. CASE r.status = "running" /\ ~r.cancel /\ b /\ r.attempts < r.max
      <3>1. Queued(s)
        BY <1>1, <1>14, <2>1 DEF Fail, Row, Status, Terminal
      <3>2. QED
        BY <1>14, <2>1, <3>1, <1>13
    <2>2. CASE ~(r.status = "running" /\ ~r.cancel /\ b /\ r.attempts < r.max)
      BY <1>14, <2>2, <1>4, <1>5 DEF Fail
    <2>3. QED
      BY <2>1, <2>2
  <1>15. ASSUME NEW b \in BOOLEAN, b => ~UnsafeJob(j), s = Recover(r, b)
        PROVE  GoodRow(j, s)
    <2>1. CASE r.status # "running" \/ r.cancel \/ r.attempts >= r.max
      BY <1>15, <2>1, <1>4, <1>5 DEF Recover
    <2> SUFFICES ASSUME r.status = "running", ~r.cancel, ~(r.attempts >= r.max)
                 PROVE  GoodRow(j, s)
      BY <2>1
    <2>2. r.attempts < r.max
      BY <1>1, RowCounters
    <2>3. CASE b = TRUE
      <3>1. Queued(s)
        BY <1>1, <1>15, <2>3 DEF Recover, Row, Status, Terminal
      <3>2. QED
        BY <1>15, <2>2, <2>3, <3>1, <1>13
    <2>4. CASE b = FALSE
      <3>1. /\ Plain(s) /\ s.status = "waiting_approval" /\ s.cancel = r.cancel
        BY <1>1, <1>15, <2>4 DEF Recover, Row, Status, Terminal, Approval
      <3>2. QED
        BY <3>1 DEF GoodRow
    <2>5. QED
      BY <2>3, <2>4
  <1>16. QED
    BY <1>6, <1>7, <1>8, <1>9, <1>10, <1>11, <1>12, <1>14, <1>15 DEF MethodMove

LEMMA RowMoveGood ==
    ASSUME NEW j \in Jobs, NEW r, NEW s,
           r = Absent \/ GoodRow(j, r),
           RowMove(j, r, s)
    PROVE  /\ s = Absent \/ GoodRow(j, s)
           /\ r # Absent => s # Absent
  <1>1. CASE s = r
    BY <1>1
  <1>2. ASSUME NEW due \in BOOLEAN, r = Absent,
               s = NewRow(ScopeOf[j], KeyOf[j],
                          MaxAttempts[TypeOf[ScopeOf[j]]], due)
        PROVE  GoodRow(j, s)
    BY <1>2, NewRowGood
  <1>3. ASSUME Exists(r), MethodMove(j, r, s)
        PROVE  GoodRow(j, s)
    <2>1. GoodRow(j, r)
      BY <1>3 DEF Exists, Absent
    <2>2. QED
      BY <1>3, <2>1, MethodMoveGood
  <1>4. GoodRow(j, s) => s # Absent
    BY AbsentNotRow DEF GoodRow
  <1>5. QED
    BY <1>1, <1>2, <1>3, <1>4 DEF RowMove

\* No method changes a finished row.
LEMMA RowMoveFinal ==
    ASSUME NEW j \in Jobs, NEW r \in Row, NEW s,
           r.status \in Terminal, RowMove(j, r, s)
    PROVE  s = r
  <1>1. r # Absent
    BY AbsentNotRow
  <1>2. QED
    BY <1>1 DEF RowMove, MethodMove, Terminal, RequestCancel,
                ResolveApproval, Claimable, Complete, MarkCancelled,
                WaitForApproval, Fail, Recover

-----------------------------------------------------------------------------
(* Which action applies which method to which row. *)

RowsMove ==
    /\ jobs' = [j \in Jobs |-> jobs'[j]]
    /\ \A j \in Jobs :
          /\ RowMove(j, jobs[j], jobs'[j])
          /\ jobs[j] = Absent /\ jobs'[j] # Absent => EnqueueInsert(j)

LEMMA NoRowMoves ==
    ASSUME TypeOK, UNCHANGED jobs
    PROVE  RowsMove
  BY DEF TypeOK, RowsMove, RowMove

LEMMA OneRowMoves ==
    ASSUME TypeOK, NEW i \in Jobs, NEW s,
           RowMove(i, jobs[i], s),
           Exists(jobs[i]) \/ EnqueueInsert(i),
           jobs' = [jobs EXCEPT ![i] = s]
    PROVE  RowsMove
  <1>1. jobs' = [j \in Jobs |-> jobs'[j]] /\ jobs'[i] = s
    BY DEF TypeOK
  <1>2. ASSUME NEW j \in Jobs, j # i PROVE jobs'[j] = jobs[j]
    BY <1>2 DEF TypeOK
  <1>3. ASSUME NEW j \in Jobs
        PROVE  RowMove(j, jobs[j], jobs'[j])
    BY <1>1, <1>2 DEF RowMove
  <1>4. ASSUME NEW j \in Jobs, jobs[j] = Absent, jobs'[j] # Absent
        PROVE  EnqueueInsert(j)
    <2>1. j = i /\ ~Exists(jobs[i])
      BY <1>2, <1>4 DEF Exists, Absent
    <2>2. QED
      BY <2>1
  <1>5. QED
    BY <1>1, <1>3, <1>4 DEF RowsMove

LEMMA MethodMoves ==
    ASSUME TypeOK, NEW i \in Jobs, Exists(jobs[i]), NEW s,
           MethodMove(i, jobs[i], s),
           jobs' = [jobs EXCEPT ![i] = s]
    PROVE  RowsMove
  <1>1. RowMove(i, jobs[i], s)
    BY DEF RowMove
  <1>2. QED
    BY <1>1, OneRowMoves

\* The type of a row is the type its enqueue call asked for.
LEMMA RowType ==
    ASSUME IInv, NEW j \in Jobs, Exists(jobs[j])
    PROVE  /\ jobs[j] \in Row
           /\ Type(jobs[j]) \notin RetrySafe <=> UnsafeJob(j)
  BY DEF IInv, RowsGood, GoodRow, Exists, Absent, Type, UnsafeJob

LEMMA SettlementMoves ==
    ASSUME IInv, NEW p \in Procs, pc[p] \in {"complete", "wait", "cancel", "fail"}
    PROVE  /\ held[p] \in Jobs
           /\ Exists(jobs[held[p]])
           /\ MethodMove(held[p], jobs[held[p]], Settlement(p))
  <1>1. held[p] \in Jobs /\ Exists(jobs[held[p]])
    BY DEF IInv, WorkersGood, Working
  <1>2. retry[p] \in BOOLEAN /\ (retry[p] => ~UnsafeJob(held[p]))
    BY DEF IInv, TypeOK, WorkersGood
  <1> DEFINE r == jobs[held[p]]
  <1> SUFFICES MethodMove(held[p], r, Settlement(p))
    BY <1>1
  <1>3. CASE pc[p] = "complete"
    <2>1. Settlement(p) = Complete(r)
      BY <1>3 DEF Settlement
    <2>2. QED
      BY <2>1 DEF MethodMove
  <1>4. CASE pc[p] = "wait"
    <2>1. Settlement(p) = WaitForApproval(r)
      BY <1>4 DEF Settlement
    <2>2. QED
      BY <2>1 DEF MethodMove
  <1>5. CASE pc[p] = "cancel"
    <2>1. Settlement(p) = MarkCancelled(r)
      BY <1>5 DEF Settlement
    <2>2. QED
      BY <2>1 DEF MethodMove
  <1>6. CASE pc[p] = "fail"
    <2>1. Settlement(p) = Fail(r, retry[p])
      BY <1>6 DEF Settlement
    <2>2. QED
      BY <1>2, <2>1 DEF MethodMove
  <1>7. QED
    BY <1>3, <1>4, <1>5, <1>6

LEMMA RecoverMoves ==
    ASSUME IInv, NEW p \in Procs, RecoverRows(p)
    PROVE  RowsMove
  <1>1. PICK skipped \in SUBSET Jobs :
          jobs' = [j \in Jobs |->
                     IF j \in skipped \/ ~Exists(jobs[j]) THEN jobs[j]
                     ELSE Recover(jobs[j],
                                  Type(jobs[j]) \in RetrySafe \cap registered[p])]
    BY DEF RecoverRows
  <1>2. ASSUME NEW j \in Jobs
        PROVE  RowMove(j, jobs[j], jobs'[j]) /\ (~Exists(jobs[j]) => jobs'[j] = jobs[j])
    <2>1. CASE j \in skipped \/ ~Exists(jobs[j])
      BY <1>1, <2>1 DEF RowMove
    <2>2. CASE ~(j \in skipped \/ ~Exists(jobs[j]))
      <3> DEFINE safe == Type(jobs[j]) \in RetrySafe \cap registered[p]
      <3>1. safe \in BOOLEAN /\ (safe => ~UnsafeJob(j))
        BY <2>2, RowType
      <3>2. jobs'[j] = Recover(jobs[j], safe)
        BY <1>1, <2>2
      <3> HIDE DEF safe
      <3>3. MethodMove(j, jobs[j], jobs'[j])
        BY <3>1, <3>2 DEF MethodMove
      <3>4. QED
        BY <2>2, <3>3 DEF RowMove
    <2>3. QED
      BY <2>1, <2>2
  <1>3. QED
    BY <1>1, <1>2 DEF RowsMove, Exists, Absent

LEMMA NextRows ==
    ASSUME IInv, [Next]_vars
    PROVE  RowsMove
  <1> USE DEF IInv
  <1>1. ASSUME NEW c \in Jobs, EnqueueInsert(c) PROVE RowsMove
    <2>1. jobs[c] = Absent
      BY <1>1 DEF EnqueueInsert, CallsGood
    <2>2. CASE UNCHANGED jobs
      BY <2>2, NoRowMoves
    <2>3. ASSUME NEW due \in BOOLEAN,
                 jobs' = [jobs EXCEPT ![c] =
                            NewRow(ScopeOf[c], KeyOf[c],
                                   MaxAttempts[TypeOf[ScopeOf[c]]], due)]
          PROVE  RowsMove
      <3>1. RowMove(c, jobs[c], NewRow(ScopeOf[c], KeyOf[c],
                                       MaxAttempts[TypeOf[ScopeOf[c]]], due))
        BY <2>1 DEF RowMove
      <3>2. QED
        BY <1>1, <2>3, <3>1, OneRowMoves
    <2>4. QED
      BY <1>1, <2>2, <2>3 DEF EnqueueInsert, AnswerExisting
  <1>2. ASSUME NEW j \in Jobs, CancelJob(j) PROVE RowsMove
    <2>1. Exists(jobs[j]) /\ jobs' = [jobs EXCEPT ![j] = RequestCancel(jobs[j])]
      BY <1>2 DEF CancelJob
    <2>2. MethodMove(j, jobs[j], RequestCancel(jobs[j]))
      BY DEF MethodMove
    <2>3. QED
      BY <2>1, <2>2, MethodMoves
  <1>3. ASSUME NEW j \in Jobs, NEW b \in BOOLEAN, ResolveJobApproval(j, b)
        PROVE  RowsMove
    <2>1. Exists(jobs[j]) /\ jobs' = [jobs EXCEPT ![j] = ResolveApproval(jobs[j], b)]
      BY <1>3 DEF ResolveJobApproval
    <2>2. MethodMove(j, jobs[j], ResolveApproval(jobs[j], b))
      BY DEF MethodMove
    <2>3. QED
      BY <2>1, <2>2, MethodMoves
  <1>4. ASSUME NEW j \in Jobs, BecomeDue(j) PROVE RowsMove
    <2>1. Exists(jobs[j]) /\ jobs' = [jobs EXCEPT ![j] = [jobs[j] EXCEPT !.due = TRUE]]
      BY <1>4 DEF BecomeDue, Exists
    <2>2. MethodMove(j, jobs[j], [jobs[j] EXCEPT !.due = TRUE])
      BY <1>4 DEF MethodMove, BecomeDue
    <2>3. QED
      BY <2>1, <2>2, MethodMoves
  <1>5. ASSUME NEW p \in Procs, StartRecover(p) \/ RecoverFault(p) PROVE RowsMove
    BY <1>5, RecoverMoves, NoRowMoves DEF StartRecover, RecoverFault
  <1>6. ASSUME NEW p \in Procs, NEW j \in ClaimableBy(p),
               jobs' = [jobs EXCEPT ![j] = Claim(jobs[j])]
        PROVE  RowsMove
    <2>1. j \in Jobs /\ Claimable(jobs[j])
      BY <1>6 DEF ClaimableBy
    <2>2. Exists(jobs[j]) /\ MethodMove(j, jobs[j], Claim(jobs[j]))
      BY <2>1 DEF Claimable, Exists, MethodMove
    <2>3. QED
      BY <1>6, <2>1, <2>2, MethodMoves
  <1>7. ASSUME NEW p \in Procs, pc[p] \in {"complete", "wait", "cancel", "fail"},
               jobs' = [jobs EXCEPT ![held[p]] = Settlement(p)]
        PROVE  RowsMove
    BY <1>7, SettlementMoves, MethodMoves
  <1>8. ASSUME NEW p \in Procs, WorkerStep(p) PROVE RowsMove
    BY <1>6, <1>7, <1>8, NoRowMoves
       DEF WorkerStep, LoopHead, ClaimNext, CheckCancelled, ObserveCancelled,
           HandlerEnds, HandlerReturns, HandlerRaises, HandlerAsksApproval,
           ProgressRefused, ResultRefused, Raise, Settle
  <1>9. ASSUME NEW p \in Procs, WorkerFault(p) PROVE RowsMove
    BY <1>6, <1>7, <1>9, NoRowMoves
       DEF WorkerFault, ClaimFault, CallFault, SettleFault, Applied
  <1>10. ASSUME NEW c \in Jobs, NEW p \in Procs, EnqueueLookup(c, p)
         PROVE  RowsMove
    BY <1>10, NoRowMoves DEF EnqueueLookup, AnswerExisting
  <1>11. ASSUME NEW p \in Procs, Process(p) PROVE RowsMove
    BY <1>5, <1>11, NoRowMoves
       DEF Process, Boot, Register, StartWorker, Close, Exit, Crash, End
  <1>12. CASE UNCHANGED vars
    BY <1>12, NoRowMoves DEF vars
  <1>13. QED
    BY <1>1, <1>2, <1>3, <1>4, <1>5, <1>8, <1>9, <1>10, <1>11, <1>12
       DEF Next, Caller

-----------------------------------------------------------------------------
(* The inductive invariant. *)

LEMMA InitInvariant == Init => IInv
  <1> SUFFICES ASSUME Init PROVE IInv
    OBVIOUS
  <1>1. TypeOK
    <2>1. 0 \in Nat
      OBVIOUS
    <2>2. /\ jobs \in [Jobs -> Row \cup {Absent}]
          /\ call \in [Jobs -> {"new", "insert", "lost", "done"}]
          /\ site \in [Jobs -> Procs \cup {NoProc}]
          /\ answer \in [Jobs -> Jobs \cup {NoAnswer, Rejected}]
      BY DEF Init
    <2>3. /\ phase \in [Procs -> {"down", "up", "recovered", "running"}]
          /\ registered \in [Procs -> SUBSET Types]
          /\ closed \in [Procs -> BOOLEAN]
          /\ pc \in [Procs -> WorkerPc]
          /\ held \in [Procs -> Jobs \cup {NoJob}]
          /\ granted \in [Procs -> BOOLEAN]
          /\ retry \in [Procs -> BOOLEAN]
      BY DEF Init, WorkerPc
    <2>4. QED
      BY <2>1, <2>2, <2>3 DEF Init, TypeOK
  <1>2. RowsGood /\ WorkersGood /\ CallsGood
    BY DEF Init, RowsGood, WorkersGood, CallsGood, Working
  <1>3. KeyMeansOneJob
    BY DEF Init, KeyMeansOneJob, Rows, Exists, Absent
  <1>4. QED
    BY <1>1, <1>2, <1>3 DEF IInv

\* Good rows stay good, and a row never disappears or changes its identity.
LEMMA RowsStep ==
    ASSUME IInv, [Next]_vars
    PROVE  /\ jobs' \in [Jobs -> Row \cup {Absent}]
           /\ RowsGood'
           /\ \A j \in Jobs : Exists(jobs[j]) => Exists(jobs'[j])
           /\ \A j \in Jobs : Exists(jobs'[j]) =>
                 /\ jobs'[j].key = KeyOf[j]
                 /\ jobs'[j].scope = ScopeOf[j]
  <1>1. RowsMove
    BY NextRows
  <1>2. ASSUME NEW j \in Jobs
        PROVE  /\ jobs'[j] = Absent \/ GoodRow(j, jobs'[j])
               /\ jobs[j] # Absent => jobs'[j] # Absent
    BY <1>1, RowMoveGood DEF RowsMove, IInv, RowsGood
  <1>3. RowsGood'
    BY <1>2 DEF RowsGood
  <1>4. jobs' \in [Jobs -> Row \cup {Absent}]
    BY <1>1, <1>2 DEF RowsMove, GoodRow
  <1>5. ASSUME NEW j \in Jobs, Exists(jobs[j]) PROVE Exists(jobs'[j])
    <2>1. jobs'[j] # Absent
      BY <1>2, <1>5 DEF Exists, Absent
    <2>2. QED
      BY <1>2, <2>1, AbsentNotRow DEF GoodRow
  <1>6. ASSUME NEW j \in Jobs, Exists(jobs'[j])
        PROVE  jobs'[j].key = KeyOf[j] /\ jobs'[j].scope = ScopeOf[j]
    BY <1>2, <1>6 DEF GoodRow, Exists, Absent
  <1>7. QED
    BY <1>3, <1>4, <1>5, <1>6

LEMMA TypeStep ==
    ASSUME IInv, [Next]_vars
    PROVE  TypeOK'
  <1>1. jobs' \in [Jobs -> Row \cup {Absent}]
    BY RowsStep
  <1> USE <1>1 DEF IInv, TypeOK, WorkerPc, callVars, procVars, workVars
  <1>2. ASSUME NEW c \in Jobs, NEW p \in Procs, EnqueueLookup(c, p) PROVE TypeOK'
    <2>1. answer' \in [Jobs -> Jobs \cup {NoAnswer, Rejected}]
      BY <1>2 DEF EnqueueLookup, AnswerExisting, Owner
    <2>2. QED
      BY <1>2, <2>1 DEF EnqueueLookup, AnswerExisting
  <1>3. ASSUME NEW c \in Jobs, EnqueueInsert(c) PROVE TypeOK'
    <2>1. answer' \in [Jobs -> Jobs \cup {NoAnswer, Rejected}]
      <3>1. CASE AnswerExisting(c)
        <4>1. PICK j \in Owner(KeyOf[c]) :
                 answer' = [answer EXCEPT ![c] = IF jobs[j].scope = ScopeOf[c]
                                                 THEN j ELSE Rejected]
          BY <3>1 DEF AnswerExisting
        <4>2. j \in Jobs
          BY DEF Owner
        <4>3. QED
          BY <4>1, <4>2
      <3>2. CASE answer' = [answer EXCEPT ![c] = c]
        BY <3>2
      <3>3. QED
        BY <1>3, <3>1, <3>2 DEF EnqueueInsert
    <2>2. call' \in [Jobs -> {"new", "insert", "lost", "done"}]
      BY <1>3 DEF EnqueueInsert, AnswerExisting
    <2>3. QED
      BY <1>3, <2>1, <2>2 DEF EnqueueInsert
  <1>4. ASSUME NEW j \in Jobs,
               \/ CancelJob(j)
               \/ \E b \in BOOLEAN : ResolveJobApproval(j, b)
               \/ BecomeDue(j)
        PROVE  TypeOK'
    BY <1>4 DEF CancelJob, ResolveJobApproval, BecomeDue
  <1>5. ASSUME NEW p \in Procs, Process(p) PROVE TypeOK'
    <2>1. CASE Boot(p) \/ StartRecover(p)
      BY <2>1 DEF Boot, StartRecover
    <2>2. ASSUME NEW t \in Types, Register(p, t) PROVE TypeOK'
      BY <2>2 DEF Register
    <2>3. CASE StartWorker(p)
      BY <2>3 DEF StartWorker
    <2>4. CASE Close(p)
      <3>1. lives' \in Nat
        BY <2>4 DEF Close
      <3>2. QED
        BY <2>4, <3>1 DEF Close
    <2>5. CASE Exit(p) \/ Crash(p)
      <3>1. lives' \in Nat
        BY <2>5 DEF Exit, Crash
      <3>2. call' \in [Jobs -> {"new", "insert", "lost", "done"}]
        BY <2>5 DEF Exit, Crash, End
      <3>3. /\ pc' \in [Procs -> WorkerPc]
            /\ phase' \in [Procs -> {"down", "up", "recovered", "running"}]
            /\ held' \in [Procs -> Jobs \cup {NoJob}]
            /\ registered' \in [Procs -> SUBSET Types]
            /\ closed' \in [Procs -> BOOLEAN]
            /\ granted' \in [Procs -> BOOLEAN]
            /\ retry' \in [Procs -> BOOLEAN]
        BY <2>5 DEF Exit, Crash, End
      <3>4. QED
        BY <2>5, <3>1, <3>2, <3>3 DEF Exit, Crash, End
    <2>6. QED
      BY <1>5, <2>1, <2>2, <2>3, <2>4, <2>5 DEF Process
  <1>6. ASSUME NEW p \in Procs, Release(p)
        PROVE  /\ pc' \in [Procs -> WorkerPc]
               /\ held' \in [Procs -> Jobs \cup {NoJob}]
               /\ granted' \in [Procs -> BOOLEAN]
               /\ retry' \in [Procs -> BOOLEAN]
    BY <1>6 DEF Release, Goto
  <1>7. ASSUME NEW p \in Procs, NEW b \in BOOLEAN, Raise(p, b)
        PROVE  /\ pc' \in [Procs -> WorkerPc]
               /\ retry' \in [Procs -> BOOLEAN]
    BY <1>7 DEF Raise, Goto
  <1>8. ASSUME NEW p \in Procs, WorkerStep(p) PROVE TypeOK'
    <2>1. CASE LoopHead(p) \/ CheckCancelled(p) \/ ObserveCancelled(p)
                 \/ HandlerReturns(p) \/ HandlerAsksApproval(p)
      BY <1>8, <2>1 DEF WorkerStep, LoopHead, CheckCancelled, ObserveCancelled,
                        HandlerReturns, HandlerAsksApproval, Goto
    <2>2. CASE HandlerRaises(p) \/ ProgressRefused(p) \/ ResultRefused(p)
      BY <1>7, <1>8, <2>2 DEF WorkerStep, HandlerRaises, ProgressRefused,
                              ResultRefused, Raise
    <2>3. CASE ClaimNext(p)
      <3>1. ASSUME NEW j \in Jobs,
                   pc' = [pc EXCEPT ![p] = "check1"],
                   held' = [held EXCEPT ![p] = j],
                   granted' = [granted EXCEPT ![p] = jobs[j].approval = "granted"],
                   UNCHANGED retry
            PROVE  TypeOK'
        <4>1. granted' \in [Procs -> BOOLEAN]
          BY <3>1, Zenon
        <4>2. QED
          BY <1>8, <3>1, <4>1 DEF WorkerStep
      <3>2. CASE Goto(p, "idle") /\ UNCHANGED <<jobs, held, granted, retry>>
        BY <1>8, <3>2 DEF WorkerStep, Goto
      <3>3. QED
        BY <2>3, <3>1, <3>2 DEF ClaimNext, ClaimableBy, Goto
    <2>4. CASE Settle(p)
      BY <1>6, <1>8, <2>4 DEF WorkerStep, Settle
    <2>5. QED
      BY <1>8, <2>1, <2>2, <2>3, <2>4 DEF WorkerStep, HandlerEnds
  <1>9. ASSUME NEW p \in Procs, WorkerFault(p) PROVE TypeOK'
    <2>1. faults' \in Nat
      BY <1>9 DEF WorkerFault
    <2>2. CASE ClaimFault(p) \/ SettleFault(p)
      BY <1>6, <1>9, <2>1, <2>2 DEF WorkerFault, ClaimFault, SettleFault
    <2>3. CASE CallFault(p)
      <3>1. /\ pc' \in [Procs -> WorkerPc]
            /\ retry' \in [Procs -> BOOLEAN]
        BY <2>3 DEF CallFault, Goto
      <3>2. QED
        BY <1>9, <2>1, <2>3, <3>1 DEF WorkerFault, CallFault
    <2>4. QED
      BY <1>9, <2>2, <2>3 DEF WorkerFault
  <1>10. ASSUME NEW p \in Procs, RecoverFault(p) PROVE TypeOK'
    <2>1. faults' \in Nat
      BY <1>10 DEF RecoverFault
    <2>2. QED
      BY <1>10, <2>1 DEF RecoverFault
  <1>11. CASE UNCHANGED vars
    BY <1>11 DEF vars
  <1>12. QED
    BY <1>2, <1>3, <1>4, <1>5, <1>8, <1>9, <1>10, <1>11 DEF Next, Caller

(***************************************************************************)
(* A process that is not running its loop has no worker; a worker at work  *)
(* keeps a job that has a row; the retryable flag keeps telling the truth. *)
(***************************************************************************)
WorkerGood(p) ==
    /\ phase[p] # "running" => pc[p] = "none"
    /\ Working(p) => held[p] \in Jobs /\ Exists(jobs[held[p]])
    /\ retry[p] => Working(p) /\ ~UnsafeJob(held[p])

LEMMA WorkersStep ==
    ASSUME IInv, [Next]_vars
    PROVE  WorkersGood'
  <1>1. \A j \in Jobs : Exists(jobs[j]) => Exists(jobs'[j])
    BY RowsStep
  <1>2. \A q \in Procs : WorkerGood(q)
    BY DEF IInv, WorkersGood, WorkerGood
  <1>3. TypeOK
    BY DEF IInv
  <1> DEFINE Same(q) == /\ phase'[q] = phase[q] /\ pc'[q] = pc[q]
                        /\ held'[q] = held[q] /\ retry'[q] = retry[q]
  <1>4. ASSUME NEW q \in Procs, Same(q) PROVE WorkerGood(q)'
    BY <1>1, <1>2, <1>4 DEF WorkerGood, Working
  <1>5. ASSUME \A q \in Procs : Same(q) PROVE \A q \in Procs : WorkerGood(q)'
    BY <1>4, <1>5
  <1>6. ASSUME NEW p \in Procs, Process(p)
        PROVE  \A q \in Procs : WorkerGood(q)'
    <2>1. ASSUME NEW q \in Procs, q # p PROVE WorkerGood(q)'
      <3>1. Same(q)
        BY <1>3, <1>6, <2>1
           DEF TypeOK, Process, Boot, Register, StartRecover, StartWorker,
               Close, Exit, Crash, End, workVars
      <3>2. QED
        BY <1>4, <3>1
    <2>2. CASE Boot(p) \/ StartRecover(p)
      <3>1. phase[p] # "running" /\ UNCHANGED workVars
        BY <2>2 DEF Boot, StartRecover
      <3>2. pc'[p] = "none" /\ ~retry'[p]
        BY <1>2, <3>1 DEF WorkerGood, Working, workVars
      <3>3. QED
        BY <2>1, <3>2 DEF WorkerGood, Working
    <2>3. CASE StartWorker(p)
      <3>1. phase'[p] = "running" /\ pc'[p] = "idle" /\ ~retry'[p]
        BY <1>2, <1>3, <2>3 DEF StartWorker, TypeOK, WorkerGood, Working
      <3>2. QED
        BY <2>1, <3>1 DEF WorkerGood, Working
    <2>4. CASE Close(p) \/ \E t \in Types : Register(p, t)
      <3>1. Same(p)
        BY <2>4 DEF Close, Register, workVars
      <3>2. QED
        BY <1>4, <2>1, <3>1
    <2>5. CASE Exit(p) \/ Crash(p)
      <3>1. pc'[p] = "none" /\ ~retry'[p]
        BY <1>3, <2>5 DEF Exit, Crash, End, TypeOK
      <3>2. QED
        BY <2>1, <3>1 DEF WorkerGood, Working
    <2>6. QED
      BY <1>6, <2>2, <2>3, <2>4, <2>5 DEF Process
  <1>7. ASSUME NEW p \in Procs, WorkerStep(p) \/ WorkerFault(p)
        PROVE  \A q \in Procs : WorkerGood(q)'
    <2>1. UNCHANGED phase
      BY <1>7 DEF WorkerStep, WorkerFault, procVars
    <2>2. ASSUME NEW q \in Procs, q # p PROVE WorkerGood(q)'
      <3>1. pc'[q] = pc[q] /\ held'[q] = held[q] /\ retry'[q] = retry[q]
        BY <1>3, <1>7, <2>2
           DEF TypeOK, WorkerStep, WorkerFault, LoopHead, ClaimNext,
               CheckCancelled, ObserveCancelled, HandlerEnds, HandlerReturns,
               HandlerRaises, HandlerAsksApproval, ProgressRefused,
               ResultRefused, Raise, Settle, Release, Goto, ClaimFault,
               CallFault, SettleFault
      <3>2. QED
        BY <1>4, <2>1, <3>1
    <2>3. pc[p] # "none" /\ phase'[p] = "running"
      <3>1. pc[p] # "none"
        BY <1>7 DEF WorkerStep, WorkerFault, LoopHead, ClaimNext,
               CheckCancelled, ObserveCancelled, HandlerEnds, HandlerReturns,
               HandlerRaises, HandlerAsksApproval, ProgressRefused,
               ResultRefused, Settle, ClaimFault, CallFault, SettleFault
      <3>2. QED
        BY <1>2, <2>1, <3>1 DEF WorkerGood
    <2>4. CASE Release(p)
      <3>1. pc'[p] = "idle" /\ ~retry'[p]
        BY <1>3, <2>4 DEF Release, Goto, TypeOK
      <3>2. QED
        BY <2>2, <2>3, <3>1 DEF WorkerGood, Working
    <2>5. CASE LoopHead(p)
      <3>1. ~Working(p) /\ pc'[p] \in {"exited", "poll"} /\ ~retry'[p]
        BY <1>2, <1>3, <2>5 DEF LoopHead, Goto, TypeOK, WorkerGood, Working
      <3>2. QED
        BY <2>2, <2>3, <3>1 DEF WorkerGood, Working
    <2>6. CASE ClaimNext(p)
      <3>1. ~Working(p) /\ ~retry'[p]
        BY <1>2, <2>6 DEF ClaimNext, WorkerGood, Working
      <3>2. CASE pc'[p] = "idle"
        BY <2>2, <2>3, <3>1, <3>2 DEF WorkerGood, Working
      <3>3. ASSUME NEW j \in ClaimableBy(p),
                   pc' = [pc EXCEPT ![p] = "check1"],
                   held' = [held EXCEPT ![p] = j]
            PROVE  WorkerGood(p)'
        <4>1. j \in Jobs /\ Exists(jobs[j])
          BY DEF ClaimableBy, Claimable, Exists
        <4>2. held'[p] = j
          BY <1>3, <3>3 DEF TypeOK
        <4>3. QED
          BY <1>1, <2>3, <3>1, <4>1, <4>2 DEF WorkerGood
      <3>4. QED
        BY <1>3, <2>2, <2>6, <3>2, <3>3 DEF ClaimNext, Goto, TypeOK
    <2>7. CASE CheckCancelled(p) \/ ObserveCancelled(p) \/ HandlerReturns(p)
                 \/ HandlerAsksApproval(p)
      <3>1. Working(p)
        BY <2>7 DEF CheckCancelled, ObserveCancelled, HandlerReturns,
                    HandlerAsksApproval, Working
      <3>2. /\ pc'[p] \in {"handler", "complete", "cancel", "check2", "wait"}
            /\ held'[p] = held[p] /\ retry'[p] = retry[p]
        BY <1>3, <2>7 DEF CheckCancelled, ObserveCancelled, HandlerReturns,
                    HandlerAsksApproval, Goto, TypeOK
      <3>3. QED
        BY <1>1, <1>2, <2>2, <2>3, <3>1, <3>2 DEF WorkerGood, Working
    <2>8. CASE HandlerRaises(p) \/ ProgressRefused(p) \/ ResultRefused(p)
                 \/ CallFault(p)
      <3>1. Working(p)
        BY <2>8 DEF HandlerRaises, ProgressRefused, ResultRefused, CallFault,
                    Working
      <3>2. held[p] \in Jobs /\ Exists(jobs[held[p]])
        BY <1>2, <3>1 DEF WorkerGood
      <3>3. /\ pc'[p] = "fail" /\ held'[p] = held[p]
            /\ retry'[p] => Type(jobs[held[p]]) \in RetrySafe
        BY <1>3, <2>8 DEF HandlerRaises, ProgressRefused, ResultRefused,
                    CallFault, Raise, Goto, TypeOK
      <3>4. retry'[p] => ~UnsafeJob(held[p])
        BY <3>2, <3>3, RowType
      <3>5. QED
        BY <1>1, <2>2, <2>3, <3>2, <3>3, <3>4 DEF WorkerGood, Working, UnsafeJob
    <2>9. QED
      BY <1>7, <2>4, <2>5, <2>6, <2>7, <2>8
         DEF WorkerStep, WorkerFault, HandlerEnds, Settle, ClaimFault,
             SettleFault
  <1>8. ASSUME Caller \/ (\E p \in Procs : RecoverFault(p)) \/ UNCHANGED vars
        PROVE  \A q \in Procs : WorkerGood(q)'
    <2>1. UNCHANGED <<procVars, workVars>>
      BY <1>8 DEF Caller, EnqueueLookup, EnqueueInsert, CancelJob,
                  ResolveJobApproval, BecomeDue, RecoverFault, vars
    <2>2. QED
      BY <1>5, <2>1 DEF procVars, workVars
  <1>9. \A q \in Procs : WorkerGood(q)'
    BY <1>6, <1>7, <1>8 DEF Next
  <1>10. QED
    BY <1>9 DEF WorkersGood, WorkerGood

\* A call that has not finished has no row.
LEMMA CallsStep ==
    ASSUME IInv, [Next]_vars
    PROVE  CallsGood'
  <1> SUFFICES ASSUME NEW c \in Jobs, call'[c] # "done"
               PROVE  jobs'[c] = Absent
    BY DEF CallsGood
  <1>1. TypeOK /\ CallsGood /\ RowsMove
    BY NextRows DEF IInv
  <1>2. call[c] # "done"
    <2>1. CASE \E i \in Jobs : EnqueueInsert(i) \/ \E p \in Procs : EnqueueLookup(i, p)
      BY <1>1, <2>1 DEF TypeOK, EnqueueInsert, EnqueueLookup, AnswerExisting
    <2>2. CASE \E p \in Procs : Exit(p) \/ Crash(p)
      BY <2>2 DEF Exit, Crash, End
    <2>3. CASE UNCHANGED call
      BY <2>3
    <2>4. QED
      BY <2>1, <2>2, <2>3
         DEF Next, Caller, Process, CancelJob, ResolveJobApproval, BecomeDue,
             Boot, Register, StartRecover, StartWorker, Close, WorkerStep,
             WorkerFault, RecoverFault, callVars, vars
  <1>3. jobs[c] = Absent
    BY <1>1, <1>2 DEF CallsGood
  <1>4. SUFFICES ASSUME EnqueueInsert(c) PROVE jobs'[c] = Absent
    BY <1>1, <1>3 DEF RowsMove
  <1>5. call'[c] = "done"
    BY <1>1, <1>4 DEF TypeOK, EnqueueInsert, AnswerExisting
  <1>6. QED
    BY <1>5

\* The row that owns a key is the only one and the one its callers get.
LEMMA KeyStep ==
    ASSUME IInv, [Next]_vars
    PROVE  KeyMeansOneJob'
  <1>1. TypeOK /\ KeyMeansOneJob /\ RowsMove
    BY NextRows DEF IInv
  <1>2. /\ \A j \in Jobs : Exists(jobs[j]) => Exists(jobs'[j])
        /\ \A j \in Jobs : Exists(jobs'[j]) =>
              jobs'[j].key = KeyOf[j] /\ jobs'[j].scope = ScopeOf[j]
    BY RowsStep
  <1>3. \A j \in Jobs : Exists(jobs[j]) =>
              jobs[j].key = KeyOf[j] /\ jobs[j].scope = ScopeOf[j]
    BY DEF IInv, RowsGood, GoodRow, Exists, Absent
  <1>4. ASSUME NEW i \in Jobs, NEW j \in Jobs, i # j,
               Exists(jobs'[i]), Exists(jobs'[j]), ~Exists(jobs[i]),
               KeyOf[i] = KeyOf[j], KeyOf[i] # NoKey
        PROVE  FALSE
    <2>1. jobs[i] = Absent /\ jobs'[i] # Absent
      BY <1>1, <1>4 DEF TypeOK, Exists, Absent, Row, Status, Terminal
    <2>2. EnqueueInsert(i)
      BY <1>1, <2>1 DEF RowsMove
    <2>3. PICK due \in BOOLEAN :
             jobs' = [jobs EXCEPT ![i] =
                        NewRow(ScopeOf[i], KeyOf[i],
                               MaxAttempts[TypeOf[ScopeOf[i]]], due)]
      BY <2>1, <2>2 DEF EnqueueInsert, AnswerExisting
    <2>4. UnusedKey(i)
      BY <2>1, <2>2 DEF EnqueueInsert, AnswerExisting
    <2>5. jobs'[j] = jobs[j]
      BY <1>1, <1>4, <2>3 DEF TypeOK
    <2>6. j \in Owner(KeyOf[i])
      BY <1>3, <1>4, <2>5 DEF Owner
    <2>7. QED
      BY <1>4, <2>4, <2>6 DEF UnusedKey
  <1>5. ASSUME NEW i \in Jobs, NEW j \in Jobs, Exists(jobs'[i]), Exists(jobs'[j]),
               jobs'[i].key = jobs'[j].key, jobs'[i].key # NoKey
        PROVE  i = j
    <2>1. KeyOf[i] = KeyOf[j] /\ KeyOf[i] # NoKey
      BY <1>2, <1>5
    <2>2. CASE Exists(jobs[i]) /\ Exists(jobs[j])
      BY <1>1, <1>3, <2>1, <2>2 DEF KeyMeansOneJob, Rows
    <2>3. QED
      BY <1>4, <1>5, <2>1, <2>2
  <1> DEFINE Right(c, a) == a \in Jobs => /\ Exists(jobs'[a])
                                          /\ jobs'[a].key = KeyOf[c]
                                          /\ jobs'[a].scope = ScopeOf[c]
  <1>6. ASSUME NEW c \in Jobs, AnswerExisting(c) PROVE Right(c, answer'[c])
    <2>1. PICK j \in Owner(KeyOf[c]) :
             answer' = [answer EXCEPT ![c] = IF jobs[j].scope = ScopeOf[c]
                                             THEN j ELSE Rejected]
      BY <1>6 DEF AnswerExisting
    <2>2. j \in Jobs /\ Exists(jobs[j]) /\ KeyOf[j] = KeyOf[c]
      BY <1>3 DEF Owner
    <2>3. answer'[c] = IF ScopeOf[j] = ScopeOf[c] THEN j ELSE Rejected
      BY <1>1, <1>3, <2>1, <2>2 DEF TypeOK
    <2>4. QED
      BY <1>2, <2>2, <2>3
  <1>7. ASSUME NEW c \in Jobs, answer'[c] = answer[c] PROVE Right(c, answer'[c])
    <2>1. answer[c] \in Jobs =>
             /\ Exists(jobs[answer[c]])
             /\ jobs[answer[c]].key = KeyOf[c]
             /\ jobs[answer[c]].scope = ScopeOf[c]
      BY <1>1 DEF KeyMeansOneJob, Rows
    <2>2. QED
      BY <1>2, <1>3, <1>7, <2>1
  <1>8. ASSUME NEW c \in Jobs PROVE Right(c, answer'[c])
    <2>1. ASSUME NEW i \in Jobs,
                 EnqueueInsert(i) \/ \E p \in Procs : EnqueueLookup(i, p)
          PROVE  Right(c, answer'[c])
      <3>1. CASE AnswerExisting(i) /\ c = i
        BY <1>6, <3>1
      <3>2. CASE AnswerExisting(i) /\ c # i
        <4>1. answer'[c] = answer[c]
          BY <1>1, <3>2 DEF TypeOK, AnswerExisting
        <4>2. QED
          BY <1>7, <4>1
      <3>3. CASE ~AnswerExisting(i) /\ EnqueueInsert(i) /\ c = i
        <4>1. PICK due \in BOOLEAN :
                 jobs' = [jobs EXCEPT ![i] =
                            NewRow(ScopeOf[i], KeyOf[i],
                                   MaxAttempts[TypeOf[ScopeOf[i]]], due)]
          BY <3>3 DEF EnqueueInsert
        <4>2. answer'[c] = c /\ Exists(jobs'[c])
          BY <1>1, <3>3, <4>1 DEF EnqueueInsert, TypeOK, NewRow, Exists
        <4>3. QED
          BY <1>2, <4>2
      <3>4. CASE ~AnswerExisting(i) /\ EnqueueInsert(i) /\ c # i
        <4>1. answer'[c] = answer[c]
          BY <1>1, <3>4 DEF TypeOK, EnqueueInsert
        <4>2. QED
          BY <1>7, <4>1
      <3>5. CASE ~AnswerExisting(i) /\ ~EnqueueInsert(i)
        BY <1>7, <2>1, <3>5 DEF EnqueueLookup
      <3>6. QED
        BY <3>1, <3>2, <3>3, <3>4, <3>5
    <2>2. CASE UNCHANGED answer
      BY <1>7, <2>2
    <2>3. QED
      BY <2>1, <2>2
         DEF Next, Caller, Process, CancelJob, ResolveJobApproval, BecomeDue,
             Boot, Register, StartRecover, StartWorker, Close, Exit, Crash,
             End, WorkerStep, WorkerFault, RecoverFault, callVars, vars
  <1>9. QED
    BY <1>5, <1>8 DEF KeyMeansOneJob, Rows

LEMMA NextInvariant == IInv /\ [Next]_vars => IInv'
  BY RowsStep, TypeStep, WorkersStep, CallsStep, KeyStep DEF IInv

-----------------------------------------------------------------------------
(***************************************************************************)
(* One process: its worker and the RUNNING rows.                           *)
(***************************************************************************)
\* The deployment of the program: one process with its database.
OneProcess == \E p : Procs = {p}

\* WorkerOwnsRunning, said of the only process.
Owning(p) ==
    /\ Working(p) =>
          \/ jobs[held[p]].status = "running"
          \/ pc[p] = "fail" /\ jobs[held[p]].status \in {"succeeded", "cancelled"}
    /\ faults = 0 =>
          \A j \in Jobs :
             jobs[j].status = "running" =>
                \/ Working(p) /\ held[p] = j
                \/ phase[p] \in {"down", "up"}

\* The two say the same.
LEMMA OwnsAsOne ==
    ASSUME NEW p, Procs = {p}
    PROVE  WorkerOwnsRunning <=> Owning(p)
  BY DEF WorkerOwnsRunning, Owning, Rows, Exists

\* Which methods leave a row RUNNING, and which end a row that is.
LEMMA StatusAfter ==
    ASSUME NEW r \in Row, NEW b \in BOOLEAN
    PROVE  /\ RequestCancel(r).status = "running" <=> r.status = "running"
           /\ r.status \in Terminal => RequestCancel(r) = r
           /\ r.status # "waiting_approval" => ResolveApproval(r, b) = r
           /\ ResolveApproval(r, b).status = "running" => r.status = "running"
           /\ Claim(r).status = "running"
           /\ Recover(r, b).status # "running"
           /\ r.status = "running" =>
                 /\ Complete(r).status \in {"succeeded", "cancelled"}
                 /\ WaitForApproval(r).status # "running"
                 /\ MarkCancelled(r).status # "running"
                 /\ Fail(r, b).status # "running"
           /\ r.status \in {"succeeded", "cancelled"} =>
                 MarkCancelled(r) = r /\ Fail(r, b) = r
  <1> USE DEF Row
  <1>1. /\ RequestCancel(r).status = "running" <=> r.status = "running"
        /\ r.status \in Terminal => RequestCancel(r) = r
    BY DEF RequestCancel, Cancelled, Exists, Terminal
  <1>2. /\ r.status # "waiting_approval" => ResolveApproval(r, b) = r
        /\ ResolveApproval(r, b).status = "running" => r.status = "running"
    BY DEF ResolveApproval, Cancelled, Failed
  <1>3. Claim(r).status = "running"
    BY DEF Claim
  <1>4. Recover(r, b).status # "running"
    BY DEF Recover, Cancelled, Failed
  <1>5. r.status = "running" =>
           /\ Complete(r).status \in {"succeeded", "cancelled"}
           /\ WaitForApproval(r).status # "running"
           /\ MarkCancelled(r).status # "running"
    BY DEF Complete, WaitForApproval, MarkCancelled, Cancelled, Exists, Terminal
  <1>6. r.status = "running" => Fail(r, b).status # "running"
    BY DEF Fail, Cancelled, Failed
  <1>7. r.status \in {"succeeded", "cancelled"} => MarkCancelled(r) = r /\ Fail(r, b) = r
    BY DEF MarkCancelled, Fail, Terminal
  <1>8. QED
    BY <1>1, <1>2, <1>3, <1>4, <1>5, <1>6, <1>7

\* A step of the one process keeps its worker and the RUNNING rows together.
LEMMA OwningStep ==
    ASSUME NEW p, Procs = {p}, IInv, Owning(p), [Next]_vars
    PROVE  Owning(p)'
  <1>1. /\ TypeOK /\ p \in Procs
        /\ \A j \in Jobs : Exists(jobs[j]) => jobs[j] \in Row
        /\ \A j \in Jobs : jobs[j].status = "running" => Exists(jobs[j])
        /\ Working(p) => held[p] \in Jobs /\ Exists(jobs[held[p]])
        /\ phase[p] # "running" => pc[p] = "none"
    BY RowType DEF IInv, WorkersGood, Exists
  \* The worker stays where it is, and a row keeps being RUNNING or ended.
  <1>2. ASSUME UNCHANGED <<pc, held, phase, faults>>,
               \A j \in Jobs : /\ jobs'[j].status = "running" <=> jobs[j].status = "running"
                               /\ jobs[j].status \in {"succeeded", "cancelled"} =>
                                     jobs'[j].status = jobs[j].status
        PROVE  Owning(p)'
    BY <1>1, <1>2 DEF Owning, Working
  <1>3. ASSUME Caller PROVE Owning(p)'
    <2>1. UNCHANGED <<pc, held, phase, faults>>
      BY <1>3 DEF Caller, EnqueueLookup, EnqueueInsert, CancelJob, ResolveJobApproval, BecomeDue,
             procVars, workVars
    <2>2. ASSUME NEW c \in Jobs, EnqueueInsert(c)
          PROVE  \A j \in Jobs : /\ jobs'[j].status = "running" <=> jobs[j].status = "running"
                                 /\ jobs[j].status \in {"succeeded", "cancelled"} =>
                                       jobs'[j].status = jobs[j].status
      <3>1. jobs[c].status = "absent"
        BY <2>2 DEF EnqueueInsert, IInv, CallsGood, Absent
      <3>2. QED
        BY <1>1, <2>2, <3>1 DEF EnqueueInsert, AnswerExisting, NewRow, TypeOK
    <2>3. ASSUME NEW c \in Jobs, CancelJob(c) \/ BecomeDue(c) \/
                                 \E b \in BOOLEAN : ResolveJobApproval(c, b)
          PROVE  \A j \in Jobs : /\ jobs'[j].status = "running" <=> jobs[j].status = "running"
                                 /\ jobs[j].status \in {"succeeded", "cancelled"} =>
                                       jobs'[j].status = jobs[j].status
      <3>1. jobs[c] \in Row
        BY <1>1, <2>3 DEF CancelJob, BecomeDue, ResolveJobApproval, Exists
      <3>2. /\ jobs'[c].status = "running" <=> jobs[c].status = "running"
            /\ jobs[c].status \in {"succeeded", "cancelled"} => jobs'[c].status = jobs[c].status
        <4>1. CASE CancelJob(c)
          BY <1>1, <3>1, <4>1, StatusAfter DEF CancelJob, TypeOK, Terminal
        <4>2. CASE BecomeDue(c)
          BY <1>1, <3>1, <4>2 DEF BecomeDue, TypeOK, Row
        <4>3. ASSUME NEW b \in BOOLEAN, ResolveJobApproval(c, b)
              PROVE  /\ jobs'[c].status = "running" <=> jobs[c].status = "running"
                     /\ jobs[c].status \in {"succeeded", "cancelled"} =>
                           jobs'[c].status = jobs[c].status
          BY <1>1, <3>1, <4>3, StatusAfter DEF ResolveJobApproval, TypeOK
        <4>4. QED
          BY <2>3, <4>1, <4>2, <4>3
      <3>3. \A j \in Jobs \ {c} : jobs'[j] = jobs[j]
        BY <1>1, <2>3 DEF CancelJob, BecomeDue, ResolveJobApproval, TypeOK
      <3>4. QED
        BY <3>2, <3>3
    <2>4. CASE \E c \in Jobs, q \in Procs : EnqueueLookup(c, q)
      BY <1>2, <2>1, <2>4 DEF EnqueueLookup, AnswerExisting
    <2>5. QED
      BY <1>2, <1>3, <2>1, <2>2, <2>3, <2>4 DEF Caller
  <1>4. ASSUME Process(p) PROVE Owning(p)'
    <2>1. CASE Boot(p) \/ Exit(p) \/ Crash(p)
      <3>1. phase'[p] \in {"down", "up"} /\ ~Working(p)'
        BY <1>1, <2>1 DEF Boot, Exit, Crash, End, Working, workVars, TypeOK
      <3>2. QED
        BY <3>1 DEF Owning
    <2>2. CASE Close(p) \/ \E t \in Types : Register(p, t)
      BY <1>2, <2>2 DEF Close, Register, workVars
    <2>3. CASE StartWorker(p)
      <3>1. /\ ~Working(p) /\ ~Working(p)' /\ UNCHANGED <<jobs, faults>>
            /\ phase[p] = "recovered"
        BY <1>1, <2>3 DEF StartWorker, Working, TypeOK
      <3>2. QED
        BY <3>1 DEF Owning
    <2>4. CASE StartRecover(p)
      <3>1. ~Working(p)' /\ RecoverRows(p)
        BY <1>1, <2>4 DEF StartRecover, Working, workVars
      <3>2. jobs' = [j \in Jobs |->
                       IF ~Exists(jobs[j]) THEN jobs[j]
                       ELSE Recover(jobs[j], Type(jobs[j]) \in RetrySafe \cap registered[p])]
        BY <1>1, <3>1 DEF RecoverRows
      <3>3. ASSUME NEW j \in Jobs PROVE jobs'[j].status # "running"
        <4>1. CASE ~Exists(jobs[j])
          BY <3>2, <4>1 DEF Exists
        <4>2. CASE Exists(jobs[j])
          <5> DEFINE b == Type(jobs[j]) \in RetrySafe \cap registered[p]
          <5>1. jobs'[j] = Recover(jobs[j], b)
            BY <3>2, <4>2
          <5>2. b \in BOOLEAN
            OBVIOUS
          <5> HIDE DEF b
          <5>3. Recover(jobs[j], b).status # "running"
            BY <1>1, <4>2, <5>2, StatusAfter
          <5>4. QED
            BY <5>1, <5>3
        <4>3. QED
          BY <4>1, <4>2
      <3>4. QED
        BY <3>1, <3>3 DEF Owning
    <2>5. QED
      BY <1>4, <2>1, <2>2, <2>3, <2>4 DEF Process
  <1>5. ASSUME WorkerStep(p) PROVE Owning(p)'
    <2>1. UNCHANGED <<phase, faults>>
      BY <1>5 DEF WorkerStep, procVars
    <2>2. CASE LoopHead(p)
      <3>1. ~Working(p) /\ ~Working(p)' /\ jobs' = jobs
        BY <1>1, <2>2 DEF LoopHead, Goto, Working, TypeOK
      <3>2. QED
        BY <2>1, <3>1 DEF Owning
    <2>3. CASE ClaimNext(p)
      <3>1. ~Working(p)
        BY <2>3 DEF ClaimNext, Working
      <3>2. CASE UNCHANGED jobs /\ Goto(p, "idle")
        BY <1>1, <2>1, <3>1, <3>2 DEF Owning, Working, Goto, TypeOK
      <3>3. ASSUME NEW i \in ClaimableBy(p), jobs' = [jobs EXCEPT ![i] = Claim(@)],
                   pc' = [pc EXCEPT ![p] = "check1"], held' = [held EXCEPT ![p] = i]
            PROVE  Owning(p)'
        <4>1. i \in Jobs /\ jobs[i] \in Row
          BY <1>1 DEF ClaimableBy, Claimable, Exists
        <4>2. /\ Working(p)' /\ held'[p] = i /\ jobs'[i].status = "running"
              /\ \A j \in Jobs \ {i} : jobs'[j] = jobs[j]
          BY <1>1, <3>3, <4>1, StatusAfter DEF TypeOK, Working
        <4>3. QED
          BY <2>1, <3>1, <4>2 DEF Owning
      <3>4. QED
        BY <2>3, <3>2, <3>3 DEF ClaimNext, Goto
    <2>4. ASSUME jobs' = jobs, held' = held, Working(p), Working(p)',
                 pc[p] # "fail"
          PROVE  Owning(p)'
      BY <2>1, <2>4 DEF Owning
    <2>5. CASE CheckCancelled(p) \/ ObserveCancelled(p) \/ HandlerReturns(p)
                 \/ HandlerAsksApproval(p)
      <3>1. /\ jobs' = jobs /\ held' = held /\ pc[p] \in {"check1", "handler", "check2"}
            /\ pc'[p] \in {"handler", "complete", "cancel", "check2", "wait"}
        BY <1>1, <2>5 DEF CheckCancelled, ObserveCancelled, HandlerReturns, HandlerAsksApproval,
               Goto, TypeOK
      <3>2. QED
        BY <2>4, <3>1 DEF Working
    <2>6. CASE HandlerRaises(p) \/ ProgressRefused(p) \/ ResultRefused(p)
      <3>1. /\ jobs' = jobs /\ held' = held /\ pc[p] \in {"handler", "complete"}
            /\ pc'[p] = "fail"
        BY <1>1, <2>6 DEF HandlerRaises, ProgressRefused, ResultRefused, Raise, Goto, TypeOK
      <3>2. QED
        BY <2>4, <3>1 DEF Working
    <2>7. CASE Settle(p)
      <3> DEFINE i == held[p]
      <3>1. Working(p) /\ i \in Jobs /\ jobs[i] \in Row
        BY <1>1, <2>7 DEF Settle, Working
      <3>2. ~Working(p)' /\ jobs' = [jobs EXCEPT ![i] = Settlement(p)]
        BY <1>1, <2>7 DEF Settle, Release, Goto, Working, TypeOK
      <3>3. Settlement(p).status # "running"
        <4>1. /\ \/ jobs[i].status = "running"
                 \/ pc[p] = "fail" /\ jobs[i].status \in {"succeeded", "cancelled"}
              /\ retry[p] \in BOOLEAN
          BY <1>1, <3>1 DEF Owning, TypeOK
        <4>2. CASE pc[p] = "complete"
          BY <3>1, <4>1, <4>2, StatusAfter DEF Settlement
        <4>3. CASE pc[p] = "wait"
          BY <3>1, <4>1, <4>3, StatusAfter DEF Settlement
        <4>4. CASE pc[p] = "cancel"
          BY <3>1, <4>1, <4>4, StatusAfter DEF Settlement
        <4>5. CASE pc[p] = "fail"
          BY <3>1, <4>1, <4>5, StatusAfter DEF Settlement
        <4>6. QED
          BY <2>7, <4>2, <4>3, <4>4, <4>5 DEF Settle
      <3>4. jobs'[i].status # "running" /\ \A j \in Jobs \ {i} : jobs'[j] = jobs[j]
        BY <1>1, <3>1, <3>2, <3>3 DEF TypeOK
      <3>5. QED
        BY <2>1, <3>2, <3>4 DEF Owning
    <2>8. QED
      BY <1>5, <2>2, <2>3, <2>5, <2>6, <2>7 DEF WorkerStep, HandlerEnds
  <1>6. ASSUME WorkerFault(p) PROVE Owning(p)'
    <2>1. faults' # 0
      BY <1>1, <1>6 DEF WorkerFault, TypeOK
    <2>2. CASE ClaimFault(p) \/ SettleFault(p)
      <3>1. ~Working(p)'
        BY <1>1, <2>2 DEF ClaimFault, SettleFault, Release, Goto, Working, TypeOK
      <3>2. QED
        BY <2>1, <3>1 DEF Owning
    <2>3. CASE CallFault(p)
      <3> DEFINE i == held[p]
      <3>1. Working(p) /\ i \in Jobs /\ jobs[i] \in Row /\ jobs[i].status = "running"
        BY <1>1, <2>3 DEF CallFault, Working, Owning
      <3>2. held' = held /\ pc'[p] = "fail"
        BY <1>1, <2>3 DEF CallFault, Goto, TypeOK
      <3>3. jobs' = jobs \/ (pc[p] = "complete" /\ jobs' = [jobs EXCEPT ![i] = Settlement(p)])
        BY <2>3 DEF CallFault, Applied
      <3>4. pc[p] = "complete" => Settlement(p) = Complete(jobs[i])
        BY DEF Settlement
      <3>5. jobs'[i].status \in {"running", "succeeded", "cancelled"}
        BY <1>1, <3>1, <3>3, <3>4, StatusAfter DEF TypeOK
      <3>6. QED
        BY <2>1, <3>2, <3>5 DEF Owning
    <2>4. QED
      BY <1>6, <2>2, <2>3 DEF WorkerFault
  <1>7. ASSUME RecoverFault(p) PROVE Owning(p)'
    <2>1. ~Working(p)' /\ faults' # 0
      BY <1>1, <1>7 DEF RecoverFault, workVars, Working, TypeOK
    <2>2. QED
      BY <2>1 DEF Owning
  <1>8. CASE UNCHANGED vars
    BY <1>2, <1>8 DEF vars, procVars, workVars
  <1>9. QED
    BY <1>3, <1>4, <1>5, <1>6, <1>7, <1>8 DEF Next

-----------------------------------------------------------------------------
(* The theorems. *)

(***************************************************************************)
(* The inductive invariant holds: rows carry what their callers asked for, *)
(* their counters agree with their status, workers hold jobs that exist.   *)
(***************************************************************************)
THEOREM InvariantHolds == Spec => []IInv
  BY InitInvariant, NextInvariant, PTL DEF Spec

(***************************************************************************)
(* Every variable keeps its type, for any number of jobs and processes.    *)
(***************************************************************************)
THEOREM TypeCorrect == Spec => []TypeOK
  <1>1. IInv => TypeOK
    BY DEF IInv
  <1>2. QED
    BY <1>1, InvariantHolds, PTL

(***************************************************************************)
(* Whatever is crashed, refused, paused or recovered, no job is started    *)
(* more often than its pauses and its attempt limit allow, and no queued   *)
(* job is out of attempts.                                                 *)
(***************************************************************************)
THEOREM AttemptsHold == Spec => []AttemptsAccounted
  <1>1. IInv => AttemptsAccounted
    BY DEF IInv, RowsGood, GoodRow, AttemptsAccounted, Rows, Exists, Absent
  <1>2. QED
    BY <1>1, InvariantHolds, PTL

(***************************************************************************)
(* A job that is not retry-safe is never started again without an approval *)
(* of its owner, with any number of processes recovering and working.      *)
(***************************************************************************)
THEOREM ApprovalPerRepeat == Spec => []OneApprovalPerRepeat
  <1>1. IInv => OneApprovalPerRepeat
    <2> SUFFICES ASSUME IInv, NEW j \in Jobs, Exists(jobs[j]),
                        Type(jobs[j]) \notin RetrySafe
                 PROVE  /\ jobs[j].starts <= jobs[j].grants + 1
                        /\ jobs[j].status = "queued" =>
                              jobs[j].starts = jobs[j].grants
      BY DEF OneApprovalPerRepeat, Rows
    <2>1. UnsafeJob(j) /\ GoodRow(j, jobs[j])
      BY RowType DEF IInv, RowsGood, Exists, Absent
    <2>2. QED
      BY <2>1 DEF GoodRow
  <1>2. QED
    BY <1>1, InvariantHolds, PTL

(***************************************************************************)
(* A requested cancellation is never lost, whichever thread of whichever   *)
(* process touches the row next.                                           *)
(***************************************************************************)
THEOREM CancellationSticks == Spec => []CancelIsSticky
  <1>1. IInv => CancelIsSticky
    BY DEF IInv, RowsGood, GoodRow, CancelIsSticky, Rows, Exists, Absent
  <1>2. QED
    BY <1>1, InvariantHolds, PTL

(***************************************************************************)
(* Racing enqueue calls with one idempotency key create one row.           *)
(***************************************************************************)
THEOREM KeysUnique == Spec => []KeyMeansOneJob
  <1>1. IInv => KeyMeansOneJob
    BY DEF IInv
  <1>2. QED
    BY <1>1, InvariantHolds, PTL

(***************************************************************************)
(* The late repository call of a worker that lost its job leaves a         *)
(* finished row as it is.                                                  *)
(***************************************************************************)
THEOREM FinishedStays == Spec => TerminalIsFinal
  <1>1. IInv /\ [Next]_vars =>
          [\A j \in Jobs : jobs[j].status \in Terminal => jobs'[j] = jobs[j]]_vars
    <2> SUFFICES ASSUME IInv, [Next]_vars, NEW j \in Jobs,
                        jobs[j].status \in Terminal
                 PROVE  jobs'[j] = jobs[j]
      OBVIOUS
    <2>1. RowMove(j, jobs[j], jobs'[j])
      BY NextRows DEF RowsMove
    <2>2. jobs[j] \in Row
      BY DEF IInv, TypeOK, Absent, Terminal
    <2>3. QED
      BY <2>1, <2>2, RowMoveFinal
  <1>2. QED
    BY <1>1, InvariantHolds, PTL DEF Spec, TerminalIsFinal

(***************************************************************************)
(* With one process, whatever its crashes, restarts and failing calls, the *)
(* job run_once is at work on is RUNNING until run_once ends it, or is     *)
(* finished behind a complete whose answer was lost; and while no call     *)
(* raised, a RUNNING row is the worker's or is left for start to recover.  *)
(* One process is needed: recover_interrupted takes every RUNNING row, a   *)
(* live worker's of another process as well.                               *)
(***************************************************************************)
THEOREM OneWorkerOwns ==
    ASSUME OneProcess
    PROVE  Spec => []WorkerOwnsRunning
  <1>1. PICK p : Procs = {p}
    BY DEF OneProcess
  <1>2. Init => Owning(p)
    BY <1>1 DEF Init, Owning, Working, Absent
  <1>3. IInv /\ Owning(p) /\ [Next]_vars => Owning(p)'
    BY <1>1, OwningStep
  <1>4. Owning(p) => WorkerOwnsRunning
    BY <1>1, OwnsAsOne
  <1>5. QED
    BY <1>2, <1>3, <1>4, InvariantHolds, PTL DEF Spec
=============================================================================
