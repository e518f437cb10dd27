--------------------------- MODULE JobLifecycle ----------------------------
(***************************************************************************)
(* What the durable job substrate promises about every job, whatever       *)
(* processes, threads and crashes do: the life of a job as its owner may   *)
(* rely on it.  There are no workers, no processes and no transactions     *)
(* here.  A restart may move several jobs at once, so a step lets any      *)
(* number of jobs move.                                                    *)
(*                                                                         *)
(*   - A job is started only from the queue, never beyond its limit.       *)
(*   - A job whose repetition is unsafe needs a permit for every start: it *)
(*     is born with one, and every further one is an explicit approval.    *)
(*   - Once its cancellation is requested a job can only become cancelled. *)
(*   - A finished job never changes again.                                 *)
(***************************************************************************)
EXTENDS Integers

CONSTANTS
    Jobs,       \* job ids
    Limit,      \* max_attempts of each job
    Unsafe      \* the jobs whose type is not retry_safe

VARIABLES
    status,     \* the status of each job
    doomed,     \* the jobs whose cancellation was requested
    tries,      \* attempts that count against the limit
    permits     \* starts still permitted to a job that is unsafe to repeat

jobVars == <<status, doomed, tries, permits>>

Init ==
    /\ status = [j \in Jobs |-> "absent"]
    /\ doomed = {}
    /\ tries = [j \in Jobs |-> 0]
    /\ permits = [j \in Jobs |-> 1]

\* The move of job j from its present to its next values, field by field.
Becomes(j, s, d, t, p) ==
    /\ status'[j] = s
    /\ (j \in doomed') <=> d
    /\ tries'[j] = t
    /\ permits'[j] = p

Stays(j) == Becomes(j, status[j], j \in doomed, tries[j], permits[j])

Submit(j) ==
    /\ status[j] = "absent"
    /\ Becomes(j, "queued", FALSE, 0, 1)

Start(j) ==
    /\ status[j] = "queued" /\ j \notin doomed
    /\ tries[j] < Limit[j]
    /\ j \in Unsafe => permits[j] > 0
    /\ Becomes(j, "running", FALSE, tries[j] + 1, permits[j] - 1)

Finish(j) ==
    /\ status[j] = "running" /\ j \notin doomed
    /\ \E s \in {"succeeded", "failed"} :
          Becomes(j, s, FALSE, tries[j], permits[j])

\* The job waits for its owner, at a gate of its own (which gives the attempt
\* back) or because it was interrupted (which does not).
Ask(j) ==
    /\ status[j] = "running" /\ j \notin doomed
    /\ \E t \in {tries[j] - 1, tries[j]} :
          /\ t >= 0
          /\ Becomes(j, "waiting_approval", FALSE, t, permits[j])

Repeat(j) ==
    /\ status[j] = "running" /\ j \notin doomed
    /\ j \notin Unsafe
    /\ tries[j] < Limit[j]
    /\ Becomes(j, "queued", FALSE, tries[j], permits[j])

Permit(j) ==
    /\ status[j] = "waiting_approval" /\ j \notin doomed
    /\ Becomes(j, IF tries[j] < Limit[j] THEN "queued" ELSE "failed",
               FALSE, tries[j], permits[j] + 1)

Doom(j) ==
    /\ status[j] = "running"
    /\ Becomes(j, "running", TRUE, tries[j], permits[j])

Cancel(j) ==
    /\ status[j] \in {"queued", "running", "waiting_approval"}
    /\ Becomes(j, "cancelled", TRUE, tries[j], permits[j])

Move(j) ==
    \/ Stays(j) \/ Submit(j) \/ Start(j) \/ Finish(j) \/ Ask(j)
    \/ Repeat(j) \/ Permit(j) \/ Doom(j) \/ Cancel(j)

\* The variables stay functions of the job.
Total(f) == f = [j \in Jobs |-> f[j]]

Next ==
    /\ Total(status') /\ Total(tries') /\ Total(permits')
    /\ doomed' \subseteq Jobs
    /\ \A j \in Jobs : Move(j)

Spec == Init /\ [][Next]_jobVars
=============================================================================
