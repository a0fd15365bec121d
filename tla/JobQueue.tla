------------------------------ MODULE JobQueue ------------------------------
(****************************************************************************)
(* The durable job queue of the messaging worker: the table ops.jobs, the   *)
(* claim functions that lease its rows, and the fence every transaction of  *)
(* a worker passes through.                                                 *)
(*                                                                          *)
(* A row of ops.jobs is a column-wise family of functions over Jobs.  An    *)
(* executor is one in-flight processJob call with its renewal loop; a       *)
(* worker process runs several of them (a foreground job, up to four AI     *)
(* replies, one summary), all under the same locked_by value.               *)
(*                                                                          *)
(* Time is relative: lease[j] is what is left of lease_expires_at and       *)
(* due[j] what is left until available_at, in ticks.  A lease is owned      *)
(* while lease[j] > 0 and reclaimable once lease[j] < 0, as the code's two  *)
(* strict comparisons with clock_timestamp() have it.                       *)
(****************************************************************************)
EXTENDS Integers, FiniteSets

CONSTANTS
  Jobs,        \* the rows that may be inserted
  Executors,   \* processJob calls that may run at the same time
  Workers,     \* worker processes, the values of locked_by
  WorkerOf,    \* the process an executor runs in
  NoJob,       \* the handle of an idle executor
  NoWorker,    \* locked_by IS NULL
  MaxAttempts, \* max_attempts at insertion, per job
  Priority,    \* the priority column, per job
  FlowJobs,    \* jobs that poll: cross_channel.flow.simulated
  AudioJobs,   \* jobs that reschedule themselves: whatsapp.audio.transcribe
  Lease,       \* ticks a claim or a renewal grants
  Backoff,     \* ticks a retried, polled or rescheduled job waits
  MaxPolls     \* bound: polls before the run's 15-minute deadline ends them

Terminal == {"succeeded", "dead", "cancelled"}
Waiting  == {"queued", "retry"}
Statuses == {"absent", "running"} \cup Waiting \cup Terminal

\* What the body of a fenced transaction leaves to be committed.
Verdicts == {"keep", "succeed", "cancel", "fail", "quarantine", "poll", "defer"}

ASSUME JobQueueAssumption ==
  /\ NoJob \notin Jobs
  /\ NoWorker \notin Workers
  /\ WorkerOf \in [Executors -> Workers]
  /\ MaxAttempts \in [Jobs -> Nat \ {0}]
  /\ Priority \in [Jobs -> Int]
  /\ FlowJobs \subseteq Jobs
  /\ AudioJobs \subseteq Jobs
  /\ Lease \in Nat \ {0}
  /\ Backoff \in Nat
  /\ MaxPolls \in Nat

VARIABLES
  status,    \* ops.jobs.status; "absent" before the insert
  attempts,  \* ops.jobs.attempts
  limit,     \* ops.jobs.max_attempts
  token,     \* ops.jobs.claim_token: the number of the latest claim
  owner,     \* ops.jobs.locked_by
  lease,     \* ticks left of lease_expires_at, -1 once it has passed
  due,       \* ticks left until available_at
  polls,     \* polls so far (the persisted deadline of a flow run)
  stamp,     \* history: the claim under which the job last wrote anything
  held,      \* the job an executor works on
  claim,     \* the claim_token the executor was handed
  lost,      \* job.claimLost
  erred,     \* the executor is in its error handler
  tx         \* "none", an "open" fenced transaction, or its checked verdict

row  == <<status, attempts, limit, token, owner, lease, due, polls, stamp>>
exec == <<held, claim, lost, erred, tx>>
vars == <<status, attempts, limit, token, owner, lease, due, polls, stamp,
          held, claim, lost, erred, tx>>

Init ==
  /\ status   = [j \in Jobs |-> "absent"]
  /\ attempts = [j \in Jobs |-> 0]
  /\ limit    = MaxAttempts
  /\ token    = [j \in Jobs |-> 0]
  /\ owner    = [j \in Jobs |-> NoWorker]
  /\ lease    = [j \in Jobs |-> 0]
  /\ due      = [j \in Jobs |-> 0]
  /\ polls    = [j \in Jobs |-> 0]
  /\ stamp    = [j \in Jobs |-> 0]
  /\ held     = [e \in Executors |-> NoJob]
  /\ claim    = [e \in Executors |-> 0]
  /\ lost     = [e \in Executors |-> FALSE]
  /\ erred    = [e \in Executors |-> FALSE]
  /\ tx       = [e \in Executors |-> "none"]

-----------------------------------------------------------------------------
(* Definitions with _Faulty in their name are plausible slips of the        *)
(* definition that follows them.  No specification uses them: substituted   *)
(* for it, each one breaks a property stated at the end of the module.      *)

(* The row lock of SELECT ... FOR UPDATE, held while a fenced transaction   *)
(* is open; claims skip such rows, renewals and other transactions wait.    *)
Locked(j) == \E e \in Executors : held[e] = j /\ tx[e] # "none"

\* The fence before claim tokens: any call of the worker passes.
Owns_FaultyWorkerOnly(e, j) ==
  status[j] = "running" /\ owner[j] = WorkerOf[e] /\ lease[j] > 0

\* The predicate of the fence: this claim, this worker, an unexpired lease.
Owns(e, j) ==
  /\ status[j] = "running"
  /\ owner[j] = WorkerOf[e]
  /\ token[j] = claim[e]
  /\ lease[j] > 0

\* SKIP LOCKED forgotten.
Exhausted_FaultyNoSkip ==
  {j \in Jobs : status[j] = "running" /\ attempts[j] >= limit[j] /\ lease[j] < 0}

\* Every stale lease declared dead.
Exhausted_FaultyAnyStale ==
  {j \in Jobs : status[j] = "running" /\ lease[j] < 0 /\ ~Locked(j)}

\* Off by one: > for >=.
Exhausted_FaultyStrict ==
  {j \in Jobs : /\ status[j] = "running" /\ attempts[j] > limit[j]
                /\ lease[j] < 0 /\ ~Locked(j)}

\* Running rows whose lease has passed after the last attempt was spent.
Exhausted == {j \in Jobs : /\ status[j] = "running"
                           /\ attempts[j] >= limit[j]
                           /\ lease[j] < 0
                           /\ ~Locked(j)}

Claimable == {j \in Jobs : /\ attempts[j] < limit[j]
                           /\ \/ status[j] \in Waiting /\ due[j] = 0
                              \/ status[j] = "running" /\ lease[j] < 0
                           /\ ~Locked(j)}

\* ORDER BY priority DESC; ties, which available_at and id break, are open.
Foremost == {j \in Claimable : \A k \in Claimable : Priority[k] <= Priority[j]}

-----------------------------------------------------------------------------
(* INSERT of a job by an API request, an inbound event or another job; it   *)
(* is available at once or after a debounce.                                *)
Enqueue(j) ==
  /\ status[j] = "absent"
  /\ status' = [status EXCEPT ![j] = "queued"]
  /\ \E d \in {0, Backoff} : due' = [due EXCEPT ![j] = d]
  /\ UNCHANGED <<attempts, limit, token, owner, lease, polls, stamp, exec>>

\* gen_random_uuid(): the token of a new claim, told apart from all before.
FreshToken(j) == token[j] + 1

\* One call of claim_jobs_all_tenants that leases row j to an idle executor,
\* after the same call has declared every exhausted row dead.
ClaimJob(e, j) ==
  /\ held[e] = NoJob
  /\ j \in Foremost
  /\ status' = [k \in Jobs |-> IF k = j THEN "running"
                               ELSE IF k \in Exhausted THEN "dead" ELSE status[k]]
  /\ owner'  = [k \in Jobs |-> IF k = j THEN WorkerOf[e]
                               ELSE IF k \in Exhausted THEN NoWorker ELSE owner[k]]
  /\ lease'  = [k \in Jobs |-> IF k = j THEN Lease
                               ELSE IF k \in Exhausted THEN 0 ELSE lease[k]]
  /\ attempts' = [attempts EXCEPT ![j] = @ + 1]
  /\ token'    = [token EXCEPT ![j] = FreshToken(j)]
  /\ held'     = [held EXCEPT ![e] = j]
  /\ claim'    = [claim EXCEPT ![e] = FreshToken(j)]
  /\ lost'     = [lost EXCEPT ![e] = FALSE]
  /\ erred'    = [erred EXCEPT ![e] = FALSE]
  /\ UNCHANGED <<limit, due, polls, stamp, tx>>

\* A call that finds nothing to lease still sweeps.
SweepExhausted(e) ==
  /\ held[e] = NoJob
  /\ Claimable = {}
  /\ Exhausted # {}
  /\ status' = [k \in Jobs |-> IF k \in Exhausted THEN "dead" ELSE status[k]]
  /\ owner'  = [k \in Jobs |-> IF k \in Exhausted THEN NoWorker ELSE owner[k]]
  /\ lease'  = [k \in Jobs |-> IF k \in Exhausted THEN 0 ELSE lease[k]]
  /\ UNCHANGED <<attempts, limit, token, due, polls, stamp, exec>>

-----------------------------------------------------------------------------
(* The renewal loop, every 15 seconds beside the operation.  The UPDATE     *)
(* waits for a row lock; a refusal, or any database error, loses the claim. *)
Renew(e) ==
  /\ held[e] # NoJob
  /\ ~lost[e]
  /\ ~Locked(held[e])
  /\ IF Owns(e, held[e])
       THEN lease' = [lease EXCEPT ![held[e]] = Lease] /\ lost' = lost
       ELSE lost' = [lost EXCEPT ![e] = TRUE] /\ lease' = lease
  /\ UNCHANGED <<status, attempts, limit, token, owner, due, polls, stamp,
                 held, claim, erred, tx>>

RenewalFails(e) ==
  /\ held[e] # NoJob
  /\ ~lost[e]
  /\ lost' = [lost EXCEPT ![e] = TRUE]
  /\ UNCHANGED <<row, held, claim, erred, tx>>

-----------------------------------------------------------------------------
(* withOwnedJobTransaction: take the row lock and check ownership, run the  *)
(* body, check the captured deadline again, commit.                         *)

BeginTx(e) ==
  /\ held[e] # NoJob
  /\ tx[e] = "none"
  /\ ~lost[e]
  /\ ~Locked(held[e])
  /\ IF Owns(e, held[e])
       THEN tx' = [tx EXCEPT ![e] = "open"] /\ lost' = lost
       ELSE lost' = [lost EXCEPT ![e] = TRUE] /\ tx' = tx
  /\ UNCHANGED <<row, held, claim, erred>>

\* The deadline of a polling run checked one poll late.
MayDecide_FaultyLatePoll(e, v) ==
  IF erred[e]
    THEN v \in {"cancel", "fail", "quarantine"}
    ELSE \/ v \in {"keep", "succeed", "cancel"}
         \/ v = "poll" /\ held[e] \in FlowJobs /\ polls[held[e]] <= MaxPolls
         \/ v = "defer" /\ held[e] \in AudioJobs

\* What the body may decide: the error handler fails, quarantines or cancels
\* the job; the operation proper does one of the others, "keep" being an
\* intermediate commit that leaves the job with its claim.
MayDecide(e, v) ==
  IF erred[e]
    THEN v \in {"cancel", "fail", "quarantine"}
    ELSE \/ v \in {"keep", "succeed", "cancel"}
         \/ v = "poll" /\ held[e] \in FlowJobs /\ polls[held[e]] < MaxPolls
         \/ v = "defer" /\ held[e] \in AudioJobs

Validate(e, v) ==
  /\ tx[e] = "open"
  /\ ~lost[e]
  /\ lease[held[e]] > 0
  /\ MayDecide(e, v)
  /\ tx' = [tx EXCEPT ![e] = v]
  /\ UNCHANGED <<row, held, claim, lost, erred>>

\* The deadline passed, or a renewal was refused, while the body ran.
Reject(e) ==
  /\ tx[e] = "open"
  /\ lost[e] \/ lease[held[e]] <= 0
  /\ lost' = [lost EXCEPT ![e] = TRUE]
  /\ tx'   = [tx EXCEPT ![e] = "none"]
  /\ UNCHANGED <<row, held, claim, erred>>

\* The executors in E end their call: nothing of it survives in memory.
Drop(E) ==
  /\ held'  = [e \in Executors |-> IF e \in E THEN NoJob ELSE held[e]]
  /\ claim' = [e \in Executors |-> IF e \in E THEN 0 ELSE claim[e]]
  /\ lost'  = [e \in Executors |-> ~(e \in E) /\ lost[e]]
  /\ erred' = [e \in Executors |-> ~(e \in E) /\ erred[e]]
  /\ tx'    = [e \in Executors |-> IF e \in E THEN "none" ELSE tx[e]]

\* The operation throws, or its transaction fails: its error handler runs;
\* an error in the handler itself ends the call with the row still leased.
Throw(e) ==
  IF erred[e]
    THEN Drop({e})
    ELSE /\ erred' = [erred EXCEPT ![e] = TRUE]
         /\ tx'    = [tx EXCEPT ![e] = "none"]
         /\ UNCHANGED <<held, claim, lost>>

\* A provider error, a refusal or a database error, inside a transaction
\* (which rolls back) or between two.
Err(e) ==
  /\ held[e] # NoJob
  /\ Throw(e)
  /\ UNCHANGED row

\* The status a committed verdict leaves in the row.
StatusAfter(j, v) ==
  IF v = "keep" THEN status[j]
  ELSE IF v = "succeed" THEN "succeeded"
  ELSE IF v = "cancel" THEN "cancelled"
  ELSE IF v \in {"poll", "defer"} THEN "queued"
  ELSE IF v = "quarantine" \/ attempts[j] >= limit[j] THEN "dead"
  ELSE "retry"

\* The effect of the transaction of executor e on its row j.
Settle(e, j, v) ==
  /\ status' = [status EXCEPT ![j] = StatusAfter(j, v)]
  /\ owner'  = [owner EXCEPT ![j] = IF v = "keep" THEN @ ELSE NoWorker]
  /\ lease'  = [lease EXCEPT ![j] = IF v = "keep" THEN @ ELSE 0]
  /\ attempts' = [attempts EXCEPT ![j] = IF v = "poll" /\ @ > 0 THEN @ - 1 ELSE @]
  /\ limit'  = [limit EXCEPT ![j] = IF v = "quarantine" THEN attempts[j] ELSE @]
  /\ due'    = [due EXCEPT ![j] = IF StatusAfter(j, v) \in Waiting THEN Backoff ELSE @]
  /\ polls'  = [polls EXCEPT ![j] = IF v = "poll" THEN @ + 1 ELSE @]
  /\ stamp'  = [stamp EXCEPT ![j] = claim[e]]
  /\ token'  = token

\* COMMIT, acknowledged or not: an acknowledged final verdict ends the call.
Commit(e) ==
  /\ tx[e] \in Verdicts
  /\ Settle(e, held[e], tx[e])
  /\ \/ IF tx[e] = "keep"
           THEN /\ tx' = [tx EXCEPT ![e] = "none"]
                /\ UNCHANGED <<held, claim, lost, erred>>
           ELSE Drop({e})
     \/ Throw(e)

\* The call ends without settling its row: claimLost swallowed what it threw,
\* or a branch of processJob returned early.
Leave(e) ==
  /\ held[e] # NoJob
  /\ tx[e] = "none"
  /\ Drop({e})
  /\ UNCHANGED row

\* A worker process dies; its open transactions roll back.
Crash(w) ==
  /\ \E e \in Executors : WorkerOf[e] = w /\ held[e] # NoJob
  /\ Drop({e \in Executors : WorkerOf[e] = w})
  /\ UNCHANGED row

Less(n, floor) == IF n > floor THEN n - 1 ELSE n

Tick ==
  /\ lease' = [j \in Jobs |-> IF status[j] = "running" THEN Less(lease[j], -1)
                              ELSE lease[j]]
  /\ due'   = [j \in Jobs |-> Less(due[j], 0)]
  /\ UNCHANGED <<status, attempts, limit, token, owner, polls, stamp, exec>>

-----------------------------------------------------------------------------
\* The steps of one call that its own progress, not its environment, takes.
Work(e) == BeginTx(e) \/ (\E v \in Verdicts : Validate(e, v))
             \/ Reject(e) \/ Err(e) \/ Commit(e) \/ Leave(e)

Poll(e) == (\E j \in Jobs : ClaimJob(e, j)) \/ SweepExhausted(e)

Next ==
  \/ \E j \in Jobs : Enqueue(j)
  \/ \E e \in Executors : \/ \E j \in Jobs : ClaimJob(e, j)
                          \/ SweepExhausted(e)
                          \/ Renew(e)
                          \/ RenewalFails(e)
                          \/ BeginTx(e)
                          \/ \E v \in Verdicts : Validate(e, v)
                          \/ Reject(e)
                          \/ Err(e)
                          \/ Commit(e)
                          \/ Leave(e)
  \/ \E w \in Workers : Crash(w)
  \/ Tick

Spec == Init /\ [][Next]_vars

\* The steps that end the work of a call on its job.
Conclude(e) == (\E v \in Verdicts \ {"keep"} : Validate(e, v)) \/ Leave(e)

(* Statement, request and provider timeouts end every wait of a call, and a *)
(* call makes finitely many transactions before it concludes; the poll loop *)
(* of runWorker comes back to the claim functions; time passes.             *)
Fairness ==
  /\ WF_vars(Tick)
  /\ \A e \in Executors : WF_vars(Work(e)) /\ SF_vars(Conclude(e)) /\ WF_vars(Poll(e))

FairSpec == Spec /\ Fairness

-----------------------------------------------------------------------------
TypeOK ==
  /\ status   \in [Jobs -> Statuses]
  /\ attempts \in [Jobs -> Nat]
  /\ limit    \in [Jobs -> Nat]
  /\ token    \in [Jobs -> Nat]
  /\ owner    \in [Jobs -> Workers \cup {NoWorker}]
  /\ lease    \in [Jobs -> -1..Lease]
  /\ due      \in [Jobs -> 0..Backoff]
  /\ polls    \in [Jobs -> 0..MaxPolls]
  /\ stamp    \in [Jobs -> Nat]
  /\ held     \in [Executors -> Jobs \cup {NoJob}]
  /\ claim    \in [Executors -> Nat]
  /\ lost     \in [Executors -> BOOLEAN]
  /\ erred    \in [Executors -> BOOLEAN]
  /\ tx       \in [Executors -> {"none", "open"} \cup Verdicts]

(* While a fenced transaction is open, whatever its body has decided so     *)
(* far, its row is still running under this very claim: no reclaim, sweep   *)
(* or second executor of the same worker got between the ownership check    *)
(* and the commit (withOwnedJobTransaction, database.ts:6583-6606).         *)
FencedTransaction ==
  \A e \in Executors : tx[e] # "none" =>
    /\ held[e] # NoJob
    /\ status[held[e]] = "running"
    /\ token[held[e]] = claim[e]
    /\ owner[held[e]] = WorkerOf[e]

(* A claim is handed to one executor: two calls that work on the same job,  *)
(* even in one process under one locked_by, can be told apart by the token. *)
ClaimsAreUnique ==
  \A e, f \in Executors :
    held[e] # NoJob /\ held[e] = held[f] /\ claim[e] = claim[f] => e = f

(* A job is declared dead only when its attempts are spent, by retries, by  *)
(* lease expiry after the last one, or by a handler that withdrew the rest  *)
(* (fail_messaging_job_claim and the sweep of claim_jobs_all_tenants), and  *)
(* never has more attempts than ck_job_attempts allows.                     *)
DeadWhenSpent ==
  \A j \in Jobs : /\ attempts[j] <= limit[j]
                  /\ status[j] = "dead" => attempts[j] = limit[j]

(* A waiting job can still be claimed: it has an attempt left.  A job that  *)
(* waits with none is neither claimed (attempts < max_attempts) nor swept   *)
(* (status = 'running'), so it would wait for ever.                         *)
NoStrandedJob ==
  \A j \in Jobs : status[j] \in Waiting => attempts[j] < limit[j]

(* A settled row is final: no late transaction of an executor that lost its *)
(* claim, and no claim, brings it back or changes how it ended.             *)
SettledIsFinal ==
  [][\A j \in Jobs : status[j] \in Terminal =>
       status'[j] = status[j] /\ stamp'[j] = stamp[j] /\ attempts'[j] = attempts[j]]_vars

(* The queue implements FencedWork: writes happen under the current grant   *)
(* only, in the order of the grants, and settled jobs stay settled.         *)
PhaseOf(st) == IF st = "running" THEN "granted"
               ELSE IF st \in Waiting THEN "waiting"
               ELSE IF st \in Terminal THEN "settled"
               ELSE st

Fenced == INSTANCE FencedWork WITH
            phase  <- [j \in Jobs |-> PhaseOf(status[j])],
            issued <- token,
            mark   <- stamp

ImplementsFencedWork == Fenced!Spec

(* Every job that was enqueued settles, whatever crashes, lost renewals and *)
(* failed transactions its executors meet: the attempts are finite and a    *)
(* row whose last attempt was abandoned is swept ("Jobs have bounded        *)
(* attempts, ... and terminal failure state", database-eventing.md:20-21).  *)
EveryJobSettles ==
  \A j \in Jobs : status[j] # "absent" ~> status[j] \in Terminal

(* A job that does not put itself off settles, also beside jobs that do and *)
(* that may be claimed before it.                                           *)
SteadyJobsSettle ==
  \A j \in Jobs \ AudioJobs : status[j] # "absent" ~> status[j] \in Terminal
=============================================================================
