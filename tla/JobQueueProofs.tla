--------------------------- MODULE JobQueueProofs ---------------------------
(****************************************************************************)
(* Proofs about JobQueue for any jobs, executors, workers, attempts,        *)
(* priorities and leases.  IInv is the inductive invariant: FencedTransac-  *)
(* tion is not inductive alone, because a reclaim by a second call of the   *)
(* same worker is told apart only by its token, so the proof also tracks    *)
(* that tokens handed out are at most the row's, and never twice the same.  *)
(****************************************************************************)
EXTENDS JobQueue, TLAPS

\* A claim in memory was issued by its row.
ClaimIssued ==
  \A e \in Executors : held[e] # NoJob => /\ claim[e] \in Nat
                                          /\ claim[e] <= token[held[e]]

\* A verdict keeps the licence it was given: no other transaction of the row
\* can spend a poll between the decision and the commit.
VerdictLicensed ==
  \A e \in Executors : /\ tx[e] = "poll"  => polls[held[e]] < MaxPolls
                       /\ tx[e] = "defer" => held[e] \in AudioJobs

\* A row that was never claimed has all its attempts; a running one spent one.
AttemptsCounted ==
  \A j \in Jobs : /\ status[j] = "absent"  => attempts[j] = 0 /\ limit[j] > 0
                  /\ status[j] = "running" => attempts[j] > 0

IInv == /\ TypeOK
        /\ ClaimIssued
        /\ ClaimsAreUnique
        /\ FencedTransaction
        /\ VerdictLicensed
        /\ AttemptsCounted
        /\ DeadWhenSpent

LEMMA InitIInv == Init => IInv
  BY JobQueueAssumption
  DEF Init, IInv, TypeOK, ClaimIssued, ClaimsAreUnique, FencedTransaction,
      VerdictLicensed, AttemptsCounted, DeadWhenSpent, Statuses, Waiting, Terminal

-----------------------------------------------------------------------------
(* Steps that leave the executors alone.                                    *)

LEMMA EnqueueIInv == ASSUME IInv, NEW j \in Jobs, Enqueue(j) PROVE IInv'
  <1>1. TypeOK'
    BY JobQueueAssumption DEF IInv, TypeOK, Enqueue, exec, Statuses, Waiting
  <1>2. ClaimIssued' /\ ClaimsAreUnique' /\ VerdictLicensed'
    BY DEF IInv, TypeOK, Enqueue, exec, ClaimIssued, ClaimsAreUnique, VerdictLicensed
  <1>3. FencedTransaction'
    BY DEF IInv, TypeOK, Enqueue, exec, FencedTransaction
  <1>4. AttemptsCounted' /\ DeadWhenSpent'
    BY DEF IInv, TypeOK, Enqueue, exec, AttemptsCounted, DeadWhenSpent
  <1> QED BY <1>1, <1>2, <1>3, <1>4 DEF IInv

LEMMA SweepIInv == ASSUME IInv, NEW e \in Executors, SweepExhausted(e) PROVE IInv'
  <1>1. TypeOK'
    BY JobQueueAssumption
    DEF IInv, TypeOK, SweepExhausted, exec, Statuses, Terminal
  <1>2. ClaimIssued' /\ ClaimsAreUnique' /\ VerdictLicensed'
    BY DEF IInv, TypeOK, SweepExhausted, exec, ClaimIssued, ClaimsAreUnique, VerdictLicensed
  <1>3. FencedTransaction'
    BY DEF IInv, TypeOK, SweepExhausted, exec, FencedTransaction, Exhausted, Locked
  <1>4. AttemptsCounted' /\ DeadWhenSpent'
    BY DEF IInv, TypeOK, SweepExhausted, exec, AttemptsCounted, DeadWhenSpent, Exhausted
  <1> QED BY <1>1, <1>2, <1>3, <1>4 DEF IInv

LEMMA TickIInv == ASSUME IInv, Tick PROVE IInv'
  <1>1. TypeOK'
    <2>1. lease' \in [Jobs -> -1..Lease]
      BY JobQueueAssumption DEF IInv, TypeOK, Tick, Less
    <2>2. due' \in [Jobs -> 0..Backoff]
      BY JobQueueAssumption DEF IInv, TypeOK, Tick, Less
    <2> QED BY <2>1, <2>2 DEF IInv, TypeOK, Tick, exec
  <1>2. ClaimIssued' /\ ClaimsAreUnique' /\ VerdictLicensed'
    BY DEF IInv, Tick, exec, ClaimIssued, ClaimsAreUnique, VerdictLicensed
  <1>3. FencedTransaction' /\ AttemptsCounted' /\ DeadWhenSpent'
    BY DEF IInv, Tick, exec, FencedTransaction, AttemptsCounted, DeadWhenSpent
  <1> QED BY <1>1, <1>2, <1>3 DEF IInv

-----------------------------------------------------------------------------
(* A claim: the new token is above every one handed out for the row before. *)

LEMMA ClaimIInv ==
  ASSUME IInv, NEW e \in Executors, NEW j \in Jobs, ClaimJob(e, j) PROVE IInv'
  <1> USE JobQueueAssumption
  <1>1. /\ attempts[j] < limit[j] /\ ~Locked(j) /\ status[j] \in Waiting \cup {"running"}
        /\ held[e] = NoJob /\ tx[e] = "none"
    BY DEF ClaimJob, Foremost, Claimable, IInv, FencedTransaction
  <1>2. TypeOK'
    <2>1. status' \in [Jobs -> Statuses]
      BY DEF IInv, TypeOK, ClaimJob, Statuses, Terminal
    <2>2. owner' \in [Jobs -> Workers \cup {NoWorker}]
      BY DEF IInv, TypeOK, ClaimJob
    <2>3. Lease \in -1..Lease /\ 0 \in -1..Lease
      OBVIOUS
    <2>4. lease' \in [Jobs -> -1..Lease]
      BY <2>3, Zenon DEF IInv, TypeOK, ClaimJob
    <2>5. /\ attempts' \in [Jobs -> Nat] /\ token' \in [Jobs -> Nat]
          /\ claim' \in [Executors -> Nat]
      BY DEF IInv, TypeOK, ClaimJob, FreshToken
    <2>6. /\ held' \in [Executors -> Jobs \cup {NoJob}]
          /\ lost' \in [Executors -> BOOLEAN] /\ erred' \in [Executors -> BOOLEAN]
      BY DEF IInv, TypeOK, ClaimJob
    <2> QED BY <2>1, <2>2, <2>4, <2>5, <2>6 DEF IInv, TypeOK, ClaimJob
  <1>3. ClaimIssued' /\ ClaimsAreUnique'
    BY <1>1 DEF IInv, TypeOK, ClaimJob, FreshToken, ClaimIssued, ClaimsAreUnique
  <1>4. VerdictLicensed'
    BY <1>1 DEF IInv, TypeOK, ClaimJob, VerdictLicensed
  <1>5. FencedTransaction'
    BY <1>1 DEF IInv, TypeOK, ClaimJob, FencedTransaction, Exhausted, Locked
  <1>6. AttemptsCounted'
    BY <1>1 DEF IInv, TypeOK, ClaimJob, AttemptsCounted
  <1>7. DeadWhenSpent'
    <2> SUFFICES ASSUME NEW k \in Jobs
                 PROVE /\ attempts'[k] <= limit'[k]
                       /\ status'[k] = "dead" => attempts'[k] = limit'[k]
      BY DEF DeadWhenSpent
    <2>1. CASE k = j
      BY <1>1, <2>1 DEF IInv, TypeOK, ClaimJob
    <2>2. CASE k # j
      <3>1. attempts'[k] = attempts[k] /\ limit'[k] = limit[k]
        BY <2>2 DEF IInv, TypeOK, ClaimJob
      <3>2. k \notin Exhausted => status'[k] = status[k]
        BY <2>2 DEF ClaimJob
      <3> QED BY <3>1, <3>2 DEF IInv, TypeOK, DeadWhenSpent, Exhausted
    <2> QED BY <2>1, <2>2
  <1> QED BY <1>2, <1>3, <1>4, <1>5, <1>6, <1>7 DEF IInv

-----------------------------------------------------------------------------
(* Renewals change a lease or a flag.                                       *)

LEMMA RenewIInv == ASSUME IInv, NEW e \in Executors, Renew(e) PROVE IInv'
  <1>1. TypeOK'
    <2>1. lease' \in [Jobs -> -1..Lease] /\ lost' \in [Executors -> BOOLEAN]
      <3>1. CASE Owns(e, held[e])
        BY <3>1, JobQueueAssumption DEF IInv, TypeOK, Renew
      <3>2. CASE ~Owns(e, held[e])
        BY <3>2 DEF IInv, TypeOK, Renew
      <3> QED BY <3>1, <3>2
    <2> QED BY <2>1 DEF IInv, TypeOK, Renew
  <1>2. ClaimIssued' /\ ClaimsAreUnique' /\ VerdictLicensed' /\ FencedTransaction'
    BY DEF IInv, Renew, ClaimIssued, ClaimsAreUnique, VerdictLicensed, FencedTransaction
  <1>3. AttemptsCounted' /\ DeadWhenSpent'
    BY DEF IInv, Renew, AttemptsCounted, DeadWhenSpent
  <1> QED BY <1>1, <1>2, <1>3 DEF IInv

LEMMA RenewalFailsIInv == ASSUME IInv, NEW e \in Executors, RenewalFails(e) PROVE IInv'
  <1>1. TypeOK'
    BY DEF IInv, TypeOK, RenewalFails, row
  <1>2. ClaimIssued' /\ ClaimsAreUnique' /\ VerdictLicensed' /\ FencedTransaction'
    BY DEF IInv, RenewalFails, row, ClaimIssued, ClaimsAreUnique, VerdictLicensed,
           FencedTransaction
  <1>3. AttemptsCounted' /\ DeadWhenSpent'
    BY DEF IInv, RenewalFails, row, AttemptsCounted, DeadWhenSpent
  <1> QED BY <1>1, <1>2, <1>3 DEF IInv

-----------------------------------------------------------------------------
(* The fenced transaction up to its commit.                                 *)

LEMMA BeginTxIInv == ASSUME IInv, NEW e \in Executors, BeginTx(e) PROVE IInv'
  <1>1. TypeOK'
    BY DEF IInv, TypeOK, BeginTx, row
  <1>2. ClaimIssued' /\ ClaimsAreUnique' /\ VerdictLicensed'
    BY DEF IInv, TypeOK, BeginTx, row, ClaimIssued, ClaimsAreUnique, VerdictLicensed
  <1>3. FencedTransaction'
    BY DEF IInv, TypeOK, BeginTx, row, FencedTransaction, Owns
  <1>4. AttemptsCounted' /\ DeadWhenSpent'
    BY DEF IInv, BeginTx, row, AttemptsCounted, DeadWhenSpent
  <1> QED BY <1>1, <1>2, <1>3, <1>4 DEF IInv

LEMMA ValidateIInv ==
  ASSUME IInv, NEW e \in Executors, NEW v \in Verdicts, Validate(e, v) PROVE IInv'
  <1>1. TypeOK'
    BY DEF IInv, TypeOK, Validate, row
  <1>2. ClaimIssued' /\ ClaimsAreUnique'
    BY DEF IInv, TypeOK, Validate, row, ClaimIssued, ClaimsAreUnique
  <1>3. VerdictLicensed'
    BY DEF IInv, TypeOK, Validate, row, VerdictLicensed, MayDecide
  <1>4. FencedTransaction'
    BY DEF IInv, TypeOK, Validate, row, FencedTransaction
  <1>5. AttemptsCounted' /\ DeadWhenSpent'
    BY DEF IInv, Validate, row, AttemptsCounted, DeadWhenSpent
  <1> QED BY <1>1, <1>2, <1>3, <1>4, <1>5 DEF IInv

LEMMA RejectIInv == ASSUME IInv, NEW e \in Executors, Reject(e) PROVE IInv'
  <1>1. TypeOK'
    BY DEF IInv, TypeOK, Reject, row
  <1>2. ClaimIssued' /\ ClaimsAreUnique' /\ VerdictLicensed' /\ FencedTransaction'
    BY DEF IInv, TypeOK, Reject, row, ClaimIssued, ClaimsAreUnique, VerdictLicensed,
           FencedTransaction
  <1>3. AttemptsCounted' /\ DeadWhenSpent'
    BY DEF IInv, Reject, row, AttemptsCounted, DeadWhenSpent
  <1> QED BY <1>1, <1>2, <1>3 DEF IInv

-----------------------------------------------------------------------------
(* Calls that end.  The executors' part of the invariant survives any Drop  *)
(* and any Throw, whatever the row looks like by then.                      *)

\* The executors' variables are well typed.
ExecTypeOK ==
  /\ held  \in [Executors -> Jobs \cup {NoJob}]
  /\ claim \in [Executors -> Nat]
  /\ lost  \in [Executors -> BOOLEAN]
  /\ erred \in [Executors -> BOOLEAN]
  /\ tx    \in [Executors -> {"none", "open"} \cup Verdicts]

\* What the calls outside E keep, and those in E forget, when E drops out.
Forgotten(E) ==
  \A f \in Executors :
    /\ f \notin E => held'[f] = held[f] /\ claim'[f] = claim[f] /\ tx'[f] = tx[f]
    /\ f \in E => \/ held'[f] = NoJob /\ tx'[f] = "none"
                  \/ held'[f] = held[f] /\ claim'[f] = claim[f] /\ tx'[f] = "none"

LEMMA DropForgets ==
  ASSUME ExecTypeOK, NEW E, Drop(E) PROVE ExecTypeOK' /\ Forgotten(E)
  BY DEF ExecTypeOK, Drop, Forgotten

LEMMA ThrowForgets ==
  ASSUME ExecTypeOK, NEW e \in Executors, Throw(e) PROVE ExecTypeOK' /\ Forgotten({e})
  <1>1. CASE erred[e]
    BY <1>1, DropForgets DEF Throw
  <1>2. CASE ~erred[e]
    BY <1>2 DEF ExecTypeOK, Throw, Forgotten
  <1> QED BY <1>1, <1>2

LEMMA QuitIInv ==
  ASSUME IInv, ExecTypeOK', NEW E, Forgotten(E), UNCHANGED row PROVE IInv'
  <1>1. TypeOK'
    BY DEF IInv, TypeOK, ExecTypeOK, row
  <1>2. ClaimIssued' /\ ClaimsAreUnique'
    BY DEF IInv, TypeOK, row, Forgotten, ClaimIssued, ClaimsAreUnique
  <1>3. VerdictLicensed' /\ FencedTransaction'
    BY DEF IInv, row, Forgotten, VerdictLicensed, FencedTransaction
  <1>4. AttemptsCounted' /\ DeadWhenSpent'
    BY DEF IInv, row, AttemptsCounted, DeadWhenSpent
  <1> QED BY <1>1, <1>2, <1>3, <1>4 DEF IInv

LEMMA ErrIInv == ASSUME IInv, NEW e \in Executors, Err(e) PROVE IInv'
  <1>1. ExecTypeOK
    BY DEF IInv, TypeOK, ExecTypeOK
  <1> QED BY <1>1, ThrowForgets, QuitIInv DEF Err

LEMMA LeaveIInv == ASSUME IInv, NEW e \in Executors, Leave(e) PROVE IInv'
  <1>1. ExecTypeOK
    BY DEF IInv, TypeOK, ExecTypeOK
  <1> QED BY <1>1, DropForgets, QuitIInv DEF Leave

LEMMA CrashIInv == ASSUME IInv, NEW w \in Workers, Crash(w) PROVE IInv'
  <1>1. ExecTypeOK
    BY DEF IInv, TypeOK, ExecTypeOK
  <1> QED BY <1>1, DropForgets, QuitIInv DEF Crash

-----------------------------------------------------------------------------
(* The commit.  Only e can have a transaction open on the row, so changing  *)
(* the row's status, owner and polls disturbs no other transaction.         *)

LEMMA CommitForgets ==
  ASSUME IInv, NEW e \in Executors, Commit(e) PROVE ExecTypeOK' /\ Forgotten({e})
  <1>1. ExecTypeOK
    BY DEF IInv, TypeOK, ExecTypeOK
  <1>2. CASE Throw(e)
    BY <1>1, <1>2, ThrowForgets
  <1>3. CASE Drop({e})
    BY <1>1, <1>3, DropForgets
  <1>4. CASE tx' = [tx EXCEPT ![e] = "none"] /\ UNCHANGED <<held, claim, lost, erred>>
    BY <1>1, <1>4 DEF ExecTypeOK, Forgotten
  <1> QED BY <1>2, <1>3, <1>4 DEF Commit

LEMMA CommitIInv == ASSUME IInv, NEW e \in Executors, Commit(e) PROVE IInv'
  <1> DEFINE j == held[e]
             v == tx[e]
  <1> USE JobQueueAssumption
  <1>1. ExecTypeOK' /\ Forgotten({e})
    BY CommitForgets
  <1>2. /\ v \in Verdicts /\ v # "none" /\ Settle(e, j, v)
    BY DEF Commit, Verdicts
  <1>3. /\ j \in Jobs /\ status[j] = "running" /\ token[j] = claim[e]
        /\ owner[j] = WorkerOf[e] /\ attempts[j] > 0
    BY <1>2 DEF IInv, TypeOK, FencedTransaction, AttemptsCounted
  <1>4. \A f \in Executors : tx[f] # "none" /\ held[f] = j => f = e
    BY <1>2, <1>3 DEF IInv, FencedTransaction, ClaimsAreUnique
  <1>5. StatusAfter(j, v) \in Statuses \ {"absent"}
    BY <1>2, <1>3 DEF StatusAfter, Statuses, Terminal, Waiting, Verdicts
  <1>6. TypeOK'
    <2>1. status' \in [Jobs -> Statuses] /\ owner' \in [Jobs -> Workers \cup {NoWorker}]
      BY <1>2, <1>3, <1>5 DEF IInv, TypeOK, Settle
    <2>2. lease' \in [Jobs -> -1..Lease] /\ due' \in [Jobs -> 0..Backoff]
      BY <1>2, <1>3 DEF IInv, TypeOK, Settle
    <2>3. attempts' \in [Jobs -> Nat] /\ limit' \in [Jobs -> Nat]
      BY <1>2, <1>3 DEF IInv, TypeOK, Settle
    <2>4. polls' \in [Jobs -> 0..MaxPolls]
      BY <1>2, <1>3 DEF IInv, TypeOK, Settle, VerdictLicensed
    <2>5. stamp' \in [Jobs -> Nat] /\ token' \in [Jobs -> Nat]
      BY <1>2, <1>3 DEF IInv, TypeOK, Settle
    <2> QED BY <1>1, <2>1, <2>2, <2>3, <2>4, <2>5 DEF TypeOK, ExecTypeOK
  <1>7. ClaimIssued' /\ ClaimsAreUnique'
    <2>1. token' = token
      BY <1>2 DEF Settle
    <2>2. \A f \in Executors : held'[f] = NoJob \/ (held'[f] = held[f] /\ claim'[f] = claim[f])
      BY <1>1 DEF Forgotten
    <2>. QED  BY <2>1, <2>2 DEF IInv, ClaimIssued, ClaimsAreUnique
  <1>8. VerdictLicensed'
    BY <1>1, <1>2, <1>3, <1>4 DEF IInv, TypeOK, Forgotten, Settle, VerdictLicensed
  <1>9. FencedTransaction'
    BY <1>1, <1>2, <1>3, <1>4 DEF IInv, TypeOK, Forgotten, Settle, FencedTransaction
  <1>10. AttemptsCounted'
    BY <1>2, <1>3, <1>5 DEF IInv, TypeOK, Settle, StatusAfter, AttemptsCounted, Verdicts
  <1>11. DeadWhenSpent'
    BY <1>2, <1>3 DEF IInv, TypeOK, Settle, StatusAfter, DeadWhenSpent, Verdicts
  <1> QED BY <1>6, <1>7, <1>8, <1>9, <1>10, <1>11 DEF IInv

-----------------------------------------------------------------------------
(* Every step preserves the invariant, so it always holds.                  *)

LEMMA NextIInv == IInv /\ [Next]_vars => IInv'
  <1> SUFFICES ASSUME IInv, [Next]_vars PROVE IInv'
    OBVIOUS
  <1>1. ASSUME NEW j \in Jobs, Enqueue(j) PROVE IInv'
    BY <1>1, EnqueueIInv
  <1>2. ASSUME NEW e \in Executors, NEW j \in Jobs, ClaimJob(e, j) PROVE IInv'
    BY <1>2, ClaimIInv
  <1>3. ASSUME NEW e \in Executors, SweepExhausted(e) PROVE IInv'
    BY <1>3, SweepIInv
  <1>4. ASSUME NEW e \in Executors, Renew(e) \/ RenewalFails(e) PROVE IInv'
    BY <1>4, RenewIInv, RenewalFailsIInv
  <1>5. ASSUME NEW e \in Executors, BeginTx(e) \/ Reject(e) PROVE IInv'
    BY <1>5, BeginTxIInv, RejectIInv
  <1>6. ASSUME NEW e \in Executors, NEW v \in Verdicts, Validate(e, v) PROVE IInv'
    BY <1>6, ValidateIInv
  <1>7. ASSUME NEW e \in Executors, Commit(e) \/ Err(e) \/ Leave(e) PROVE IInv'
    BY <1>7, CommitIInv, ErrIInv, LeaveIInv
  <1>8. ASSUME NEW w \in Workers, Crash(w) PROVE IInv'
    BY <1>8, CrashIInv
  <1>9. CASE Tick
    BY <1>9, TickIInv
  <1>10. CASE UNCHANGED vars
    BY <1>10 DEF vars, IInv, TypeOK, ClaimIssued, ClaimsAreUnique, FencedTransaction,
                 VerdictLicensed, AttemptsCounted, DeadWhenSpent
  <1> QED
    BY <1>1, <1>2, <1>3, <1>4, <1>5, <1>6, <1>7, <1>8, <1>9, <1>10 DEF Next

THEOREM Invariance == Spec => []IInv
  <1> QED BY InitIInv, NextIInv, PTL DEF Spec

(* The variables of the queue keep their types.                             *)
THEOREM TypeCorrect == Spec => []TypeOK
  <1>1. IInv => TypeOK
    BY DEF IInv
  <1> QED BY <1>1, Invariance, PTL

(* An open transaction of withOwnedJobTransaction always works on a row     *)
(* that still runs under its own claim, for any number of executors and     *)
(* workers, any lease and any interleaving of renewals, crashes and ticks.  *)
THEOREM Fencing == Spec => []FencedTransaction
  <1>1. IInv => FencedTransaction
    BY DEF IInv
  <1> QED BY <1>1, Invariance, PTL

(* No two calls ever hold the same claim.                                   *)
THEOREM UniqueClaims == Spec => []ClaimsAreUnique
  <1>1. IInv => ClaimsAreUnique
    BY DEF IInv
  <1> QED BY <1>1, Invariance, PTL

(* A dead job has spent its attempts, and ck_job_attempts always holds.     *)
THEOREM DeadOnlyWhenSpent == Spec => []DeadWhenSpent
  <1>1. IInv => DeadWhenSpent
    BY DEF IInv
  <1> QED BY <1>1, Invariance, PTL

-----------------------------------------------------------------------------
(* What a step does to the rows, in the words of the abstract specification *)
(* FencedWork: only a claim adds a token, only a commit under the current   *)
(* token leaves a mark, only enqueueing, sweeping and committing end a      *)
(* phase.  Everything about rows below follows from this one lemma.         *)

RowSame(j) == /\ status'[j] = status[j] /\ token'[j] = token[j]
              /\ stamp'[j] = stamp[j] /\ attempts'[j] = attempts[j]
              /\ limit'[j] = limit[j]

RowSubmitted(j) == /\ status[j] = "absent" /\ status'[j] = "queued"
                   /\ token'[j] = token[j] /\ stamp'[j] = stamp[j]
                   /\ attempts'[j] = attempts[j] /\ limit'[j] = limit[j]

RowGranted(j) == /\ status[j] \in Waiting \cup {"running"} /\ status'[j] = "running"
                 /\ token'[j] = token[j] + 1 /\ stamp'[j] = stamp[j]

RowSwept(j) == /\ status[j] = "running" /\ status'[j] = "dead"
               /\ token'[j] = token[j] /\ stamp'[j] = stamp[j]

RowWritten(j) == /\ status[j] = "running" /\ token'[j] = token[j]
                 /\ stamp'[j] = token[j]
                 /\ \/ status'[j] \in Terminal \cup {"running"}
                    \/ /\ status'[j] \in Waiting
                       /\ attempts'[j] < limit'[j] \/ j \in AudioJobs

RowStep(j) == \/ RowSame(j) \/ RowSubmitted(j) \/ RowGranted(j)
              \/ RowSwept(j) \/ RowWritten(j)

LEMMA ClaimRowStep ==
  ASSUME IInv, NEW e \in Executors, NEW k \in Jobs, ClaimJob(e, k), NEW j \in Jobs
  PROVE  RowStep(j)
  <1>1. CASE j = k
    BY <1>1
    DEF IInv, TypeOK, ClaimJob, FreshToken, Foremost, Claimable, RowStep, RowGranted
  <1>2. CASE j # k
    <2>1. /\ attempts'[j] = attempts[j] /\ limit'[j] = limit[j]
          /\ token'[j] = token[j] /\ stamp'[j] = stamp[j]
      BY <1>2 DEF IInv, TypeOK, ClaimJob
    <2>2. status'[j] = IF j \in Exhausted THEN "dead" ELSE status[j]
      BY <1>2 DEF ClaimJob
    <2> QED BY <2>1, <2>2 DEF Exhausted, RowStep, RowSame, RowSwept
  <1> QED BY <1>1, <1>2

LEMMA CommitRowStep ==
  ASSUME IInv, NEW e \in Executors, Commit(e), NEW j \in Jobs
  PROVE  RowStep(j)
  <1> DEFINE h == held[e]
             v == tx[e]
  <1>1. v \in Verdicts /\ v # "none" /\ Settle(e, h, v)
    BY DEF Commit, Verdicts
  <1>2. /\ h \in Jobs /\ status[h] = "running" /\ token[h] = claim[e]
        /\ attempts[h] > 0 /\ attempts[h] <= limit[h]
        /\ v = "defer" => h \in AudioJobs
    BY <1>1 DEF IInv, TypeOK, FencedTransaction, AttemptsCounted, DeadWhenSpent,
                VerdictLicensed
  <1>3. CASE j = h
    <2>1. status'[h] = StatusAfter(h, v) /\ token'[h] = token[h] /\ stamp'[h] = token[h]
      BY <1>1, <1>2 DEF IInv, TypeOK, Settle
    <2>2. /\ attempts'[h] = IF v = "poll" THEN attempts[h] - 1 ELSE attempts[h]
          /\ limit'[h] = IF v = "quarantine" THEN attempts[h] ELSE limit[h]
      BY <1>1, <1>2 DEF IInv, TypeOK, Settle
    <2>3. CASE v \in {"keep", "succeed", "cancel", "quarantine", "defer"}
      BY <1>2, <1>3, <2>1, <2>3 DEF StatusAfter, Terminal, Waiting, RowStep, RowWritten
    <2>4. CASE v = "poll"
      BY <1>2, <1>3, <2>1, <2>2, <2>4
      DEF IInv, TypeOK, StatusAfter, Terminal, Waiting, RowStep, RowWritten
    <2>5. CASE v = "fail"
      BY <1>2, <1>3, <2>1, <2>2, <2>5
      DEF IInv, TypeOK, StatusAfter, Terminal, Waiting, RowStep, RowWritten
    <2> QED BY <1>1, <2>3, <2>4, <2>5 DEF Verdicts
  <1>4. CASE j # h
    BY <1>1, <1>4 DEF IInv, TypeOK, Settle, RowStep, RowSame
  <1> QED BY <1>3, <1>4

LEMMA RowSteps ==
  ASSUME IInv, [Next]_vars, NEW j \in Jobs
  PROVE  RowStep(j)
  <1>1. ASSUME NEW k \in Jobs, Enqueue(k) PROVE RowStep(j)
    BY <1>1 DEF IInv, TypeOK, Enqueue, RowStep, RowSame, RowSubmitted
  <1>2. ASSUME NEW e \in Executors, NEW k \in Jobs, ClaimJob(e, k) PROVE RowStep(j)
    BY <1>2, ClaimRowStep
  <1>3. ASSUME NEW e \in Executors, SweepExhausted(e) PROVE RowStep(j)
    BY <1>3 DEF IInv, TypeOK, SweepExhausted, Exhausted, RowStep, RowSame, RowSwept
  <1>4. ASSUME NEW e \in Executors, Commit(e) PROVE RowStep(j)
    BY <1>4, CommitRowStep
  <1>5. ASSUME UNCHANGED <<status, attempts, limit, token, stamp>> PROVE RowStep(j)
    BY <1>5 DEF RowStep, RowSame
  <1> QED
    BY <1>1, <1>2, <1>3, <1>4, <1>5
    DEF Next, vars, row, Renew, RenewalFails, BeginTx, Validate, Reject, Err, Leave,
        Crash, Tick

-----------------------------------------------------------------------------
(* A settled row never changes again: neither a claim nor the transaction   *)
(* of a call that lost its lease touches it.                                *)
THEOREM SettledStaysSettled == Spec => SettledIsFinal
  <1>1. ASSUME IInv, [Next]_vars, NEW j \in Jobs, status[j] \in Terminal
        PROVE  status'[j] = status[j] /\ stamp'[j] = stamp[j] /\ attempts'[j] = attempts[j]
    <2>1. RowStep(j)
      BY <1>1, RowSteps
    <2> QED BY <1>1, <2>1 DEF RowStep, RowSame, RowSubmitted, RowGranted, RowSwept,
                              RowWritten, Terminal, Waiting
  <1>2. IInv /\ [Next]_vars => [\A j \in Jobs : status[j] \in Terminal =>
          status'[j] = status[j] /\ stamp'[j] = stamp[j] /\ attempts'[j] = attempts[j]]_vars
    BY <1>1
  <1> QED BY <1>2, Invariance, PTL DEF Spec, SettledIsFinal

(* Where no job reschedules itself, a waiting job always has an attempt     *)
(* left, so it can be claimed.  Audio transcription breaks the premise.     *)
THEOREM NoStranding == ASSUME AudioJobs = {} PROVE Spec => []NoStrandedJob
  <1>1. Init => NoStrandedJob
    BY DEF Init, NoStrandedJob, Waiting
  <1>2. IInv /\ NoStrandedJob /\ [Next]_vars => NoStrandedJob'
    <2> SUFFICES ASSUME IInv, NoStrandedJob, [Next]_vars, NEW j \in Jobs,
                        status'[j] \in Waiting
                 PROVE  attempts'[j] < limit'[j]
      BY DEF NoStrandedJob
    <2>1. RowStep(j)
      BY RowSteps
    <2> QED BY <2>1 DEF IInv, NoStrandedJob, AttemptsCounted, RowStep, RowSame,
                       RowSubmitted, RowGranted, RowSwept, RowWritten, Terminal, Waiting
  <1> QED BY <1>1, <1>2, Invariance, PTL DEF Spec

(* The queue implements FencedWork: at every step each row is submitted,    *)
(* granted anew, written under its current grant, expired, or left alone.   *)
THEOREM Refinement == Spec => ImplementsFencedWork
  <1>1. Init => Fenced!Init
    BY DEF Init, Fenced!Init, PhaseOf, Waiting, Terminal
  <1>2. IInv /\ [Next]_vars => [Fenced!Next]_Fenced!fvars
    <2> SUFFICES ASSUME IInv, [Next]_vars PROVE Fenced!Next
      OBVIOUS
    <2>1. ASSUME NEW j \in Jobs PROVE Fenced!Step(j)
      <3>1. RowStep(j)
        BY RowSteps
      <3>2. /\ PhaseOf("absent") = "absent" /\ PhaseOf("running") = "granted"
            /\ \A st \in Waiting : PhaseOf(st) = "waiting"
            /\ \A st \in Terminal : PhaseOf(st) = "settled"
        BY DEF PhaseOf, Waiting, Terminal
      <3>3. CASE RowSame(j)
        BY <3>3 DEF RowSame, Fenced!Step, Fenced!Same
      <3>4. CASE RowSubmitted(j)
        BY <3>2, <3>4 DEF RowSubmitted, Waiting, Fenced!Step, Fenced!Submit
      <3>5. CASE RowGranted(j)
        BY <3>2, <3>5 DEF RowGranted, Fenced!Step, Fenced!Grant
      <3>6. CASE RowSwept(j)
        BY <3>2, <3>6 DEF RowSwept, Terminal, Fenced!Step, Fenced!Expire
      <3>7. CASE RowWritten(j)
        BY <3>2, <3>7 DEF RowWritten, Fenced!Step, Fenced!Write
      <3> QED BY <3>1, <3>3, <3>4, <3>5, <3>6, <3>7 DEF RowStep
    <2>2. DOMAIN token' = Jobs /\ DOMAIN stamp' = Jobs
      BY NextIInv DEF IInv, TypeOK
    <2> QED BY <2>1, <2>2 DEF Fenced!Next
  <1> QED BY <1>1, <1>2, Invariance, PTL DEF Spec, ImplementsFencedWork, Fenced!Spec
-----------------------------------------------------------------------------
(* How often a job can be claimed.  Every claim takes one attempt and only  *)
(* a poll gives one back, so the attempts and the polls of a row add up to  *)
(* its claims; neither can exceed its limit.                                *)

ClaimsCounted ==
  \A j \in Jobs : token[j] = attempts[j] + polls[j] /\ limit[j] <= MaxAttempts[j]

\* No row is leased more often than its attempts and its polls allow.
ClaimsAreBounded == \A j \in Jobs : token[j] <= MaxAttempts[j] + MaxPolls

LEMMA ClaimCounts ==
  ASSUME IInv, ClaimsCounted, NEW e \in Executors, NEW j \in Jobs, ClaimJob(e, j)
  PROVE  ClaimsCounted'
  <1> SUFFICES ASSUME NEW k \in Jobs
               PROVE  token'[k] = attempts'[k] + polls'[k] /\ limit'[k] <= MaxAttempts[k]
    BY DEF ClaimsCounted
  <1>1. token'[k] = IF k = j THEN token[k] + 1 ELSE token[k]
    BY DEF IInv, TypeOK, ClaimJob, FreshToken
  <1>2. attempts'[k] = IF k = j THEN attempts[k] + 1 ELSE attempts[k]
    BY DEF IInv, TypeOK, ClaimJob
  <1>3. polls'[k] = polls[k] /\ limit'[k] = limit[k]
    BY DEF ClaimJob
  <1> QED
    BY <1>1, <1>2, <1>3, JobQueueAssumption DEF IInv, TypeOK, ClaimsCounted

LEMMA CommitCounts ==
  ASSUME IInv, ClaimsCounted, NEW e \in Executors, Commit(e)
  PROVE  ClaimsCounted'
  <1> DEFINE h == held[e]
             v == tx[e]
  <1> SUFFICES ASSUME NEW k \in Jobs
               PROVE  token'[k] = attempts'[k] + polls'[k] /\ limit'[k] <= MaxAttempts[k]
    BY DEF ClaimsCounted
  <1>1. v # "none" /\ Settle(e, h, v)
    BY DEF Commit, Verdicts
  <1>2. /\ h \in Jobs /\ attempts[h] > 0 /\ attempts[h] <= limit[h]
        /\ status[h] = "running"
    BY <1>1 DEF IInv, TypeOK, FencedTransaction, AttemptsCounted, DeadWhenSpent
  <1>3. token'[k] = token[k]
    BY <1>1 DEF Settle
  <1>4. attempts'[k] = IF k = h /\ v = "poll" THEN attempts[k] - 1 ELSE attempts[k]
    BY <1>1, <1>2 DEF IInv, TypeOK, Settle
  <1>5. polls'[k] = IF k = h /\ v = "poll" THEN polls[k] + 1 ELSE polls[k]
    BY <1>1, <1>2 DEF IInv, TypeOK, Settle
  <1>6. limit'[k] <= limit[k]
    BY <1>1, <1>2 DEF IInv, TypeOK, Settle
  <1>7. limit'[k] \in Nat
    BY <1>1, <1>2 DEF IInv, TypeOK, Settle
  <1> QED
    BY <1>3, <1>4, <1>5, <1>6, <1>7, JobQueueAssumption DEF IInv, TypeOK, ClaimsCounted

LEMMA NextCounts == IInv /\ ClaimsCounted /\ [Next]_vars => ClaimsCounted'
  <1> SUFFICES ASSUME IInv, ClaimsCounted, [Next]_vars PROVE ClaimsCounted'
    OBVIOUS
  <1>1. ASSUME NEW e \in Executors, NEW j \in Jobs, ClaimJob(e, j) PROVE ClaimsCounted'
    BY <1>1, ClaimCounts
  <1>2. ASSUME NEW e \in Executors, Commit(e) PROVE ClaimsCounted'
    BY <1>2, CommitCounts
  <1>3. ASSUME UNCHANGED <<token, attempts, polls, limit>> PROVE ClaimsCounted'
    BY <1>3 DEF ClaimsCounted
  <1> QED
    BY <1>1, <1>2, <1>3
    DEF Next, vars, row, Enqueue, SweepExhausted, Renew, RenewalFails, BeginTx,
        Validate, Reject, Err, Leave, Crash, Tick

(* Whatever crashes, lapses and retries a job goes through, it is claimed   *)
(* at most max_attempts times plus once per poll: the finiteness on which   *)
(* its eventual settling rests (claim_jobs_all_tenants counts an attempt    *)
(* with every lease, and of these jobs' steps only the poll of a flow run   *)
(* gives one back, database.ts:3603).                                       *)
THEOREM FinitelyManyClaims == Spec => []ClaimsAreBounded
  <1>1. Init => ClaimsCounted
    BY JobQueueAssumption DEF Init, ClaimsCounted
  <1>2. IInv /\ ClaimsCounted => ClaimsAreBounded
    BY JobQueueAssumption
    DEF IInv, TypeOK, DeadWhenSpent, ClaimsCounted, ClaimsAreBounded
  <1> QED BY <1>1, <1>2, NextCounts, Invariance, PTL DEF Spec

-----------------------------------------------------------------------------
(* The order of the writes.                                                 *)

\* The last write of a row was made under a claim the row has issued.
WrittenUnderClaim == \A j \in Jobs : stamp[j] <= token[j]

\* No transaction of an older claim commits after one of a newer claim.
WritesInClaimOrder == [][\A j \in Jobs : stamp'[j] >= stamp[j]]_vars

(* The writes of a job are ordered by the claims they were made under: what *)
(* a call that lost its lease still has in hand can never be committed on   *)
(* top of what its successor wrote, even many claims later.                 *)
THEOREM WritesOrdered == Spec => WritesInClaimOrder
  <1>1. Init => WrittenUnderClaim
    BY DEF Init, WrittenUnderClaim
  <1>2. ASSUME IInv, WrittenUnderClaim, [Next]_vars, NEW j \in Jobs
        PROVE  stamp'[j] >= stamp[j] /\ stamp'[j] <= token'[j]
    <2>1. RowStep(j)
      BY <1>2, RowSteps
    <2>2. /\ token[j] \in Nat /\ stamp[j] \in Nat /\ stamp[j] <= token[j]
      BY <1>2 DEF IInv, TypeOK, WrittenUnderClaim
    <2> QED BY <2>1, <2>2 DEF RowStep, RowSame, RowSubmitted, RowGranted, RowSwept, RowWritten
  <1>3. IInv /\ WrittenUnderClaim /\ [Next]_vars => WrittenUnderClaim'
    BY <1>2 DEF WrittenUnderClaim
  <1>4. IInv /\ WrittenUnderClaim /\ [Next]_vars => [\A j \in Jobs : stamp'[j] >= stamp[j]]_vars
    BY <1>2
  <1> QED BY <1>1, <1>3, <1>4, Invariance, PTL DEF Spec, WritesInClaimOrder
=============================================================================
