--------------------------- MODULE FairAdmission ---------------------------
(****************************************************************************)
(* The AI's replies admitted in turn: claim_fair_ai_reply, which counts the *)
(* live claims of every worker under one advisory lock, and each worker's   *)
(* map of the calls it launched, which bounds them and is what a shutdown   *)
(* waits for.                                                               *)
(*                                                                          *)
(* A call is the pair of its job and the attempt it was claimed as.  A call *)
(* whose lease lapsed goes on running; what it may write is JobQueue's      *)
(* matter.                                                                  *)
(****************************************************************************)
EXTENDS Naturals, FiniteSets

CONSTANTS
  Jobs,         \* the reply jobs of tenants with fair admission
  Orphans,      \* those whose conversation is not theirs any more
  Tenants,
  TenantOf,
  ConvOf,       \* the conversation of a job
  Processes,
  MaxAttempts,  \* max_attempts, per job
  Cap,          \* live claims in all
  TenantCap,    \* live claims of a tenant
  ProcessCap    \* calls launched by one worker

ASSUME FairAssumption ==
  /\ IsFiniteSet(Jobs) /\ Orphans \subseteq Jobs
  /\ TenantOf \in [Jobs -> Tenants]
  /\ MaxAttempts \in [Jobs -> Nat \ {0}]
  /\ Cap \in Nat /\ TenantCap \in Nat /\ ProcessCap \in Nat

VARIABLES
  status,   \* ops.jobs.status; "lapsed" is 'running' past its lease, "over" is
            \* 'succeeded' or 'dead'
  attempts,
  clock,    \* of the database: the admissions so far
  last,     \* reply_admission_state: a tenant's latest admission, 0 for none
  calls,    \* the calls of each process
  held,     \* activeReplies: at most one call per job
  awaited,  \* of the promises its shutdown took from the map, those pending
  phase,    \* of a process: "open", "draining", or "closed" with its pool
  ahead,    \* history: ahead[t][u], admissions of u that passed over t since
            \* the latest of t
  doubled   \* history: the jobs that had two calls at once in a process, until
            \* they have none there

fvars == <<status, attempts, clock, last, calls, held, awaited, phase, ahead, doubled>>

NoCount == [t \in Tenants |-> 0]

FairInit ==
  /\ status   = [j \in Jobs |-> "asleep"]
  /\ attempts = [j \in Jobs |-> 0]
  /\ clock    = 0
  /\ last     = [t \in Tenants |-> 0]
  /\ calls    = [p \in Processes |-> {}]
  /\ held     = [p \in Processes |-> {}]
  /\ awaited  = [p \in Processes |-> {}]
  /\ phase    = [p \in Processes |-> "open"]
  /\ ahead    = [t \in Tenants |-> NoCount]
  /\ doubled  = [p \in Processes |-> {}]

-----------------------------------------------------------------------------
(* Definitions with _Faulty in their name are plausible slips of the        *)
(* definition they precede.                                                 *)

Live == {j \in Jobs : status[j] = "running"}
Due == {j \in Jobs : status[j] \in {"ready", "lapsed"}}
Of(t) == {j \in Jobs : TenantOf[j] = t}

\* A lease that lapses gives the job another attempt.
Candidates_FaultyLimit ==
  {j \in Jobs \ Orphans :
     /\ attempts[j] < MaxAttempts[j] \/ status[j] = "lapsed"
     /\ j \in Due
     /\ Cardinality(Live \cap Of(TenantOf[j])) < TenantCap
     /\ \A k \in Live : ConvOf[k] # ConvOf[j]}

\* Claimable, and its tenant and its conversation have room.
Candidates ==
  {j \in Jobs \ Orphans :
     /\ attempts[j] < MaxAttempts[j]
     /\ j \in Due
     /\ Cardinality(Live \cap Of(TenantOf[j])) < TenantCap
     /\ \A k \in Live : ConvOf[k] # ConvOf[j]}

\* The worker counts its own claims only.
HasRoom_FaultyOwn(p) ==
  Cardinality({j \in Live : <<j, attempts[j]>> \in calls[p]}) < Cap

HasRoom(p) == Cardinality(Live) < Cap

\* Priority decides before the tenants' turns.
Earlier_FaultyNoTurns(k, j) == FALSE

\* ORDER BY last_admitted_at NULLS FIRST; the order of one tenant's jobs is
\* left open.
Earlier(k, j) == last[TenantOf[k]] < last[TenantOf[j]]

\* The worker may launch: it is not shutting down and its map has room.
Polls(p) == phase[p] = "open" /\ Cardinality(held[p]) < ProcessCap

\* Every claim first closes the waiting jobs whose conversation is gone.
Discarded(locked) == {j \in Orphans \ locked : status[j] = "ready"}

Discarding(locked) ==
  [k \in Jobs |-> IF k \in Discarded(locked) THEN "over" ELSE status[k]]

\* The tenants that a claim could have admitted.
InTurn(locked) == {TenantOf[j] : j \in Candidates \ locked}

-----------------------------------------------------------------------------
\* A job is inserted, or its debounce or backoff passes.
Wake(j) ==
  /\ status[j] = "asleep"
  /\ status' = [status EXCEPT ![j] = "ready"]
  /\ UNCHANGED <<attempts, clock, last, calls, held, awaited, phase, ahead, doubled>>

\* claim_fair_ai_reply and the launch of its call.  SKIP LOCKED passes over
\* rows that other transactions have locked.  The answer to the claim may be
\* lost: then there is no call.
Admit(p, j, locked) ==
  LET t == TenantOf[j]
      c == <<j, attempts[j] + 1>>
      passed == InTurn(locked) \ {t}
  IN
    /\ Polls(p) /\ HasRoom(p)
    /\ j \in Candidates \ locked
    /\ \A k \in Candidates \ locked : ~Earlier(k, j)
    /\ status' = [Discarding(locked) EXCEPT ![j] = "running"]
    /\ attempts' = [attempts EXCEPT ![j] = @ + 1]
    /\ clock' = clock + 1
    /\ last' = [last EXCEPT ![t] = clock']
    /\ ahead' = [u \in Tenants |->
                   IF u = t THEN NoCount
                   ELSE IF u \in passed THEN [ahead[u] EXCEPT ![t] = @ + 1]
                   ELSE ahead[u]]
    /\ \/ UNCHANGED <<calls, held, doubled>>
       \/ /\ calls' = [calls EXCEPT ![p] = @ \cup {c}]
          /\ held' = [held EXCEPT ![p] = {d \in @ : d[1] # j} \cup {c}]
          /\ doubled' = [doubled EXCEPT ![p] =
                           IF \E d \in calls[p] : d[1] = j THEN @ \cup {j} ELSE @]
    /\ UNCHANGED <<awaited, phase>>

\* A claim that admits nobody.
AdmitNobody(p, locked) ==
  /\ Polls(p)
  /\ ~HasRoom(p) \/ Candidates \subseteq locked
  /\ status' = Discarding(locked)
  /\ UNCHANGED <<attempts, clock, last, calls, held, awaited, phase, ahead, doubled>>

\* Its renewals have failed for the length of the lease.
Lapse(j) ==
  /\ status[j] = "running"
  /\ status' = [status EXCEPT ![j] = "lapsed"]
  /\ UNCHANGED <<attempts, clock, last, calls, held, awaited, phase, ahead, doubled>>

\* The sweep of claim_jobs_all_tenants.
Sweep(j) ==
  /\ status[j] = "lapsed" /\ attempts[j] >= MaxAttempts[j]
  /\ status' = [status EXCEPT ![j] = "over"]
  /\ UNCHANGED <<attempts, clock, last, calls, held, awaited, phase, ahead, doubled>>

\* What a call that still has its claim may make of its job: an answer, a
\* permanent failure, a failure, or nothing.
Outcomes(j) ==
  {"over", "running"}
    \cup {IF attempts[j] >= MaxAttempts[j] THEN "over" ELSE "asleep"}

\* The call is over and deletes its job's entry from the map, whichever call
\* that entry is of.
End(p, c) ==
  LET j == c[1] IN
    /\ c \in calls[p]
    /\ IF status[j] = "running" /\ attempts[j] = c[2] /\ phase[p] # "closed"
         THEN \E s \in Outcomes(j) : status' = [status EXCEPT ![j] = s]
         ELSE UNCHANGED status
    /\ calls' = [calls EXCEPT ![p] = @ \ {c}]
    /\ held' = [held EXCEPT ![p] = {d \in @ : d[1] # j}]
    /\ doubled' = [doubled EXCEPT ![p] =
                     IF \E d \in calls'[p] : d[1] = j THEN @ ELSE @ \ {j}]
    /\ awaited' = [awaited EXCEPT ![p] = @ \ {c}]
    /\ UNCHANGED <<attempts, clock, last, phase, ahead>>

\* close(): after a signal, or when a poll throws.
Stop(p) ==
  /\ phase[p] = "open"
  /\ phase' = [phase EXCEPT ![p] = "draining"]
  /\ awaited' = [awaited EXCEPT ![p] = held[p]]
  /\ UNCHANGED <<status, attempts, clock, last, calls, held, ahead, doubled>>

\* The pool is closed whatever still runs.
AllEnded_FaultyNow(p) == TRUE

AllEnded(p) == awaited[p] = {}

\* drainReplies() has returned, and the connection pool is closed.
Drained(p) ==
  /\ phase[p] = "draining" /\ AllEnded(p)
  /\ phase' = [phase EXCEPT ![p] = "closed"]
  /\ UNCHANGED <<status, attempts, clock, last, calls, held, awaited, ahead, doubled>>

\* The process ends, drained or killed, and another one takes its place.
Exit(p) ==
  /\ calls'   = [calls EXCEPT ![p] = {}]
  /\ held'    = [held EXCEPT ![p] = {}]
  /\ awaited' = [awaited EXCEPT ![p] = {}]
  /\ phase'   = [phase EXCEPT ![p] = "open"]
  /\ doubled' = [doubled EXCEPT ![p] = {}]
  /\ UNCHANGED <<status, attempts, clock, last, ahead>>

-----------------------------------------------------------------------------
FairNext ==
  \/ \E j \in Jobs : Wake(j) \/ Lapse(j) \/ Sweep(j)
  \/ \E p \in Processes :
       \/ \E locked \in SUBSET Due : \/ \E j \in Jobs : Admit(p, j, locked)
                                      \/ AdmitNobody(p, locked)
       \/ \E c \in calls[p] : End(p, c)
       \/ Stop(p)
       \/ Drained(p)
       \/ Exit(p)

FairSpec == FairInit /\ [][FairNext]_fvars

-----------------------------------------------------------------------------
Calls == Jobs \X Nat

FairTypeOK ==
  /\ status   \in [Jobs -> {"asleep", "ready", "running", "lapsed", "over"}]
  /\ attempts \in [Jobs -> Nat]
  /\ \A j \in Jobs : attempts[j] <= MaxAttempts[j]
  /\ clock    \in Nat
  /\ last     \in [Tenants -> Nat]
  /\ calls    \in [Processes -> SUBSET Calls]
  /\ held     \in [Processes -> SUBSET Calls]
  /\ awaited  \in [Processes -> SUBSET Calls]
  /\ phase    \in [Processes -> {"open", "draining", "closed"}]
  /\ ahead    \in [Tenants -> [Tenants -> Nat]]
  /\ doubled  \in [Processes -> SUBSET Jobs]

\* The calls that still have their claim.
Working == {c \in UNION {calls[p] : p \in Processes} :
              status[c[1]] = "running" /\ attempts[c[1]] = c[2]}

(* Whatever lapses, fails, restarts or is claimed at once: the calls with a *)
(* valid claim stay within the global cap, a tenant's and one for each      *)
(* conversation, and the calls a worker runs, with or without a claim, stay *)
(* within its own, but for a job it runs twice, which its map counts once.  *)
CallsWithinCaps ==
  /\ Cardinality(Working) <= Cap
  /\ \A t \in Tenants : Cardinality({c \in Working : TenantOf[c[1]] = t}) <= TenantCap
  /\ \A c, d \in Working : ConvOf[c[1]] = ConvOf[d[1]] => c = d
  /\ \A p \in Processes :
       Cardinality({c \in calls[p] : c[1] \notin doubled[p]}) <= ProcessCap

(* No tenant starves another: while a tenant has a job that could be        *)
(* admitted, each other tenant is admitted at most once before it.          *)
BoundedOvertaking ==
  \A t, u \in Tenants : ahead[t][u] <= 1

(* A worker's pool is closed only when its replies are over ("Drain the     *)
(* bounded current action before closing its persistence pool",             *)
(* worker.ts:28), all but those of a job it had running twice, whose entry  *)
(* the older call deletes.                                                  *)
RepliesAreAwaited ==
  \A p \in Processes : phase[p] = "closed" =>
    \A c \in calls[p] : c[1] \in doubled[p]
=============================================================================
