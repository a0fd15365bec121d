-------------------------- MODULE OutboundDelivery --------------------------
(****************************************************************************)
(* Sending one WhatsApp message through the Meta adapter: the request and   *)
(* message rows, the job of the queue that carries them, the HTTP POST      *)
(* that runs outside every database transaction, and the receipts that      *)
(* come back.  Each job of JobQueue is here the send job of one request.    *)
(*                                                                          *)
(* The provider does not deduplicate: every POST it takes from the wire is  *)
(* a message to the customer.  An answer may be lost, and a POST the        *)
(* worker gave up on may still be accepted later.                           *)
(****************************************************************************)
EXTENDS JobQueue

CONSTANT MaxTries  \* POSTs of one call of send(): the adapter's maxAttempts

ASSUME DeliveryAssumption ==
  /\ MaxTries \in Nat \ {0}
  /\ FlowJobs = {} /\ AudioJobs = {}

VARIABLES
  req,       \* messaging.outbound_requests.status
  msg,       \* messaging.messages.status
  code,      \* last_error_code, up to what it says about the outcome
  wamid,     \* provider_message_id has been recorded
  eligible,  \* the predicate of loadOutboundWork: consent, epoch, window...
  pc,        \* how far a call of processWhatsAppOutbound has come
  tries,     \* POSTs this call has had answered with 429
  wire,      \* POSTs of the request the provider has not yet acted on
  accepted,  \* POSTs the provider has accepted
  seen,      \* receipts applied (message_delivery_events)
  late       \* history: POSTs made after the request lost its eligibility

rows  == <<req, msg, code, wamid, seen>>
world == <<eligible, wire, accepted, late>>
calls == <<pc, tries>>
dvars == <<vars, rows, world, calls>>

Receipts == {"sent", "delivered", "read", "failed"}

\* The places of a call.  In the last three it is in its error handler:
\* a rate limit to retry, a refusal that is certain, an outcome unknown.
Places == {"start", "loaded", "cleared", "posted", "accepted",
           "throttled", "refused", "unknown"}

DeliveryInit ==
  /\ Init
  /\ req      = [j \in Jobs |-> "absent"]
  /\ msg      = [j \in Jobs |-> "absent"]
  /\ code     = [j \in Jobs |-> "none"]
  /\ wamid    = [j \in Jobs |-> FALSE]
  /\ eligible = [j \in Jobs |-> TRUE]
  /\ pc       = [e \in Executors |-> "start"]
  /\ tries    = [e \in Executors |-> 0]
  /\ wire     = [j \in Jobs |-> 0]
  /\ accepted = [j \in Jobs |-> 0]
  /\ seen     = [j \in Jobs |-> {}]
  /\ late     = [j \in Jobs |-> 0]

\* The calls go on at the given places; one that ended in this step forgets
\* where it was.
Onward(place) ==
  /\ pc'    = [e \in Executors |-> IF held'[e] = NoJob THEN "start" ELSE place[e]]
  /\ tries' = [e \in Executors |-> IF held'[e] = NoJob THEN 0 ELSE tries[e]]

-----------------------------------------------------------------------------
(* Admission: request, message and job in one transaction.                  *)
Admit(j) ==
  /\ eligible[j]
  /\ Enqueue(j)
  /\ req' = [req EXCEPT ![j] = "queued"]
  /\ msg' = [msg EXCEPT ![j] = "queued"]
  /\ UNCHANGED <<code, wamid, seen, world, calls>>

\* Consent revoked, contact archived, conversation taken over, channel
\* disabled, service window closed: nobody needs a lock to do this.
Withdraw(j) ==
  /\ eligible[j]
  /\ eligible' = [eligible EXCEPT ![j] = FALSE]
  /\ UNCHANGED <<vars, rows, wire, accepted, late, calls>>

\* No transaction begins between the last revalidation and the answer.
Begin(e) == pc[e] \notin {"cleared", "posted"} /\ BeginTx(e)

\* Queue steps that touch neither the request nor the place of a call.
QueueOnly ==
  /\ \/ \E e \in Executors : \/ \E j \in Jobs : ClaimJob(e, j)
                             \/ SweepExhausted(e)
                             \/ Renew(e)
                             \/ RenewalFails(e)
                             \/ Begin(e)
                             \/ Reject(e)
     \/ Tick
  /\ UNCHANGED <<rows, world, calls>>

\* A process dies, wherever its calls are; a call whose claim is lost, whose
\* error handler failed or that never began returns.
Vanish ==
  /\ \/ \E w \in Workers : Crash(w)
     \/ \E e \in Executors : /\ Leave(e)
                             /\ pc[e] \notin {"cleared", "posted"}
                             /\ lost[e] \/ erred[e] \/ pc[e] = "start"
  /\ Onward(pc)
  /\ UNCHANGED <<rows, world>>

-----------------------------------------------------------------------------
(* As in JobQueue, definitions with _Faulty in their name are plausible     *)
(* slips of the definition they precede.                                    *)

\* A reclaimed call loads a request that is already 'sending' once more.
Decides_FaultyReload(e, v) ==
  LET j == held[e] IN
    \/ pc[e] = "start"     /\ v = "keep"    /\ req[j] \in {"queued", "sending"}
    \/ pc[e] = "start"     /\ v = "cancel"
    \/ pc[e] = "loaded"    /\ v = "keep"    /\ req[j] = "sending" /\ eligible[j]
    \/ pc[e] = "accepted"  /\ v = "succeed"
    \/ pc[e] = "throttled" /\ v = "fail"
    \/ pc[e] \in {"refused", "unknown"} /\ v = "quarantine"

\* Eligibility is checked at load, and not again before each POST.
Decides_FaultyNoRevalidation(e, v) ==
  LET j == held[e] IN
    \/ pc[e] = "start"     /\ v = "keep"    /\ req[j] = "queued" /\ eligible[j]
    \/ pc[e] = "start"     /\ v = "cancel"
    \/ pc[e] = "loaded"    /\ v = "keep"    /\ req[j] = "sending"
    \/ pc[e] = "accepted"  /\ v = "succeed"
    \/ pc[e] = "throttled" /\ v = "fail"
    \/ pc[e] \in {"refused", "unknown"} /\ v = "quarantine"

(* The bodies of the call's transactions: load marks the request 'sending', *)
(* revalidation before each POST only reads, completion records the wamid,  *)
(* the error handler fails or quarantines the job; before any of it, a      *)
(* denied opening-menu route cancels the job.                               *)
Decides(e, v) ==
  LET j == held[e] IN
    \/ pc[e] = "start"     /\ v = "keep"    /\ req[j] = "queued"  /\ eligible[j]
    \/ pc[e] = "start"     /\ v = "cancel"
    \/ pc[e] = "loaded"    /\ v = "keep"    /\ req[j] = "sending" /\ eligible[j]
    \/ pc[e] = "accepted"  /\ v = "succeed"
    \/ pc[e] = "throttled" /\ v = "fail"
    \/ pc[e] \in {"refused", "unknown"} /\ v = "quarantine"

\* The deadline is not checked again before the commit.
Body_FaultyNoDeadline(e, v) ==
  /\ tx[e] = "open" /\ MayDecide(e, v) /\ Decides(e, v)
  /\ tx' = [tx EXCEPT ![e] = v]
  /\ UNCHANGED <<row, held, claim, lost, erred, rows, world, calls>>

Body(e, v) ==
  /\ Validate(e, v)
  /\ Decides(e, v)
  /\ UNCHANGED <<rows, world, calls>>

\* The request fails although its job will retry.
Demoted_FaultyFailed(st, j) == IF st \in {"queued", "sending"} THEN "failed" ELSE st

\* What the handler makes of a status it may still change.
Demoted(st, j) ==
  IF st \in {"queued", "sending"}
    THEN IF StatusAfter(j, "fail") = "dead" THEN "failed" ELSE "queued"
    ELSE st

Recorded(st) == IF st \in {"delivered", "read"} THEN st ELSE "sent"

\* The rows a commit leaves, by the verdict and the place it was reached from.
CommitRows(e, j, v) ==
  \/ /\ v = "keep"
     /\ req' = IF pc[e] = "start" THEN [req EXCEPT ![j] = "sending"] ELSE req
     /\ UNCHANGED <<msg, code, wamid>>
  \/ /\ v = "succeed"
     /\ req' = [req EXCEPT ![j] = Recorded(@)]
     /\ msg' = [msg EXCEPT ![j] = Recorded(@)]
     /\ code' = [code EXCEPT ![j] = "none"]
     /\ wamid' = [wamid EXCEPT ![j] = TRUE]
  \/ /\ v = "cancel"
     /\ req' = [req EXCEPT ![j] = IF @ \in {"queued", "sending"} THEN "failed" ELSE @]
     /\ msg' = [msg EXCEPT ![j] = IF @ = "queued" THEN "failed" ELSE @]
     /\ code' = [code EXCEPT ![j] = IF req[j] \in {"queued", "sending"} THEN "denied" ELSE @]
     /\ wamid' = wamid
  \/ /\ v = "fail"
     /\ req' = [req EXCEPT ![j] = Demoted(@, j)]
     /\ msg' = [msg EXCEPT ![j] = Demoted(@, j)]
     /\ code' = [code EXCEPT ![j] = IF req[j] \in {"queued", "sending"} THEN "refused" ELSE @]
     /\ wamid' = wamid
  \/ /\ v = "quarantine"
     /\ req' = [req EXCEPT ![j] = IF @ \in {"queued", "sending"} THEN "failed" ELSE @]
     /\ msg' = [msg EXCEPT ![j] = IF @ \in {"queued", "sending"} THEN "failed" ELSE @]
     /\ code' = [code EXCEPT ![j] = IF req[j] \in {"queued", "sending"} THEN pc[e] ELSE @]
     /\ wamid' = wamid

\* An unacknowledged COMMIT throws in the call: not a provider's error, so the
\* handler takes the outcome for unknown.
AfterCommit(e) == IF tx'[e] = "none" /\ erred'[e] /\ ~erred[e] THEN "unknown"
                  ELSE IF tx[e] # "keep" THEN pc[e]
                  ELSE IF pc[e] = "start" THEN "loaded" ELSE "cleared"

Settles(e) ==
  /\ Commit(e)
  /\ CommitRows(e, held[e], tx[e])
  /\ Onward([pc EXCEPT ![e] = AfterCommit(e)])
  /\ UNCHANGED <<seen, world>>

-----------------------------------------------------------------------------
(* Errors on the way to the POST and after it.                              *)

\* The call throws an error of class p; a second error leaves the handler.
Throws(e, p) ==
  /\ Err(e)
  /\ Onward([pc EXCEPT ![e] = p])

\* Eligibility is looked at before the mark an earlier claim left.
NotEligible_FaultyOrder(e) ==
  /\ tx[e] = "open"
  /\ pc[e] = "start" /\ req[held[e]] # "queued"
  /\ Throws(e, "refused")
  /\ UNCHANGED <<rows, world>>

\* Load or revalidation finds the request no longer eligible.
NotEligible(e) ==
  /\ tx[e] = "open"
  /\ \/ pc[e] = "start"  /\ req[held[e]] # "sending"
                         /\ (~eligible[held[e]] \/ req[held[e]] # "queued")
     \/ pc[e] = "loaded" /\ (~eligible[held[e]] \/ req[held[e]] # "sending")
  /\ Throws(e, "refused")
  /\ UNCHANGED <<rows, world>>

\* An earlier claim left the request 'sending', or the database failed.
Breaks(e) ==
  /\ pc[e] \notin {"cleared", "posted"}
  /\ Throws(e, "unknown")
  /\ UNCHANGED <<rows, world>>

-----------------------------------------------------------------------------
(* The HTTP exchange, outside every transaction.  Nothing is checked        *)
(* between the last revalidation's commit and the POST.                     *)
Post(e) ==
  /\ pc[e] = "cleared"
  /\ pc' = [pc EXCEPT ![e] = "posted"]
  /\ wire' = [wire EXCEPT ![held[e]] = @ + 1]
  /\ late' = [late EXCEPT ![held[e]] = IF eligible[held[e]] THEN @ ELSE @ + 1]
  /\ UNCHANGED <<vars, rows, eligible, accepted, tries>>

Off(j) == wire[j] > 0 /\ wire' = [wire EXCEPT ![j] = @ - 1]

\* 200 with a wamid, and the answer arrives in time.
Accept(e) ==
  /\ pc[e] = "posted"
  /\ Off(held[e])
  /\ accepted' = [accepted EXCEPT ![held[e]] = @ + 1]
  /\ pc' = [pc EXCEPT ![e] = "accepted"]
  /\ UNCHANGED <<vars, rows, eligible, late, tries>>

\* Off by one: one POST more than maxAttempts.
Again_FaultyOffByOne(e) == tries[e] < MaxTries

Again(e) == tries[e] + 1 < MaxTries

\* 429: wait and go round again, or hand the retry to the job.
Throttle(e) ==
  /\ pc[e] = "posted"
  /\ Off(held[e])
  /\ \/ /\ Again(e)
        /\ pc' = [pc EXCEPT ![e] = "loaded"]
        /\ tries' = [tries EXCEPT ![e] = @ + 1]
        /\ UNCHANGED vars
     \/ Throws(e, "throttled")
  /\ UNCHANGED <<rows, eligible, accepted, late>>

\* Another 4xx, or a 429 whose delay is out of range: certainly not sent.
Refuse(e) ==
  /\ pc[e] = "posted"
  /\ Off(held[e])
  /\ Throws(e, "refused")
  /\ UNCHANGED <<rows, eligible, accepted, late>>

\* A timeout is retried like a rate limit.
GiveUp_FaultyRetry(e) ==
  /\ pc[e] = "posted"
  /\ Throws(e, "throttled")
  /\ UNCHANGED <<rows, world>>

\* 5xx, no wamid in the answer, a network error or the 8-second timeout: the
\* POST, if the provider has not acted on it, stays on the wire.
GiveUp(e) ==
  /\ pc[e] = "posted"
  /\ Throws(e, "unknown")
  /\ UNCHANGED <<rows, world>>

\* The provider acts on a POST and nobody hears of it.
Unheard(j) ==
  /\ Off(j)
  /\ accepted' = [accepted EXCEPT ![j] = @ + 1] \/ accepted' = accepted
  /\ UNCHANGED <<vars, rows, eligible, late, calls>>

-----------------------------------------------------------------------------
(* Receipts: found by the recorded wamid (before that the event is retried),*)
(* deduplicated by event id, in any order.                                  *)

\* The latest receipt to arrive wins.
Ranked_FaultyLastWins(old, s) == s

\* The CASE of ingestWhatsAppStatus, the same for message and request.
Ranked(old, s) ==
  IF s = "failed" THEN "failed"
  ELSE IF old = "read" THEN old
  ELSE IF s = "read" THEN "read"
  ELSE IF old = "delivered" THEN old
  ELSE IF s = "delivered" THEN "delivered"
  ELSE "sent"

Receive(j, s) ==
  /\ wamid[j]
  /\ s \notin seen[j]
  /\ seen' = [seen EXCEPT ![j] = @ \cup {s}]
  /\ msg'  = [msg EXCEPT ![j] = Ranked(@, s)]
  /\ req'  = [req EXCEPT ![j] = Ranked(@, s)]
  /\ code' = [code EXCEPT ![j] = IF s = "failed" THEN "reported" ELSE "none"]
  /\ UNCHANGED <<vars, wamid, world, calls>>

-----------------------------------------------------------------------------
DeliveryNext ==
  \/ \E j \in Jobs : \/ Admit(j)
                     \/ Withdraw(j)
                     \/ Unheard(j)
                     \/ \E s \in Receipts : Receive(j, s)
  \/ \E e \in Executors : \/ \E v \in Verdicts : Body(e, v)
                          \/ Settles(e)
                          \/ NotEligible(e)
                          \/ Breaks(e)
                          \/ Post(e)
                          \/ Accept(e)
                          \/ Throttle(e)
                          \/ Refuse(e)
                          \/ GiveUp(e)
  \/ QueueOnly
  \/ Vanish

DeliverySpec == DeliveryInit /\ [][DeliveryNext]_dvars

\* A call goes on, at the latest when its POST times out; its poll loop and
\* the clock go on too.
Advance(e) == /\ \/ Begin(e) /\ UNCHANGED <<rows, world, calls>>
                 \/ Reject(e) /\ UNCHANGED <<rows, world, calls>>
                 \/ \E v \in Verdicts : Body(e, v)
                 \/ Settles(e) \/ NotEligible(e) \/ Breaks(e)
                 \/ Post(e) \/ GiveUp(e)
                 \/ Vanish /\ held'[e] = NoJob

Fetch(e) == Poll(e) /\ UNCHANGED <<rows, world, calls>>

DeliveryFairSpec ==
  /\ DeliverySpec
  /\ WF_dvars(Tick /\ UNCHANGED <<rows, world, calls>>)
  /\ \A e \in Executors : WF_dvars(Advance(e)) /\ WF_dvars(Fetch(e))

-----------------------------------------------------------------------------
DeliveryTypeOK ==
  /\ TypeOK
  /\ req      \in [Jobs -> {"absent", "queued", "sending"} \cup Receipts]
  /\ msg      \in [Jobs -> {"absent", "queued"} \cup Receipts]
  /\ code     \in [Jobs -> {"none", "refused", "unknown", "denied", "reported"}]
  /\ wamid    \in [Jobs -> BOOLEAN]
  /\ eligible \in [Jobs -> BOOLEAN]
  /\ pc       \in [Executors -> Places]
  /\ tries    \in [Executors -> 0..MaxTries - 1]
  /\ wire     \in [Jobs -> Nat]
  /\ accepted \in [Jobs -> Nat]
  /\ seen     \in [Jobs -> SUBSET Receipts]
  /\ late     \in [Jobs -> Nat]

(* The customer gets the message at most once: whatever crashes, lost       *)
(* answers, lost leases and retries do, the provider never accepts a second *)
(* POST of a request, nor has one to accept ("Never automatically replay an *)
(* ambiguous network/timeout outcome", providers.ts:796-798).               *)
AtMostOnce == \A j \in Jobs : accepted[j] + wire[j] <= 1

(* A request is 'queued', and so open to be sent, only while no POST of it  *)
(* was accepted, is on the wire or is about to be made, even by a call that *)
(* lost its claim and does not know it yet.                                 *)
QueuedMeansUnsent ==
  \A j \in Jobs : req[j] = "queued" =>
    /\ accepted[j] = 0 /\ wire[j] = 0
    /\ \A e \in Executors : held[e] = j => pc[e] \notin {"cleared", "posted", "accepted"}

(* A request that failed for a certain reason was not sent: the codes that  *)
(* let an operator send again without looking at Meta's evidence first are  *)
(* never given to an attempt whose outcome is open.                         *)
RefusedMeansUnsent ==
  \A j \in Jobs : req[j] = "failed" /\ code[j] = "refused" =>
    accepted[j] = 0 /\ wire[j] = 0

\* How far the receipts in R say a message got.
Furthest(R) == IF "read" \in R THEN "read"
               ELSE IF "delivered" \in R THEN "delivered"
               ELSE "sent"

(* Job, request, message and receipts agree: a waiting job has a queued     *)
(* request, a succeeded one a recorded and accepted message, a cancelled    *)
(* one a failed request; the inbox shows what the request says, and, as     *)
(* long as no failure is reported, the furthest the receipts say the        *)
(* message got, whatever order they came in (messaging.ts:1159-1184).       *)
RowsAgree ==
  \A j \in Jobs :
    /\ status[j] \in Waiting => req[j] = "queued"
    /\ status[j] = "succeeded" <=> wamid[j]
    /\ wamid[j] => accepted[j] = 1
    /\ status[j] = "cancelled" => req[j] = "failed"
    /\ msg[j] = IF req[j] = "sending" THEN "queued" ELSE req[j]
    /\ wamid[j] /\ "failed" \notin seen[j] => msg[j] = Furthest(seen[j])

(* A revoked consent, or any other loss of eligibility, lets at most one    *)
(* POST through: the one already cleared when it happened.                  *)
AtMostOneLatePost == \A j \in Jobs : late[j] <= 1

(* The sending keeps MessagePromise: what the inbox shows of a request and  *)
(* what the customer was given go together, through every crash, lost lease *)
(* and lost answer, and in whatever order the receipts arrive; receipts of  *)
(* progress never take a delivered or read message back.                    *)
Promise == INSTANCE MessagePromise WITH
             Requests <- Jobs,
             shown    <- msg,
             given    <- accepted,
             reason   <- [j \in Jobs |-> IF msg[j] = "failed" THEN code[j] ELSE "none"]

ImplementsMessagePromise == Promise!Spec

(* The documents promise more: that statuses are applied monotonically, so  *)
(* that no receipt, a reported failure included, undoes what is shown.  The *)
(* CASE of ingestWhatsAppStatus (messaging.ts:1162-1168) tests 'failed'     *)
(* before what the row says, and keeps no failure from a later receipt.     *)
StatusIsMonotonic == Promise!Monotonic

(* A request that is being sent reaches an end: tenant deletion fails on    *)
(* one and asks to be tried again "after it reaches a terminal state"       *)
(* (eb2660eb37ec:60-62), and a conversation that has one cannot be deleted. *)
SendingEnds == \A j \in Jobs : req[j] = "sending" ~> req[j] # "sending"

(* The calls of this module drive the queue as JobQueue says, so what is    *)
(* shown of it holds here.                                                  *)
ImplementsQueue == Spec
=============================================================================
