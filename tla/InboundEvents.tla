--------------------------- MODULE InboundEvents ---------------------------
(****************************************************************************)
(* What the provider's webhook delivers: the durable events it is stored    *)
(* as, their claims by the workers, their ingestion in one transaction, the *)
(* retries and the alert an exhausted event ends in.                        *)
(*                                                                          *)
(* Time is left out: a 60-second lease and a backoff may lapse at any       *)
(* moment, whatever the length of a call.                                   *)
(****************************************************************************)
EXTENDS Naturals, FiniteSets

CONSTANTS
  Events,       \* events the provider will deliver
  Reports,      \* those that report the status of a sent message
  Workers,      \* processes polling
  NoEvent,      \* no event claimed
  NoWorker,     \* locked_by IS NULL
  MaxAttempts,  \* max_attempts
  Overlapping,  \* two webhook transactions may overlap
  MayDieLast    \* a process may die during the last attempt of an event

ASSUME InboundAssumption ==
  /\ IsFiniteSet(Events) /\ Reports \subseteq Events
  /\ NoEvent \notin Events /\ NoWorker \notin Workers
  /\ MaxAttempts \in Nat \ {0}
  /\ Overlapping \in BOOLEAN /\ MayDieLast \in BOOLEAN

VARIABLES
  state,    \* ops.inbound_events.status; "absent" before, "begun" while inserted
  arrival,  \* received_at: when the webhook's transaction began
  receipt,  \* receipt_sequence: when the row was inserted
  attempt,  \* attempts
  owner,    \* locked_by
  lapsed,   \* locked_at is older than the lease
  avail,    \* available_at: as received, moved and passed, or in the future
  alerted,  \* the event has a row in ops.inbound_failure_alerts
  applied,  \* times the event took effect: a message and its jobs, or a status
  known,    \* the wamid a report refers to has been recorded
  work,     \* the event a worker's call of processInbound has
  step,     \* how far that call has come
  grant     \* history: the attempt a worker's call was given

ivars == <<state, arrival, receipt, attempt, owner, lapsed, avail,
           alerted, applied, known, work, step, grant>>
rowOnly == <<state, arrival, receipt, attempt, owner, lapsed, avail>>
calls   == <<work, step, grant>>

States == {"absent", "begun", "received", "processing", "processed", "failed"}

Stored == {e \in Events : state[e] \notin {"absent", "begun"}}

InboundInit ==
  /\ state   = [e \in Events |-> "absent"]
  /\ arrival = [e \in Events |-> 0]
  /\ receipt = [e \in Events |-> 0]
  /\ attempt = [e \in Events |-> 0]
  /\ owner   = [e \in Events |-> NoWorker]
  /\ lapsed  = [e \in Events |-> FALSE]
  /\ avail   = [e \in Events |-> "asReceived"]
  /\ alerted = [e \in Events |-> FALSE]
  /\ applied = [e \in Events |-> 0]
  /\ known   = [e \in Events |-> e \notin Reports]
  /\ work    = [w \in Workers |-> NoEvent]
  /\ step    = [w \in Workers |-> "idle"]
  /\ grant   = [w \in Workers |-> 0]

-----------------------------------------------------------------------------
(* The webhook.  received_at is the start of its transaction, the receipt   *)
(* sequence is drawn when the row is inserted.  A repeated delivery finds   *)
(* the row and changes nothing; a webhook that rolls back leaves none.      *)

BeginReceipt(e) ==
  /\ state[e] = "absent"
  /\ Overlapping \/ \A d \in Events : state[d] # "begun"
  /\ state' = [state EXCEPT ![e] = "begun"]
  /\ arrival' = [arrival EXCEPT ![e] =
                   1 + Cardinality({d \in Events : arrival[d] > 0})]
  /\ UNCHANGED <<receipt, attempt, owner, lapsed, avail, alerted, applied, known, calls>>

StoreReceipt(e) ==
  /\ state[e] = "begun"
  /\ state' = [state EXCEPT ![e] = "received"]
  /\ receipt' = [receipt EXCEPT ![e] = 1 + Cardinality(Stored)]
  /\ UNCHANGED <<arrival, attempt, owner, lapsed, avail, alerted, applied, known, calls>>

\* The send a report refers to commits its wamid.
RecordWamid(e) ==
  /\ ~known[e]
  /\ known' = [known EXCEPT ![e] = TRUE]
  /\ UNCHANGED <<rowOnly, alerted, applied, calls>>

\* The clock passes the backoff or the lease of a row.
BackoffEnds(e) ==
  /\ avail[e] = "future"
  /\ avail' = [avail EXCEPT ![e] = "moved"]
  /\ UNCHANGED <<state, arrival, receipt, attempt, owner, lapsed,
                 alerted, applied, known, calls>>

LeaseEnds(e) ==
  /\ state[e] = "processing" /\ ~lapsed[e]
  /\ lapsed' = [lapsed EXCEPT ![e] = TRUE]
  /\ UNCHANGED <<state, arrival, receipt, attempt, owner, avail,
                 alerted, applied, known, calls>>

-----------------------------------------------------------------------------
(* Definitions with _Faulty in their name are plausible slips of the        *)
(* definition they precede.                                                 *)

\* Off by one: the attempt limit is tested with <=.
Due_FaultyLimit(e) ==
  /\ attempt[e] <= MaxAttempts
  /\ \/ state[e] \in {"received", "failed"} /\ avail[e] # "future"
     \/ state[e] = "processing" /\ lapsed[e]

Due(e) ==
  /\ attempt[e] < MaxAttempts
  /\ \/ state[e] \in {"received", "failed"} /\ avail[e] # "future"
     \/ state[e] = "processing" /\ lapsed[e]

\* ORDER BY available_at, received_at, receipt_sequence: a row that never
\* failed is available from its reception.
Before(d, e) ==
  avail[d] = "asReceived" /\ avail[e] = "asReceived" /\ arrival[d] < arrival[e]

\* One row per claim, and a worker claims only between two calls.
Claim(w, e) ==
  /\ work[w] = NoEvent
  /\ Due(e) /\ \A d \in Events : Due(d) => ~Before(d, e)
  /\ state'   = [state EXCEPT ![e] = "processing"]
  /\ attempt' = [attempt EXCEPT ![e] = @ + 1]
  /\ owner'   = [owner EXCEPT ![e] = w]
  /\ lapsed'  = [lapsed EXCEPT ![e] = FALSE]
  /\ work'    = [work EXCEPT ![w] = e]
  /\ step'    = [step EXCEPT ![w] = "ingest"]
  /\ grant'   = [grant EXCEPT ![w] = attempt'[e]]
  /\ UNCHANGED <<arrival, receipt, avail, alerted, applied, known>>

\* complete_inbound_event and fail_inbound_event forget whose claim it is.
Settleable_FaultyAnyOwner(w, e) == state[e] = "processing"

\* Whose row it is, by worker: not by claim.
Settleable(w, e) == state[e] = "processing" /\ owner[e] = w

\* The effects follow every ingestion, not only the one that inserted.
Effects_FaultyAlways(e) == applied' = [applied EXCEPT ![e] = @ + 1]

\* The message is inserted once (ON CONFLICT DO NOTHING) and only its
\* insertion has effects; a status is recorded once in the same way.
Effects(e) == applied' = [applied EXCEPT ![e] = 1]

\* The event is completed by the transaction that ingests it, which does not
\* look at the claim first and commits whether or not the claim still stands.
Ingest(w) ==
  LET e == work[w] IN
    /\ step[w] = "ingest"
    /\ known[e]
    /\ Effects(e)
    /\ IF Settleable(w, e)
         THEN /\ state' = [state EXCEPT ![e] = "processed"]
              /\ owner' = [owner EXCEPT ![e] = NoWorker]
         ELSE UNCHANGED <<state, owner>>
    /\ work'  = [work EXCEPT ![w] = NoEvent]
    /\ step'  = [step EXCEPT ![w] = "idle"]
    /\ grant' = [grant EXCEPT ![w] = 0]
    /\ UNCHANGED <<arrival, receipt, attempt, lapsed, avail, alerted, known>>

\* Anything the transaction throws rolls it back; a report whose message is
\* not known yet always throws.
IngestThrows(w) ==
  /\ step[w] = "ingest"
  /\ step' = [step EXCEPT ![w] = "failing"]
  /\ UNCHANGED <<rowOnly, alerted, applied, known, work, grant>>

\* A last failure leaves available_at alone, any other moves it.
Fail(w) ==
  LET e == work[w] IN
    /\ step[w] = "failing"
    /\ IF Settleable(w, e)
         THEN /\ state' = [state EXCEPT ![e] = "failed"]
              /\ owner' = [owner EXCEPT ![e] = NoWorker]
              /\ avail' = [avail EXCEPT ![e] = IF attempt[e] >= MaxAttempts
                                                 THEN @ ELSE "future"]
         ELSE UNCHANGED <<state, owner, avail>>
    /\ step' = [step EXCEPT ![w] = "surfacing"]
    /\ UNCHANGED <<arrival, receipt, attempt, lapsed, alerted, applied, known, work, grant>>

\* Off by one: an alert wants one attempt more than the claim allows.
Exhausted_FaultyLimit(e) == state[e] = "failed" /\ attempt[e] > MaxAttempts

Exhausted(e) == state[e] = "failed" /\ attempt[e] >= MaxAttempts

\* surface_exhausted_inbound: for all events of the tenant at once.
Surfaced == alerted' = [e \in Events |-> alerted[e] \/ Exhausted(e)]

Surface(w) ==
  /\ step[w] = "surfacing"
  /\ Surfaced
  /\ work'  = [work EXCEPT ![w] = NoEvent]
  /\ step'  = [step EXCEPT ![w] = "idle"]
  /\ grant' = [grant EXCEPT ![w] = 0]
  /\ UNCHANGED <<rowOnly, applied, known>>

\* A reply turn calls it too, when it asks whether its message is still the
\* latest (requireNoNewerPendingInbound), whatever the pollers are doing.
SurfaceInTurn ==
  /\ Surfaced
  /\ UNCHANGED <<rowOnly, applied, known, calls>>

\* The process dies, or fail_inbound_event or the alert throws and the poll
\* with it: the row keeps its claim.  Another process takes its place.
Die(w) ==
  /\ work[w] # NoEvent
  /\ MayDieLast \/ attempt[work[w]] < MaxAttempts
  /\ work'  = [work EXCEPT ![w] = NoEvent]
  /\ step'  = [step EXCEPT ![w] = "idle"]
  /\ grant' = [grant EXCEPT ![w] = 0]
  /\ UNCHANGED <<rowOnly, alerted, applied, known>>

-----------------------------------------------------------------------------
InboundNext ==
  \/ \E e \in Events : \/ BeginReceipt(e)
                       \/ StoreReceipt(e)
                       \/ RecordWamid(e)
                       \/ BackoffEnds(e)
                       \/ LeaseEnds(e)
                       \/ \E w \in Workers : Claim(w, e)
  \/ \E w \in Workers : \/ Ingest(w)
                        \/ IngestThrows(w)
                        \/ Fail(w)
                        \/ Surface(w)
                        \/ Die(w)
  \/ SurfaceInTurn

InboundSpec == InboundInit /\ [][InboundNext]_ivars

\* A worker polls for ever and finishes what it began; the clock runs.
InboundFairness ==
  /\ \A e \in Events : WF_ivars(StoreReceipt(e)) /\ WF_ivars(BackoffEnds(e))
                       /\ WF_ivars(LeaseEnds(e))
  /\ \A w \in Workers :
       /\ WF_ivars(\E e \in Events : Claim(w, e))
       /\ WF_ivars(Ingest(w) \/ IngestThrows(w) \/ Fail(w) \/ Surface(w))

InboundFairSpec == InboundSpec /\ InboundFairness

-----------------------------------------------------------------------------
InboundTypeOK ==
  /\ state   \in [Events -> States]
  /\ arrival \in [Events -> Nat]
  /\ receipt \in [Events -> Nat]
  /\ attempt \in [Events -> 0..MaxAttempts]
  /\ owner   \in [Events -> Workers \cup {NoWorker}]
  /\ lapsed  \in [Events -> BOOLEAN]
  /\ avail   \in [Events -> {"asReceived", "moved", "future"}]
  /\ alerted \in [Events -> BOOLEAN]
  /\ applied \in [Events -> Nat]
  /\ known   \in [Events -> BOOLEAN]
  /\ work    \in [Workers -> Events \cup {NoEvent}]
  /\ step    \in [Workers -> {"idle", "ingest", "failing", "surfacing"}]
  /\ grant   \in [Workers -> 0..MaxAttempts]

(* An event takes effect at most once, by however many calls it is          *)
(* ingested, and one that is processed took effect: a call that lost its    *)
(* lease still commits its ingestion, and must not answer the customer      *)
(* twice nor leave the event to a call that finds nothing to do.            *)
IngestedOnce ==
  \A e \in Events : applied[e] <= 1 /\ (state[e] = "processed" => applied[e] = 1)

(* An event is settled by the call of its latest claim.  complete_ and      *)
(* fail_inbound_event know a worker's name only; that is enough because a   *)
(* worker has one call at a time.                                           *)
SettledByLatestClaim ==
  [][\A e \in Events :
       state[e] = "processing" /\ state'[e] \in {"processed", "failed"} =>
         \E w \in Workers : /\ work[w] = e
                            /\ step'[w] # step[w]
                            /\ grant[w] = attempt[e]]_ivars

(* An operator's alert is about an event that is over: it is not tried      *)
(* again, nor completed by a call that was still at it.                     *)
AlertIsFinal ==
  [][\A e \in Events : alerted[e] =>
       state'[e] = state[e] /\ attempt'[e] = attempt[e]]_ivars

(* Every event the webhook stored is processed, or its failure is shown to  *)
(* an operator.                                                             *)
EveryEventSettles ==
  \A e \in Events : state[e] = "received" ~> state[e] = "processed" \/ alerted[e]

(* An event whose attempts are spent and that no call has any more is       *)
(* processed or gets an operator-visible alert ("Exhausted envelopes remain *)
(* durable and get an operator-visible alert record",                       *)
(* inbound-debounce.ts:53).                                                 *)
SpentIsAlerted ==
  \A e \in Events :
    (attempt[e] = MaxAttempts /\ \A w \in Workers : work[w] # e)
      ~> state[e] = "processed" \/ alerted[e]
=============================================================================
