------------------------ MODULE InboundEventsProofs ------------------------
(****************************************************************************)
(* For any number of events, workers and attempts: an event takes effect    *)
(* once, is settled by its latest claim only, and is over when it is        *)
(* alerted.                                                                 *)
(****************************************************************************)
EXTENDS InboundEvents, FiniteSetTheorems, TLAPS

-----------------------------------------------------------------------------
(* The parts of the inductive invariant.                                    *)

\* A worker has an event exactly while it is in a call.
CallsHaveEvents ==
  \A w \in Workers : (step[w] = "idle") <=> (work[w] = NoEvent)

\* The call that has a claimed row of its worker was given its last attempt.
OwnersAreLatest ==
  \A w \in Workers : \A e \in Events :
    state[e] = "processing" /\ owner[e] = w /\ work[w] = e => grant[w] = attempt[e]

\* An alerted event is exhausted.
AlertsAreExhausted == \A e \in Events : alerted[e] => Exhausted(e)

IInv ==
  /\ InboundTypeOK
  /\ CallsHaveEvents
  /\ OwnersAreLatest
  /\ AlertsAreExhausted
  /\ IngestedOnce

(* Everything is true of the empty table.                                   *)
LEMMA InitIInv == InboundInit => IInv
  BY InboundAssumption
  DEF InboundInit, IInv, InboundTypeOK, CallsHaveEvents, OwnersAreLatest,
      AlertsAreExhausted, Exhausted, IngestedOnce, States

(* Every step keeps the types.                                              *)
LEMMA TypeStep ==
  ASSUME IInv, [InboundNext]_ivars
  PROVE  InboundTypeOK'
<1> USE InboundAssumption DEF IInv, InboundTypeOK, States, rowOnly, calls
<1>1. CASE UNCHANGED ivars
  BY <1>1 DEF ivars
<1>2. ASSUME NEW e \in Events, BeginReceipt(e) PROVE InboundTypeOK'
  <2>1. IsFiniteSet({d \in Events : arrival[d] > 0})
    BY FS_Subset
  <2>2. Cardinality({d \in Events : arrival[d] > 0}) \in Nat
    BY <2>1, FS_CardinalityType
  <2>. QED  BY <1>2, <2>2 DEF BeginReceipt
<1>3. ASSUME NEW e \in Events, StoreReceipt(e) PROVE InboundTypeOK'
  <2>1. IsFiniteSet(Stored)
    BY FS_Subset DEF Stored
  <2>2. Cardinality(Stored) \in Nat
    BY <2>1, FS_CardinalityType
  <2>. QED  BY <1>3, <2>2 DEF StoreReceipt
<1>4. ASSUME NEW e \in Events, RecordWamid(e) PROVE InboundTypeOK'
  BY <1>4 DEF RecordWamid
<1>5. ASSUME NEW e \in Events, BackoffEnds(e) PROVE InboundTypeOK'
  BY <1>5 DEF BackoffEnds
<1>6. ASSUME NEW e \in Events, LeaseEnds(e) PROVE InboundTypeOK'
  BY <1>6 DEF LeaseEnds
<1>7. ASSUME NEW e \in Events, NEW w \in Workers, Claim(w, e) PROVE InboundTypeOK'
  BY <1>7 DEF Claim, Due
<1>8. ASSUME NEW w \in Workers, Ingest(w) PROVE InboundTypeOK'
  <2>1. work[w] \in Events
    BY <1>8 DEF Ingest, CallsHaveEvents
  <2>. QED  BY <1>8, <2>1 DEF Ingest, Effects, Settleable
<1>9. ASSUME NEW w \in Workers, IngestThrows(w) PROVE InboundTypeOK'
  BY <1>9 DEF IngestThrows
<1>10. ASSUME NEW w \in Workers, Fail(w) PROVE InboundTypeOK'
  <2>1. work[w] \in Events
    BY <1>10 DEF Fail, CallsHaveEvents
  <2>. QED  BY <1>10, <2>1 DEF Fail, Settleable
<1>11. ASSUME NEW w \in Workers, Surface(w) PROVE InboundTypeOK'
  BY <1>11 DEF Surface, Surfaced, Exhausted
<1>12. ASSUME NEW w \in Workers, Die(w) PROVE InboundTypeOK'
  BY <1>12 DEF Die
<1>13. CASE SurfaceInTurn
  BY <1>13 DEF SurfaceInTurn, Surfaced, Exhausted
<1>. QED
  BY <1>1, <1>2, <1>3, <1>4, <1>5, <1>6, <1>7, <1>8, <1>9, <1>10, <1>11, <1>12, <1>13
  DEF InboundNext

(* Every step keeps the rest of the invariant.                              *)
LEMMA IInvStep ==
  ASSUME IInv, [InboundNext]_ivars
  PROVE  IInv'
<1> DEFINE Rest == /\ CallsHaveEvents /\ OwnersAreLatest
                   /\ AlertsAreExhausted /\ IngestedOnce
<1> USE DEF CallsHaveEvents, OwnersAreLatest, AlertsAreExhausted, Exhausted,
            IngestedOnce, rowOnly, calls
<1>0. InboundTypeOK /\ InboundTypeOK' /\ Rest
  BY TypeStep DEF IInv
<1> HIDE DEF Rest
<1> USE InboundAssumption, <1>0 DEF InboundTypeOK
<1>1. CASE UNCHANGED ivars
  BY <1>1 DEF ivars, Rest, IInv
<1>2. ASSUME NEW e \in Events,
             BeginReceipt(e) \/ StoreReceipt(e) \/ RecordWamid(e)
               \/ BackoffEnds(e) \/ LeaseEnds(e)
      PROVE  Rest'
  BY <1>2 DEF Rest, BeginReceipt, StoreReceipt, RecordWamid, BackoffEnds, LeaseEnds
<1>3. ASSUME NEW e \in Events, NEW w \in Workers, Claim(w, e) PROVE Rest'
  BY <1>3 DEF Rest, Claim, Due
<1>4. ASSUME NEW w \in Workers, Ingest(w) PROVE Rest'
  <2>1. work[w] \in Events
    BY <1>4 DEF Rest, Ingest
  <2>. QED  BY <1>4, <2>1 DEF Rest, Ingest, Effects, Settleable
<1>5. ASSUME NEW w \in Workers, IngestThrows(w) \/ Die(w) PROVE Rest'
  BY <1>5 DEF Rest, IngestThrows, Die
<1>6. ASSUME NEW w \in Workers, Fail(w) PROVE Rest'
  <2>1. work[w] \in Events
    BY <1>6 DEF Rest, Fail
  <2>. QED  BY <1>6, <2>1 DEF Rest, Fail, Settleable
<1>7. ASSUME SurfaceInTurn \/ \E w \in Workers : Surface(w) PROVE Rest'
  BY <1>7 DEF Rest, Surface, SurfaceInTurn, Surfaced
<1>8. Rest'
  BY <1>1, <1>2, <1>3, <1>4, <1>5, <1>6, <1>7 DEF InboundNext, Rest, ivars
<1>. QED  BY <1>8 DEF Rest, IInv

(* The invariant holds for ever.                                            *)
THEOREM IInvHolds == InboundSpec => []IInv
<1>1. IInv /\ [InboundNext]_ivars => IInv'
  BY IInvStep
<1>. QED  BY InitIInv, <1>1, PTL DEF InboundSpec

(* Every variable keeps its type: no attempt beyond max_attempts.           *)
THEOREM InboundTypes == InboundSpec => []InboundTypeOK
<1>1. IInv => InboundTypeOK
  BY DEF IInv
<1>. QED  BY <1>1, IInvHolds, PTL

(* An event takes effect at most once, and a processed one did             *)
(* (processInbound, with ON CONFLICT DO NOTHING of the ingestion).          *)
THEOREM IngestedAtMostOnce == InboundSpec => []IngestedOnce
<1>1. IInv => IngestedOnce
  BY DEF IInv
<1>. QED  BY <1>1, IInvHolds, PTL

-----------------------------------------------------------------------------
(* What a step may never do.                                                *)

\* What SettledByLatestClaim says of a step.
SettlesLatest ==
  \A e \in Events :
    state[e] = "processing" /\ state'[e] \in {"processed", "failed"} =>
      \E w \in Workers : /\ work[w] = e
                         /\ step'[w] # step[w]
                         /\ grant[w] = attempt[e]

\* What AlertIsFinal says of a step.
KeepsAlerted ==
  \A e \in Events : alerted[e] => state'[e] = state[e] /\ attempt'[e] = attempt[e]

(* Only Ingest and Fail settle a row, and they look at its owner.           *)
LEMMA LatestSettles ==
  ASSUME IInv, [InboundNext]_ivars
  PROVE  SettlesLatest
<1> USE DEF IInv, InboundTypeOK, CallsHaveEvents, OwnersAreLatest, SettlesLatest, rowOnly
<1>1. CASE UNCHANGED ivars
  BY <1>1 DEF ivars
<1>2. ASSUME NEW e \in Events,
             BeginReceipt(e) \/ StoreReceipt(e) \/ RecordWamid(e)
               \/ BackoffEnds(e) \/ LeaseEnds(e)
      PROVE  SettlesLatest
  BY <1>2 DEF BeginReceipt, StoreReceipt, RecordWamid, BackoffEnds, LeaseEnds
<1>3. ASSUME NEW e \in Events, NEW w \in Workers, Claim(w, e) PROVE SettlesLatest
  BY <1>3 DEF Claim
<1>4. ASSUME NEW w \in Workers, Ingest(w) PROVE SettlesLatest
  BY <1>4 DEF Ingest, Settleable
<1>5. ASSUME SurfaceInTurn \/ \E w \in Workers : IngestThrows(w) \/ Surface(w) \/ Die(w)
      PROVE  SettlesLatest
  BY <1>5 DEF IngestThrows, Surface, SurfaceInTurn, Die
<1>6. ASSUME NEW w \in Workers, Fail(w) PROVE SettlesLatest
  BY <1>6 DEF Fail, Settleable
<1>. QED  BY <1>1, <1>2, <1>3, <1>4, <1>5, <1>6 DEF InboundNext

(* An exhausted event is neither due nor settleable.                        *)
LEMMA AlertedStays ==
  ASSUME IInv, [InboundNext]_ivars
  PROVE  KeepsAlerted
<1> USE InboundAssumption
    DEF IInv, InboundTypeOK, AlertsAreExhausted, Exhausted, KeepsAlerted, rowOnly
<1>1. CASE UNCHANGED ivars
  BY <1>1 DEF ivars
<1>2. ASSUME NEW e \in Events,
             BeginReceipt(e) \/ StoreReceipt(e) \/ RecordWamid(e)
               \/ BackoffEnds(e) \/ LeaseEnds(e)
      PROVE  KeepsAlerted
  BY <1>2 DEF BeginReceipt, StoreReceipt, RecordWamid, BackoffEnds, LeaseEnds
<1>3. ASSUME NEW e \in Events, NEW w \in Workers, Claim(w, e) PROVE KeepsAlerted
  BY <1>3 DEF Claim, Due
<1>4. ASSUME NEW w \in Workers, Ingest(w) PROVE KeepsAlerted
  BY <1>4 DEF Ingest, Settleable
<1>5. ASSUME SurfaceInTurn \/ \E w \in Workers : IngestThrows(w) \/ Surface(w) \/ Die(w)
      PROVE  KeepsAlerted
  BY <1>5 DEF IngestThrows, Surface, SurfaceInTurn, Die
<1>6. ASSUME NEW w \in Workers, Fail(w) PROVE KeepsAlerted
  BY <1>6 DEF Fail, Settleable
<1>. QED  BY <1>1, <1>2, <1>3, <1>4, <1>5, <1>6 DEF InboundNext

(* complete_ and fail_inbound_event, fenced by a worker's name only, are    *)
(* never the work of an earlier claim.                                      *)
THEOREM LatestClaimSettles == InboundSpec => SettledByLatestClaim
<1>1. IInv /\ [InboundNext]_ivars => [SettlesLatest]_ivars
  BY LatestSettles
<1>. QED  BY <1>1, IInvHolds, PTL DEF InboundSpec, SettledByLatestClaim, SettlesLatest

(* An alerted event is never tried, completed or failed again.              *)
THEOREM AlertsAreFinal == InboundSpec => AlertIsFinal
<1>1. IInv /\ [InboundNext]_ivars => [KeepsAlerted]_ivars
  BY AlertedStays
<1>. QED  BY <1>1, IInvHolds, PTL DEF InboundSpec, AlertIsFinal, KeepsAlerted
-----------------------------------------------------------------------------
(* Nobody's last attempt is forgotten, as long as no process dies in it.    *)

\* A call that was given the latest attempt still has the row, until it has
\* failed it; no call was given an attempt beyond the row's.
LatestOwns ==
  \A w \in Workers : \A e \in Events : work[w] = e =>
    /\ grant[w] <= attempt[e]
    /\ grant[w] = attempt[e] =>
         \/ step[w] \in {"ingest", "failing"} /\ state[e] = "processing" /\ owner[e] = w
         \/ step[w] = "surfacing" /\ state[e] = "failed"

\* An event that used all its attempts was processed or alerted, or the call
\* of the last one is still at it.
SpentIsAttended ==
  \A e \in Events : attempt[e] = MaxAttempts =>
    \/ state[e] = "processed"
    \/ alerted[e]
    \/ \E w \in Workers : work[w] = e /\ grant[w] = attempt[e]

(* Another call of the event takes the next attempt, or is not the owner.   *)
LEMMA LatestOwnsStep ==
  ASSUME IInv, LatestOwns, [InboundNext]_ivars
  PROVE  LatestOwns'
<1> USE InboundAssumption
    DEF IInv, InboundTypeOK, CallsHaveEvents, OwnersAreLatest, LatestOwns
<1>1. CASE UNCHANGED <<attempt, state, owner, calls>>
  BY <1>1 DEF calls
<1>2. ASSUME NEW e \in Events, BeginReceipt(e) \/ StoreReceipt(e) PROVE LatestOwns'
  BY <1>2 DEF BeginReceipt, StoreReceipt, calls
<1>3. ASSUME NEW e \in Events, NEW w \in Workers, Claim(w, e) PROVE LatestOwns'
  <2>1. /\ \A d \in Events : d # e => /\ attempt'[d] = attempt[d] /\ state'[d] = state[d]
                                      /\ owner'[d] = owner[d]
        /\ attempt'[e] = attempt[e] + 1 /\ state'[e] = "processing" /\ owner'[e] = w
    BY <1>3 DEF Claim
  <2>2. /\ \A v \in Workers : v # w => /\ work'[v] = work[v] /\ grant'[v] = grant[v]
                                       /\ step'[v] = step[v]
        /\ work'[w] = e /\ step'[w] = "ingest" /\ grant'[w] = attempt'[e]
    BY <1>3 DEF Claim
  <2>. QED  BY <2>1, <2>2
<1>4. ASSUME NEW w \in Workers, Ingest(w) PROVE LatestOwns'
  <2>1. work[w] \in Events
    BY <1>4 DEF Ingest
  <2>. QED  BY <1>4, <2>1 DEF Ingest, Settleable
<1>5. ASSUME NEW w \in Workers, Fail(w) PROVE LatestOwns'
  <2>1. work[w] \in Events
    BY <1>5 DEF Fail
  <2>. QED  BY <1>5, <2>1 DEF Fail, Settleable
<1>6. ASSUME NEW w \in Workers, IngestThrows(w) \/ Surface(w) \/ Die(w) PROVE LatestOwns'
  BY <1>6 DEF IngestThrows, Surface, Die, rowOnly
<1>. QED
  BY <1>1, <1>2, <1>3, <1>4, <1>5, <1>6
  DEF InboundNext, ivars, calls, rowOnly, RecordWamid, BackoffEnds, LeaseEnds, SurfaceInTurn

(* The call of the last attempt processes the event, or fails it and then   *)
(* raises its alert; nobody else takes the event from it.                   *)
LEMMA AttendedStep ==
  ASSUME ~MayDieLast, IInv, LatestOwns, SpentIsAttended, [InboundNext]_ivars
  PROVE  SpentIsAttended'
<1> USE InboundAssumption
    DEF IInv, InboundTypeOK, CallsHaveEvents, LatestOwns, SpentIsAttended
<1>1. CASE UNCHANGED <<attempt, state, alerted, work, grant>>
  BY <1>1
<1>2. ASSUME NEW e \in Events, BeginReceipt(e) \/ StoreReceipt(e) PROVE SpentIsAttended'
  BY <1>2 DEF BeginReceipt, StoreReceipt, calls
<1>3. ASSUME NEW e \in Events, NEW w \in Workers, Claim(w, e) PROVE SpentIsAttended'
  <2>1. ASSUME NEW d \in Events, attempt'[d] = MaxAttempts, d # e
        PROVE  \/ state'[d] = "processed" \/ alerted'[d]
               \/ \E v \in Workers : work'[v] = d /\ grant'[v] = attempt'[d]
    <3>1. attempt'[d] = attempt[d] /\ state'[d] = state[d] /\ alerted'[d] = alerted[d]
      BY <1>3, <2>1 DEF Claim
    <3>2. \A v \in Workers : work[v] = d => work'[v] = d /\ grant'[v] = grant[v]
      BY <1>3 DEF Claim
    <3>. QED  BY <2>1, <3>1, <3>2
  <2>2. work'[w] = e /\ grant'[w] = attempt'[e]
    BY <1>3 DEF Claim
  <2>. QED  BY <2>1, <2>2
<1>4. ASSUME NEW w \in Workers, Ingest(w) PROVE SpentIsAttended'
  <2>1. work[w] \in Events
    BY <1>4 DEF Ingest
  <2>. QED  BY <1>4, <2>1 DEF Ingest, Settleable
<1>5. ASSUME NEW w \in Workers, Fail(w) PROVE SpentIsAttended'
  <2>1. work[w] \in Events
    BY <1>5 DEF Fail
  <2>. QED  BY <1>5, <2>1 DEF Fail, Settleable
<1>6. ASSUME NEW w \in Workers, Surface(w) PROVE SpentIsAttended'
  <2>1. /\ UNCHANGED <<attempt, state>>
        /\ \A e \in Events : alerted[e] \/ Exhausted(e) => alerted'[e]
        /\ \A v \in Workers : v # w => work'[v] = work[v] /\ grant'[v] = grant[v]
    <3>1. \A v \in Workers : v # w => work'[v] = work[v] /\ grant'[v] = grant[v]
      BY <1>6 DEF Surface
    <3> HIDE DEF IInv, InboundTypeOK, CallsHaveEvents, LatestOwns, SpentIsAttended
    <3>2. UNCHANGED <<attempt, state>> /\ Surfaced
      BY <1>6 DEF Surface, rowOnly
    <3>3. \A e \in Events : alerted[e] \/ Exhausted(e) => alerted'[e]
      BY <3>2 DEF Surfaced
    <3>. QED  BY <3>1, <3>2, <3>3
  <2>2. ASSUME NEW e \in Events, attempt[e] = MaxAttempts, work[w] = e, grant[w] = attempt[e]
        PROVE  Exhausted(e)
    BY <1>6, <2>2 DEF Surface, Exhausted
  <2>. QED  BY <2>1, <2>2
<1>7. ASSUME NEW w \in Workers, Die(w) PROVE SpentIsAttended'
  BY <1>7 DEF Die, rowOnly
<1>8. CASE SurfaceInTurn
  BY <1>8 DEF SurfaceInTurn, Surfaced, rowOnly, calls
<1>. QED
  BY <1>1, <1>2, <1>3, <1>4, <1>5, <1>6, <1>7, <1>8
  DEF InboundNext, ivars, calls, rowOnly, RecordWamid, BackoffEnds, LeaseEnds, IngestThrows

(* When no process dies in the last attempt of an event, the event is never *)
(* left behind: processed, alerted, or still in the hands of the call that  *)
(* will do one of the two.  A death then is what the run inbound_alert      *)
(* shows to leave it, and nothing else can.                                 *)
THEOREM LastAttemptAttended ==
  ASSUME ~MayDieLast PROVE InboundSpec => []SpentIsAttended
<1>1. InboundInit => LatestOwns /\ SpentIsAttended
  BY InboundAssumption DEF InboundInit, LatestOwns, SpentIsAttended
<1>2. IInv /\ LatestOwns /\ [InboundNext]_ivars => LatestOwns'
  BY LatestOwnsStep
<1>3. IInv /\ LatestOwns /\ SpentIsAttended /\ [InboundNext]_ivars => SpentIsAttended'
  BY AttendedStep
<1>. QED  BY <1>1, <1>2, <1>3, IInvHolds, PTL DEF InboundSpec
=============================================================================
