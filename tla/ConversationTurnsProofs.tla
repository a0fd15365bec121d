---------------------- MODULE ConversationTurnsProofs ----------------------
(****************************************************************************)
(* For any number of messages, workers, attempts and takeovers, with or     *)
(* without debouncing and fair admission: no message is answered twice,     *)
(* answers go out in the order of the messages, and none across a change of *)
(* ownership.                                                               *)
(****************************************************************************)
EXTENDS ConversationTurns, InboundEventsProofs

-----------------------------------------------------------------------------
(* The parts of the inductive invariant, beside that of the inbox.          *)

\* No two messages were received at the same time.
ArrivalsDiffer ==
  \A e \in Events :
    /\ arrival[e] = 0 <=> state[e] = "absent"
    /\ arrival[e] <= Cardinality({d \in Events : arrival[d] > 0})
    /\ \A d \in Events : arrival[d] = arrival[e] => d = e \/ arrival[e] = 0

\* Only what is stored is worked on or takes effect.
WorkIsStored ==
  /\ \A w \in Workers : work[w] \in Events => work[w] \in Stored
  /\ \A e \in Events : applied[e] > 0 => e \in Stored

\* A job is about a message that was ingested, and no other job is; until
\* it is queued its trigger is its own event.
TriggersAreOwn ==
  \A j \in Events :
    /\ IF job[j] = "none" THEN trig[j] = j ELSE j \in Inbox /\ trig[j] \in Inbox
    /\ \A k \in Events : k # j /\ job[j] # "none" /\ job[k] # "none" => trig[j] # trig[k]

\* Where a job's call may be, and that only a job that succeeded has an
\* answer.
CallsOfJobs ==
  \A j \in Events :
    /\ place[j] \in {"claimed", "thinking"} => job[j] = "running"
    /\ ans[j] # "none" => job[j] = "succeeded"

\* An answer carries the epoch its call loaded, or the one its own handoff
\* made of it, and the agent owns that epoch unless it handed it over.
AnswersCarryEpoch ==
  /\ mode = "new" => epoch = 0
  /\ \A j \in Events : ans[j] # "none" =>
       /\ ansEpoch[j] = loaded[j] + (IF handoff[j] THEN 1 ELSE 0)
       /\ ansEpoch[j] <= epoch
       /\ ansEpoch[j] = epoch /\ ~handoff[j] => mode = "ai"

\* What was told was told by a job that has nothing more to say.
ToldByJobs ==
  \A i \in DOMAIN told :
    /\ told[i] \in Inbox
    /\ \E j \in Events : trig[j] = told[i] /\ ans[j] \notin {"none", "queued"}

TInv ==
  /\ IInv
  /\ TurnsTypeOK
  /\ ArrivalsDiffer
  /\ WorkIsStored
  /\ TriggersAreOwn
  /\ CallsOfJobs
  /\ AnswersCarryEpoch
  /\ ToldByJobs
  /\ AnswersInOrder

-----------------------------------------------------------------------------
(* The inbox under the turns.                                               *)

(* A step of the turns is a step of the inbox or leaves it alone.           *)
LEMMA InboxSteps ==
  ASSUME [TurnsNext]_tvars
  PROVE  [InboundNext]_ivars
<1>1. CASE UNCHANGED ivars
  BY <1>1
<1>2. CASE Ingress
  BY <1>2 DEF Ingress, InboundNext
<1>3. ASSUME NEW w \in Workers, IngestTurn(w) PROVE InboundNext
  BY <1>3 DEF IngestTurn, InboundNext
<1>4. ASSUME NEW j \in Events, SendStep(j) \/ ReplyStep(j) PROVE [InboundNext]_ivars
  <2>1. CASE RefuseAnswer(j) \/ Deliver(j) \/ Overtaken(j) \/ Errs(j)
    BY <2>1 DEF RefuseAnswer, Deliver, Overtaken, Errs
  <2>2. CASE Load(j) \/ (\E toPeople \in BOOLEAN : Answer(j, toPeople)) \/ ClearAnswer(j)
    BY <2>2 DEF Load, Answer, ClearAnswer, InboundNext
  <2>. QED  BY <1>4, <2>1, <2>2 DEF SendStep, ReplyStep
<1>. QED
  BY <1>1, <1>2, <1>3, <1>4
  DEF TurnsNext, tvars, TakeOver, Resume, Admit, Lapse, SweepReply

(* The invariant of InboundEvents holds under the turns too.                *)
LEMMA InboxInvStep ==
  ASSUME IInv, [TurnsNext]_tvars PROVE IInv'
  BY InboxSteps, IInvStep

(* The turns drive the inbox by its own rules: what InboundEventsProofs has *)
(* of the inbox, once-only effects, settlement by the latest claim and      *)
(* final alerts, holds with ownership, replies and sends going on beside it.*)
THEOREM TurnsDriveInbox == TurnsSpec => ImplementsInbound
<1>1. TurnsInit => InboundInit
  BY DEF TurnsInit
<1>2. [TurnsNext]_tvars => [InboundNext]_ivars
  BY InboxSteps
<1>. QED  BY <1>1, <1>2, PTL DEF TurnsSpec, InboundSpec, ImplementsInbound

(* Only an ingestion makes an event take effect, and it is never undone.    *)
LEMMA InboxGrows ==
  ASSUME IInv, [InboundNext]_ivars
  PROVE  /\ \A e \in Events : applied[e] > 0 => applied'[e] = applied[e]
         /\ \A e \in Events : applied'[e] # applied[e] =>
              \E w \in Workers : work[w] = e /\ Ingest(w) /\ applied'[e] = 1
<1> USE DEF IInv, InboundTypeOK
<1>1. CASE UNCHANGED applied
  BY <1>1
<1>2. ASSUME NEW w \in Workers, Ingest(w)
      PROVE  /\ work[w] \in Events
             /\ applied' = [applied EXCEPT ![work[w]] = 1]
  BY <1>2 DEF Ingest, Effects, CallsHaveEvents
<1>3. ASSUME NEW w \in Workers, Ingest(w), NEW e \in Events
      PROVE  /\ applied[e] > 0 => applied'[e] = applied[e]
             /\ applied'[e] # applied[e] => work[w] = e /\ applied'[e] = 1
  <2>1. applied[e] \in Nat /\ applied[e] <= 1
    BY DEF IngestedOnce
  <2>. QED  BY <1>2, <1>3, <2>1
<1>. QED
  BY <1>1, <1>3
  DEF InboundNext, ivars, BeginReceipt, StoreReceipt, RecordWamid, BackoffEnds, LeaseEnds,
      Claim, IngestThrows, Fail, Surface, SurfaceInTurn, Die

(* An event that is received is given a later time than all before it.      *)
LEMMA ArrivalsStep ==
  ASSUME IInv, ArrivalsDiffer, [TurnsNext]_tvars PROVE ArrivalsDiffer'
<1> USE InboundAssumption DEF IInv, InboundTypeOK
<1>1. ASSUME UNCHANGED arrival, \A e \in Events : state'[e] = "absent" <=> state[e] = "absent"
      PROVE  ArrivalsDiffer'
  BY <1>1 DEF ArrivalsDiffer
<1>2. ASSUME NEW e \in Events, BeginReceipt(e) PROVE ArrivalsDiffer'
  <2> DEFINE Given == {d \in Events : arrival[d] > 0}
  <2>1. IsFiniteSet(Given) /\ Cardinality(Given) \in Nat
    <3>1. IsFiniteSet(Given)
      BY FS_Subset
    <3>. QED  BY <3>1, FS_CardinalityType
  <2>2. arrival' = [arrival EXCEPT ![e] = 1 + Cardinality(Given)]
    BY <1>2 DEF BeginReceipt
  <2>3. arrival[e] = 0 /\ e \notin Given
    BY <1>2 DEF BeginReceipt, ArrivalsDiffer
  <2>4. {d \in Events : arrival'[d] > 0} = Given \cup {e}
    <3>1. arrival'[e] > 0
      BY <2>1, <2>2
    <3>2. \A d \in Events \ {e} : arrival'[d] = arrival[d]
      BY <2>2
    <3>. QED  BY ONLY <3>1, <3>2, e \in Events
  <2>5. Cardinality(Given \cup {e}) = Cardinality(Given) + 1
    BY <2>1, <2>3, FS_AddElement
  <2>6. state' = [state EXCEPT ![e] = "begun"]
    BY <1>2 DEF BeginReceipt
  <2>7. ASSUME NEW d \in Events, d # e
        PROVE  /\ arrival'[d] = arrival[d] /\ state'[d] = state[d]
               /\ arrival[d] \in Nat /\ arrival[d] <= Cardinality(Given)
               /\ arrival[d] = 0 <=> state[d] = "absent"
               /\ \A c \in Events : arrival[c] = arrival[d] => c = d \/ arrival[d] = 0
    BY <2>2, <2>6, <2>7 DEF ArrivalsDiffer
  <2>8. arrival'[e] = 1 + Cardinality(Given) /\ state'[e] = "begun"
    BY <2>2, <2>6
  <2> HIDE DEF Given
  <2>9. ASSUME NEW d \in Events
        PROVE  /\ arrival'[d] = 0 <=> state'[d] = "absent"
               /\ arrival'[d] <= Cardinality(Given \cup {e})
    <3>1. CASE d = e
      BY <2>1, <2>5, <2>8, <3>1
    <3>2. CASE d # e
      BY <2>1, <2>5, <2>7, <3>2
    <3>. QED  BY <3>1, <3>2
  <2>10. ASSUME NEW c \in Events, NEW d \in Events, arrival'[c] = arrival'[d]
         PROVE  c = d \/ arrival'[d] = 0
    <3>1. CASE c # e /\ d # e
      BY <2>7, <2>10, <3>1
    <3>2. CASE c = e /\ d # e
      BY <2>1, <2>7, <2>8, <2>10, <3>2
    <3>3. CASE c # e /\ d = e
      BY <2>1, <2>7, <2>8, <2>10, <3>3
    <3>. QED  BY <3>1, <3>2, <3>3
  <2>. QED  BY <2>4, <2>9, <2>10 DEF ArrivalsDiffer
<1>3. CASE [InboundNext]_ivars /\ \A e \in Events : ~BeginReceipt(e)
  <2>1. UNCHANGED arrival
    BY <1>3
    DEF InboundNext, ivars, StoreReceipt, RecordWamid, BackoffEnds, LeaseEnds, Claim, Ingest,
        IngestThrows, Fail, Surface, SurfaceInTurn, Die, rowOnly
  <2>2. ASSUME NEW e \in Events PROVE state'[e] = "absent" <=> state[e] = "absent"
    <3>1. CASE UNCHANGED state
      BY <3>1
    <3>2. ASSUME NEW d \in Events, StoreReceipt(d)
          PROVE  state'[e] = "absent" <=> state[e] = "absent"
      BY <3>2 DEF StoreReceipt
    <3>3. ASSUME NEW d \in Events, NEW w \in Workers, Claim(w, d)
          PROVE  state'[e] = "absent" <=> state[e] = "absent"
      BY <3>3 DEF Claim, Due
    <3>4. ASSUME NEW w \in Workers, Ingest(w) \/ Fail(w)
          PROVE  state'[e] = "absent" <=> state[e] = "absent"
      BY <3>4 DEF Ingest, Fail, Settleable
    <3>. QED
      BY <1>3, <3>1, <3>2, <3>3, <3>4
      DEF InboundNext, ivars, RecordWamid, BackoffEnds, LeaseEnds, IngestThrows, Surface, SurfaceInTurn,
          Die, rowOnly
  <2>. QED  BY <1>1, <2>1, <2>2
<1>4. CASE UNCHANGED <<state, arrival>>
  BY <1>1, <1>4
<1>. QED  BY <1>2, <1>3, <1>4, InboxSteps

(* What is stored stays so, and only that is claimed.                       *)
LEMMA StoredStep ==
  ASSUME IInv, WorkIsStored, [TurnsNext]_tvars PROVE WorkIsStored' /\ Stored \subseteq Stored'
<1> USE InboundAssumption DEF IInv, InboundTypeOK
<1>1. CASE UNCHANGED <<state, applied, work>>
  BY <1>1 DEF WorkIsStored, Stored
<1>2. ASSUME [InboundNext]_ivars PROVE Stored \subseteq Stored'
  <2>1. ASSUME NEW e \in Events, BeginReceipt(e) \/ StoreReceipt(e) PROVE Stored \subseteq Stored'
    BY <2>1 DEF BeginReceipt, StoreReceipt, Stored
  <2>2. ASSUME NEW e \in Events, NEW w \in Workers, Claim(w, e) PROVE Stored \subseteq Stored'
    BY <2>2 DEF Claim, Stored
  <2>3. ASSUME NEW w \in Workers, Ingest(w) \/ Fail(w) PROVE Stored \subseteq Stored'
    BY <2>3 DEF Ingest, Fail, Settleable, Stored
  <2>4. CASE UNCHANGED state
    BY <2>4 DEF Stored
  <2>. QED
    BY <1>2, <2>1, <2>2, <2>3, <2>4
    DEF InboundNext, ivars, RecordWamid, BackoffEnds, LeaseEnds, IngestThrows, Surface, SurfaceInTurn, Die,
        rowOnly
<1>3. ASSUME [InboundNext]_ivars, NEW w \in Workers, work'[w] \in Events
      PROVE  work'[w] \in Stored'
  <2>1. CASE work'[w] = work[w]
    BY <1>2, <1>3, <2>1 DEF WorkIsStored
  <2>2. ASSUME NEW e \in Events, NEW v \in Workers, Claim(v, e), work'[w] # work[w]
        PROVE  work'[w] \in Stored'
    <3>1. e \in Stored /\ work'[w] = e
      BY <2>2 DEF Claim, Due, Stored
    <3>. QED  BY <1>2, <1>3, <3>1
  <2>3. ASSUME NEW v \in Workers, Ingest(v) \/ Surface(v) \/ Die(v)
        PROVE  work'[w] = work[w]
    BY <1>3, <2>3 DEF Ingest, Surface, Die
  <2>4. ASSUME NEW v \in Workers, IngestThrows(v) \/ Fail(v) PROVE work'[w] = work[w]
    BY <2>4 DEF IngestThrows, Fail
  <2>5. ASSUME NEW e \in Events, BeginReceipt(e) \/ StoreReceipt(e) \/ RecordWamid(e)
                                   \/ BackoffEnds(e) \/ LeaseEnds(e)
        PROVE  work'[w] = work[w]
    BY <2>5 DEF BeginReceipt, StoreReceipt, RecordWamid, BackoffEnds, LeaseEnds, calls
  <2>6. ASSUME SurfaceInTurn PROVE work'[w] = work[w]
    BY <2>6 DEF SurfaceInTurn, calls
  <2>. QED  BY <1>3, <2>1, <2>2, <2>3, <2>4, <2>5, <2>6 DEF InboundNext, ivars, calls
<1>4. ASSUME [InboundNext]_ivars, NEW e \in Events, applied'[e] > 0 PROVE e \in Stored'
  <2>1. CASE applied'[e] = applied[e]
    BY <1>2, <1>4, <2>1 DEF WorkIsStored
  <2>2. CASE applied'[e] # applied[e]
    BY <1>2, <1>4, <2>2, InboxGrows DEF WorkIsStored
  <2>. QED  BY <2>1, <2>2
<1>. QED  BY <1>1, <1>2, <1>3, <1>4, InboxSteps DEF WorkIsStored

-----------------------------------------------------------------------------
(* What the steps of the turns do, for the provers.                         *)

(* An ingestion queues a job about its message, gives the message to one    *)
(* that waits, or leaves the jobs alone; the first gives an agent.          *)
LEMMA IngestFacts ==
  ASSUME IInv, NEW w \in Workers, IngestTurn(w)
  PROVE  /\ work[w] \in Events
         /\ UNCHANGED <<tries, place, loaded, ans, ansEpoch, handoff, told, arrival>>
         /\ asked' = asked \/ asked' = [asked EXCEPT ![work[w]] = epoch']
         /\ \/ UNCHANGED <<mode, epoch>>
            \/ mode = "new" /\ mode' = "ai" /\ epoch' = epoch + 1
         /\ \/ UNCHANGED <<job, trig>>
            \/ /\ applied[work[w]] = 0 /\ job' = job
               /\ \/ trig' = trig
                  \/ \E j \in Events : job[j] = "queued" /\ trig' = [trig EXCEPT ![j] = work[w]]
            \/ /\ applied[work[w]] = 0 /\ trig' = trig
               /\ job' = [job EXCEPT ![work[w]] = "queued"]
<1>1. work[w] \in Events
  BY DEF IngestTurn, Ingest, IInv, InboundTypeOK, CallsHaveEvents
<1>2. UNCHANGED <<tries, place, loaded, ans, ansEpoch, handoff, told, arrival>>
  BY DEF IngestTurn, Ingest, answers
<1>3. asked' = asked \/ asked' = [asked EXCEPT ![work[w]] = epoch']
  BY DEF IngestTurn
<1>4. \/ UNCHANGED <<mode, epoch>>
      \/ mode = "new" /\ mode' = "ai" /\ epoch' = epoch + 1
  BY DEF IngestTurn
<1>5. UNCHANGED <<job, trig>> \/ (applied[work[w]] = 0 /\ Queue(work[w]))
  BY DEF IngestTurn
<1>6. ASSUME Queue(work[w])
      PROVE  \/ /\ job' = job
                /\ \/ trig' = trig
                   \/ \E j \in Events : job[j] = "queued" /\ trig' = [trig EXCEPT ![j] = work[w]]
             \/ trig' = trig /\ job' = [job EXCEPT ![work[w]] = "queued"]
  <2>1. CASE Debounce /\ \E j \in Events : Unattempted(j)
    <3> DEFINE j == CHOOSE k \in Events : Unattempted(k)
    <3>1. j \in Events /\ Unattempted(j)
      BY <2>1
    <3>2. job' = job /\ Debounced(j, work[w])
      BY <1>6, <2>1 DEF Queue
    <3> HIDE DEF j
    <3>3. trig' = trig \/ trig' = [trig EXCEPT ![j] = work[w]]
      BY <3>2 DEF Debounced
    <3>. QED  BY <3>1, <3>2, <3>3 DEF Unattempted
  <2>2. CASE ~(Debounce /\ \E j \in Events : Unattempted(j))
    BY <1>6, <2>2 DEF Queue
  <2>. QED  BY <2>1, <2>2
<1>. QED  BY <1>1, <1>2, <1>3, <1>4, <1>5, <1>6

\* A job's call comes, goes or ends without an answer.
CallStep(j) ==
  /\ job[j] \notin {"none", "succeeded"}
  /\ job' = [job EXCEPT ![j] = job'[j]]
  /\ job'[j] \in {"running", "retry", "superseded", "disowned", "spent"}
  /\ \/ place' = [place EXCEPT ![j] = "claimed"] /\ job'[j] = "running"
     \/ place' = [place EXCEPT ![j] = "none"]
     \/ place' = [place EXCEPT ![j] = "gone"]
     \/ place' = place /\ place[j] = "gone"
  /\ tries' = tries \/ (tries[j] < MaxReplies /\ tries' = [tries EXCEPT ![j] = @ + 1])
  /\ loaded' = loaded \/ loaded' = [loaded EXCEPT ![j] = 0]
  /\ UNCHANGED <<ivars, asked, mode, epoch, trig, answers>>

(* These are the steps of a call that do not answer.                        *)
LEMMA CallSteps ==
  ASSUME TurnsTypeOK, NEW j \in Events,
         Admit(j) \/ Lapse(j) \/ SweepReply(j) \/ Overtaken(j) \/ Errs(j)
  PROVE  CallStep(j)
<1> USE DEF TurnsTypeOK, CallStep
<1>1. CASE Admit(j)
  BY <1>1 DEF Admit, Attemptable
<1>2. CASE Lapse(j)
  <2>1. job' = job /\ job[j] = "running"
    BY <1>2 DEF Lapse, Running
  <2>2. job' = [job EXCEPT ![j] = job'[j]]
    BY <2>1
  <2>. QED  BY <1>2, <2>1, <2>2 DEF Lapse
<1>3. CASE SweepReply(j)
  BY <1>3 DEF SweepReply
<1>4. CASE Overtaken(j)
  BY <1>4 DEF Overtaken, Running, Finished
<1>5. CASE Errs(j)
  BY <1>5 DEF Errs, Running, Finished
<1>. QED  BY <1>1, <1>2, <1>3, <1>4, <1>5

(* What the agent's answer finds and leaves.                                *)
LEMMA AnswerFacts ==
  ASSUME NEW j \in Events, NEW toPeople \in BOOLEAN, Answer(j, toPeople)
  PROVE  /\ place[j] = "thinking" /\ job[j] = "running" /\ mode = "ai" /\ epoch = loaded[j]
         /\ \/ toPeople /\ epoch < MaxEpoch /\ mode' = "human" /\ epoch' = epoch + 1
            \/ ~toPeople /\ UNCHANGED <<mode, epoch>>
         /\ ans' = [ans EXCEPT ![j] = "queued"]
         /\ ansEpoch' = [ansEpoch EXCEPT ![j] = epoch']
         /\ handoff' = [handoff EXCEPT ![j] = toPeople]
         /\ job' = [job EXCEPT ![j] = "succeeded"]
         /\ place' = [place EXCEPT ![j] = "none"]
         /\ UNCHANGED <<applied, arrival, asked, trig, tries, loaded, told>>
<1>1. \/ toPeople /\ epoch < MaxEpoch /\ mode' = "human" /\ epoch' = epoch + 1
      \/ ~toPeople /\ UNCHANGED <<mode, epoch>>
  BY DEF Answer, HandOver
<1>. QED  BY <1>1 DEF Answer, Owned, Finished, SurfaceInTurn, rowOnly

(* A step of the turns is an ingestion or one of these.                     *)
LEMMA TurnSteps ==
  ASSUME TurnsTypeOK, [TurnsNext]_tvars
  PROVE  \/ UNCHANGED turn
         \/ \E w \in Workers : IngestTurn(w)
         \/ TakeOver \/ Resume
         \/ \E j \in Events :
              \/ CallStep(j) \/ Load(j) \/ (\E toPeople \in BOOLEAN : Answer(j, toPeople))
              \/ ClearAnswer(j) \/ RefuseAnswer(j) \/ Deliver(j)
  BY CallSteps DEF TurnsNext, tvars, Ingress, ReplyStep, SendStep

-----------------------------------------------------------------------------
(* The invariant is kept.                                                   *)

(* Every step keeps the types.                                              *)
LEMMA TurnsTypeStep ==
  ASSUME TInv, [TurnsNext]_tvars PROVE TurnsTypeOK'
<1>1. InboundTypeOK'
  BY InboxInvStep DEF TInv, IInv
<1> USE TurnsAssumption, <1>1 DEF TInv, TurnsTypeOK
<1>2. CASE UNCHANGED turn
  BY <1>2 DEF turn, jobRow, answers
<1>3. ASSUME NEW w \in Workers, IngestTurn(w) PROVE TurnsTypeOK'
  <2>1. epoch' \in 0..MaxEpoch /\ mode' \in {"new", "ai", "human"}
    BY <1>3, IngestFacts DEF AnswersCarryEpoch
  <2>2. asked' \in [Events -> 0..MaxEpoch]
    <3>1. asked' = asked \/ asked' = [asked EXCEPT ![work[w]] = epoch']
      BY <1>3, IngestFacts
    <3>. QED  BY <2>1, <3>1
  <2>3. work[w] \in Events
        /\ UNCHANGED <<tries, place, loaded, ans, ansEpoch, handoff, told>>
    BY <1>3, IngestFacts
  <2>4. job' = job \/ job' = [job EXCEPT ![work[w]] = "queued"]
    BY <1>3, IngestFacts
  <2>5. \/ trig' = trig
        \/ \E j \in Events : trig' = [trig EXCEPT ![j] = work[w]]
    BY <1>3, IngestFacts
  <2>6. trig' \in [Events -> Events]
    BY <2>3, <2>5
  <2>7. job' \in [Events -> {"none", "queued", "running", "retry", "succeeded",
                             "superseded", "disowned", "spent"}]
    BY <2>3, <2>4
  <2>. QED  BY <2>1, <2>2, <2>3, <2>6, <2>7
<1>4. CASE TakeOver \/ Resume
  BY <1>4 DEF TakeOver, Resume, jobRow, answers
<1>5. ASSUME NEW j \in Events, CallStep(j) PROVE TurnsTypeOK'
  <2>1. job' \in [Events -> {"none", "queued", "running", "retry", "succeeded",
                             "superseded", "disowned", "spent"}]
    BY <1>5 DEF CallStep
  <2>2. place' \in [Events -> {"none", "claimed", "thinking", "gone"}]
    BY <1>5 DEF CallStep
  <2>3. tries' \in [Events -> 0..MaxReplies]
    <3>1. tries' = tries \/ (tries[j] < MaxReplies /\ tries' = [tries EXCEPT ![j] = @ + 1])
      BY <1>5 DEF CallStep
    <3>2. CASE tries[j] < MaxReplies /\ tries' = [tries EXCEPT ![j] = @ + 1]
      <4>1. tries[j] \in Nat /\ MaxReplies \in Nat /\ tries[j] + 1 \in 0..MaxReplies
        BY <3>2
      <4>. QED  BY <3>2, <4>1
    <3>. QED  BY <3>1, <3>2
  <2>4. loaded' \in [Events -> 0..MaxEpoch]
    <3>1. loaded' = loaded \/ loaded' = [loaded EXCEPT ![j] = 0]
      BY <1>5 DEF CallStep
    <3>2. 0 \in 0..MaxEpoch
      OBVIOUS
    <3>. QED  BY <3>1, <3>2
  <2>5. UNCHANGED <<asked, mode, epoch, trig, ans, ansEpoch, handoff, told>>
    BY <1>5 DEF CallStep, answers
  <2>. QED  BY <2>1, <2>2, <2>3, <2>4, <2>5
<1>6. ASSUME NEW j \in Events, Load(j) PROVE TurnsTypeOK'
  BY <1>6 DEF Load, answers
<1>7. ASSUME NEW j \in Events, NEW toPeople \in BOOLEAN, Answer(j, toPeople)
      PROVE  TurnsTypeOK'
  <2>1. epoch' \in 0..MaxEpoch /\ mode' \in {"new", "ai", "human"}
    BY <1>7, AnswerFacts
  <2>2. ans' \in [Events -> {"none", "queued", "cleared", "sent", "refused"}]
        /\ ansEpoch' \in [Events -> 0..MaxEpoch]
    <3>1. ans' = [ans EXCEPT ![j] = "queued"] /\ ansEpoch' = [ansEpoch EXCEPT ![j] = epoch']
      BY <1>7, AnswerFacts
    <3>. QED  BY <2>1, <3>1
  <2>4. handoff' \in [Events -> BOOLEAN]
    <3>1. handoff' = [handoff EXCEPT ![j] = toPeople]
      BY <1>7, AnswerFacts
    <3>. QED  BY <1>7, <3>1
  <2>3. job' \in [Events -> {"none", "queued", "running", "retry", "succeeded",
                             "superseded", "disowned", "spent"}]
        /\ place' \in [Events -> {"none", "claimed", "thinking", "gone"}]
    BY <1>7, AnswerFacts
  <2>5. UNCHANGED <<asked, trig, tries, loaded, told>>
    BY <1>7, AnswerFacts
  <2>. QED  BY <2>1, <2>2, <2>3, <2>4, <2>5
<1>8. ASSUME NEW j \in Events, ClearAnswer(j) PROVE TurnsTypeOK'
  <2>1. told' \in Seq(Events)
    BY <1>8 DEF ClearAnswer
  <2>. QED  BY <1>8, <2>1 DEF ClearAnswer, jobRow
<1>9. ASSUME NEW j \in Events, RefuseAnswer(j) \/ Deliver(j) PROVE TurnsTypeOK'
  <2>1. ans' \in [Events -> {"none", "queued", "cleared", "sent", "refused"}]
    BY <1>9 DEF RefuseAnswer, Deliver
  <2>2. UNCHANGED <<mode, epoch, job, trig, tries, place, loaded, ansEpoch, handoff, told, asked>>
    BY <1>9 DEF RefuseAnswer, Deliver, jobRow
  <2>. QED  BY <2>1, <2>2
<1>. QED  BY <1>2, <1>3, <1>4, <1>5, <1>6, <1>7, <1>8, <1>9, TurnSteps

(* What is in the inbox stays there.                                        *)
LEMMA InboxStays ==
  ASSUME TInv, [TurnsNext]_tvars PROVE Inbox \subseteq Inbox'
<1>1. CASE [InboundNext]_ivars
  <2>1. \A e \in Events : applied[e] > 0 => applied'[e] > 0
    BY <1>1, InboxGrows DEF TInv
  <2>. QED  BY <2>1 DEF Inbox
<1>2. CASE UNCHANGED applied
  BY <1>2 DEF Inbox
<1>. QED  BY <1>1, <1>2, InboxSteps

(* A message that was just ingested is nobody's trigger yet.                *)
LEMMA TriggersStep ==
  ASSUME TInv, [TurnsNext]_tvars PROVE TriggersAreOwn'
<1> USE DEF TInv, TurnsTypeOK
<1>0. Inbox \subseteq Inbox'
  BY InboxStays
<1>1. ASSUME UNCHANGED trig, \A j \in Events : job'[j] = "none" <=> job[j] = "none"
      PROVE  TriggersAreOwn'
  BY <1>0, <1>1 DEF TriggersAreOwn
<1>2. ASSUME NEW w \in Workers, IngestTurn(w) PROVE TriggersAreOwn'
  <2> DEFINE e == work[w]
  <2>1. e \in Events /\ e \in Inbox'
    <3>1. e \in Events
      BY <1>2, IngestFacts
    <3>2. applied' = [applied EXCEPT ![e] = 1]
      BY <1>2 DEF IngestTurn, Ingest, Effects
    <3>. QED  BY <3>1, <3>2 DEF Inbox, IInv, InboundTypeOK
  <2>2. CASE UNCHANGED <<job, trig>>
    BY <1>1, <2>2
  <2>3. ASSUME applied[e] = 0
        PROVE  \A j \in Events : job[j] # "none" => j # e /\ trig[j] # e
    BY <2>3 DEF TriggersAreOwn, Inbox
  <2>4. ASSUME NEW j \in Events, job[j] = "queued", trig' = [trig EXCEPT ![j] = e],
               job' = job, applied[e] = 0
        PROVE  TriggersAreOwn'
    <3>1. trig'[j] = e /\ \A k \in Events \ {j} : trig'[k] = trig[k]
      BY <2>1, <2>4
    <3>2. \A k \in Events : IF job[k] = "none" THEN trig'[k] = k
                             ELSE k \in Inbox' /\ trig'[k] \in Inbox'
      BY <1>0, <2>1, <2>4, <3>1 DEF TriggersAreOwn
    <3>3. \A k, i \in Events : k # i /\ job[i] # "none" /\ job[k] # "none" => trig'[i] # trig'[k]
      BY <2>3, <2>4, <3>1 DEF TriggersAreOwn
    <3>. QED  BY <2>4, <3>2, <3>3 DEF TriggersAreOwn
  <2>5. ASSUME trig' = trig, job' = [job EXCEPT ![e] = "queued"], applied[e] = 0
        PROVE  TriggersAreOwn'
    <3>1. job'[e] = "queued" /\ trig'[e] = e
      BY <2>1, <2>3, <2>5 DEF TriggersAreOwn
    <3>2. \A k \in Events \ {e} : job'[k] = job[k] /\ trig'[k] = trig[k]
      BY <2>1, <2>5
    <3> HIDE DEF e, TInv, TurnsTypeOK
    <3>3. TriggersAreOwn
      BY DEF TInv
    <3>4. \A k \in Events : IF job'[k] = "none" THEN trig'[k] = k
                             ELSE k \in Inbox' /\ trig'[k] \in Inbox'
      BY <1>0, <2>1, <3>1, <3>2, <3>3 DEF TriggersAreOwn
    <3>5. \A i, k \in Events : k # i /\ job'[i] # "none" /\ job'[k] # "none" => trig'[i] # trig'[k]
      BY <2>3, <2>5, <3>1, <3>2, <3>3 DEF TriggersAreOwn
    <3>. QED  BY <3>4, <3>5 DEF TriggersAreOwn
  <2>6. CASE UNCHANGED trig /\ job' = job
    BY <2>2, <2>6
  <2> HIDE DEF e
  <2>. QED  BY <1>2, <2>2, <2>4, <2>5, <2>6, IngestFacts DEF e
<1>3. ASSUME NEW j \in Events,
             CallStep(j) \/ Load(j) \/ (\E toPeople \in BOOLEAN : Answer(j, toPeople))
      PROVE  TriggersAreOwn'
  <2>1. trig' = trig
    BY <1>3, AnswerFacts DEF CallStep, Load
  <2>2. job[j] # "none" /\ job'[j] # "none" /\ \A k \in Events \ {j} : job'[k] = job[k]
    BY <1>3, AnswerFacts DEF CallStep, Load
  <2>. QED  BY <1>1, <2>1, <2>2
<1>4. CASE UNCHANGED <<job, trig>>
  BY <1>1, <1>4
<1>. QED
  BY <1>2, <1>3, <1>4, TurnSteps
  DEF turn, jobRow, TakeOver, Resume, ClearAnswer, RefuseAnswer, Deliver

(* A job that has an answer has no call, and no step gives it one.          *)
LEMMA CallsOfJobsStep ==
  ASSUME TInv, [TurnsNext]_tvars PROVE CallsOfJobs'
<1> USE DEF TInv, TurnsTypeOK
<1>1. CASE UNCHANGED <<job, place, ans>>
  BY <1>1 DEF CallsOfJobs
<1>2. ASSUME NEW w \in Workers, IngestTurn(w) PROVE CallsOfJobs'
  <2>1. UNCHANGED <<place, ans>> /\ work[w] \in Events
    BY <1>2, IngestFacts
  <2>2. CASE job' = job
    BY <2>1, <2>2 DEF CallsOfJobs
  <2>3. CASE applied[work[w]] = 0 /\ job' = [job EXCEPT ![work[w]] = "queued"]
    <3>1. job[work[w]] = "none"
      BY <2>1, <2>3 DEF TriggersAreOwn, Inbox
    <3>. QED  BY <2>1, <2>3, <3>1 DEF CallsOfJobs
  <2>. QED  BY <1>2, <2>2, <2>3, IngestFacts
<1>3. ASSUME NEW j \in Events, CallStep(j) PROVE CallsOfJobs'
  <2>1. \A k \in Events \ {j} : UNCHANGED <<job[k], place[k], ans[k]>>
    BY <1>3 DEF CallStep, answers
  <2>2. ans'[j] = "none"
    BY <1>3 DEF CallStep, CallsOfJobs, answers
  <2>3. place'[j] \in {"claimed", "thinking"} => job'[j] = "running"
    BY <1>3 DEF CallStep
  <2>. QED  BY <2>1, <2>2, <2>3 DEF CallsOfJobs
<1>4. ASSUME NEW j \in Events, Load(j) PROVE CallsOfJobs'
  BY <1>4 DEF Load, CallsOfJobs, answers
<1>5. ASSUME NEW j \in Events, NEW toPeople \in BOOLEAN, Answer(j, toPeople)
      PROVE  CallsOfJobs'
  <2>1. \A k \in Events \ {j} : UNCHANGED <<job[k], place[k], ans[k]>>
    BY <1>5, AnswerFacts
  <2>2. place'[j] = "none" /\ job'[j] = "succeeded"
    BY <1>5, AnswerFacts
  <2>. QED  BY <2>1, <2>2 DEF CallsOfJobs
<1>6. ASSUME NEW j \in Events, ClearAnswer(j) \/ RefuseAnswer(j) \/ Deliver(j)
      PROVE  CallsOfJobs'
  <2>1. UNCHANGED <<job, place>> /\ ans[j] # "none"
    BY <1>6 DEF ClearAnswer, RefuseAnswer, Deliver, jobRow
  <2>2. \A k \in Events \ {j} : ans'[k] = ans[k]
    BY <1>6 DEF ClearAnswer, RefuseAnswer, Deliver
  <2>. QED  BY <2>1, <2>2 DEF CallsOfJobs
<1>. QED
  BY <1>1, <1>2, <1>3, <1>4, <1>5, <1>6, TurnSteps
  DEF turn, jobRow, answers, TakeOver, Resume

(* Ownership never returns to an epoch it left.                             *)
LEMMA EpochStep ==
  ASSUME TInv, [TurnsNext]_tvars PROVE AnswersCarryEpoch'
<1> USE TurnsAssumption DEF TInv, TurnsTypeOK
<1>1. ASSUME UNCHANGED <<mode, epoch>>,
             \A k \in Events : ans'[k] # "none" =>
               ans[k] # "none" /\ UNCHANGED <<ansEpoch[k], loaded[k], handoff[k]>>
      PROVE  AnswersCarryEpoch'
  BY <1>1 DEF AnswersCarryEpoch
<1>2. ASSUME epoch' = epoch + 1, mode' # "new",
             UNCHANGED <<ans, ansEpoch, loaded, handoff>>
      PROVE  AnswersCarryEpoch'
  BY <1>2 DEF AnswersCarryEpoch
<1>3. ASSUME NEW w \in Workers, IngestTurn(w) PROVE AnswersCarryEpoch'
  BY <1>1, <1>2, <1>3, IngestFacts
<1>4. CASE TakeOver
  <2>1. UNCHANGED <<ans, ansEpoch, loaded, handoff>> /\ mode' = "human"
    BY <1>4 DEF TakeOver, answers, jobRow
  <2>2. CASE mode = "ai"
    BY <1>2, <1>4, <2>1, <2>2 DEF TakeOver
  <2>3. CASE mode = "new"
    BY <1>4, <2>1, <2>3 DEF TakeOver, AnswersCarryEpoch
  <2>. QED  BY <1>4, <2>2, <2>3 DEF TakeOver
<1>5. CASE Resume
  BY <1>2, <1>5 DEF Resume, answers, jobRow
<1>6. ASSUME NEW j \in Events, CallStep(j) \/ Load(j) PROVE AnswersCarryEpoch'
  <2>1. UNCHANGED <<mode, epoch, ans, ansEpoch, handoff>>
    BY <1>6 DEF CallStep, Load, answers
  <2>2. ans[j] = "none"
    BY <1>6 DEF CallStep, Load, CallsOfJobs
  <2>3. \A k \in Events \ {j} : loaded'[k] = loaded[k]
    BY <1>6 DEF CallStep, Load
  <2>. QED  BY <1>1, <2>1, <2>2, <2>3
<1>7. ASSUME NEW j \in Events, NEW toPeople \in BOOLEAN, Answer(j, toPeople)
      PROVE  AnswersCarryEpoch'
  <2>1. \A k \in Events \ {j} : UNCHANGED <<ans[k], ansEpoch[k], handoff[k]>>
    BY <1>7, AnswerFacts
  <2>2. UNCHANGED loaded /\ epoch = loaded[j] /\ mode = "ai"
    BY <1>7, AnswerFacts
  <2>3. ansEpoch'[j] = epoch' /\ handoff'[j] = toPeople
    BY <1>7, AnswerFacts
  <2>4. CASE toPeople /\ mode' = "human" /\ epoch' = epoch + 1
    <3>1. ASSUME NEW k \in Events \ {j}, ans[k] # "none"
          PROVE  ansEpoch[k] <= epoch /\ ansEpoch[k] # epoch'
      BY <2>4, <3>1 DEF AnswersCarryEpoch
    <3>2. ASSUME NEW k \in Events \ {j}, ans'[k] # "none"
          PROVE  /\ ansEpoch'[k] = loaded'[k] + (IF handoff'[k] THEN 1 ELSE 0)
                 /\ ansEpoch'[k] <= epoch' /\ ansEpoch'[k] # epoch'
      BY <2>1, <2>2, <2>4, <3>1, <3>2 DEF AnswersCarryEpoch
    <3>3. handoff'[j] = TRUE /\ ansEpoch'[j] = loaded'[j] + 1
      BY <2>2, <2>3, <2>4
    <3>4. ASSUME NEW k \in Events, ans'[k] # "none"
          PROVE  /\ ansEpoch'[k] = loaded'[k] + (IF handoff'[k] THEN 1 ELSE 0)
                 /\ ansEpoch'[k] <= epoch'
                 /\ ~(ansEpoch'[k] = epoch' /\ ~handoff'[k])
      <4>1. CASE k = j
        <5>1. ansEpoch'[k] = loaded'[k] + (IF handoff'[k] THEN 1 ELSE 0) /\ handoff'[k]
          BY <3>3, <4>1
        <5>2. ansEpoch'[k] <= epoch'
          BY <2>3, <2>4, <4>1
        <5>. QED  BY <5>1, <5>2
      <4>2. CASE k # j
        BY <3>2, <3>4, <4>2
      <4>. QED  BY <4>1, <4>2
    <3>. QED  BY <2>4, <3>4 DEF AnswersCarryEpoch
  <2>5. CASE ~toPeople /\ UNCHANGED <<mode, epoch>>
    <3>1. ASSUME NEW k \in Events \ {j}, ans'[k] # "none"
          PROVE  /\ ansEpoch'[k] = loaded'[k] + (IF handoff'[k] THEN 1 ELSE 0)
                 /\ ansEpoch'[k] <= epoch'
      BY <2>1, <2>2, <2>5, <3>1 DEF AnswersCarryEpoch
    <3>2. handoff'[j] = FALSE /\ ansEpoch'[j] = loaded'[j] + 0
      BY <2>2, <2>3, <2>5
    <3>. QED  BY <2>2, <2>3, <2>5, <3>1, <3>2 DEF AnswersCarryEpoch
  <2>. QED  BY <1>7, <2>4, <2>5, AnswerFacts
<1>8. ASSUME NEW j \in Events, ClearAnswer(j) \/ RefuseAnswer(j) \/ Deliver(j)
      PROVE  AnswersCarryEpoch'
  <2>1. UNCHANGED <<mode, epoch, ansEpoch, loaded, handoff>> /\ ans[j] # "none"
    BY <1>8 DEF ClearAnswer, RefuseAnswer, Deliver, jobRow
  <2>2. \A k \in Events \ {j} : ans'[k] = ans[k]
    BY <1>8 DEF ClearAnswer, RefuseAnswer, Deliver
  <2>. QED  BY <1>1, <2>1, <2>2
<1>9. CASE UNCHANGED turn
  BY <1>1, <1>9 DEF turn, jobRow, answers
<1>. QED  BY <1>3, <1>4, <1>5, <1>6, <1>7, <1>8, <1>9, TurnSteps

(* A trigger moves only before there is an answer, and an answer that was   *)
(* cleared or refused is not queued again.                                  *)
LEMMA ToldStays ==
  ASSUME TInv, [TurnsNext]_tvars, NEW j \in Events, ans[j] \notin {"none", "queued"}
  PROVE  trig'[j] = trig[j] /\ ans'[j] \notin {"none", "queued"}
<1> USE DEF TInv, TurnsTypeOK
<1>0. job[j] = "succeeded"
  BY DEF CallsOfJobs
<1>1. CASE UNCHANGED <<trig, ans>>
  BY <1>1
<1>2. ASSUME NEW w \in Workers, IngestTurn(w)
      PROVE  trig'[j] = trig[j] /\ ans' = ans
  <2>1. work[w] \in Events /\ ans' = ans
    BY <1>2, IngestFacts
  <2>2. ASSUME NEW k \in Events, job[k] = "queued", trig' = [trig EXCEPT ![k] = work[w]]
        PROVE  trig'[j] = trig[j]
    BY <1>0, <2>2
  <2>. QED  BY <1>2, <2>1, <2>2, IngestFacts
<1>3. ASSUME NEW k \in Events, CallStep(k) \/ Load(k) PROVE UNCHANGED <<trig, ans>>
  BY <1>3 DEF CallStep, Load, answers
<1>4. ASSUME NEW k \in Events, NEW toPeople \in BOOLEAN, Answer(k, toPeople)
      PROVE  UNCHANGED trig /\ ans'[j] = ans[j]
  <2>1. k # j
    BY <1>0, <1>4, AnswerFacts
  <2>. QED  BY <1>4, <2>1, AnswerFacts
<1>5. ASSUME NEW k \in Events, ClearAnswer(k) \/ RefuseAnswer(k) \/ Deliver(k)
      PROVE  UNCHANGED trig /\ ans'[j] \notin {"none", "queued"}
  BY <1>5 DEF ClearAnswer, RefuseAnswer, Deliver, jobRow
<1>. QED
  BY <1>1, <1>2, <1>3, <1>4, <1>5, TurnSteps DEF turn, jobRow, answers, TakeOver, Resume

(* Only clearing an answer tells the customer something.                    *)
LEMMA OnlyClearingTells ==
  ASSUME TInv, [TurnsNext]_tvars
  PROVE  UNCHANGED told \/ \E j \in Events : ClearAnswer(j)
<1>1. ASSUME NEW j \in Events, NEW toPeople \in BOOLEAN, Answer(j, toPeople)
      PROVE  UNCHANGED told
  BY <1>1, AnswerFacts
<1>2. ASSUME NEW w \in Workers, IngestTurn(w) PROVE UNCHANGED told
  BY <1>2, IngestFacts DEF TInv
<1>. QED
  BY <1>1, <1>2, TurnSteps
  DEF TInv, turn, answers, TakeOver, Resume, CallStep, Load, RefuseAnswer, Deliver

(* What is told is about messages that were ingested, and each of their     *)
(* jobs is done.                                                            *)
LEMMA ToldStep ==
  ASSUME TInv, [TurnsNext]_tvars PROVE ToldByJobs'
<1> USE DEF TInv, TurnsTypeOK
<1>1. ASSUME NEW m \in Inbox, NEW j \in Events, trig[j] = m, ans[j] \notin {"none", "queued"}
      PROVE  m \in Inbox' /\ \E k \in Events : trig'[k] = m /\ ans'[k] \notin {"none", "queued"}
  BY <1>1, InboxStays, ToldStays
<1>2. CASE UNCHANGED told
  BY <1>1, <1>2 DEF ToldByJobs
<1>3. ASSUME NEW j \in Events, ClearAnswer(j) PROVE ToldByJobs'
  <2>1. told' = Append(told, trig[j]) /\ trig' = trig /\ ans'[j] = "cleared"
    BY <1>3 DEF ClearAnswer, jobRow
  <2>2. trig[j] \in Inbox /\ trig[j] \in Inbox'
    BY <1>3, InboxStays DEF ClearAnswer, Sendable, Current, Latest
  <2>3. /\ DOMAIN told' = 1..(Len(told) + 1) /\ DOMAIN told = 1..Len(told)
        /\ \A i \in 1..Len(told) : told'[i] = told[i]
        /\ told'[Len(told) + 1] = trig[j] /\ Len(told) \in Nat
    BY <2>1
  <2>4. ASSUME NEW i \in DOMAIN told'
        PROVE  /\ told'[i] \in Inbox'
               /\ \E k \in Events : trig'[k] = told'[i] /\ ans'[k] \notin {"none", "queued"}
    <3>1. CASE i \in 1..Len(told)
      <4>1. told'[i] = told[i] /\ i \in DOMAIN told
        BY <2>3, <3>1
      <4>2. told[i] \in Inbox
        BY <4>1 DEF ToldByJobs
      <4>3. PICK k \in Events : trig[k] = told[i] /\ ans[k] \notin {"none", "queued"}
        BY <4>1 DEF ToldByJobs
      <4>4. told[i] \in Inbox' /\ trig'[k] = told[i] /\ ans'[k] \notin {"none", "queued"}
        BY <4>2, <4>3, InboxStays, ToldStays
      <4>. QED  BY <4>1, <4>4
    <3>2. CASE i = Len(told) + 1
      BY <2>1, <2>2, <2>3, <3>2
    <3>. QED  BY <2>3, <3>1, <3>2
  <2>. QED  BY <2>4 DEF ToldByJobs
<1>. QED  BY <1>2, <1>3, OnlyClearingTells

(* A stored event keeps the time it was received at.                        *)
LEMMA ArrivalStays ==
  ASSUME TInv, [TurnsNext]_tvars, NEW e \in Stored PROVE arrival'[e] = arrival[e]
<1> USE DEF TInv, IInv, InboundTypeOK
<1>1. ASSUME NEW d \in Events, BeginReceipt(d) PROVE arrival'[e] = arrival[e]
  BY <1>1 DEF BeginReceipt, Stored
<1>2. CASE UNCHANGED arrival
  BY <1>2
<1>. QED
  BY <1>1, <1>2, InboxSteps
  DEF InboundNext, ivars, StoreReceipt, RecordWamid, BackoffEnds, LeaseEnds, Claim, Ingest,
      IngestThrows, Fail, Surface, SurfaceInTurn, Die, rowOnly

(* The answer that is cleared is about the latest message of the inbox, and *)
(* what was told before was about others.                                   *)
LEMMA OrderStep ==
  ASSUME TInv, [TurnsNext]_tvars PROVE AnswersInOrder'
<1> USE DEF TInv, TurnsTypeOK
<1>1. \A i \in DOMAIN told : told[i] \in Inbox /\ told[i] \in Stored
  BY DEF ToldByJobs, WorkIsStored, Inbox
<1>2. \A i \in DOMAIN told : arrival'[told[i]] = arrival[told[i]]
  BY <1>1, ArrivalStays
<1>3. CASE UNCHANGED told
  BY <1>2, <1>3 DEF AnswersInOrder
<1>4. ASSUME NEW j \in Events, ClearAnswer(j) PROVE AnswersInOrder'
  <2>1. /\ told' = Append(told, trig[j]) /\ UNCHANGED arrival /\ ans[j] = "queued"
        /\ Latest(trig[j])
    BY <1>4 DEF ClearAnswer, Sendable, Current, SurfaceInTurn, rowOnly
  <2>2. /\ DOMAIN told' = 1..(Len(told) + 1) /\ DOMAIN told = 1..Len(told)
        /\ \A i \in 1..Len(told) : told'[i] = told[i]
        /\ told'[Len(told) + 1] = trig[j] /\ Len(told) \in Nat
    BY <2>1
  <2>3. ASSUME NEW i \in DOMAIN told PROVE arrival[told[i]] < arrival[trig[j]]
    <3>1. PICK k \in Events : trig[k] = told[i] /\ ans[k] \notin {"none", "queued"}
      BY DEF ToldByJobs
    <3>2. k # j /\ job[k] # "none" /\ job[j] # "none"
      BY <2>1, <3>1 DEF CallsOfJobs
    <3>3. told[i] # trig[j]
      BY <3>1, <3>2 DEF TriggersAreOwn
    <3>4. told[i] \in Events /\ trig[j] \in Events /\ told[i] \in Stored
      BY <1>1 DEF Stored
    <3>5. arrival[told[i]] # arrival[trig[j]]
      BY <3>3, <3>4 DEF ArrivalsDiffer, Stored
    <3>6. arrival[told[i]] <= arrival[trig[j]]
      BY <1>1, <2>1 DEF Latest
    <3>7. arrival[told[i]] \in Nat /\ arrival[trig[j]] \in Nat
      BY <3>4 DEF IInv, InboundTypeOK
    <3>. QED  BY ONLY <3>5, <3>6, <3>7
  <2>4. ASSUME NEW i \in DOMAIN told', NEW k \in DOMAIN told', i < k
        PROVE  arrival[told'[i]] < arrival[told'[k]]
    <3>1. CASE k \in 1..Len(told)
      <4>1. i \in DOMAIN told /\ k \in DOMAIN told
        BY <2>2, <2>4, <3>1
      <4>2. told'[i] = told[i] /\ told'[k] = told[k]
        BY <2>2, <4>1
      <4>. QED  BY <2>4, <4>1, <4>2 DEF AnswersInOrder
    <3>2. CASE k = Len(told) + 1
      <4>1. i \in DOMAIN told
        BY <2>2, <2>4, <3>2
      <4>2. told'[i] = told[i] /\ told'[k] = trig[j]
        BY <2>2, <3>2, <4>1
      <4>. QED  BY <2>3, <4>1, <4>2
    <3>. QED  BY <2>2, <3>1, <3>2
  <2>. QED  BY <2>1, <2>4 DEF AnswersInOrder
<1>. QED  BY <1>3, <1>4, OnlyClearingTells

(* The conversation starts in the invariant: there is nothing yet.          *)
LEMMA TInvInit == TurnsInit => TInv
<1> SUFFICES ASSUME TurnsInit PROVE TInv
  OBVIOUS
<1> USE InboundAssumption, TurnsAssumption DEF TurnsInit
<1>1. IInv
  BY InitIInv
<1>2. TurnsTypeOK
  BY <1>1 DEF TurnsTypeOK, IInv
<1>3. ArrivalsDiffer
  <2>1. Cardinality({d \in Events : arrival[d] > 0}) \in Nat
    <3>1. IsFiniteSet({d \in Events : arrival[d] > 0})
      BY FS_Subset
    <3>. QED  BY <3>1, FS_CardinalityType
  <2>. QED  BY <2>1 DEF ArrivalsDiffer, InboundInit
<1>4. WorkIsStored /\ TriggersAreOwn
  BY DEF WorkIsStored, TriggersAreOwn, InboundInit
<1>5. CallsOfJobs /\ AnswersCarryEpoch
  BY DEF CallsOfJobs, AnswersCarryEpoch
<1>6. ToldByJobs /\ AnswersInOrder
  BY DEF ToldByJobs, AnswersInOrder
<1>. QED  BY <1>1, <1>2, <1>3, <1>4, <1>5, <1>6 DEF TInv

(* Every part holds in every reachable state.                               *)
THEOREM TInvHolds == TurnsSpec => []TInv
<1>1. TInv /\ [TurnsNext]_tvars => TInv'
  <2> SUFFICES ASSUME TInv, [TurnsNext]_tvars PROVE TInv'
    OBVIOUS
  <2>1. IInv' /\ ArrivalsDiffer' /\ WorkIsStored'
    BY InboxInvStep, ArrivalsStep, StoredStep DEF TInv
  <2>2. TurnsTypeOK' /\ TriggersAreOwn' /\ CallsOfJobs'
    BY TurnsTypeStep, TriggersStep, CallsOfJobsStep
  <2>3. AnswersCarryEpoch' /\ ToldByJobs' /\ AnswersInOrder'
    BY EpochStep, ToldStep, OrderStep
  <2>. QED  BY <2>1, <2>2, <2>3 DEF TInv
<1>. QED  BY TInvInit, <1>1, PTL DEF TurnsSpec

(* The conversation, its jobs and their answers keep their types, and the   *)
(* attempts and the epochs their limits.                                    *)
THEOREM TurnsTypes == TurnsSpec => []TurnsTypeOK
<1>1. TInv => TurnsTypeOK
  BY DEF TInv
<1>. QED  BY TInvHolds, <1>1, PTL

(* No message is answered twice, although the debounce moves triggers       *)
(* between jobs.                                                            *)
THEOREM MessagesAnsweredOnce == TurnsSpec => []OneAnswerPerMessage
<1>1. TInv => OneAnswerPerMessage
  BY DEF TInv, TurnsTypeOK, CallsOfJobs, TriggersAreOwn, OneAnswerPerMessage
<1>. QED  BY TInvHolds, <1>1, PTL

(* Answers are cleared in the order of the messages they are about.         *)
THEOREM AnswersGoInOrder == TurnsSpec => []AnswersInOrder
<1>1. TInv => AnswersInOrder
  BY DEF TInv
<1>. QED  BY TInvHolds, <1>1, PTL

(* An answer composed under one ownership is not cleared under another, and *)
(* under people's only a handover is announced.                             *)
THEOREM NoneAcrossTakeover == TurnsSpec => NoAnswerAcrossTakeover
<1> DEFINE Step == \A j \in Events : ans[j] # "cleared" /\ ans'[j] = "cleared" =>
                     /\ epoch = loaded[j] + (IF handoff[j] THEN 1 ELSE 0)
                     /\ mode = "human" => handoff[j]
<1>1. ASSUME TInv, [TurnsNext]_tvars, NEW j \in Events,
             ans[j] # "cleared", ans'[j] = "cleared"
      PROVE  ClearAnswer(j)
  <2> USE DEF TInv, TurnsTypeOK
  <2>1. CASE UNCHANGED ans
    BY <1>1, <2>1
  <2>2. ASSUME NEW w \in Workers, IngestTurn(w) PROVE UNCHANGED ans
    BY <1>1, <2>2, IngestFacts
  <2>3. ASSUME NEW k \in Events, NEW toPeople \in BOOLEAN, Answer(k, toPeople)
        PROVE  FALSE
    <3>1. ans' = [ans EXCEPT ![k] = "queued"]
      BY <2>3, AnswerFacts
    <3>. QED  BY <1>1, <3>1
  <2>4. ASSUME NEW k \in Events, RefuseAnswer(k) \/ Deliver(k) PROVE FALSE
    BY <1>1, <2>4 DEF RefuseAnswer, Deliver
  <2>5. ASSUME NEW k \in Events, ClearAnswer(k) PROVE k = j
    BY <1>1, <2>5 DEF ClearAnswer
  <2>. QED
    BY <1>1, <2>1, <2>2, <2>3, <2>4, <2>5, TurnSteps
    DEF turn, answers, TakeOver, Resume, CallStep, Load
<1>2. ASSUME TInv, [TurnsNext]_tvars PROVE Step
  <2>1. ASSUME NEW j \in Events, ClearAnswer(j)
        PROVE  /\ epoch = loaded[j] + (IF handoff[j] THEN 1 ELSE 0)
               /\ mode = "human" => handoff[j]
    <3>1. ans[j] = "queued" /\ ansEpoch[j] = epoch
      BY <2>1 DEF ClearAnswer, Sendable
    <3>. QED  BY <1>2, <3>1 DEF TInv, AnswersCarryEpoch
  <2>. QED  BY <1>1, <1>2, <2>1
<1>3. TInv /\ [TurnsNext]_tvars => [Step]_tvars
  BY <1>2
<1>. QED  BY TInvHolds, <1>3, PTL DEF TurnsSpec, NoAnswerAcrossTakeover
-----------------------------------------------------------------------------
(* Nobody is forgotten: the newest message keeps a job as long as the agent *)
(* that was to answer it owns the conversation.                             *)

\* A message is asked of the agent when it takes effect, under the epoch of
\* that moment; a call has loaded the conversation after its message came in.
AskedBefore ==
  /\ \A m \in Events : asked[m] <= epoch /\ (applied[m] = 0 => asked[m] = 0)
  /\ \A j \in Events : place[j] = "thinking" => asked[trig[j]] <= loaded[j] /\ loaded[j] <= epoch

(* Epochs only grow.                                                        *)
LEMMA EpochGrows ==
  ASSUME TInv, [TurnsNext]_tvars PROVE epoch' \in Nat /\ epoch <= epoch'
<1> USE TurnsAssumption DEF TInv, TurnsTypeOK
<1>1. epoch' \in Nat
  BY TurnsTypeStep
<1>2. ASSUME NEW w \in Workers, IngestTurn(w) PROVE epoch' = epoch \/ epoch' = epoch + 1
  BY <1>2, IngestFacts
<1>3. ASSUME NEW j \in Events, NEW toPeople \in BOOLEAN, Answer(j, toPeople)
      PROVE  epoch' = epoch \/ epoch' = epoch + 1
  BY <1>3, AnswerFacts
<1>4. epoch' = epoch \/ epoch' = epoch + 1
  BY <1>2, <1>3, TurnSteps
  DEF turn, TakeOver, Resume, CallStep, Load, ClearAnswer, RefuseAnswer, Deliver
<1>. QED  BY <1>1, <1>4

(* What is stored keeps its place in the order of receipts.                 *)
LEMMA ReceiptStays ==
  ASSUME TInv, [TurnsNext]_tvars, NEW e \in Stored PROVE receipt'[e] = receipt[e]
<1> USE DEF TInv, IInv, InboundTypeOK
<1>1. ASSUME NEW d \in Events, StoreReceipt(d) PROVE receipt'[e] = receipt[e]
  BY <1>1 DEF StoreReceipt, Stored
<1>2. CASE UNCHANGED receipt
  BY <1>2
<1>. QED
  BY <1>1, <1>2, InboxSteps
  DEF InboundNext, ivars, BeginReceipt, RecordWamid, BackoffEnds, LeaseEnds, Claim, Ingest,
      IngestThrows, Fail, Surface, SurfaceInTurn, Die, rowOnly

(* Only the ingestion of a message makes it take effect.                    *)
LEMMA AppliedElsewhere ==
  ASSUME TInv, [TurnsNext]_tvars, ~\E w \in Workers : IngestTurn(w) PROVE applied' = applied
<1>1. CASE Ingress
  BY <1>1
  DEF Ingress, BeginReceipt, StoreReceipt, BackoffEnds, LeaseEnds, Claim, IngestThrows, Fail,
      Surface, Die
<1>. QED
  BY <1>1
  DEF TurnsNext, tvars, ivars, TakeOver, Resume, Admit, Lapse, SweepReply, ReplyStep, Load,
      Overtaken, Errs, Answer, SendStep, ClearAnswer, RefuseAnswer, Deliver, SurfaceInTurn

(* The bookkeeping of the epochs is kept.                                   *)
LEMMA AskedStep ==
  ASSUME TInv, AskedBefore, [TurnsNext]_tvars PROVE AskedBefore'
<1> USE TurnsAssumption DEF TInv, TurnsTypeOK
<1>0. /\ epoch' \in Nat /\ epoch \in Nat /\ epoch <= epoch'
      /\ \A m \in Events : asked[m] \in Nat /\ loaded[m] \in Nat
  BY EpochGrows
<1>1. ASSUME UNCHANGED <<asked, loaded, trig, applied>>,
             \A j \in Events : place'[j] = "thinking" => place[j] = "thinking"
      PROVE  AskedBefore'
  BY <1>0, <1>1 DEF AskedBefore
<1>2. ASSUME NEW w \in Workers, IngestTurn(w) PROVE AskedBefore'
  <2> DEFINE e == work[w]
  <2>1. /\ e \in Events /\ UNCHANGED <<place, loaded>>
        /\ asked' = asked \/ (applied[e] = 0 /\ asked' = [asked EXCEPT ![e] = epoch'])
        /\ trig' = trig \/ \E j \in Events : job[j] = "queued" /\ trig' = [trig EXCEPT ![j] = e]
    BY <1>2, IngestFacts DEF IngestTurn
  <2>2. applied' = [applied EXCEPT ![e] = 1]
    BY <1>2 DEF IngestTurn, Ingest, Effects
  <2>3. ASSUME NEW m \in Events
        PROVE  asked'[m] <= epoch' /\ (applied'[m] = 0 => asked'[m] = 0)
    <3>1. CASE m = e
      BY <1>0, <2>1, <2>2, <3>1 DEF AskedBefore, IInv, InboundTypeOK
    <3>2. CASE m # e
      <4>1. asked'[m] = asked[m]
        BY <2>1, <3>2
      <4>2. applied'[m] = applied[m]
        BY <2>2, <3>2 DEF IInv, InboundTypeOK
      <4>3. asked[m] <= epoch /\ (applied[m] = 0 => asked[m] = 0)
        BY DEF AskedBefore
      <4>. QED  BY <1>0, <4>1, <4>2, <4>3
    <3>. QED  BY <3>1, <3>2
  <2>4. ASSUME NEW j \in Events, place[j] = "thinking"
        PROVE  trig'[j] = trig[j] /\ asked'[trig[j]] = asked[trig[j]]
    <3>1. job[j] = "running" /\ trig[j] \in Inbox
      BY <2>4 DEF CallsOfJobs, TriggersAreOwn
    <3>2. trig'[j] = trig[j]
      BY <2>1, <3>1
    <3>3. applied[trig[j]] # 0
      BY <3>1 DEF Inbox
    <3>. QED  BY <2>1, <3>2, <3>3
  <2> HIDE DEF e
  <2>5. ASSUME NEW j \in Events, place'[j] = "thinking"
        PROVE  asked'[trig'[j]] <= loaded'[j] /\ loaded'[j] <= epoch'
    BY <1>0, <2>1, <2>4, <2>5 DEF AskedBefore
  <2>. QED  BY <2>3, <2>5 DEF AskedBefore
<1>3. ASSUME NEW j \in Events, CallStep(j) PROVE AskedBefore'
  <2>1. /\ UNCHANGED <<asked, trig, applied, epoch>>
        /\ place'[j] # "thinking"
        /\ \A k \in Events \ {j} : place'[k] = place[k] /\ loaded'[k] = loaded[k]
    BY <1>3 DEF CallStep, ivars
  <2>. QED  BY <2>1 DEF AskedBefore
<1>4. ASSUME NEW j \in Events, Load(j) PROVE AskedBefore'
  <2>1. /\ UNCHANGED <<asked, trig, applied, epoch>> /\ loaded'[j] = epoch
        /\ \A k \in Events \ {j} : place'[k] = place[k] /\ loaded'[k] = loaded[k]
    BY <1>4 DEF Load, SurfaceInTurn
  <2>2. asked[trig[j]] <= epoch
    BY DEF AskedBefore
  <2>. QED  BY <1>0, <2>1, <2>2 DEF AskedBefore
<1>5. ASSUME NEW j \in Events, NEW toPeople \in BOOLEAN, Answer(j, toPeople)
      PROVE  AskedBefore'
  <2>1. UNCHANGED <<asked, loaded, trig, applied>> /\ place' = [place EXCEPT ![j] = "none"]
    BY <1>5, AnswerFacts
  <2>. QED  BY <1>1, <2>1
<1>6. ASSUME NEW j \in Events, ClearAnswer(j) \/ RefuseAnswer(j) \/ Deliver(j)
      PROVE  AskedBefore'
  <2>1. UNCHANGED <<asked, loaded, trig, applied, place>>
    BY <1>6 DEF ClearAnswer, RefuseAnswer, Deliver, SurfaceInTurn, jobRow, ivars
  <2>. QED  BY <1>1, <2>1
<1>7. ASSUME UNCHANGED turn \/ TakeOver \/ Resume, ~\E w \in Workers : IngestTurn(w)
      PROVE  AskedBefore'
  <2>1. applied' = applied
    BY <1>7, AppliedElsewhere
  <2>2. UNCHANGED <<asked, loaded, trig, place>>
    BY <1>7 DEF turn, TakeOver, Resume, jobRow
  <2>. QED  BY <1>1, <2>1, <2>2
<1>. QED  BY <1>2, <1>3, <1>4, <1>5, <1>6, <1>7, TurnSteps
(* What an ingestion makes of the jobs, with the order the debounce keeps.  *)
LEMMA QueueFacts ==
  ASSUME NEW e \in Events, Queue(e)
  PROVE  \/ job' = [job EXCEPT ![e] = "queued"] /\ trig' = trig
         \/ \E j \in Events :
              /\ job[j] = "queued" /\ job' = job
              /\ trig' = IF receipt[e] > receipt[trig[j]] THEN [trig EXCEPT ![j] = e] ELSE trig
<1>1. CASE Debounce /\ \E j \in Events : Unattempted(j)
  <2> DEFINE j == CHOOSE k \in Events : Unattempted(k)
  <2>1. j \in Events /\ Unattempted(j)
    BY <1>1
  <2>2. job' = job /\ Debounced(j, e)
    BY <1>1 DEF Queue
  <2> HIDE DEF j
  <2>. QED  BY <2>1, <2>2 DEF Unattempted, Debounced
<1>2. CASE ~(Debounce /\ \E j \in Events : Unattempted(j))
  BY <1>2 DEF Queue
<1>. QED  BY <1>1, <1>2

(* A turn about a message that waits is not overtaken.                      *)
LEMMA WaitingIsCurrent ==
  ASSUME TInv, AskedBefore, NEW j \in Events, trig[j] \in Events, Waits(trig[j]), Running(j)
  PROVE  Owned(j) /\ Current(trig[j])
<1> DEFINE m == trig[j]
<1> USE DEF TInv, IInv, InboundTypeOK, TurnsTypeOK
<1>1. /\ m \in Inbox /\ m \in Events /\ mode = "ai" /\ epoch = asked[m]
      /\ \A n \in Stored \ {m} : arrival[n] < arrival[m] /\ receipt[n] < receipt[m]
  BY DEF Waits
<1>2. Owned(j)
  <2>1. place[j] = "thinking" => asked[m] <= loaded[j] /\ loaded[j] <= epoch
    BY DEF AskedBefore
  <2>2. asked[m] \in Nat /\ loaded[j] \in Nat /\ epoch \in Nat
    BY <1>1
  <2>. QED  BY <1>1, <2>1, <2>2 DEF Owned
<1>3. Latest(m)
  <2>1. Inbox \subseteq Stored /\ Stored \subseteq Events
    BY DEF WorkIsStored, Inbox, Stored
  <2>2. ASSUME NEW n \in Inbox PROVE arrival[n] <= arrival[m]
    <3>1. n \in Stored /\ arrival[n] \in Nat /\ arrival[m] \in Nat
      BY <1>1, <2>1
    <3>2. n # m => arrival[n] < arrival[m]
      BY <1>1, <3>1
    <3> HIDE DEF m, TInv, IInv, InboundTypeOK, TurnsTypeOK
    <3>. QED  BY <3>1, <3>2
  <2>. QED  BY <1>1, <2>2 DEF Latest
<1>4. ASSUME NEW n \in Stored PROVE ~(receipt[n] > receipt[m])
  <2>1. n \in Events /\ receipt[n] \in Nat /\ receipt[m] \in Nat
    BY <1>1 DEF Stored
  <2>2. n # m => receipt[n] < receipt[m]
    BY <1>1
  <2> HIDE DEF m, TInv, IInv, InboundTypeOK, TurnsTypeOK
  <2>. QED  BY <2>1, <2>2
<1>. QED  BY <1>2, <1>3, <1>4 DEF Current

(* A message that waits after an ingestion was kept before, or is the one   *)
(* ingested: it got a job, or a waiting job that was about an older one.    *)
LEMMA IngestKeeps ==
  ASSUME TInv, AskedBefore, NobodyForgotten, [TurnsNext]_tvars,
         NEW w \in Workers, IngestTurn(w), NEW m \in Events, Waits(m)'
  PROVE  Kept(m)'
<1> DEFINE e == work[w]
<1> USE DEF TInv, IInv, InboundTypeOK, TurnsTypeOK
<1>1. /\ e \in Events /\ e \in Stored /\ UNCHANGED ans
      /\ applied' = [applied EXCEPT ![e] = 1]
      /\ Stored \subseteq Stored' /\ \A n \in Stored : receipt'[n] = receipt[n] /\ arrival'[n] = arrival[n]
  <2>1. e \in Events /\ UNCHANGED ans
    BY IngestFacts
  <2>2. applied' = [applied EXCEPT ![e] = 1]
    BY DEF IngestTurn, Ingest, Effects
  <2>. QED  BY <2>1, <2>2, StoredStep, ReceiptStays, ArrivalStays DEF WorkIsStored
<1>2. /\ m \in Inbox' /\ asked'[m] > 0 /\ mode' = "ai" /\ epoch' = asked'[m]
      /\ \A n \in Stored' \ {m} : arrival'[n] < arrival'[m] /\ receipt'[n] < receipt'[m]
  BY DEF Waits
<1>3. m = e \/ m \in Inbox
  BY <1>1, <1>2 DEF Inbox
<1>4. \/ applied[e] = 0 /\ mode' = "ai" /\ Queue(e) /\ asked' = [asked EXCEPT ![e] = epoch']
      \/ UNCHANGED <<job, trig, asked>>
  BY DEF IngestTurn
<1>5. CASE m = e /\ applied[e] = 0
  <2>1. asked[e] = 0 /\ job[e] = "none" /\ trig[e] = e
    BY <1>1, <1>5 DEF AskedBefore, TriggersAreOwn, Inbox
  <2>2. Queue(e)
    BY <1>2, <1>4, <1>5, <2>1
  <2>3. CASE job' = [job EXCEPT ![e] = "queued"] /\ trig' = trig
    <3>1. job'[e] = "queued" /\ trig'[e] = e
      BY <1>1, <2>1, <2>3
    <3>. QED  BY <1>1, <1>5, <3>1 DEF Kept
  <2>4. ASSUME NEW j \in Events, job[j] = "queued", job' = job,
               trig' = IF receipt[e] > receipt[trig[j]] THEN [trig EXCEPT ![j] = e] ELSE trig
        PROVE  Kept(m)'
    <3>0. trig[j] \in Inbox
      BY <2>4 DEF TriggersAreOwn
    <3>1. trig[j] \in Inbox /\ trig[j] \in Stored /\ trig[j] # e
      BY <1>5, <3>0 DEF WorkIsStored, Inbox
    <3>2. receipt'[trig[j]] < receipt'[e]
      BY <1>1, <1>2, <1>5, <3>1
    <3>3. receipt[e] > receipt[trig[j]]
      BY <1>1, <3>1, <3>2 DEF Stored
    <3>4. trig'[j] = e /\ job'[j] = "queued"
      BY <2>4, <3>3
    <3>. QED  BY <1>5, <3>4 DEF Kept
  <2>. QED  BY <1>1, <2>2, <2>3, <2>4, QueueFacts
<1>6. CASE ~(m = e /\ applied[e] = 0)
  <2>1. m \in Inbox /\ m \in Stored
    <3>1. m = e => applied[m] # 0
      BY <1>6
    <3>2. m \in Inbox
      BY <1>3, <3>1 DEF Inbox
    <3>. QED  BY <3>2 DEF Inbox, WorkIsStored
  <2>2. asked'[m] = asked[m]
    BY <1>4, <1>6
  <2>3. UNCHANGED <<mode, epoch>>
    <3>1. asked[m] <= epoch /\ asked[m] \in Nat /\ epoch \in Nat
      BY TurnsAssumption DEF AskedBefore
    <3>. QED  BY <1>2, <2>2, <3>1, IngestFacts
  <2>3a. \A n \in Stored \ {m} : arrival[n] < arrival[m] /\ receipt[n] < receipt[m]
    BY <1>1, <1>2, <2>1
  <2>4. Waits(m)
    BY <1>2, <2>1, <2>2, <2>3, <2>3a DEF Waits
  <2>5. PICK j \in Events : /\ trig[j] = m
                            /\ job[j] \in {"queued", "running", "retry", "spent"} \/ ans[j] # "none"
    BY <2>4 DEF NobodyForgotten, Kept
  <2>6. job'[j] = job[j] \/ job'[j] = "queued"
    <3>1. job' = job \/ job' = [job EXCEPT ![e] = "queued"]
      BY IngestFacts
    <3>. QED  BY <1>1, <3>1
  <2>7. trig'[j] = m
    <3>1. CASE UNCHANGED trig
      BY <2>5, <3>1
    <3>2. ASSUME NEW k \in Events, Queue(e), applied[e] = 0,
                 trig' = IF receipt[e] > receipt[trig[k]] THEN [trig EXCEPT ![k] = e] ELSE trig
          PROVE  trig'[j] = m
      <4>1. m # e
        BY <1>6, <3>2
      <4>2. receipt[e] < receipt[m]
        BY <1>1, <2>3a, <4>1
      <4>3. k = j => ~(receipt[e] > receipt[trig[k]])
        <5>1. receipt[e] \in Nat /\ receipt[m] \in Nat
          BY <1>1
        <5> HIDE DEF e, TInv, IInv, InboundTypeOK, TurnsTypeOK
        <5>. QED  BY <2>5, <4>2, <5>1
      <4>. QED  BY <2>5, <3>2, <4>3
    <3>. QED  BY <1>1, <1>4, <3>1, <3>2, QueueFacts
  <2>. QED  BY <1>1, <2>5, <2>6, <2>7 DEF Kept
<1>. QED  BY <1>5, <1>6

(* A message that waits and is kept is kept by every step of a turn: only   *)
(* an overtaken turn gives its message up, and this one is not overtaken.   *)
LEMMA TurnKeeps ==
  ASSUME TInv, AskedBefore, [TurnsNext]_tvars, ~\E w \in Workers : IngestTurn(w),
         NEW m \in Events, Waits(m), Kept(m)
  PROVE  Kept(m)'
<1> USE DEF TInv, TurnsTypeOK
<1>0. PICK j \in Events : /\ trig[j] = m
                          /\ job[j] \in {"queued", "running", "retry", "spent"} \/ ans[j] # "none"
  BY DEF Kept
<1>1. ASSUME trig' = trig, \/ job'[j] \in {"queued", "running", "retry", "spent"}
                           \/ ans'[j] # "none"
      PROVE  Kept(m)'
  BY <1>0, <1>1 DEF Kept
<1>2. ASSUME trig' = trig, job'[j] = job[j], ans'[j] = ans[j] PROVE Kept(m)'
  BY <1>0, <1>1, <1>2
<1>3. ASSUME NEW k \in Events, Admit(k) \/ Lapse(k) \/ SweepReply(k) \/ Errs(k)
      PROVE  Kept(m)'
  <2>1. UNCHANGED <<trig, ans>>
    BY <1>3 DEF Admit, Lapse, SweepReply, Errs, answers
  <2>2. job'[j] = job[j] \/ job'[j] \in {"running", "spent", "retry"}
    BY <1>3 DEF Admit, Lapse, SweepReply, Errs, Finished
  <2>. QED  BY <1>1, <1>2, <2>1, <2>2
<1>4. ASSUME NEW k \in Events, Overtaken(k) PROVE Kept(m)'
  <2>1. k # j
    BY <1>0, <1>4, WaitingIsCurrent DEF Overtaken
  <2>2. UNCHANGED <<trig, ans>> /\ job'[j] = job[j]
    BY <1>4, <2>1 DEF Overtaken, Finished, answers
  <2>. QED  BY <1>2, <2>2
<1>5. ASSUME NEW k \in Events, NEW toPeople \in BOOLEAN, Answer(k, toPeople) PROVE Kept(m)'
  <2>1. trig' = trig /\ ans' = [ans EXCEPT ![k] = "queued"] /\ job' = [job EXCEPT ![k] = "succeeded"]
    BY <1>5, AnswerFacts
  <2>. QED  BY <1>1, <1>2, <2>1
<1>6. ASSUME NEW k \in Events, ClearAnswer(k) \/ RefuseAnswer(k) \/ Deliver(k) PROVE Kept(m)'
  <2>1. UNCHANGED <<trig, job>> /\ (ans[j] # "none" => ans'[j] # "none")
    BY <1>6 DEF ClearAnswer, RefuseAnswer, Deliver, jobRow
  <2>. QED  BY <1>0, <1>1, <2>1
<1>7. ASSUME NEW k \in Events, Load(k) PROVE Kept(m)'
  BY <1>2, <1>7 DEF Load, answers
<1>8. CASE UNCHANGED turn \/ TakeOver \/ Resume
  BY <1>2, <1>8 DEF turn, TakeOver, Resume, jobRow, answers
<1>. QED
  BY <1>3, <1>4, <1>5, <1>6, <1>7, <1>8
  DEF TurnsNext, tvars, Ingress, ReplyStep, SendStep

(* Nothing but an ingestion makes a message wait that did not before.       *)
LEMMA WaitedBefore ==
  ASSUME TInv, AskedBefore, [TurnsNext]_tvars, ~\E w \in Workers : IngestTurn(w),
         NEW m \in Events, Waits(m)'
  PROVE  Waits(m)
<1> USE TurnsAssumption DEF TInv, TurnsTypeOK
<1>1. /\ m \in Inbox' /\ asked'[m] > 0 /\ mode' = "ai" /\ epoch' = asked'[m]
      /\ \A n \in Stored' \ {m} : arrival'[n] < arrival'[m] /\ receipt'[n] < receipt'[m]
  BY DEF Waits
<1>2. m \in Inbox /\ m \in Stored
  BY <1>1, AppliedElsewhere DEF Inbox, WorkIsStored
<1>3. \A n \in Stored \ {m} : arrival[n] < arrival[m] /\ receipt[n] < receipt[m]
  BY <1>1, <1>2, StoredStep, ReceiptStays, ArrivalStays
<1>4. asked' = asked
  <2>1. ASSUME NEW j \in Events, NEW toPeople \in BOOLEAN, Answer(j, toPeople)
        PROVE  asked' = asked
    BY <2>1, AnswerFacts
  <2>. QED
    BY <2>1, TurnSteps
    DEF turn, TakeOver, Resume, CallStep, Load, ClearAnswer, RefuseAnswer, Deliver
<1>5. asked[m] <= epoch /\ asked[m] \in Nat /\ epoch \in Nat
  BY DEF AskedBefore
<1>6. UNCHANGED <<mode, epoch>>
  <2>1. CASE TakeOver \/ Resume
    BY <1>1, <1>4, <1>5, <2>1 DEF TakeOver, Resume
  <2>2. ASSUME NEW j \in Events, NEW toPeople \in BOOLEAN, Answer(j, toPeople)
        PROVE  UNCHANGED <<mode, epoch>>
    BY <1>1, <2>2, AnswerFacts
  <2>. QED
    BY <2>1, <2>2, TurnSteps
    DEF turn, CallStep, Load, ClearAnswer, RefuseAnswer, Deliver
<1>. QED  BY <1>1, <1>2, <1>3, <1>4, <1>6 DEF Waits

(* The newest message of a conversation the agent has owned since it came   *)
(* in has a job that will answer it, one that did, or one that spent its    *)
(* attempts on it, with or without debouncing, fair admission, lapsed       *)
(* claims and any number of calls at once.                                  *)
THEOREM NewestMessageKept == TurnsSpec => []NobodyForgotten
<1>1. TurnsInit => AskedBefore /\ NobodyForgotten
  BY DEF TurnsInit, InboundInit, AskedBefore, NobodyForgotten, Waits, Inbox
<1>2. TInv /\ AskedBefore /\ [TurnsNext]_tvars => AskedBefore'
  BY AskedStep
<1>3. ASSUME TInv, AskedBefore, NobodyForgotten, [TurnsNext]_tvars PROVE NobodyForgotten'
  <2>1. ASSUME NEW m \in Events, Waits(m)' PROVE Kept(m)'
    <3>1. CASE \E w \in Workers : IngestTurn(w)
      BY <1>3, <2>1, <3>1, IngestKeeps
    <3>2. CASE ~\E w \in Workers : IngestTurn(w)
      <4>1. Waits(m)
        BY <1>3, <2>1, <3>2, WaitedBefore
      <4>2. Kept(m)
        BY <1>3, <4>1 DEF NobodyForgotten
      <4>. QED  BY <1>3, <3>2, <4>1, <4>2, TurnKeeps
    <3>. QED  BY <3>1, <3>2
  <2>. QED  BY <2>1 DEF NobodyForgotten
<1>. QED  BY <1>1, <1>2, <1>3, TInvHolds, PTL DEF TurnsSpec
=============================================================================
