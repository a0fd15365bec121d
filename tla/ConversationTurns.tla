------------------------- MODULE ConversationTurns -------------------------
(****************************************************************************)
(* The turns of one WhatsApp conversation owned by the AI or by people:     *)
(* an ingested message queues a reply job, or moves the trigger of one that *)
(* waits; the job is admitted, loads the conversation, asks the model       *)
(* outside every transaction and commits an answer if nothing overtook it;  *)
(* the answer is checked once more before it is sent.                       *)
(*                                                                          *)
(* The events of InboundEvents are this conversation's messages.  Of a call *)
(* that lost its claim nothing is kept: JobQueue shows it writes nothing.   *)
(****************************************************************************)
EXTENDS InboundEvents, Sequences

CONSTANTS
  Debounce,   \* the tenant's flag 'debounce'
  Fair,       \* the tenant's flag 'queue_priority': fair admission
  MaxReplies, \* max_attempts of a reply job
  MaxEpoch    \* bound on the ownership epochs explored

ASSUME TurnsAssumption ==
  /\ Reports = {}
  /\ Debounce \in BOOLEAN /\ Fair \in BOOLEAN
  /\ MaxReplies \in Nat \ {0} /\ MaxEpoch \in Nat \ {0}

VARIABLES
  mode,     \* who owns the conversation; "new": nobody has owned it yet
  epoch,    \* ownership_epoch
  job,      \* status of the reply job keyed by an event; why it is dead
  trig,     \* its triggerMessageId
  tries,    \* its attempts
  place,    \* how far the job's current call is; "gone" once its claim lapsed
  loaded,   \* the epoch the call loaded the conversation under
  ans,      \* the outbound request the job created
  ansEpoch, \* its ai_ownership_epoch
  handoff,  \* the job handed the conversation to people
  told,     \* history: messages whose answer was cleared, latest last
  asked     \* history: the agent's epoch a message was ingested under

jobRow  == <<job, trig, tries, place, loaded>>
answers == <<ans, ansEpoch, handoff, told>>
turn    == <<mode, epoch, jobRow, answers, asked>>
tvars   == <<ivars, turn>>

TurnsInit ==
  /\ InboundInit
  /\ mode = "new"
  /\ epoch = 0
  /\ job      = [e \in Events |-> "none"]
  /\ trig     = [e \in Events |-> e]
  /\ tries    = [e \in Events |-> 0]
  /\ place    = [e \in Events |-> "none"]
  /\ loaded   = [e \in Events |-> 0]
  /\ ans      = [e \in Events |-> "none"]
  /\ ansEpoch = [e \in Events |-> 0]
  /\ handoff  = [e \in Events |-> FALSE]
  /\ told     = <<>>
  /\ asked    = [e \in Events |-> 0]

Inbox == {e \in Events : applied[e] > 0}

-----------------------------------------------------------------------------
(* Which message is the current one.                                        *)

\* The message is the latest of the inbox, by received_at.
Latest(m) == m \in Inbox /\ \A n \in Inbox : arrival[n] <= arrival[m]

\* An event stored later, by receipt sequence, that may still be ingested.
Pending(n) == state[n] \in {"received", "processing", "failed"}
              /\ (state[n] = "processing" \/ attempt[n] < MaxAttempts)

Current(m) ==
  /\ Latest(m)
  /\ ~\E n \in Stored : receipt[n] > receipt[m] /\ Pending(n)

-----------------------------------------------------------------------------
(* The jobs an ingested message leaves.  The first message gives a          *)
(* conversation nobody owned to the tenant's default agent, if it has one.  *)

Unattempted(j) == job[j] = "queued" /\ tries[j] = 0

\* The waiting job keeps its trigger, whichever message is newer.
Debounced_FaultyKeepsTrigger(j, e) == UNCHANGED trig

\* The waiting job takes the newer trigger, by receipt sequence.
Debounced(j, e) ==
  trig' = IF receipt[e] > receipt[trig[j]] THEN [trig EXCEPT ![j] = e] ELSE trig

\* The ordinary job is queued although the debounced one took the message.
Queue_FaultyBoth(e) ==
  IF Debounce /\ \E j \in Events : Unattempted(j)
    THEN /\ LET j == CHOOSE k \in Events : Unattempted(k) IN Debounced(j, e)
         /\ job' = [job EXCEPT ![e] = "queued"]
    ELSE /\ job' = [job EXCEPT ![e] = "queued"]
         /\ trig' = trig

Queue(e) ==
  IF Debounce /\ \E j \in Events : Unattempted(j)
    THEN /\ LET j == CHOOSE k \in Events : Unattempted(k) IN Debounced(j, e)
         /\ job' = job
    ELSE /\ job' = [job EXCEPT ![e] = "queued"]
         /\ trig' = trig

IngestTurn(w) ==
  LET e == work[w] IN
    /\ Ingest(w)
    /\ \/ mode = "new" /\ mode' = "ai" /\ epoch' = epoch + 1 /\ applied[e] = 0
       \/ UNCHANGED <<mode, epoch>>
    /\ IF applied[e] = 0 /\ mode' = "ai"
         THEN Queue(e) /\ asked' = [asked EXCEPT ![e] = epoch']
         ELSE UNCHANGED <<job, trig, asked>>
    /\ UNCHANGED <<tries, place, loaded, answers>>

-----------------------------------------------------------------------------
(* People and the agent.                                                    *)

\* An operator takes the conversation, or answers from the phone.  Taking it
\* from nobody leaves the columns of the epoch's trigger as they were.
TakeOver ==
  /\ mode # "human" /\ epoch < MaxEpoch
  /\ mode' = "human"
  /\ epoch' = IF mode = "ai" THEN epoch + 1 ELSE epoch
  /\ UNCHANGED <<ivars, asked, jobRow, answers>>

\* An operator gives it to the agent, or renews its authority in his name.
Resume ==
  /\ epoch < MaxEpoch
  /\ mode' = "ai"
  /\ epoch' = epoch + 1
  /\ UNCHANGED <<ivars, asked, jobRow, answers>>

-----------------------------------------------------------------------------
(* The reply job.                                                           *)

Running(j) == job[j] = "running" /\ place[j] # "gone"

\* Off by one: one attempt more than max_attempts.
Attemptable_FaultyLimit(j) ==
  /\ tries[j] <= MaxReplies
  /\ job[j] \in {"queued", "retry"} \/ (job[j] = "running" /\ place[j] = "gone")

Attemptable(j) ==
  /\ tries[j] < MaxReplies
  /\ job[j] \in {"queued", "retry"} \/ (job[j] = "running" /\ place[j] = "gone")

\* Fair admission allows one live call per conversation, the ordinary claim
\* of the queue as many as there are workers.
Admit(j) ==
  /\ Attemptable(j)
  /\ Fair => \A k \in Events : ~Running(k)
  /\ job'    = [job EXCEPT ![j] = "running"]
  /\ tries'  = [tries EXCEPT ![j] = @ + 1]
  /\ place'  = [place EXCEPT ![j] = "claimed"]
  /\ loaded' = [loaded EXCEPT ![j] = 0]
  /\ UNCHANGED <<ivars, asked, mode, epoch, trig, answers>>

\* The process died or its renewals failed for the length of the lease.
Lapse(j) ==
  /\ Running(j)
  /\ place' = [place EXCEPT ![j] = "gone"]
  /\ UNCHANGED <<ivars, asked, mode, epoch, job, trig, tries, loaded, answers>>

\* The queue's sweep closes a lapsed claim that was the last.
SweepReply(j) ==
  /\ job[j] = "running" /\ place[j] = "gone" /\ tries[j] >= MaxReplies
  /\ job' = [job EXCEPT ![j] = "spent"]
  /\ UNCHANGED <<ivars, asked, mode, epoch, trig, tries, place, loaded, answers>>

\* The call looks at the ownership mode only, not at the epoch it loaded.
Owned_FaultyModeOnly(j) == mode = "ai"

\* The conversation is still the agent's, under the authority it loaded.
Owned(j) == mode = "ai" /\ (place[j] = "thinking" => epoch = loaded[j])

\* The conversation is read, and its epoch kept, before the model is asked.
Load(j) ==
  /\ place[j] = "claimed" /\ job[j] = "running"
  /\ Owned(j) /\ Current(trig[j])
  /\ place'  = [place EXCEPT ![j] = "thinking"]
  /\ loaded' = [loaded EXCEPT ![j] = epoch]
  /\ SurfaceInTurn
  /\ UNCHANGED <<asked, mode, epoch, job, trig, tries, answers>>

Finished(j, s) == /\ job'   = [job EXCEPT ![j] = s]
                  /\ place' = [place EXCEPT ![j] = "none"]

\* An overtaken turn throws a TypeError: permanent, and the alerts its
\* transaction raised are rolled back.
Overtaken(j) ==
  /\ Running(j)
  /\ ~(Owned(j) /\ Current(trig[j]))
  /\ Finished(j, IF Owned(j) THEN "superseded" ELSE "disowned")
  /\ UNCHANGED <<ivars, asked, mode, epoch, trig, tries, loaded, answers>>

\* Any other error: again later, until the attempts are spent.
Errs(j) ==
  /\ Running(j)
  /\ Finished(j, IF tries[j] >= MaxReplies THEN "spent" ELSE "retry")
  /\ UNCHANGED <<ivars, asked, mode, epoch, trig, tries, loaded, answers>>

\* createAiHandoff, unless only a callback was asked for.
HandOver ==
  /\ epoch < MaxEpoch
  /\ mode' = "human"
  /\ epoch' = epoch + 1

\* The model's answer, a tool's receipt or the fallback for a failed model is
\* queued, with the epoch of that moment, by the transaction that ends the
\* job.  A handoff gives the conversation to people first.
Answer(j, toPeople) ==
  /\ place[j] = "thinking" /\ job[j] = "running"
  /\ Owned(j) /\ Current(trig[j])
  /\ IF toPeople THEN HandOver ELSE UNCHANGED <<mode, epoch>>
  /\ ans'      = [ans EXCEPT ![j] = "queued"]
  /\ ansEpoch' = [ansEpoch EXCEPT ![j] = epoch']
  /\ handoff'  = [handoff EXCEPT ![j] = toPeople]
  /\ Finished(j, "succeeded")
  /\ SurfaceInTurn
  /\ UNCHANGED <<asked, trig, tries, loaded, told>>

-----------------------------------------------------------------------------
(* The answer on its way out: OutboundDelivery in three steps.              *)

\* The send does not look at the conversation again.
Sendable_FaultyEpochOnly(j) == ansEpoch[j] = epoch

Sendable(j) == ansEpoch[j] = epoch /\ Current(trig[j])

ClearAnswer(j) ==
  /\ ans[j] = "queued" /\ Sendable(j)
  /\ ans' = [ans EXCEPT ![j] = "cleared"]
  /\ told' = Append(told, trig[j])
  /\ SurfaceInTurn
  /\ UNCHANGED <<asked, mode, epoch, jobRow, ansEpoch, handoff>>

RefuseAnswer(j) ==
  /\ ans[j] = "queued" /\ ~Sendable(j)
  /\ ans' = [ans EXCEPT ![j] = "refused"]
  /\ UNCHANGED <<ivars, asked, mode, epoch, jobRow, ansEpoch, handoff, told>>

\* The provider takes it, or the attempt ends failed or quarantined.
Deliver(j) ==
  /\ ans[j] = "cleared"
  /\ \E s \in {"sent", "refused"} : ans' = [ans EXCEPT ![j] = s]
  /\ UNCHANGED <<ivars, asked, mode, epoch, jobRow, ansEpoch, handoff, told>>

-----------------------------------------------------------------------------
\* The steps of InboundEvents that are not an ingestion.
Ingress ==
  /\ \/ \E e \in Events : \/ BeginReceipt(e) \/ StoreReceipt(e)
                          \/ BackoffEnds(e) \/ LeaseEnds(e)
                          \/ \E w \in Workers : Claim(w, e)
     \/ \E w \in Workers : IngestThrows(w) \/ Fail(w) \/ Surface(w) \/ Die(w)
  /\ UNCHANGED turn

ReplyStep(j) == \/ Load(j) \/ Overtaken(j) \/ Errs(j)
                \/ \E toPeople \in BOOLEAN : Answer(j, toPeople)

SendStep(j) == ClearAnswer(j) \/ RefuseAnswer(j) \/ Deliver(j)

TurnsNext ==
  \/ Ingress
  \/ \E w \in Workers : IngestTurn(w)
  \/ TakeOver
  \/ Resume
  \/ \E j \in Events : Admit(j) \/ Lapse(j) \/ SweepReply(j) \/ ReplyStep(j) \/ SendStep(j)

TurnsSpec == TurnsInit /\ [][TurnsNext]_tvars

\* The workers' polls go on, whatever people and the provider do.
TurnsFairSpec ==
  /\ TurnsSpec
  /\ \A j \in Events :
       /\ WF_tvars(Admit(j)) /\ WF_tvars(SweepReply(j))
       /\ WF_tvars(ReplyStep(j)) /\ WF_tvars(SendStep(j))

-----------------------------------------------------------------------------
TurnsTypeOK ==
  /\ InboundTypeOK
  /\ mode     \in {"new", "ai", "human"}
  /\ epoch    \in 0..MaxEpoch
  /\ job      \in [Events -> {"none", "queued", "running", "retry", "succeeded",
                              "superseded", "disowned", "spent"}]
  /\ trig     \in [Events -> Events]
  /\ tries    \in [Events -> 0..MaxReplies]
  /\ place    \in [Events -> {"none", "claimed", "thinking", "gone"}]
  /\ loaded   \in [Events -> 0..MaxEpoch]
  /\ ans      \in [Events -> {"none", "queued", "cleared", "sent", "refused"}]
  /\ ansEpoch \in [Events -> 0..MaxEpoch]
  /\ handoff  \in [Events -> BOOLEAN]
  /\ told     \in Seq(Events)
  /\ asked    \in [Events -> 0..MaxEpoch]

(* No message is answered twice: jobs are keyed by events, but the debounce *)
(* moves triggers between them, and events are ingested in any order.       *)
OneAnswerPerMessage ==
  \A i, j \in Events : i # j /\ ans[i] # "none" /\ ans[j] # "none" =>
    trig[i] # trig[j]

(* The customer is never answered about a message after having been         *)
(* answered about a later one, whatever the order in which answers are      *)
(* composed, queued and sent.                                               *)
AnswersInOrder ==
  \A i, k \in DOMAIN told : i < k => arrival[told[i]] < arrival[told[k]]

(* What the agent composed under one ownership is not sent under another,   *)
(* even when the conversation was taken over and given back meanwhile; and  *)
(* people are not interrupted: under their ownership only the agent's own   *)
(* handover is announced.                                                   *)
NoAnswerAcrossTakeover ==
  [][\A j \in Events : ans[j] # "cleared" /\ ans'[j] = "cleared" =>
       /\ epoch = loaded[j] + (IF handoff[j] THEN 1 ELSE 0)
       /\ mode = "human" => handoff[j]]_tvars

\* m came in while the agent owned the conversation, as it has since, and
\* nothing newer was received.
Waits(m) == /\ m \in Inbox /\ asked[m] > 0
            /\ mode = "ai" /\ epoch = asked[m]
            /\ \A n \in Stored \ {m} : arrival[n] < arrival[m] /\ receipt[n] < receipt[m]

(* While it waits, a job that can still answer it, or has, is about the      *)
(* message: the debounce, which moves a trigger away from a job, a turn     *)
(* that finds itself overtaken, and a change of hands never leave the       *)
(* newest message without one.                                              *)
Kept(m) == \E j \in Events :
             /\ trig[j] = m
             /\ job[j] \in {"queued", "running", "retry", "spent"} \/ ans[j] # "none"

NobodyForgotten == \A m \in Events : Waits(m) => Kept(m)

Attended(m) == \E j \in Events : /\ trig[j] = m
                                /\ (ans[j] \in {"sent", "refused"} \/ job[j] = "spent")

(* The last message of a customer is not forgotten: its turn reaches the    *)
(* provider, or its job fails with its attempts spent, unless the           *)
(* conversation changes hands or another message follows.                   *)
LastMessageAttended == \A m \in Events : Waits(m) ~> Attended(m) \/ ~Waits(m)

(* The turns drive the inbox as InboundEvents says, with takeovers, replies *)
(* and sends going on beside it, so what is shown of it holds here.         *)
ImplementsInbound == InboundSpec
=============================================================================
