------------------------ MODULE OutboundDeliveryProofs ------------------------
(****************************************************************************)
(* Proofs about OutboundDelivery for any jobs, executors, workers, attempts *)
(* and tries.  A call that has passed the load and has not failed since is  *)
(* a sender.  The heart of the inductive invariant DInv is that a request   *)
(* has at most one sender, live or not, and none while it is 'queued'.      *)
(****************************************************************************)
EXTENDS OutboundDelivery, JobQueueProofs

\* Past the load, and no error yet but a rate limit.
Sender(e, j) == held[e] = j /\ pc[e] \in {"loaded", "cleared", "posted", "accepted", "throttled"}

\* The call still has the claim its row is running under.
Live(e, j) == held[e] = j /\ status[j] = "running" /\ token[j] = claim[e]

IdleAtStart == \A e \in Executors : held[e] = NoJob => pc[e] = "start"

\* Where a call may be when its transaction has decided.
VerdictPlaced ==
  \A e \in Executors :
    /\ tx[e] \in Verdicts => \/ tx[e] = "keep" /\ pc[e] \in {"start", "loaded"}
                             \/ tx[e] = "succeed" /\ pc[e] = "accepted"
                             \/ tx[e] = "cancel" /\ pc[e] = "start"
                             \/ tx[e] = "fail" /\ pc[e] = "throttled"
                             \/ tx[e] = "quarantine" /\ pc[e] \in {"refused", "unknown"}
    /\ pc[e] \in {"cleared", "posted"} => tx[e] = "none"
    /\ tx[e] = "keep" /\ pc[e] = "start" => req[held[e]] = "queued"

\* What the status of a job says about the request and its message.
RowsAligned ==
  \A j \in Jobs :
    /\ status[j] = "absent" <=> req[j] = "absent"
    /\ status[j] \in Waiting => req[j] = "queued"
    /\ status[j] = "running" => req[j] \in {"queued", "sending"}
    /\ status[j] = "succeeded" <=> wamid[j]
    /\ status[j] = "cancelled" => req[j] = "failed"
    /\ msg[j] = IF req[j] = "sending" THEN "queued" ELSE req[j]

HolderKnown == \A e \in Executors : held[e] # NoJob => status[held[e]] # "absent"

SenderAlone ==
  \A e \in Executors, j \in Jobs : Sender(e, j) =>
    /\ req[j] # "queued"
    /\ Live(e, j) => req[j] = "sending"
    /\ \A f \in Executors : Sender(f, j) => f = e

\* How many messages the request has put into the provider's hands.
SentOnce ==
  \A j \in Jobs :
    /\ accepted[j] + wire[j] <= 1
    /\ req[j] \in {"queued", "absent"} => accepted[j] + wire[j] = 0
    /\ wamid[j] => accepted[j] = 1
    /\ \A e \in Executors : held[e] = j =>
         /\ pc[e] \in {"loaded", "cleared", "throttled"} => accepted[j] + wire[j] = 0
         /\ pc[e] = "accepted" => accepted[j] = 1

\* A refusal is certain: nothing was sent and nobody is left to send it.
Untouched(j) == accepted[j] + wire[j] = 0 /\ \A e \in Executors : ~Sender(e, j)

RefusalCertain ==
  \A j \in Jobs :
    /\ req[j] = "failed" /\ code[j] = "refused" => Untouched(j)
    /\ \A e \in Executors :
         Live(e, j) /\ pc[e] = "refused" /\ req[j] \in {"queued", "sending"} => Untouched(j)

\* After a late POST nobody is cleared, or about to be, for another.
LateIsLast ==
  \A j \in Jobs :
    /\ late[j] <= 1
    /\ late[j] = 1 => /\ ~eligible[j]
                      /\ \A e \in Executors : held[e] = j =>
                           pc[e] # "cleared" /\ ~(pc[e] = "loaded" /\ tx[e] = "keep")

\* Receipts come after the wamid is recorded; until one reports a failure
\* the message shows the furthest of them.
ReceiptsShown ==
  \A j \in Jobs :
    /\ ~wamid[j] => seen[j] = {}
    /\ wamid[j] /\ "failed" \notin seen[j] => msg[j] = Furthest(seen[j])

DInv == /\ DeliveryTypeOK
        /\ IInv
        /\ IdleAtStart
        /\ VerdictPlaced
        /\ RowsAligned
        /\ HolderKnown
        /\ SenderAlone
        /\ SentOnce
        /\ RefusalCertain
        /\ LateIsLast
        /\ ReceiptsShown

-----------------------------------------------------------------------------
(* Every step of the delivery is a step of the queue or leaves it alone.    *)

LEMMA QueueStep == ASSUME [DeliveryNext]_dvars PROVE [Next]_vars
  <1>1. ASSUME NEW j \in Jobs, Admit(j) PROVE Next
    BY <1>1 DEF Admit, Next
  <1>2. ASSUME NEW j \in Jobs, Withdraw(j) \/ Unheard(j) \/ \E s \in Receipts : Receive(j, s)
        PROVE UNCHANGED vars
    BY <1>2 DEF Withdraw, Unheard, Receive
  <1>3. ASSUME NEW e \in Executors, NEW v \in Verdicts, Body(e, v) PROVE Next
    BY <1>3 DEF Body, Next
  <1>4. ASSUME NEW e \in Executors, Settles(e) PROVE Next
    BY <1>4 DEF Settles, Next
  <1>5. ASSUME NEW e \in Executors, NotEligible(e) \/ Breaks(e) \/ Refuse(e) \/ GiveUp(e)
        PROVE Next
    BY <1>5 DEF NotEligible, Breaks, Refuse, GiveUp, Throws, Next
  <1>6. ASSUME NEW e \in Executors, Post(e) \/ Accept(e) PROVE UNCHANGED vars
    BY <1>6 DEF Post, Accept
  <1>7. ASSUME NEW e \in Executors, Throttle(e) PROVE Next \/ UNCHANGED vars
    BY <1>7 DEF Throttle, Throws, Next
  <1>8. CASE QueueOnly
    BY <1>8 DEF QueueOnly, Begin, Next
  <1>9. CASE Vanish
    BY <1>9 DEF Vanish, Next
  <1>10. CASE UNCHANGED dvars
    BY <1>10 DEF dvars
  <1> QED
    BY <1>1, <1>2, <1>3, <1>4, <1>5, <1>6, <1>7, <1>8, <1>9, <1>10 DEF DeliveryNext

(* The calls of processWhatsAppOutbound drive the queue by its own rules,   *)
(* so every theorem of JobQueueProofs holds of the jobs that send.          *)
THEOREM DeliveryImplementsQueue == DeliverySpec => ImplementsQueue
  <1>1. DeliveryInit => Init
    BY DEF DeliveryInit
  <1>2. [DeliveryNext]_dvars => [Next]_vars
    BY QueueStep
  <1> QED BY <1>1, <1>2, PTL DEF DeliverySpec, ImplementsQueue, Spec

-----------------------------------------------------------------------------
LEMMA DInvInit == DeliveryInit => DInv
  <1> SUFFICES ASSUME DeliveryInit PROVE DInv
    OBVIOUS
  <1>1. IInv /\ TypeOK
    BY InitIInv DEF DeliveryInit, IInv
  <1>2. DeliveryTypeOK
    BY <1>1, DeliveryAssumption DEF DeliveryInit, DeliveryTypeOK, Places
  <1>3. IdleAtStart /\ VerdictPlaced /\ HolderKnown /\ SenderAlone
    BY DEF DeliveryInit, Init, IdleAtStart, VerdictPlaced, Verdicts, HolderKnown,
           SenderAlone, Sender
  <1>4. RowsAligned /\ SentOnce /\ LateIsLast /\ ReceiptsShown
    BY DEF DeliveryInit, Init, RowsAligned, Waiting, SentOnce, LateIsLast, ReceiptsShown
  <1>5. RefusalCertain
    BY DEF DeliveryInit, Init, RefusalCertain, Live
  <1> QED BY <1>1, <1>2, <1>3, <1>4, <1>5 DEF DInv

-----------------------------------------------------------------------------
(* What becomes of a call in a step: it stays where it is, ends, or moves   *)
(* to another place outside any transaction.                                *)

Stays(f) == held'[f] = held[f] /\ claim'[f] = claim[f] /\ pc'[f] = pc[f] /\ tx'[f] = tx[f]

Ends(f) == held'[f] = NoJob /\ pc'[f] = "start" /\ tx'[f] = "none"

Moves(f, p) == held'[f] = held[f] /\ claim'[f] = claim[f] /\ pc'[f] = p /\ tx'[f] = "none"

LEMMA ThrowsEffect ==
  ASSUME DInv, NEW e \in Executors, NEW p \in Places, Throws(e, p)
  PROVE  /\ UNCHANGED row
         /\ \A f \in Executors : f # e => Stays(f)
         /\ Ends(e) \/ Moves(e, p)
         /\ pc' \in [Executors -> Places] /\ tries' \in [Executors -> 0..MaxTries - 1]
  <1>1. /\ UNCHANGED row /\ Throw(e) /\ Onward([pc EXCEPT ![e] = p]) /\ ExecTypeOK
        /\ pc \in [Executors -> Places] /\ tries \in [Executors -> 0..MaxTries - 1]
    BY DEF DInv, DeliveryTypeOK, TypeOK, ExecTypeOK, Throws, Err
  <1>2. Forgotten({e}) /\ ExecTypeOK'
    BY <1>1, ThrowForgets
  <1>3. pc' \in [Executors -> Places] /\ tries' \in [Executors -> 0..MaxTries - 1]
    BY <1>1, DeliveryAssumption DEF Onward, Places
  <1>4. \A f \in Executors : pc'[f] = IF held'[f] = NoJob THEN "start"
                                     ELSE IF f = e THEN p ELSE pc[f]
    BY <1>1 DEF Onward
  <1>5. \A f \in Executors : f # e => Stays(f)
    BY <1>2, <1>4 DEF Forgotten, Stays, DInv, IdleAtStart
  <1>6. Ends(e) \/ Moves(e, p)
    <2>1. held[e] # NoJob
      BY DEF Throws, Err
    <2> QED BY <1>2, <1>4, <2>1 DEF Forgotten, Ends, Moves
  <1> QED BY <1>1, <1>3, <1>5, <1>6

(* An error class does not depend on why the call failed, but on what it    *)
(* knows: a rate limit and a refusal say that nothing was sent.             *)
LEMMA ErrorDInv ==
  ASSUME DInv, IInv', NEW e \in Executors, held[e] \in Jobs,
         NEW p \in {"throttled", "refused", "unknown"}, Throws(e, p),
         UNCHANGED <<rows, eligible, late, accepted>>,
         wire' \in [Jobs -> Nat], \A j \in Jobs : wire'[j] <= wire[j],
         p = "throttled" => pc[e] = "posted" /\ accepted[held[e]] + wire'[held[e]] = 0,
         p = "refused" => \/ pc[e] = "start" /\ req[held[e]] # "sending"
                          \/ Sender(e, held[e]) /\ accepted[held[e]] + wire'[held[e]] = 0
  PROVE  DInv'
  <1>1. /\ UNCHANGED <<status, token, req, msg, code, wamid, seen, eligible, late, accepted>>
        /\ \A f \in Executors : f # e => Stays(f)
        /\ Ends(e) \/ Moves(e, p)
        /\ pc' \in [Executors -> Places] /\ tries' \in [Executors -> 0..MaxTries - 1]
    BY ThrowsEffect DEF row, rows, Places
  <1>2. DeliveryTypeOK'
    BY <1>1 DEF DInv, DeliveryTypeOK, IInv
  <1>3. /\ accepted \in [Jobs -> Nat] /\ wire \in [Jobs -> Nat]
        /\ held \in [Executors -> Jobs \cup {NoJob}]
    BY DEF DInv, DeliveryTypeOK, TypeOK
  <1>4. IdleAtStart' /\ HolderKnown'
    BY <1>1, JobQueueAssumption DEF DInv, IdleAtStart, HolderKnown, Stays, Ends, Moves
  <1>5. VerdictPlaced'
    BY <1>1 DEF DInv, VerdictPlaced, Verdicts, Stays, Ends, Moves
  <1>6. RowsAligned' /\ ReceiptsShown'
    BY <1>1 DEF DInv, RowsAligned, ReceiptsShown
  <1>7. \A f \in Executors, j \in Jobs : Sender(f, j)' => Sender(f, j)
    BY <1>1, JobQueueAssumption DEF Sender, Stays, Ends, Moves
  <1>8. \A f \in Executors, j \in Jobs : Live(f, j)' => Live(f, j)
    BY <1>1, JobQueueAssumption DEF Live, Stays, Ends, Moves
  <1>9. SenderAlone'
    BY <1>1, <1>7, <1>8 DEF DInv, SenderAlone
  <1>10. SentOnce'
    BY <1>1, <1>3, JobQueueAssumption DEF DInv, SentOnce, Stays, Ends, Moves
  <1>11. RefusalCertain'
    <2>1. \A j \in Jobs : Untouched(j) => Untouched(j)'
      BY <1>1, <1>3, <1>7 DEF Untouched
    <2>2. ASSUME NEW j \in Jobs, NEW f \in Executors,
                 Live(f, j)', pc'[f] = "refused", req'[j] \in {"queued", "sending"}
          PROVE  Untouched(j)'
      <3>1. CASE f # e
        BY <1>1, <1>8, <2>1, <2>2, <3>1 DEF DInv, RefusalCertain, Stays
      <3>2. CASE f = e
        <4>1. p = "refused" /\ held[e] = j /\ Moves(e, p)
          BY <1>1, <2>2, <3>2, JobQueueAssumption DEF Live, Ends, Moves
        <4>2. CASE req[j] = "queued"
          BY <1>1, <1>3, <1>7, <4>1, <4>2 DEF DInv, SenderAlone, SentOnce, Untouched
        <4>3. CASE Sender(e, j) /\ accepted[j] + wire'[j] = 0
          <5>1. ~Sender(e, j)'
            BY <4>1 DEF Sender, Moves
          <5> QED BY <1>1, <1>7, <4>3, <5>1 DEF DInv, SenderAlone, Untouched
        <4> QED BY <1>1, <2>2, <4>1, <4>2, <4>3
      <3> QED BY <3>1, <3>2
    <2> QED BY <1>1, <2>1, <2>2 DEF DInv, RefusalCertain
  <1>12. LateIsLast'
    BY <1>1 DEF DInv, LateIsLast, Stays, Ends, Moves
  <1> QED BY <1>2, <1>4, <1>5, <1>6, <1>9, <1>10, <1>11, <1>12 DEF DInv

LEMMA DeliveryTypes ==
  ASSUME DInv
  PROVE  /\ accepted \in [Jobs -> Nat] /\ wire \in [Jobs -> Nat] /\ late \in [Jobs -> Nat]
         /\ held \in [Executors -> Jobs \cup {NoJob}]
         /\ tx \in [Executors -> {"none", "open"} \cup Verdicts]
         /\ pc \in [Executors -> Places] /\ tries \in [Executors -> 0..MaxTries - 1]
  BY DEF DInv, DeliveryTypeOK, TypeOK

LEMMA NotEligibleDInv ==
  ASSUME DInv, IInv', NEW e \in Executors, NotEligible(e) PROVE DInv'
  <1>1. held[e] \in Jobs
    BY DEF NotEligible, DInv, IInv, TypeOK, FencedTransaction
  <1>2. /\ Throws(e, "refused") /\ UNCHANGED <<rows, eligible, late, accepted, wire>>
        /\ \/ pc[e] = "start" /\ req[held[e]] # "sending"
           \/ pc[e] = "loaded"
    BY DEF NotEligible, world
  <1>3. pc[e] = "loaded" => Sender(e, held[e]) /\ accepted[held[e]] + wire'[held[e]] = 0
    BY <1>1, <1>2 DEF Sender, DInv, SentOnce
  <1>4. wire' \in [Jobs -> Nat] /\ \A j \in Jobs : wire'[j] <= wire[j]
    BY <1>2, DeliveryTypes
  <1> QED BY <1>1, <1>2, <1>3, <1>4, ErrorDInv

LEMMA BreaksDInv ==
  ASSUME DInv, IInv', NEW e \in Executors, Breaks(e) \/ GiveUp(e) PROVE DInv'
  <1>1. Throws(e, "unknown") /\ UNCHANGED <<rows, eligible, late, accepted, wire>>
    BY DEF Breaks, GiveUp, world
  <1>2. held[e] \in Jobs
    BY <1>1, DeliveryTypes DEF Throws, Err
  <1>3. wire' \in [Jobs -> Nat] /\ \A j \in Jobs : wire'[j] <= wire[j]
    BY <1>1, DeliveryTypes
  <1> QED BY <1>1, <1>2, <1>3, ErrorDInv

\* A POST that comes back refused leaves nothing on the wire.
LEMMA TakenBack ==
  ASSUME DInv, NEW j \in Jobs, Off(j)
  PROVE  /\ wire' \in [Jobs -> Nat] /\ \A k \in Jobs : wire'[k] <= wire[k]
         /\ wire[j] = 1 /\ accepted[j] = 0 /\ wire'[j] = 0
         /\ \A k \in Jobs : k # j => wire'[k] = wire[k]
  <1>1. wire \in [Jobs -> Nat] /\ accepted \in [Jobs -> Nat]
    BY DeliveryTypes
  <1>2. wire[j] > 0 /\ wire' = [wire EXCEPT ![j] = @ - 1] /\ accepted[j] + wire[j] <= 1
    BY DEF Off, DInv, SentOnce
  <1>3. wire[j] = 1 /\ accepted[j] = 0
    BY <1>1, <1>2
  <1>4. wire'[j] = 0 /\ \A k \in Jobs : k # j => wire'[k] = wire[k]
    BY <1>1, <1>2, <1>3
  <1>5. wire' \in [Jobs -> Nat]
    BY <1>1, <1>2, <1>3
  <1>6. \A k \in Jobs : wire'[k] <= wire[k]
    BY <1>1, <1>3, <1>4
  <1> QED BY <1>3, <1>4, <1>5, <1>6

LEMMA RefuseDInv ==
  ASSUME DInv, IInv', NEW e \in Executors, NEW p \in {"throttled", "refused"},
         pc[e] = "posted", Off(held[e]), Throws(e, p), UNCHANGED <<rows, eligible, accepted, late>>
  PROVE  DInv'
  <1>1. held[e] \in Jobs
    BY DeliveryTypes DEF Throws, Err
  <1>2. /\ wire' \in [Jobs -> Nat] /\ \A j \in Jobs : wire'[j] <= wire[j]
        /\ accepted[held[e]] + wire'[held[e]] = 0
    BY <1>1, TakenBack
  <1> QED BY <1>1, <1>2, ErrorDInv DEF Sender

-----------------------------------------------------------------------------
(* The steps of the exchange with the provider that are not errors.  The    *)
(* sender stays a sender, so only the counters can break anything.          *)

LEMMA ExchangeDInv ==
  ASSUME DInv, IInv', NEW e \in Executors, NEW p \in {"loaded", "posted", "accepted"},
         pc[e] \in {"cleared", "posted"}, pc' = [pc EXCEPT ![e] = p],
         UNCHANGED <<vars, rows, eligible>>
  PROVE  /\ held[e] \in Jobs /\ held' = held
         /\ Sender(e, held[e]) /\ Sender(e, held[e])'
         /\ \A f \in Executors, j \in Jobs : Sender(f, j)' <=> Sender(f, j)
         /\ IdleAtStart' /\ HolderKnown' /\ VerdictPlaced' /\ RowsAligned' /\ ReceiptsShown'
         /\ SenderAlone'
  <1>1. held[e] \in Jobs /\ tx[e] = "none"
    BY DeliveryTypes DEF DInv, IdleAtStart, VerdictPlaced
  <1>2. UNCHANGED <<status, token, held, claim, tx, req, msg, wamid, code, seen, eligible>>
    BY DEF vars, rows
  <1>3. \A f \in Executors : f # e => pc'[f] = pc[f]
    OBVIOUS
  <1>4. pc'[e] = p
    BY DeliveryTypes
  <1>5. \A f \in Executors, j \in Jobs : Sender(f, j)' <=> Sender(f, j)
    BY <1>2, <1>3, <1>4 DEF Sender
  <1>6. IdleAtStart' /\ HolderKnown'
    BY <1>1, <1>2, <1>3, <1>4, JobQueueAssumption DEF DInv, IdleAtStart, HolderKnown
  <1>7. VerdictPlaced'
    BY <1>1, <1>2, <1>3, <1>4 DEF DInv, VerdictPlaced, Verdicts
  <1>8. RowsAligned' /\ ReceiptsShown'
    BY <1>2 DEF DInv, RowsAligned, ReceiptsShown
  <1>9. SenderAlone'
    BY <1>2, <1>5 DEF DInv, SenderAlone, Live
  <1> QED BY <1>1, <1>2, <1>4, <1>5, <1>6, <1>7, <1>8, <1>9 DEF Sender

LEMMA PostDInv == ASSUME DInv, IInv', NEW e \in Executors, Post(e) PROVE DInv'
  <1> DEFINE h == held[e]
  <1>1. /\ pc[e] = "cleared" /\ pc' = [pc EXCEPT ![e] = "posted"]
        /\ UNCHANGED <<vars, rows, eligible, accepted, tries>>
        /\ wire' = [wire EXCEPT ![h] = @ + 1]
        /\ late' = [late EXCEPT ![h] = IF eligible[h] THEN @ ELSE @ + 1]
    BY DEF Post
  <1>2. /\ h \in Jobs /\ held' = held /\ Sender(e, h) /\ Sender(e, h)'
        /\ \A f \in Executors, j \in Jobs : Sender(f, j)' <=> Sender(f, j)
        /\ IdleAtStart' /\ HolderKnown' /\ VerdictPlaced' /\ RowsAligned' /\ ReceiptsShown'
        /\ SenderAlone'
    BY <1>1, ExchangeDInv
  <1>3. UNCHANGED <<status, token, held, claim, tx, req, msg, wamid, code, seen, eligible>>
    BY <1>1 DEF vars, rows
  <1>4. /\ accepted[h] + wire[h] = 0
        /\ req[h] \notin {"queued", "absent"}
        /\ \A f \in Executors : f # e => ~Sender(f, h)
    BY <1>1, <1>2, JobQueueAssumption
    DEF DInv, SentOnce, SenderAlone, HolderKnown, RowsAligned
  <1>5. DeliveryTypeOK'
    BY <1>1, <1>2, <1>3, DeliveryTypes DEF DInv, DeliveryTypeOK, IInv, Places
  <1>6. SentOnce'
    BY <1>1, <1>2, <1>3, <1>4, DeliveryTypes DEF DInv, SentOnce, Sender
  <1>7. RefusalCertain'
    BY <1>1, <1>2, <1>3, DeliveryTypes DEF DInv, RefusalCertain, Untouched, Live
  <1>8. LateIsLast'
    <2>1. late[h] = 0 \/ eligible[h]
      BY <1>1, <1>2, DeliveryTypes DEF DInv, LateIsLast
    <2> QED BY <1>1, <1>2, <1>3, <1>4, <2>1, DeliveryTypes DEF DInv, LateIsLast, Sender
  <1> QED BY <1>2, <1>5, <1>6, <1>7, <1>8 DEF DInv

LEMMA AcceptDInv == ASSUME DInv, IInv', NEW e \in Executors, Accept(e) PROVE DInv'
  <1> DEFINE h == held[e]
  <1>1. /\ pc[e] = "posted" /\ pc' = [pc EXCEPT ![e] = "accepted"]
        /\ UNCHANGED <<vars, rows, eligible, late, tries>>
        /\ Off(h) /\ accepted' = [accepted EXCEPT ![h] = @ + 1]
    BY DEF Accept
  <1>2. /\ h \in Jobs /\ held' = held /\ Sender(e, h) /\ Sender(e, h)'
        /\ \A f \in Executors, j \in Jobs : Sender(f, j)' <=> Sender(f, j)
        /\ IdleAtStart' /\ HolderKnown' /\ VerdictPlaced' /\ RowsAligned' /\ ReceiptsShown'
        /\ SenderAlone'
    BY <1>1, ExchangeDInv
  <1>3. UNCHANGED <<status, token, held, claim, tx, req, msg, wamid, code, seen, eligible>>
    BY <1>1 DEF vars, rows
  <1>4. /\ wire[h] = 1 /\ accepted[h] = 0 /\ wire'[h] = 0 /\ accepted'[h] = 1
        /\ wire' \in [Jobs -> Nat] /\ accepted' \in [Jobs -> Nat]
        /\ \A k \in Jobs : k # h => wire'[k] = wire[k] /\ accepted'[k] = accepted[k]
    BY <1>1, <1>2, TakenBack, DeliveryTypes
  <1>5. DeliveryTypeOK'
    BY <1>1, <1>3, <1>4, DeliveryTypes DEF DInv, DeliveryTypeOK, IInv, Places
  <1>6. SentOnce'
    BY <1>1, <1>2, <1>3, <1>4, DeliveryTypes DEF DInv, SentOnce, SenderAlone, Sender
  <1>7. RefusalCertain'
    BY <1>1, <1>2, <1>3, <1>4, DeliveryTypes DEF DInv, RefusalCertain, Untouched, Live
  <1>8. LateIsLast'
    BY <1>1, <1>2, <1>3, DeliveryTypes DEF DInv, LateIsLast
  <1> QED BY <1>2, <1>5, <1>6, <1>7, <1>8 DEF DInv

LEMMA ThrottleDInv == ASSUME DInv, IInv', NEW e \in Executors, Throttle(e) PROVE DInv'
  <1> DEFINE h == held[e]
  <1>1. pc[e] = "posted" /\ Off(h) /\ UNCHANGED <<rows, eligible, accepted, late>>
    BY DEF Throttle
  <1>2. CASE Throws(e, "throttled")
    BY <1>1, <1>2, RefuseDInv
  <1>3. CASE /\ Again(e) /\ pc' = [pc EXCEPT ![e] = "loaded"]
             /\ tries' = [tries EXCEPT ![e] = @ + 1] /\ UNCHANGED vars
    <2>1. /\ h \in Jobs /\ held' = held /\ Sender(e, h) /\ Sender(e, h)'
          /\ \A f \in Executors, j \in Jobs : Sender(f, j)' <=> Sender(f, j)
          /\ IdleAtStart' /\ HolderKnown' /\ VerdictPlaced' /\ RowsAligned' /\ ReceiptsShown'
          /\ SenderAlone'
      BY <1>1, <1>3, ExchangeDInv
    <2>2. UNCHANGED <<status, token, held, claim, tx, req, msg, wamid, code, seen, eligible>>
      BY <1>1, <1>3 DEF vars, rows
    <2>3. /\ wire[h] = 1 /\ accepted[h] = 0 /\ wire'[h] = 0 /\ wire' \in [Jobs -> Nat]
          /\ \A k \in Jobs : k # h => wire'[k] = wire[k]
      BY <1>1, <2>1, TakenBack
    <2>4. tries' \in [Executors -> 0..MaxTries - 1]
      BY <1>3, DeliveryTypes, DeliveryAssumption DEF Again
    <2>5. DeliveryTypeOK'
      BY <1>1, <1>3, <2>2, <2>3, <2>4, DeliveryTypes DEF DInv, DeliveryTypeOK, IInv, Places
    <2>6. SentOnce'
      BY <1>1, <1>3, <2>1, <2>2, <2>3, DeliveryTypes DEF DInv, SentOnce, SenderAlone, Sender
    <2>7. RefusalCertain'
      BY <1>1, <1>3, <2>1, <2>2, <2>3, DeliveryTypes DEF DInv, RefusalCertain, Untouched, Live
    <2>8. LateIsLast'
      <3>1. tx[e] = "none"
        BY <1>1 DEF DInv, VerdictPlaced
      <3> QED BY <1>1, <1>3, <2>1, <2>2, <3>1, DeliveryTypes DEF DInv, LateIsLast
    <2> QED BY <2>1, <2>5, <2>6, <2>7, <2>8 DEF DInv
  <1> QED BY <1>2, <1>3 DEF Throttle

-----------------------------------------------------------------------------
(* Steps that change neither the rows nor what the provider has: calls may  *)
(* begin, end and decide, jobs may be claimed and swept, and the request    *)
(* may lose its eligibility.                                                *)

Lasts(f) == held'[f] = held[f] /\ claim'[f] = claim[f] /\ pc'[f] = pc[f]

Begins(f) == /\ held[f] = NoJob /\ held'[f] \in Jobs /\ status'[held'[f]] = "running"
             /\ pc'[f] = "start" /\ tx'[f] = "none"

RowQuiet(j) == \/ status'[j] = status[j]
               \/ status[j] \in Waiting /\ status'[j] = "running"
               \/ status[j] = "running" /\ status'[j] = "dead"

LEMMA QuietDInv ==
  ASSUME DInv, IInv', UNCHANGED <<rows, accepted, wire, late>>,
         eligible' \in [Jobs -> BOOLEAN], \A j \in Jobs : eligible'[j] => eligible[j],
         pc' \in [Executors -> Places], tries' \in [Executors -> 0..MaxTries - 1],
         \A f \in Executors : Lasts(f) \/ Ends(f) \/ Begins(f),
         \A f \in Executors : Lasts(f) /\ pc[f] = "loaded" /\ tx'[f] = "keep" =>
                                tx[f] = "keep" \/ eligible'[held[f]],
         VerdictPlaced',
         \A j \in Jobs : RowQuiet(j),
         \A f \in Executors, j \in Jobs : Lasts(f) /\ Live(f, j)' => Live(f, j)
  PROVE  DInv'
  <1> USE JobQueueAssumption
  <1>1. UNCHANGED <<req, msg, code, wamid, seen>>
    BY DEF rows
  <1>2. DeliveryTypeOK'
    BY <1>1 DEF DInv, DeliveryTypeOK, IInv
  <1>3. IdleAtStart'
    BY DEF DInv, IdleAtStart, Lasts, Ends, Begins
  <1>4. HolderKnown'
    BY DeliveryTypes DEF DInv, HolderKnown, Lasts, Ends, Begins, RowQuiet, Waiting
  <1>5. RowsAligned' /\ ReceiptsShown'
    BY <1>1 DEF DInv, RowsAligned, ReceiptsShown, RowQuiet, Waiting
  <1>6. \A f \in Executors, j \in Jobs : Sender(f, j)' => Lasts(f) /\ Sender(f, j)
    BY DEF Sender, Lasts, Ends, Begins
  <1>7. SenderAlone'
    BY <1>1, <1>6 DEF DInv, SenderAlone
  <1>8. SentOnce'
    BY <1>1 DEF DInv, SentOnce, Lasts, Ends, Begins
  <1>9. RefusalCertain'
    <2>1. \A j \in Jobs : Untouched(j) => Untouched(j)'
      BY <1>6 DEF Untouched
    <2>2. \A f \in Executors, j \in Jobs :
            Live(f, j)' /\ pc'[f] = "refused" => Lasts(f) /\ Live(f, j) /\ pc[f] = "refused"
      BY DEF Live, Lasts, Ends, Begins
    <2> QED BY <1>1, <2>1, <2>2 DEF DInv, RefusalCertain
  <1>10. LateIsLast'
    <2>1. ASSUME NEW j \in Jobs, late[j] = 1, NEW f \in Executors, held'[f] = j
          PROVE  pc'[f] # "cleared" /\ ~(pc'[f] = "loaded" /\ tx'[f] = "keep")
      <3>1. ~eligible'[j]
        BY <2>1 DEF DInv, LateIsLast
      <3> QED BY <2>1, <3>1 DEF DInv, LateIsLast, Lasts, Ends, Begins
    <2> QED BY <2>1 DEF DInv, LateIsLast
  <1> QED BY <1>2, <1>3, <1>4, <1>5, <1>7, <1>8, <1>9, <1>10 DEF DInv

\* Steps in which every call stays where it is.
LEMMA StillDInv ==
  ASSUME DInv, IInv',
         UNCHANGED <<status, token, held, claim, rows, calls, eligible, wire, accepted, late>>,
         VerdictPlaced',
         \A f \in Executors : pc[f] = "loaded" /\ tx'[f] = "keep" =>
                                tx[f] = "keep" \/ eligible[held[f]]
  PROVE  DInv'
  <1>1. UNCHANGED <<pc, tries>>
    BY DEF calls
  <1>2. eligible' \in [Jobs -> BOOLEAN]
    BY DEF DInv, DeliveryTypeOK
  <1>3. pc' \in [Executors -> Places] /\ tries' \in [Executors -> 0..MaxTries - 1]
    BY <1>1, DeliveryTypes
  <1>4. \A f \in Executors : Lasts(f)
    BY <1>1 DEF Lasts
  <1>5. \A j \in Jobs : RowQuiet(j)
    BY DEF RowQuiet
  <1>6. \A f \in Executors, j \in Jobs : Live(f, j)' => Live(f, j)
    BY DEF Live
  <1> QED BY <1>1, <1>2, <1>3, <1>4, <1>5, <1>6, QuietDInv

LEMMA WithdrawDInv == ASSUME DInv, IInv', NEW j \in Jobs, Withdraw(j) PROVE DInv'
  <1>1. /\ UNCHANGED <<status, token, held, claim, tx, rows, req, wire, accepted, late, pc, tries>>
        /\ eligible' = [eligible EXCEPT ![j] = FALSE]
    BY DEF Withdraw, vars, calls, rows
  <1>2. eligible' \in [Jobs -> BOOLEAN] /\ \A k \in Jobs : eligible'[k] => eligible[k]
    BY <1>1 DEF DInv, DeliveryTypeOK
  <1>3. pc' \in [Executors -> Places] /\ tries' \in [Executors -> 0..MaxTries - 1]
    BY <1>1, DeliveryTypes
  <1>4. \A f \in Executors : Lasts(f)
    BY <1>1 DEF Lasts
  <1>5. \A k \in Jobs : RowQuiet(k)
    BY <1>1 DEF RowQuiet
  <1>6. \A f \in Executors, k \in Jobs : Live(f, k)' => Live(f, k)
    BY <1>1 DEF Live
  <1>7. VerdictPlaced'
    BY <1>1 DEF DInv, VerdictPlaced
  <1> QED BY <1>1, <1>2, <1>3, <1>4, <1>5, <1>6, <1>7, QuietDInv

LEMMA BodyDInv ==
  ASSUME DInv, IInv', NEW e \in Executors, NEW v \in Verdicts, Body(e, v) PROVE DInv'
  <1>1. /\ tx[e] = "open" /\ Decides(e, v) /\ tx' = [tx EXCEPT ![e] = v]
        /\ UNCHANGED <<row, held, claim, rows, world, calls>>
    BY DEF Body, Validate
  <1>2. UNCHANGED <<status, token, held, claim, rows, req, eligible, wire, accepted,
                    late, calls, pc>>
    BY <1>1 DEF row, world, rows, calls
  <1>3. tx'[e] = v /\ \A f \in Executors : f # e => tx'[f] = tx[f]
    BY <1>1, DeliveryTypes
  <1>4. VerdictPlaced'
    BY <1>1, <1>2, <1>3 DEF DInv, VerdictPlaced, Decides, Verdicts
  <1>5. pc[e] = "loaded" /\ v = "keep" => eligible[held[e]]
    BY <1>1 DEF Decides
  <1> QED BY <1>2, <1>3, <1>4, <1>5, StillDInv

LEMMA FenceDInv ==
  ASSUME DInv, IInv', NEW e \in Executors,
         Renew(e) \/ RenewalFails(e) \/ Begin(e) \/ Reject(e),
         UNCHANGED <<rows, world, calls>>
  PROVE  DInv'
  <1>1. UNCHANGED <<status, token, held, claim, rows, req, eligible, wire, accepted,
                    late, calls, pc>>
    BY DEF row, world, rows, calls, Renew, RenewalFails, Begin, BeginTx, Reject
  <1>2. \/ tx' = tx
        \/ tx' = [tx EXCEPT ![e] = "open"] /\ pc[e] \notin {"cleared", "posted"}
        \/ tx' = [tx EXCEPT ![e] = "none"]
    BY DEF row, Renew, RenewalFails, Begin, BeginTx, Reject
  <1>3. \A f \in Executors : \/ tx'[f] = tx[f]
                             \/ tx'[f] = "open" /\ pc[f] \notin {"cleared", "posted"}
                             \/ tx'[f] = "none"
    BY <1>2, DeliveryTypes
  <1>4. VerdictPlaced'
    BY <1>1, <1>3 DEF DInv, VerdictPlaced, Verdicts
  <1> QED BY <1>1, <1>3, <1>4, StillDInv

LEMMA TickDInv ==
  ASSUME DInv, IInv', Tick \/ UNCHANGED vars, UNCHANGED <<rows, world, calls>> PROVE DInv'
  <1>1. UNCHANGED <<status, token, held, claim, tx, rows, req, eligible, wire, accepted,
                    late, calls, pc>>
    BY DEF exec, vars, world, rows, calls, Tick
  <1>2. VerdictPlaced'
    BY <1>1 DEF DInv, VerdictPlaced
  <1> QED BY <1>1, <1>2, StillDInv

LEMMA SweepDInv ==
  ASSUME DInv, IInv', NEW e \in Executors, SweepExhausted(e), UNCHANGED <<rows, world, calls>>
  PROVE  DInv'
  <1>1. /\ UNCHANGED <<token, held, claim, tx, rows, req, eligible, wire, accepted,
                       late, pc, tries>>
        /\ status' = [k \in Jobs |-> IF k \in Exhausted THEN "dead" ELSE status[k]]
    BY DEF exec, world, rows, calls, SweepExhausted
  <1>2. eligible' \in [Jobs -> BOOLEAN]
    BY <1>1 DEF DInv, DeliveryTypeOK
  <1>3. pc' \in [Executors -> Places] /\ tries' \in [Executors -> 0..MaxTries - 1]
    BY <1>1, DeliveryTypes
  <1>4. \A f \in Executors : Lasts(f)
    BY <1>1 DEF Lasts
  <1>5. \A k \in Jobs : RowQuiet(k)
    BY <1>1 DEF RowQuiet, Exhausted
  <1>6. \A f \in Executors, k \in Jobs : Live(f, k)' => Live(f, k)
    BY <1>1 DEF Live
  <1>7. VerdictPlaced'
    BY <1>1 DEF DInv, VerdictPlaced
  <1> QED BY <1>1, <1>2, <1>3, <1>4, <1>5, <1>6, <1>7, QuietDInv

\* A call that loses its row to a new claim is not live any more.
LEMMA ClaimDInv ==
  ASSUME DInv, IInv', NEW e \in Executors, NEW j \in Jobs, ClaimJob(e, j),
         UNCHANGED <<rows, world, calls>>
  PROVE  DInv'
  <1> USE JobQueueAssumption
  <1>1. /\ UNCHANGED <<tx, rows, req, eligible, wire, accepted, late, pc, tries>>
        /\ held[e] = NoJob /\ j \in Claimable
        /\ status' = [k \in Jobs |-> IF k = j THEN "running"
                                     ELSE IF k \in Exhausted THEN "dead" ELSE status[k]]
        /\ token' = [token EXCEPT ![j] = @ + 1]
        /\ held' = [held EXCEPT ![e] = j]
        /\ \A f \in Executors : f # e => claim'[f] = claim[f]
    BY DEF world, rows, calls, ClaimJob, FreshToken, Foremost
  <1>2. /\ held \in [Executors -> Jobs \cup {NoJob}] /\ token \in [Jobs -> Nat]
        /\ pc[e] = "start" /\ tx[e] = "none"
    BY <1>1 DEF DInv, DeliveryTypeOK, TypeOK, IdleAtStart, IInv, FencedTransaction
  <1>3. eligible' \in [Jobs -> BOOLEAN]
    BY <1>1 DEF DInv, DeliveryTypeOK
  <1>4. pc' \in [Executors -> Places] /\ tries' \in [Executors -> 0..MaxTries - 1]
    BY <1>1, DeliveryTypes
  <1>5. \A f \in Executors : f # e => Lasts(f)
    BY <1>1, <1>2 DEF Lasts
  <1>6. Begins(e) /\ ~Lasts(e)
    BY <1>1, <1>2 DEF Begins, Lasts
  <1>7. \A k \in Jobs : RowQuiet(k)
    BY <1>1 DEF RowQuiet, Exhausted, Claimable
  <1>8. \A f \in Executors, k \in Jobs : Lasts(f) /\ Live(f, k)' => Live(f, k)
    <2>1. ASSUME NEW f \in Executors, Lasts(f), Live(f, j)' PROVE FALSE
      <3>1. claim[f] = token[j] + 1 /\ held[f] = j
        BY <1>1, <1>2, <2>1 DEF Lasts, Live
      <3>2. claim[f] \in Nat /\ claim[f] <= token[j]
        BY <3>1 DEF DInv, IInv, ClaimIssued
      <3> QED BY <1>2, <3>1, <3>2
    <2>2. ASSUME NEW f \in Executors, NEW k \in Jobs, k # j, Lasts(f), Live(f, k)'
          PROVE  Live(f, k)
      BY <1>1, <1>2, <2>2 DEF Lasts, Live
    <2> QED BY <2>1, <2>2
  <1>9. VerdictPlaced'
    <2>1. \A f \in Executors : f # e => held'[f] = held[f]
      BY <1>1, <1>2
    <2> QED BY <1>1, <1>2, <2>1 DEF DInv, VerdictPlaced, Verdicts
  <1> QED BY <1>1, <1>3, <1>4, <1>5, <1>6, <1>7, <1>8, <1>9, QuietDInv

LEMMA VanishDInv == ASSUME DInv, IInv', Vanish PROVE DInv'
  <1> USE JobQueueAssumption
  <1>1. /\ UNCHANGED <<row, rows, world>> /\ Onward(pc)
        /\ \E E \in SUBSET Executors : Drop(E)
    BY DEF Vanish, Crash, Leave
  <1>2. PICK E \in SUBSET Executors : Drop(E)
    BY <1>1
  <1>3. UNCHANGED <<status, token, req, eligible, wire, accepted, late>>
    BY <1>1 DEF row, rows, world
  <1>4. \A f \in Executors : /\ pc'[f] = IF held'[f] = NoJob THEN "start" ELSE pc[f]
                             /\ held'[f] = IF f \in E THEN NoJob ELSE held[f]
                             /\ claim'[f] = IF f \in E THEN 0 ELSE claim[f]
                             /\ tx'[f] = IF f \in E THEN "none" ELSE tx[f]
    BY <1>1, <1>2 DEF Onward, Drop
  <1>5. eligible' \in [Jobs -> BOOLEAN]
    BY <1>3 DEF DInv, DeliveryTypeOK
  <1>6. pc' \in [Executors -> Places] /\ tries' \in [Executors -> 0..MaxTries - 1]
    BY <1>1, DeliveryTypes, DeliveryAssumption DEF Onward, Places
  <1>7. \A f \in Executors : (Lasts(f) /\ tx'[f] = tx[f]) \/ Ends(f)
    BY <1>4 DEF Lasts, Ends, DInv, IdleAtStart
  <1>8. \A j \in Jobs : RowQuiet(j)
    BY <1>3 DEF RowQuiet
  <1>9. \A f \in Executors, j \in Jobs : Lasts(f) /\ Live(f, j)' => Live(f, j)
    BY <1>3 DEF Lasts, Live
  <1>10. VerdictPlaced'
    BY <1>3, <1>7 DEF DInv, VerdictPlaced, Verdicts, Lasts, Ends
  <1>11. \A f \in Executors : Lasts(f) /\ pc[f] = "loaded" => tx'[f] = tx[f]
    BY <1>7 DEF Lasts, Ends
  <1>12. UNCHANGED <<rows, accepted, wire, late>> /\ \A j \in Jobs : eligible'[j] => eligible[j]
    BY <1>1, <1>3
  <1> QED BY <1>5, <1>6, <1>7, <1>8, <1>9, <1>10, <1>11, <1>12, QuietDInv

-----------------------------------------------------------------------------
(* Admission, the provider, and the receipts.                               *)

LEMMA AdmitDInv == ASSUME DInv, IInv', NEW j \in Jobs, Admit(j) PROVE DInv'
  <1> USE JobQueueAssumption
  <1>1. /\ status[j] = "absent" /\ status' = [status EXCEPT ![j] = "queued"]
        /\ req' = [req EXCEPT ![j] = "queued"] /\ msg' = [msg EXCEPT ![j] = "queued"]
        /\ UNCHANGED <<token, held, claim, tx, code, wamid, seen, eligible, wire,
                       accepted, late, pc, tries>>
    BY DEF Admit, Enqueue, exec, world, calls
  <1>2. \A f \in Executors : held[f] # j
    BY <1>1 DEF DInv, HolderKnown
  <1>3. status \in [Jobs -> Statuses] /\ req[j] = "absent"
    BY <1>1 DEF DInv, DeliveryTypeOK, TypeOK, RowsAligned
  <1>4. /\ status'[j] = "queued" /\ req'[j] = "queued" /\ msg'[j] = "queued"
        /\ \A k \in Jobs : k # j => /\ status'[k] = status[k]
                                    /\ req'[k] = req[k] /\ msg'[k] = msg[k]
    BY <1>1, <1>3 DEF DInv, DeliveryTypeOK
  <1>5. DeliveryTypeOK'
    BY <1>1 DEF DInv, DeliveryTypeOK, IInv
  <1>6. IdleAtStart' /\ HolderKnown' /\ LateIsLast'
    BY <1>1, <1>2, <1>4, DeliveryTypes DEF DInv, IdleAtStart, HolderKnown, LateIsLast
  <1>7. VerdictPlaced'
    BY <1>1, <1>4, DeliveryTypes DEF DInv, VerdictPlaced, IInv, FencedTransaction
  <1>8. RowsAligned'
    BY <1>1, <1>4 DEF DInv, RowsAligned, Waiting
  <1>9. SenderAlone'
    BY <1>1, <1>2, <1>4 DEF DInv, SenderAlone, Sender, Live
  <1>10. SentOnce'
    BY <1>1, <1>3, <1>4 DEF DInv, SentOnce
  <1>11. RefusalCertain'
    BY <1>1, <1>2, <1>4 DEF DInv, RefusalCertain, Untouched, Sender, Live
  <1>12. ReceiptsShown'
    <2>1. ~wamid[j]
      BY <1>1 DEF DInv, RowsAligned
    <2> QED BY <1>1, <1>4, <2>1 DEF DInv, ReceiptsShown
  <1> QED BY <1>5, <1>6, <1>7, <1>8, <1>9, <1>10, <1>11, <1>12 DEF DInv

LEMMA UnheardDInv == ASSUME DInv, IInv', NEW j \in Jobs, Unheard(j) PROVE DInv'
  <1>1. /\ Off(j)
        /\ accepted' = [accepted EXCEPT ![j] = @ + 1] \/ accepted' = accepted
        /\ UNCHANGED <<status, token, held, claim, tx, req, msg, code, wamid, seen,
                       eligible, late, pc, tries>>
    BY DEF Unheard, vars, rows, calls
  <1>2. /\ wire[j] = 1 /\ accepted[j] = 0 /\ wire'[j] = 0 /\ wire' \in [Jobs -> Nat]
        /\ accepted' \in [Jobs -> Nat] /\ accepted'[j] \in {0, 1}
        /\ \A k \in Jobs : k # j => wire'[k] = wire[k] /\ accepted'[k] = accepted[k]
    BY <1>1, TakenBack, DeliveryTypes
  <1>3. DeliveryTypeOK'
    BY <1>1, <1>2 DEF DInv, DeliveryTypeOK, IInv
  <1>4. IdleAtStart' /\ HolderKnown' /\ VerdictPlaced' /\ RowsAligned'
    BY <1>1 DEF DInv, IdleAtStart, HolderKnown, VerdictPlaced, RowsAligned
  <1>5. SenderAlone' /\ LateIsLast' /\ ReceiptsShown'
    BY <1>1 DEF DInv, SenderAlone, Sender, Live, LateIsLast, ReceiptsShown
  <1>6. SentOnce'
    BY <1>1, <1>2, DeliveryTypes DEF DInv, SentOnce
  <1>7. RefusalCertain'
    BY <1>1, <1>2, DeliveryTypes DEF DInv, RefusalCertain, Untouched, Sender, Live
  <1> QED BY <1>3, <1>4, <1>5, <1>6, <1>7 DEF DInv

\* A receipt finds a message whose POST was accepted and whose job is done.
LEMMA ReceiveFacts ==
  ASSUME DInv, NEW j \in Jobs, NEW s \in Receipts, Receive(j, s)
  PROVE  /\ status[j] = "succeeded" /\ accepted[j] = 1 /\ req[j] \notin {"queued", "absent"}
         /\ req'[j] \in Receipts /\ msg'[j] = req'[j] /\ code'[j] \in {"none", "reported"}
         /\ seen'[j] = seen[j] \cup {s}
         /\ wamid[j] /\ wamid' = wamid
         /\ "failed" \notin seen[j] \cup {s} => msg'[j] = Furthest(seen[j] \cup {s})
         /\ \A k \in Jobs : k # j => /\ req'[k] = req[k] /\ msg'[k] = msg[k]
                                     /\ code'[k] = code[k] /\ seen'[k] = seen[k]
  <1>1. status[j] = "succeeded" /\ accepted[j] = 1 /\ wamid[j] /\ wamid' = wamid
    BY DEF Receive, DInv, RowsAligned, SentOnce
  <1>2. req[j] \notin {"queued", "absent"}
    BY <1>1, DeliveryTypes DEF DInv, SentOnce
  <1>3. /\ req' = [req EXCEPT ![j] = Ranked(@, s)] /\ msg' = [msg EXCEPT ![j] = Ranked(@, s)]
        /\ code' = [code EXCEPT ![j] = IF s = "failed" THEN "reported" ELSE "none"]
        /\ seen' = [seen EXCEPT ![j] = @ \cup {s}]
    BY DEF Receive
  <1>4. /\ req'[j] = Ranked(req[j], s) /\ msg'[j] = Ranked(msg[j], s)
        /\ code'[j] \in {"none", "reported"} /\ seen'[j] = seen[j] \cup {s}
        /\ \A k \in Jobs : k # j => /\ req'[k] = req[k] /\ msg'[k] = msg[k]
                                    /\ code'[k] = code[k] /\ seen'[k] = seen[k]
    BY <1>3 DEF DInv, DeliveryTypeOK
  <1>5. Ranked(req[j], s) \in Receipts /\ Ranked(req[j], s) = Ranked(msg[j], s)
    BY DEF Ranked, Receipts, DInv, RowsAligned
  <1>6. ASSUME "failed" \notin seen[j] \cup {s}
        PROVE  Ranked(msg[j], s) = Furthest(seen[j] \cup {s})
    <2>1. msg[j] = Furthest(seen[j]) /\ s \in {"sent", "delivered", "read"}
      BY <1>1, <1>6 DEF DInv, ReceiptsShown, Receipts
    <2> QED BY <2>1 DEF Ranked, Furthest
  <1> QED BY <1>1, <1>2, <1>4, <1>5, <1>6

LEMMA ReceiveDInv ==
  ASSUME DInv, IInv', NEW j \in Jobs, NEW s \in Receipts, Receive(j, s) PROVE DInv'
  <1>1. /\ status[j] = "succeeded" /\ accepted[j] = 1 /\ req[j] \notin {"queued", "absent"}
        /\ req'[j] \in Receipts /\ msg'[j] = req'[j] /\ code'[j] \in {"none", "reported"}
        /\ seen'[j] = seen[j] \cup {s}
        /\ wamid[j]
        /\ "failed" \notin seen[j] \cup {s} => msg'[j] = Furthest(seen[j] \cup {s})
        /\ \A k \in Jobs : k # j => /\ req'[k] = req[k] /\ msg'[k] = msg[k]
                                    /\ code'[k] = code[k] /\ seen'[k] = seen[k]
    BY ReceiveFacts
  <1>2. UNCHANGED <<status, token, held, claim, tx, wamid, eligible, wire, accepted,
                    late, pc, tries>>
    BY DEF Receive, vars, world, calls
  <1>3. DeliveryTypeOK'
    <2>1. /\ req' = [req EXCEPT ![j] = req'[j]] /\ msg' = [msg EXCEPT ![j] = msg'[j]]
          /\ code' = [code EXCEPT ![j] = code'[j]] /\ seen' = [seen EXCEPT ![j] = seen'[j]]
      BY DEF Receive, DInv, DeliveryTypeOK
    <2>2. seen[j] \cup {s} \in SUBSET Receipts
      BY DEF DInv, DeliveryTypeOK
    <2>3. seen' \in [Jobs -> SUBSET Receipts]
      BY <1>1, <2>1, <2>2 DEF DInv, DeliveryTypeOK
    <2> QED BY <1>1, <1>2, <2>1, <2>3 DEF DInv, DeliveryTypeOK, IInv
  <1>4. IdleAtStart' /\ HolderKnown' /\ LateIsLast'
    BY <1>2 DEF DInv, IdleAtStart, HolderKnown, LateIsLast
  <1>5. VerdictPlaced'
    BY <1>1, <1>2, DeliveryTypes DEF DInv, VerdictPlaced, IInv, FencedTransaction
  <1>6. RowsAligned'
    BY <1>1, <1>2 DEF DInv, RowsAligned, Waiting, Receipts
  <1>7. SenderAlone'
    BY <1>1, <1>2 DEF DInv, SenderAlone, Sender, Live, Receipts
  <1>8. SentOnce'
    BY <1>1, <1>2 DEF DInv, SentOnce, Receipts
  <1>9. RefusalCertain'
    BY <1>1, <1>2 DEF DInv, RefusalCertain, Untouched, Sender, Live
  <1>10. ReceiptsShown'
    BY <1>1, <1>2 DEF DInv, ReceiptsShown
  <1> QED BY <1>3, <1>4, <1>5, <1>6, <1>7, <1>8, <1>9, <1>10 DEF DInv

-----------------------------------------------------------------------------
(* The commit of a call's transaction.  Its row runs under its own claim,   *)
(* so no other call is live; what the others may be is a stale sender.      *)

LEMMA CommitEffect ==
  ASSUME DInv, NEW e \in Executors, Settles(e)
  PROVE  /\ \A f \in Executors : f # e => Stays(f)
         /\ \/ Ends(e)
            \/ Moves(e, "unknown")
            \/ tx[e] = "keep" /\ Moves(e, IF pc[e] = "start" THEN "loaded" ELSE "cleared")
         /\ pc' \in [Executors -> Places] /\ tries' \in [Executors -> 0..MaxTries - 1]
  <1>1. /\ Commit(e) /\ Onward([pc EXCEPT ![e] = AfterCommit(e)]) /\ tx[e] # "none"
        /\ pc \in [Executors -> Places] /\ tries \in [Executors -> 0..MaxTries - 1]
    BY DEF Settles, Commit, Verdicts, DInv, DeliveryTypeOK
  <1>2. ExecTypeOK' /\ Forgotten({e})
    BY <1>1, CommitForgets DEF DInv
  <1>3. AfterCommit(e) \in Places
    BY <1>1 DEF AfterCommit, Places
  <1>4. pc' \in [Executors -> Places] /\ tries' \in [Executors -> 0..MaxTries - 1]
    BY <1>1, <1>3, DeliveryAssumption DEF Onward, Places
  <1>5. \A f \in Executors : pc'[f] = IF held'[f] = NoJob THEN "start"
                                     ELSE IF f = e THEN AfterCommit(e) ELSE pc[f]
    BY <1>1 DEF Onward
  <1>6. \A f \in Executors : f # e => Stays(f)
    BY <1>2, <1>5 DEF Forgotten, Stays, DInv, IdleAtStart
  <1>7. held[e] # NoJob
    BY <1>1 DEF DInv, IInv, FencedTransaction
  <1>8. Ends(e) \/ Moves(e, AfterCommit(e))
    BY <1>2, <1>5, <1>7 DEF Forgotten, Ends, Moves
  <1>9. ASSUME ~Ends(e)
        PROVE  \/ AfterCommit(e) = "unknown"
               \/ tx[e] = "keep" /\ AfterCommit(e) = IF pc[e] = "start" THEN "loaded" ELSE "cleared"
    <2>1. held'[e] # NoJob /\ tx'[e] = "none"
      BY <1>5, <1>7, <1>8, <1>9 DEF Moves
    <2>2. ~Drop({e})
      BY <2>1 DEF Drop
    <2>3. CASE Throw(e)
      <3>1. ~erred[e] /\ erred' = [erred EXCEPT ![e] = TRUE]
        BY <2>2, <2>3 DEF Throw
      <3> QED BY <2>1, <3>1 DEF AfterCommit, DInv, IInv, TypeOK
    <2>4. CASE tx[e] = "keep" /\ UNCHANGED erred
      BY <2>4 DEF AfterCommit
    <2> QED BY <1>1, <2>2, <2>3, <2>4 DEF Commit
  <1> QED BY <1>4, <1>6, <1>8, <1>9

LEMMA CommitFacts ==
  ASSUME DInv, NEW e \in Executors, Settles(e)
  PROVE  /\ held[e] \in Jobs /\ Live(e, held[e])
         /\ \A f \in Executors : Live(f, held[e]) => f = e
         /\ req[held[e]] \in {"queued", "sending"} /\ msg[held[e]] = "queued"
         /\ ~wamid[held[e]]
         /\ UNCHANGED <<token, seen, eligible, wire, accepted, late>>
         /\ status'[held[e]] = StatusAfter(held[e], tx[e])
         /\ \A k \in Jobs : k # held[e] => status'[k] = status[k]
         /\ \/ tx[e] = "keep" /\ pc[e] \in {"start", "loaded"}
            \/ tx[e] = "succeed" /\ pc[e] = "accepted"
            \/ tx[e] = "cancel" /\ pc[e] = "start"
            \/ tx[e] = "fail" /\ pc[e] = "throttled"
            \/ tx[e] = "quarantine" /\ pc[e] \in {"refused", "unknown"}
  <1> DEFINE j == held[e]
  <1>1. tx[e] \in Verdicts /\ tx[e] # "none" /\ Settle(e, j, tx[e])
    BY DEF Settles, Commit, Verdicts
  <1>2. j \in Jobs /\ Live(e, j)
    BY <1>1, DeliveryTypes DEF DInv, IInv, FencedTransaction, Live
  <1>3. \A f \in Executors : Live(f, j) => f = e
    BY <1>2, JobQueueAssumption DEF Live, DInv, IInv, ClaimsAreUnique
  <1>4. req[j] \in {"queued", "sending"} /\ msg[j] = "queued" /\ ~wamid[j]
    BY <1>2 DEF DInv, RowsAligned, Live
  <1>5. UNCHANGED <<token, seen, eligible, wire, accepted, late>>
    BY <1>1 DEF Settles, Settle, world
  <1>6. /\ status'[j] = StatusAfter(j, tx[e])
        /\ \A k \in Jobs : k # j => status'[k] = status[k]
    BY <1>1, <1>2 DEF Settle, DInv, DeliveryTypeOK, TypeOK
  <1> QED BY <1>1, <1>2, <1>3, <1>4, <1>5, <1>6 DEF DInv, VerdictPlaced

\* What a commit that changes one row leaves everywhere else.
LEMMA CommitElsewhere ==
  ASSUME DInv, NEW e \in Executors, Settles(e), NEW k \in Jobs, k # held[e]
  PROVE  /\ status'[k] = status[k] /\ req'[k] = req[k] /\ msg'[k] = msg[k]
         /\ code'[k] = code[k] /\ wamid'[k] = wamid[k]
         /\ \A f \in Executors : /\ Sender(f, k)' <=> Sender(f, k)
                                 /\ Live(f, k)' <=> Live(f, k)
                                 /\ held'[f] = k <=> held[f] = k
                                 /\ held[f] = k => pc'[f] = pc[f] /\ tx'[f] = tx[f]
  <1>1. /\ status'[k] = status[k] /\ token' = token
        /\ \A f \in Executors : f # e => Stays(f)
        /\ held'[e] \in {held[e], NoJob}
    BY CommitFacts, CommitEffect DEF Ends, Moves
  <1>2. /\ req'[k] = req[k] /\ msg'[k] = msg[k] /\ code'[k] = code[k] /\ wamid'[k] = wamid[k]
    BY DEF Settles, CommitRows, DInv, DeliveryTypeOK
  <1>3. held'[e] # k /\ held[e] # k
    BY <1>1, JobQueueAssumption
  <1> QED BY <1>1, <1>2, <1>3 DEF Stays, Sender, Live

\* So refusals stay certain if they do in the commit's own row.
LEMMA CommitRefusals ==
  ASSUME DInv, NEW e \in Executors, Settles(e), NEW j \in Jobs, held[e] = j,
         req'[j] = "failed" /\ code'[j] = "refused" => Untouched(j)',
         \A f \in Executors : ~(Live(f, j)' /\ pc'[f] = "refused")
  PROVE  RefusalCertain'
  <1>1. UNCHANGED <<accepted, wire>>
    BY CommitFacts
  <1>2. ASSUME NEW k \in Jobs, k # j
        PROVE  /\ Untouched(k) => Untouched(k)'
               /\ req'[k] = "failed" /\ code'[k] = "refused" => Untouched(k)
               /\ \A f \in Executors :
                    Live(f, k)' /\ pc'[f] = "refused" /\ req'[k] \in {"queued", "sending"} =>
                      Untouched(k)
    <2>1. /\ req'[k] = req[k] /\ code'[k] = code[k]
          /\ \A f \in Executors : /\ Sender(f, k)' <=> Sender(f, k)
                                  /\ Live(f, k)' <=> Live(f, k)
                                  /\ held[f] = k => pc'[f] = pc[f]
      BY <1>2, CommitElsewhere
    <2>2. Untouched(k) => Untouched(k)'
      BY <1>1, <2>1 DEF Untouched
    <2>3. \A f \in Executors : Live(f, k)' /\ pc'[f] = "refused" => Live(f, k) /\ pc[f] = "refused"
      BY <2>1 DEF Live
    <2> QED BY <2>1, <2>2, <2>3 DEF DInv, RefusalCertain
  <1> QED BY <1>2 DEF RefusalCertain

\* What a commit leaves in its own row, verdict by verdict.
LEMMA CommitHere ==
  ASSUME DInv, NEW e \in Executors, Settles(e)
  PROVE  LET j == held[e] IN
    \/ /\ tx[e] = "keep" /\ status'[j] = "running" /\ req'[j] = "sending"
       /\ msg'[j] = "queued" /\ wamid'[j] = wamid[j]
    \/ /\ tx[e] = "succeed" /\ status'[j] = "succeeded" /\ req'[j] = "sent"
       /\ msg'[j] = "sent" /\ code'[j] = "none" /\ wamid'[j] = TRUE
    \/ /\ tx[e] = "cancel" /\ status'[j] = "cancelled" /\ req'[j] = "failed"
       /\ msg'[j] = "failed" /\ code'[j] = "denied" /\ wamid'[j] = wamid[j]
    \/ /\ tx[e] = "fail" /\ wamid'[j] = wamid[j] /\ code'[j] = "refused" /\ msg'[j] = req'[j]
       /\ \/ status'[j] = "dead" /\ req'[j] = "failed"
          \/ status'[j] = "retry" /\ req'[j] = "queued"
    \/ /\ tx[e] = "quarantine" /\ status'[j] = "dead" /\ req'[j] = "failed"
       /\ msg'[j] = "failed" /\ code'[j] = pc[e] /\ wamid'[j] = wamid[j]
  <1> DEFINE j == held[e]
  <1>1. /\ j \in Jobs /\ Live(e, j) /\ req[j] \in {"queued", "sending"} /\ msg[j] = "queued"
        /\ status'[j] = StatusAfter(j, tx[e]) /\ CommitRows(e, j, tx[e])
        /\ \/ tx[e] = "keep" /\ pc[e] \in {"start", "loaded"}
           \/ tx[e] = "succeed" /\ pc[e] = "accepted"
           \/ tx[e] = "cancel" /\ pc[e] = "start"
           \/ tx[e] = "fail" /\ pc[e] = "throttled"
           \/ tx[e] = "quarantine" /\ pc[e] \in {"refused", "unknown"}
    BY CommitFacts DEF Settles
  <1> USE DEF DInv, DeliveryTypeOK
  <1>2. CASE tx[e] = "keep"
    <2>1. status'[j] = "running"
      BY <1>1, <1>2 DEF StatusAfter, Live
    <2>2. CASE pc[e] = "start"
      BY <1>1, <1>2, <2>1, <2>2 DEF CommitRows
    <2>3. CASE pc[e] = "loaded"
      <3>1. req[j] = "sending"
        BY <1>1, <2>3 DEF SenderAlone, Sender
      <3> QED BY <1>1, <1>2, <2>1, <2>3, <3>1 DEF CommitRows
    <2> QED BY <1>1, <1>2, <2>2, <2>3
  <1>3. CASE tx[e] = "succeed"
    BY <1>1, <1>3 DEF CommitRows, StatusAfter, Recorded
  <1>4. CASE tx[e] = "cancel"
    BY <1>1, <1>4 DEF CommitRows, StatusAfter
  <1>5. CASE tx[e] = "fail"
    BY <1>1, <1>5 DEF CommitRows, StatusAfter, Demoted
  <1>6. CASE tx[e] = "quarantine"
    BY <1>1, <1>6 DEF CommitRows, StatusAfter
  <1> QED BY <1>1, <1>2, <1>3, <1>4, <1>5, <1>6

LEMMA CommitTypes ==
  ASSUME DInv, IInv', NEW e \in Executors, Settles(e)
  PROVE  DeliveryTypeOK'
  <1> DEFINE j == held[e]
  <1>1. /\ pc' \in [Executors -> Places] /\ tries' \in [Executors -> 0..MaxTries - 1]
        /\ UNCHANGED <<seen, eligible, wire, accepted, late>>
        /\ j \in Jobs /\ req[j] \in {"queued", "sending"}
    BY CommitEffect, CommitFacts
  <1>2. /\ req'[j] \in {"absent", "queued", "sending"} \cup Receipts
        /\ msg'[j] \in {"absent", "queued"} \cup Receipts
    BY CommitHere DEF Receipts
  <1>3. /\ req' = [req EXCEPT ![j] = req'[j]] \/ req' = req
        /\ msg' = [msg EXCEPT ![j] = msg'[j]] \/ msg' = msg
    BY DEF Settles, CommitRows, DInv, DeliveryTypeOK
  <1>4. /\ req' \in [Jobs -> {"absent", "queued", "sending"} \cup Receipts]
        /\ msg' \in [Jobs -> {"absent", "queued"} \cup Receipts]
    BY <1>2, <1>3 DEF DInv, DeliveryTypeOK
  <1>5. wamid' \in [Jobs -> BOOLEAN]
    BY DEF Settles, CommitRows, DInv, DeliveryTypeOK
  <1>6. code' \in [Jobs -> {"none", "refused", "unknown", "denied", "reported"}]
    <2>1. tx[e] = "quarantine" => pc[e] \in {"refused", "unknown"}
      BY CommitFacts
    <2> QED BY <2>1 DEF Settles, CommitRows, DInv, DeliveryTypeOK
  <1> QED BY <1>1, <1>4, <1>5, <1>6 DEF DInv, DeliveryTypeOK, IInv

\* A commit that leaves the call with its claim: the request is 'sending'.
LEMMA KeepDInv ==
  ASSUME DInv, IInv', NEW e \in Executors, Settles(e), tx[e] = "keep",
         NEW j \in Jobs, held[e] = j
  PROVE  DInv'
  <1> USE JobQueueAssumption
  <1>1. /\ Live(e, j) /\ pc[e] \in {"start", "loaded"} /\ ~wamid[j]
        /\ \A f \in Executors : Live(f, j) => f = e
        /\ UNCHANGED <<token, seen, eligible, wire, accepted, late>>
    BY CommitFacts
  <1>2. /\ status'[j] = "running" /\ req'[j] = "sending" /\ msg'[j] = "queued" /\ ~wamid'[j]
    BY <1>1, CommitHere
  <1>3. /\ \A f \in Executors : f # e => Stays(f)
        /\ \/ Ends(e)
           \/ Moves(e, "unknown")
           \/ Moves(e, IF pc[e] = "start" THEN "loaded" ELSE "cleared")
    BY CommitEffect
  <1>4. accepted[j] + wire[j] = 0 /\ \A f \in Executors : Sender(f, j) => f = e
    BY <1>1 DEF DInv, VerdictPlaced, SenderAlone, SentOnce, Sender
  <1>5. \A f \in Executors : /\ Sender(f, j)' => f = e
                             /\ Live(f, j)' => f = e
    <2>1. ASSUME NEW f \in Executors, f # e PROVE ~Sender(f, j)' /\ ~Live(f, j)'
      <3>1. Stays(f) /\ ~Sender(f, j) /\ ~Live(f, j)
        BY <1>1, <1>3, <1>4, <2>1
      <3> QED BY <1>1, <3>1 DEF Stays, Sender, Live
    <2> QED BY <2>1
  <1>6. pc'[e] \in {"start", "unknown", "loaded", "cleared"} /\ tx'[e] = "none"
    BY <1>3 DEF Ends, Moves
  <1>7. IdleAtStart'
    BY <1>3 DEF DInv, IdleAtStart, Stays, Ends, Moves
  <1>8. VerdictPlaced'
    <2>1. \A f \in Executors : f # e /\ tx[f] # "none" => held[f] # j
      BY <1>1 DEF DInv, IInv, FencedTransaction, ClaimsAreUnique, Live
    <2>2. \A f \in Executors : f # e /\ tx[f] # "none" => held[f] \in Jobs
      BY DeliveryTypes DEF DInv, IInv, FencedTransaction
    <2> QED BY <1>3, <1>6, <2>1, <2>2, CommitElsewhere DEF DInv, VerdictPlaced, Verdicts, Stays
  <1>9. RowsAligned'
    BY <1>2, CommitElsewhere DEF DInv, RowsAligned, Waiting
  <1>10. HolderKnown'
    BY <1>1, <1>2, <1>3, CommitElsewhere, DeliveryTypes DEF DInv, HolderKnown, Stays, Ends, Moves
  <1>11. SenderAlone'
    BY <1>2, <1>5, CommitElsewhere DEF DInv, SenderAlone
  <1>12. SentOnce'
    BY <1>1, <1>2, <1>3, <1>4, <1>6, CommitElsewhere DEF DInv, SentOnce, Stays
  <1>13. RefusalCertain'
    <2>1. ASSUME NEW f \in Executors, Live(f, j)' PROVE pc'[f] # "refused"
      BY <1>5, <1>6, <2>1
    <2> QED BY <1>2, <2>1, CommitRefusals
  <1>14. LateIsLast'
    <2>1. ASSUME late[j] = 1 PROVE pc[e] = "start"
      BY <1>1, <2>1 DEF DInv, LateIsLast
    <2>2. ASSUME late[j] = 1 PROVE pc'[e] # "cleared"
      BY <1>3, <2>1, <2>2 DEF Ends, Moves
    <2> QED BY <1>1, <1>3, <1>6, <2>2, CommitElsewhere DEF DInv, LateIsLast, Stays
  <1>15. ReceiptsShown'
    BY <1>1, <1>2, CommitElsewhere DEF DInv, ReceiptsShown
  <1>16. DeliveryTypeOK'
    BY CommitTypes
  <1> QED BY <1>7, <1>8, <1>9, <1>10, <1>11, <1>12, <1>13, <1>14, <1>15, <1>16 DEF DInv

\* A commit that ends the work of the call: it is no sender any more.
LEMMA FinalDInv ==
  ASSUME DInv, IInv', NEW e \in Executors, Settles(e), tx[e] # "keep",
         NEW j \in Jobs, held[e] = j
  PROVE  DInv'
  <1> USE JobQueueAssumption
  <1>1. /\ Live(e, j) /\ ~wamid[j] /\ req[j] \in {"queued", "sending"}
        /\ UNCHANGED <<token, seen, eligible, wire, accepted, late>>
        /\ \/ tx[e] = "succeed" /\ pc[e] = "accepted"
           \/ tx[e] = "cancel" /\ pc[e] = "start"
           \/ tx[e] = "fail" /\ pc[e] = "throttled"
           \/ tx[e] = "quarantine" /\ pc[e] \in {"refused", "unknown"}
    BY CommitFacts
  <1>2. /\ \A f \in Executors : f # e => Stays(f)
        /\ Ends(e) \/ Moves(e, "unknown")
    BY CommitEffect
  <1>3. pc'[e] \in {"start", "unknown"} /\ tx'[e] = "none"
    BY <1>2 DEF Ends, Moves
  <1>4. \A f \in Executors : Sender(f, j)' => f # e /\ Sender(f, j)
    BY <1>2, <1>3 DEF Stays, Sender
  <1>5. /\ status'[j] \notin {"running", "absent"}
        /\ status'[j] \in Waiting <=> req'[j] = "queued"
        /\ status'[j] = "succeeded" <=> wamid'[j]
        /\ status'[j] = "cancelled" => req'[j] = "failed"
        /\ req'[j] \in {"queued", "sent", "failed"} /\ msg'[j] = req'[j]
        /\ wamid'[j] => pc[e] = "accepted"
        /\ req'[j] = "queued" => pc[e] = "throttled"
        /\ code'[j] = "refused" => pc[e] \in {"throttled", "refused"}
    BY <1>1, CommitHere DEF Waiting
  <1>6. pc[e] \in {"throttled", "refused"} => Untouched(j)'
    <2>1. pc[e] = "throttled" => Untouched(j)'
      BY <1>1, <1>4 DEF DInv, SentOnce, SenderAlone, Sender, Untouched
    <2>2. pc[e] = "refused" => Untouched(j)'
      BY <1>1, <1>4 DEF DInv, RefusalCertain, Untouched
    <2> QED BY <2>1, <2>2
  <1>7. \A f \in Executors : ~Live(f, j)'
    BY <1>5 DEF Live
  <1>8. IdleAtStart'
    BY <1>2 DEF DInv, IdleAtStart, Stays, Ends, Moves
  <1>9. VerdictPlaced'
    <2>1. \A f \in Executors : f # e /\ tx[f] # "none" => held[f] # j
      BY <1>1 DEF DInv, IInv, FencedTransaction, ClaimsAreUnique, Live
    <2>2. \A f \in Executors : f # e /\ tx[f] # "none" => held[f] \in Jobs
      BY DeliveryTypes DEF DInv, IInv, FencedTransaction
    <2> QED BY <1>2, <1>3, <2>1, <2>2, CommitElsewhere DEF DInv, VerdictPlaced, Verdicts, Stays
  <1>10. RowsAligned'
    BY <1>5, CommitElsewhere DEF DInv, RowsAligned
  <1>11. HolderKnown'
    BY <1>1, <1>2, <1>5, CommitElsewhere, DeliveryTypes DEF DInv, HolderKnown, Stays, Ends, Moves
  <1>12. SenderAlone'
    <2>1. ASSUME NEW f \in Executors, Sender(f, j)'
          PROVE  req'[j] # "queued" /\ \A g \in Executors : Sender(g, j)' => g = f
      BY <1>4, <1>5, <1>6, <2>1 DEF DInv, SenderAlone, Untouched
    <2> QED BY <1>7, <2>1, CommitElsewhere DEF DInv, SenderAlone
  <1>13. SentOnce'
    <2>1. accepted[j] + wire[j] <= 1
      BY <1>1 DEF DInv, SentOnce
    <2>2. req'[j] \in {"queued", "absent"} => accepted[j] + wire[j] = 0
      BY <1>1, <1>5, <1>6 DEF Untouched
    <2>3. wamid'[j] => accepted[j] = 1
      BY <1>1, <1>5 DEF DInv, SentOnce
    <2>4. ASSUME NEW f \in Executors, held'[f] = j
          PROVE  /\ pc'[f] \in {"loaded", "cleared", "throttled"} => accepted[j] + wire[j] = 0
                 /\ pc'[f] = "accepted" => accepted[j] = 1
      BY <1>1, <1>2, <1>3, <2>4 DEF DInv, SentOnce, Stays
    <2> QED BY <1>1, <2>1, <2>2, <2>3, <2>4, CommitElsewhere DEF DInv, SentOnce
  <1>14. RefusalCertain'
    <2>1. code'[j] = "refused" => Untouched(j)'
      BY <1>5, <1>6
    <2> QED BY <1>7, <2>1, CommitRefusals
  <1>15. LateIsLast'
    BY <1>1, <1>2, <1>3, CommitElsewhere DEF DInv, LateIsLast, Stays
  <1>16. ReceiptsShown'
    <2>1. seen'[j] = {} /\ (wamid'[j] => msg'[j] = "sent")
      BY <1>1, CommitHere DEF DInv, ReceiptsShown
    <2>2. Furthest(seen'[j]) = "sent"
      BY <2>1 DEF Furthest
    <2>3. ASSUME NEW k \in Jobs, k # j
          PROVE  /\ ~wamid'[k] => seen'[k] = {}
                 /\ wamid'[k] /\ "failed" \notin seen'[k] => msg'[k] = Furthest(seen'[k])
      BY <1>1, <2>3, CommitElsewhere DEF DInv, ReceiptsShown
    <2> QED BY <2>1, <2>2, <2>3 DEF ReceiptsShown
  <1>17. DeliveryTypeOK'
    BY CommitTypes
  <1> QED BY <1>8, <1>9, <1>10, <1>11, <1>12, <1>13, <1>14, <1>15, <1>16, <1>17 DEF DInv

LEMMA SettlesDInv == ASSUME DInv, IInv', NEW e \in Executors, Settles(e) PROVE DInv'
  <1>1. PICK j \in Jobs : held[e] = j
    BY CommitFacts
  <1> QED BY <1>1, KeepDInv, FinalDInv

-----------------------------------------------------------------------------
LEMMA DNextDInv == ASSUME DInv, [DeliveryNext]_dvars PROVE DInv'
  <1>1. IInv'
    BY QueueStep, NextIInv DEF DInv
  <1>2. ASSUME NEW j \in Jobs, Admit(j) \/ Withdraw(j) \/ Unheard(j) PROVE DInv'
    BY <1>1, <1>2, AdmitDInv, WithdrawDInv, UnheardDInv
  <1>3. ASSUME NEW j \in Jobs, NEW s \in Receipts, Receive(j, s) PROVE DInv'
    BY <1>1, <1>3, ReceiveDInv
  <1>4. ASSUME NEW e \in Executors, NEW v \in Verdicts, Body(e, v) PROVE DInv'
    BY <1>1, <1>4, BodyDInv
  <1>5. ASSUME NEW e \in Executors, Settles(e) \/ NotEligible(e) \/ Breaks(e) \/ GiveUp(e)
        PROVE DInv'
    BY <1>1, <1>5, SettlesDInv, NotEligibleDInv, BreaksDInv
  <1>6. ASSUME NEW e \in Executors, Post(e) \/ Accept(e) \/ Throttle(e) PROVE DInv'
    BY <1>1, <1>6, PostDInv, AcceptDInv, ThrottleDInv
  <1>7. ASSUME NEW e \in Executors, Refuse(e) PROVE DInv'
    BY <1>1, <1>7, RefuseDInv DEF Refuse
  <1>8. CASE QueueOnly
    <2>1. UNCHANGED <<rows, world, calls>>
      BY <1>8 DEF QueueOnly
    <2>2. ASSUME NEW e \in Executors, NEW j \in Jobs, ClaimJob(e, j) PROVE DInv'
      BY <1>1, <2>1, <2>2, ClaimDInv
    <2>3. ASSUME NEW e \in Executors, SweepExhausted(e) PROVE DInv'
      BY <1>1, <2>1, <2>3, SweepDInv
    <2>4. ASSUME NEW e \in Executors, Renew(e) \/ RenewalFails(e) \/ Begin(e) \/ Reject(e)
          PROVE DInv'
      BY <1>1, <2>1, <2>4, FenceDInv
    <2>5. CASE Tick
      BY <1>1, <2>1, <2>5, TickDInv
    <2> QED BY <1>8, <2>2, <2>3, <2>4, <2>5 DEF QueueOnly
  <1>9. CASE Vanish
    BY <1>1, <1>9, VanishDInv
  <1>10. CASE UNCHANGED dvars
    BY <1>1, <1>10, TickDInv DEF dvars
  <1> QED
    BY <1>2, <1>3, <1>4, <1>5, <1>6, <1>7, <1>8, <1>9, <1>10 DEF DeliveryNext

(* The rows, the calls and what the provider was given fit together at      *)
(* every moment, stale calls included.                                      *)
THEOREM DeliveryInvariance == DeliverySpec => []DInv
  <1>1. DInv /\ [DeliveryNext]_dvars => DInv'
    BY DNextDInv
  <1> QED BY <1>1, DInvInit, PTL DEF DeliverySpec

(* The columns and the places of a call keep their types.                   *)
THEOREM DeliveryTypeCorrect == DeliverySpec => []DeliveryTypeOK
  <1>1. DInv => DeliveryTypeOK
    BY DEF DInv
  <1> QED BY <1>1, DeliveryInvariance, PTL

(* However many calls, crashes, lost leases, retries and lost answers there *)
(* are, processWhatsAppOutbound sends a message to the customer once.       *)
THEOREM SentAtMostOnce == DeliverySpec => []AtMostOnce
  <1>1. DInv => AtMostOnce
    BY DEF DInv, SentOnce, AtMostOnce
  <1> QED BY <1>1, DeliveryInvariance, PTL

(* A request goes back to 'queued' only if no call, not even one that lost  *)
(* its claim, still has its POST before or behind it.                       *)
THEOREM RequeuedOnlyUnsent == DeliverySpec => []QueuedMeansUnsent
  <1>1. ASSUME DInv PROVE QueuedMeansUnsent
    <2>1. ASSUME NEW j \in Jobs, req[j] = "queued"
          PROVE  /\ accepted[j] = 0 /\ wire[j] = 0
                 /\ \A e \in Executors :
                      held[e] = j => pc[e] \notin {"cleared", "posted", "accepted"}
      <3>1. accepted[j] + wire[j] = 0
        BY <1>1, <2>1 DEF DInv, SentOnce
      <3>2. \A e \in Executors : ~Sender(e, j)
        BY <1>1, <2>1 DEF DInv, SenderAlone
      <3> QED BY <1>1, <3>1, <3>2, DeliveryTypes DEF Sender
    <2> QED BY <2>1 DEF QueuedMeansUnsent
  <1> QED BY <1>1, DeliveryInvariance, PTL

(* A request that failed with a code of the certain kind was never sent.    *)
THEOREM RefusedNeverSent == DeliverySpec => []RefusedMeansUnsent
  <1>1. ASSUME DInv PROVE RefusedMeansUnsent
    <2>1. \A j \in Jobs : req[j] = "failed" /\ code[j] = "refused" => accepted[j] + wire[j] = 0
      BY <1>1 DEF DInv, RefusalCertain, Untouched
    <2> QED BY <1>1, <2>1, DeliveryTypes DEF RefusedMeansUnsent
  <1> QED BY <1>1, DeliveryInvariance, PTL

(* ops.jobs, outbound_requests and messages agree after every commit, and   *)
(* the receipts of progress lead to one status in whatever order they came. *)
THEOREM RowsKeepAgreeing == DeliverySpec => []RowsAgree
  <1>1. DInv => RowsAgree
    BY DEF DInv, RowsAligned, SentOnce, ReceiptsShown, RowsAgree
  <1> QED BY <1>1, DeliveryInvariance, PTL

(* A lost eligibility lets through at most the POST already cleared.        *)
THEOREM LatePostOnce == DeliverySpec => []AtMostOneLatePost
  <1>1. DInv => AtMostOneLatePost
    BY DEF DInv, LateIsLast, AtMostOneLatePost
  <1> QED BY <1>1, DeliveryInvariance, PTL

-----------------------------------------------------------------------------
(* The refinement of MessagePromise.  What the rows say of a message is     *)
(* explained by the record of its wamid and of its receipts; with that, a   *)
(* step does to one request what the promise allows, and nothing to others. *)

\* Before the wamid is recorded only the sender speaks of the message; after
\* it only the receipts do.
MessagesExplained ==
  \A j \in Jobs :
    /\ ~wamid[j] => msg[j] \in {"absent", "queued", "failed"} /\ code[j] # "reported"
    /\ wamid[j] => /\ msg[j] \in Receipts
                   /\ msg[j] = "failed" => code[j] = "reported"

\* What the inbox holds on request j is as it was.
Unwritten(j) == /\ msg'[j] = msg[j] /\ code'[j] = code[j]
                /\ wamid'[j] = wamid[j] /\ seen'[j] = seen[j]

LEMMA RowsWritten ==
  ASSUME DInv, [DeliveryNext]_dvars, NEW j \in Jobs
  PROVE  \/ Unwritten(j)
         \/ Admit(j) /\ accepted' = accepted
         \/ (\E s \in Receipts : Receive(j, s)) /\ accepted' = accepted
         \/ (\E e \in Executors : Settles(e) /\ held[e] = j) /\ accepted' = accepted
  <1>1. ASSUME NEW k \in Jobs, k # j, Admit(k) PROVE Unwritten(j)
    BY <1>1 DEF Admit, Unwritten, DInv, DeliveryTypeOK
  <1>2. ASSUME NEW k \in Jobs, Withdraw(k) \/ Unheard(k) PROVE Unwritten(j)
    BY <1>2 DEF Withdraw, Unheard, rows, Unwritten
  <1>3. ASSUME NEW k \in Jobs, k # j, NEW s \in Receipts, Receive(k, s) PROVE Unwritten(j)
    BY <1>3, ReceiveFacts DEF Receive, Unwritten
  <1>4. ASSUME NEW e \in Executors, Settles(e), held[e] # j PROVE Unwritten(j)
    BY <1>4, CommitFacts, CommitElsewhere DEF Unwritten
  <1>5. ASSUME NEW e \in Executors,
               \/ \E v \in Verdicts : Body(e, v)
               \/ NotEligible(e) \/ Breaks(e) \/ Post(e) \/ Accept(e)
               \/ Throttle(e) \/ Refuse(e) \/ GiveUp(e)
        PROVE  Unwritten(j)
    BY <1>5 DEF Body, NotEligible, Breaks, Post, Accept, Throttle, Refuse, GiveUp, rows,
                Unwritten
  <1>6. CASE QueueOnly \/ Vanish \/ UNCHANGED dvars
    BY <1>6 DEF QueueOnly, Vanish, dvars, rows, Unwritten
  <1>7. /\ Admit(j) => accepted' = accepted
        /\ \A s \in Receipts : Receive(j, s) => accepted' = accepted
        /\ \A e \in Executors : Settles(e) => accepted' = accepted
    BY DEF Admit, Receive, Settles, world
  <1> QED BY <1>1, <1>2, <1>3, <1>4, <1>5, <1>6, <1>7 DEF DeliveryNext

\* The customer is given a message by a POST that was on the wire.
LEMMA MessageGiven ==
  ASSUME DInv, [DeliveryNext]_dvars, NEW j \in Jobs
  PROVE  \/ accepted'[j] = accepted[j]
         \/ wire[j] = 1 /\ accepted[j] = 0 /\ accepted'[j] = 1
  <1>1. ASSUME NEW k \in Jobs, Off(k), accepted' = [accepted EXCEPT ![k] = @ + 1]
        PROVE  \/ accepted'[j] = accepted[j]
               \/ wire[j] = 1 /\ accepted[j] = 0 /\ accepted'[j] = 1
    <2>1. wire[k] = 1 /\ accepted[k] = 0
      BY <1>1, TakenBack
    <2> QED BY <1>1, <2>1, DeliveryTypes
  <1>2. ASSUME NEW e \in Executors, Accept(e)
        PROVE  \/ accepted'[j] = accepted[j]
               \/ wire[j] = 1 /\ accepted[j] = 0 /\ accepted'[j] = 1
    <2>1. held[e] \in Jobs
      BY <1>2, DeliveryTypes DEF Accept, DInv, IdleAtStart
    <2> QED BY <1>1, <1>2, <2>1 DEF Accept
  <1>3. ASSUME NEW k \in Jobs, Unheard(k)
        PROVE  \/ accepted'[j] = accepted[j]
               \/ wire[j] = 1 /\ accepted[j] = 0 /\ accepted'[j] = 1
    BY <1>1, <1>3 DEF Unheard
  <1>4. ASSUME NEW k \in Jobs, Admit(k) \/ Withdraw(k) \/ \E s \in Receipts : Receive(k, s)
        PROVE accepted' = accepted
    BY <1>4 DEF Admit, Withdraw, Receive, world
  <1>5. ASSUME NEW e \in Executors,
               \/ \E v \in Verdicts : Body(e, v)
               \/ Settles(e) \/ NotEligible(e) \/ Breaks(e) \/ Post(e)
               \/ Throttle(e) \/ Refuse(e) \/ GiveUp(e)
        PROVE  accepted' = accepted
    BY <1>5 DEF Body, Settles, NotEligible, Breaks, Post, Throttle, Refuse, GiveUp, world
  <1>6. CASE QueueOnly \/ Vanish \/ UNCHANGED dvars
    BY <1>6 DEF QueueOnly, Vanish, dvars, world
  <1> QED BY <1>2, <1>3, <1>4, <1>5, <1>6 DEF DeliveryNext

\* Any receipt finds a message the customer was given; one of progress, as
\* long as no failure was reported, moves it onward.
LEMMA ReceiptRanked ==
  ASSUME DInv, MessagesExplained, NEW j \in Jobs, NEW s \in Receipts, Receive(j, s)
  PROVE  /\ accepted[j] = 1 /\ wamid'[j]
         /\ \/ msg[j] \in {"sent", "delivered", "read"}
            \/ msg[j] = "failed" /\ code[j] = "reported"
         /\ msg'[j] \in Receipts
         /\ msg[j] # "failed" /\ s # "failed" => msg'[j] \in Promise!Onward[msg[j]]
         /\ msg'[j] = "failed" <=> s = "failed"
         /\ code'[j] = IF s = "failed" THEN "reported" ELSE "none"
  <1>1. /\ accepted[j] = 1 /\ wamid[j] /\ wamid' = wamid
        /\ msg[j] \in Receipts
        /\ msg[j] = "failed" => code[j] = "reported"
    BY ReceiveFacts DEF MessagesExplained
  <1>2. /\ msg'[j] = Ranked(msg[j], s)
        /\ code'[j] = IF s = "failed" THEN "reported" ELSE "none"
    BY DEF Receive, DInv, DeliveryTypeOK
  <1>3. /\ Ranked(msg[j], s) \in Receipts
        /\ Ranked(msg[j], s) = "failed" <=> s = "failed"
    BY <1>1 DEF Ranked, Receipts
  <1>4. ASSUME msg[j] # "failed", s # "failed"
        PROVE  Ranked(msg[j], s) \in Promise!Onward[msg[j]]
    BY <1>1, <1>4 DEF Ranked, Receipts, Promise!Onward, Promise!Receipts
  <1>5. \/ msg[j] \in {"sent", "delivered", "read"}
        \/ msg[j] = "failed" /\ code[j] = "reported"
    BY <1>1 DEF Receipts
  <1> QED BY <1>1, <1>2, <1>3, <1>4, <1>5

LEMMA ExplainedStep ==
  ASSUME DInv, MessagesExplained, [DeliveryNext]_dvars
  PROVE  MessagesExplained'
  <1> SUFFICES ASSUME NEW j \in Jobs
               PROVE  /\ ~wamid'[j] => msg'[j] \in {"absent", "queued", "failed"} /\ code'[j] # "reported"
                      /\ wamid'[j] => /\ msg'[j] \in Receipts
                                      /\ msg'[j] = "failed" => code'[j] = "reported"
    BY DEF MessagesExplained
  <1>1. CASE Unwritten(j)
    BY <1>1 DEF Unwritten, MessagesExplained
  <1>2. CASE Admit(j)
    <2>1. msg'[j] = "queued" /\ code'[j] = code[j] /\ wamid'[j] = wamid[j] /\ status[j] = "absent"
      BY <1>2 DEF Admit, Enqueue, DInv, DeliveryTypeOK
    <2>2. ~wamid[j]
      BY <2>1 DEF DInv, RowsAligned
    <2> QED BY <2>1, <2>2 DEF MessagesExplained
  <1>3. ASSUME NEW s \in Receipts, Receive(j, s)
        PROVE  wamid'[j] /\ msg'[j] \in Receipts
               /\ (msg'[j] = "failed" => code'[j] = "reported")
    BY <1>3, ReceiptRanked
  <1>4. ASSUME NEW e \in Executors, Settles(e), held[e] = j
        PROVE  /\ ~wamid'[j] => msg'[j] \in {"absent", "queued", "failed"} /\ code'[j] # "reported"
               /\ wamid'[j] => msg'[j] = "sent"
    <2>1. ~wamid[j]
      BY <1>4, CommitFacts
    <2>2. tx[e] = "keep" => code'[j] = code[j]
      BY <1>4 DEF Settles, CommitRows
    <2>3. tx[e] = "quarantine" => pc[e] \in {"refused", "unknown"}
      BY <1>4, CommitFacts
    <2>4. code[j] # "reported"
      BY <2>1 DEF MessagesExplained
    <2>5. /\ msg'[j] \in {"queued", "failed", "sent"}
          /\ msg'[j] = "sent" <=> tx[e] = "succeed"
          /\ tx[e] # "succeed" => wamid'[j] = wamid[j] /\ code'[j] # "reported"
      BY <1>4, <2>2, <2>3, <2>4, CommitHere
    <2> QED BY <1>4, <2>1, <2>5, CommitHere
  <1> QED BY <1>1, <1>2, <1>3, <1>4, RowsWritten DEF Receipts

\* What a commit tells the inbox about the request it settles or keeps.
LEMMA CommitTold ==
  ASSUME DInv, NEW e \in Executors, Settles(e)
  PROVE  LET j == held[e] IN
    /\ msg[j] = "queued"
    /\ \/ msg'[j] = "queued"
       \/ msg'[j] = "sent" /\ accepted[j] = 1
       \/ /\ msg'[j] = "failed" /\ code'[j] \in {"refused", "denied", "unknown"}
          /\ code'[j] = "refused" => accepted[j] = 0
  <1> DEFINE j == held[e]
  <1>1. /\ j \in Jobs /\ Live(e, j) /\ msg[j] = "queued" /\ req[j] \in {"queued", "sending"}
        /\ tx[e] = "succeed" => pc[e] = "accepted"
        /\ tx[e] = "fail" => pc[e] = "throttled"
        /\ tx[e] = "quarantine" => pc[e] \in {"refused", "unknown"}
    BY CommitFacts
  <1>2. /\ pc[e] = "accepted" => accepted[j] = 1
        /\ pc[e] = "throttled" => accepted[j] + wire[j] = 0
    BY <1>1 DEF DInv, SentOnce
  <1>3. pc[e] = "refused" => accepted[j] + wire[j] = 0
    BY <1>1 DEF DInv, RefusalCertain, Untouched
  <1>4. pc[e] \in {"throttled", "refused"} => accepted[j] = 0
    BY <1>1, <1>2, <1>3, DeliveryTypes
  <1> QED BY <1>1, <1>2, <1>4, CommitHere

LEMMA PromiseStep ==
  ASSUME DInv, MessagesExplained, [DeliveryNext]_dvars, NEW j \in Jobs
  PROVE  Promise!Step(j)
  <1> DEFINE why  == [k \in Jobs |-> IF msg[k] = "failed" THEN code[k] ELSE "none"]
  <1>1. /\ why[j] = IF msg[j] = "failed" THEN code[j] ELSE "none"
        /\ why'[j] = IF msg'[j] = "failed" THEN code'[j] ELSE "none"
    OBVIOUS
  <1> HIDE DEF why
  <1> USE DEF Promise!Step, Promise!Told
  <1>2. CASE Unwritten(j)
    <2>1. CASE accepted'[j] = accepted[j]
      BY <1>1, <1>2, <2>1 DEF Unwritten, Promise!Same, why
    <2>2. CASE wire[j] = 1 /\ accepted[j] = 0 /\ accepted'[j] = 1
      <3>1. ~wamid[j] /\ req[j] # "absent" /\ msg[j] # "absent"
        BY <2>2 DEF DInv, SentOnce, RowsAligned
      <3>2. msg[j] \in {"queued", "failed"}
        BY <3>1 DEF MessagesExplained
      <3>3. msg[j] = "failed" => code[j] # "refused"
        BY <2>2 DEF DInv, RowsAligned, RefusalCertain, Untouched
      <3> QED BY <1>1, <1>2, <2>2, <3>2, <3>3 DEF Unwritten, Promise!Give, why
    <2> QED BY <2>1, <2>2, MessageGiven
  <1>3. CASE Admit(j) /\ accepted' = accepted
    <2>1. msg[j] = "absent" /\ msg'[j] = "queued"
      BY <1>3 DEF Admit, Enqueue, DInv, DeliveryTypeOK, RowsAligned
    <2> QED BY <1>1, <1>3, <2>1 DEF Promise!Ask, why
  <1>4. ASSUME NEW s \in Receipts, Receive(j, s), accepted' = accepted
        PROVE  Promise!Report(j)
    <2>1. /\ accepted[j] = 1 /\ msg'[j] \in Receipts
          /\ \/ msg[j] \in {"sent", "delivered", "read"}
             \/ msg[j] = "failed" /\ code[j] = "reported"
          /\ msg[j] # "failed" /\ s # "failed" => msg'[j] \in Promise!Onward[msg[j]]
          /\ msg'[j] = "failed" <=> s = "failed"
          /\ code'[j] = IF s = "failed" THEN "reported" ELSE "none"
      BY <1>4, ReceiptRanked
    <2>2. msg[j] = "failed" <=> why[j] = "reported"
      BY <1>1, <2>1
    <2>3. why'[j] = IF msg'[j] = "failed" THEN "reported" ELSE "none"
      BY <1>1, <2>1
    <2>4. /\ msg[j] \in {"sent", "delivered", "read"} \/ why[j] = "reported"
          /\ msg'[j] # "failed" /\ why[j] # "reported" => msg'[j] \in Promise!Onward[msg[j]]
      BY <2>1, <2>2
    <2> QED BY <1>4, <2>1, <2>3, <2>4 DEF Promise!Report, Promise!Receipts, Receipts, why
  <1>5. ASSUME NEW e \in Executors, Settles(e), held[e] = j, accepted' = accepted
        PROVE  Promise!Same(j) \/ Promise!Confirm(j) \/ Promise!Fail(j)
    BY <1>1, <1>5, CommitTold DEF Promise!Same, Promise!Confirm, Promise!Fail, why
  <1> QED BY <1>2, <1>3, <1>4, <1>5, RowsWritten

(* Sending keeps MessagePromise for any number of requests, calls and       *)
(* tries: the customer gets each message at most once; the inbox says sent  *)
(* only of a message the provider took, and refused only of one it never    *)
(* will; receipts come in any order, and while none reports a failure no    *)
(* late one, retry or crash takes a delivered or read message back.         *)
THEOREM DeliveryKeepsPromise == DeliverySpec => ImplementsMessagePromise
  <1>1. DeliveryInit => MessagesExplained
    BY DEF DeliveryInit, MessagesExplained
  <1>2. DInv /\ MessagesExplained /\ [DeliveryNext]_dvars => MessagesExplained'
    BY ExplainedStep
  <1>3. DeliveryInit => Promise!Init
    BY DEF DeliveryInit, Promise!Init
  <1>4. DInv /\ MessagesExplained /\ [DeliveryNext]_dvars => [Promise!Next]_Promise!pvars
    <2> SUFFICES ASSUME DInv, MessagesExplained, [DeliveryNext]_dvars PROVE Promise!Next
      OBVIOUS
    <2>1. \A j \in Jobs : Promise!Step(j)
      BY PromiseStep
    <2>2. DOMAIN msg' = Jobs /\ DOMAIN accepted' = Jobs
      BY DNextDInv DEF DInv, DeliveryTypeOK
    <2> QED BY <2>1, <2>2 DEF Promise!Next
  <1> QED
    BY <1>1, <1>2, <1>3, <1>4, DeliveryInvariance, PTL
    DEF DeliverySpec, ImplementsMessagePromise, Promise!Spec
-----------------------------------------------------------------------------
(* What the queue guarantees of every job, it guarantees of the send jobs:  *)
(* they are claimed finitely often, and one that waits can be claimed.      *)
THEOREM SendJobsAreFinite == DeliverySpec => [](ClaimsAreBounded /\ NoStrandedJob)
  <1>1. AudioJobs = {}
    BY DeliveryAssumption
  <1> QED
    BY <1>1, DeliveryImplementsQueue, FinitelyManyClaims, NoStranding, PTL
    DEF ImplementsQueue
=============================================================================
