------------------------ MODULE CampaignDialerProofs ------------------------
(****************************************************************************)
(* For any replicas, campaigns, contacts and limits: calls stay within the  *)
(* ceilings, nobody is called twice at once, done means done and a settled  *)
(* contact is final, although a reconcile writes rows it never locked.      *)
(****************************************************************************)
EXTENDS CampaignDialer, FiniteSetTheorems, TLAPS

-----------------------------------------------------------------------------
(* The parts of the inductive invariant.                                    *)

\* A contact being dialled is its runner's alone, and no reconcile under way
\* has decided anything about it.
DialsAlone ==
  \A r \in Runners :
    /\ pc[r] # "idle" => at[r] \in Campaigns
    /\ (on[r] \in Contacts) <=> (pc[r] \in {"dial", "record", "fail"})
    /\ \A k \in Contacts : on[r] = k =>
         /\ status[k] = "calling" /\ ~linked[k] /\ ~overdue[k]
         /\ pc[r] = "dial" => call[k] = "none"
         /\ pc[r] = "record" => call[k] # "none"
         /\ pc[r] = "fail" => call[k] = "none" \/ lost[k]
         /\ \A q \in Runners : /\ decided[q][k] = "keep"
                               /\ on[q] = k => q = r

\* A live call that is not lost is one its row has, or is about to have.
CallsAreKnown ==
  \A k \in Contacts :
    /\ call[k] \in Live /\ ~lost[k] =>
         /\ status[k] = "calling"
         /\ linked[k] \/ \E r \in Runners : on[r] = k /\ pc[r] = "record"
    /\ call[k] = "swept" => lost[k]
    /\ linked[k] => call[k] # "none"

\* A contact that waits has no call and an attempt left.
PendingAreFree ==
  \A k \in Contacts : status[k] = "pending" =>
    /\ call[k] \notin Live /\ ~linked[k]
    /\ attempts[k] < MaxAttempts[CampaignOf[k]]

\* What a reconcile decided and has not written yet: unless the call is lost
\* it is still what it would decide, or what another one has written.
DecisionsHold ==
  \A r \in Runners, k \in Contacts : decided[r][k] # "keep" =>
    /\ decided[r][k] = "pending" =>
         call[k] = "unanswered" /\ attempts[k] < MaxAttempts[CampaignOf[k]]
    /\ ~lost[k] => \/ status[k] = decided[r][k]
                   \/ status[k] = "calling" /\ decided[r][k] = Decision(k)
    /\ status[k] = "calling" => linked[k] \/ overdue[k]
    /\ status[k] = "pending" => resting[k]

\* What the runner counted under the lock is still so.
GateHolds ==
  \A r \in Runners : pc[r] = "claim" =>
    /\ gate = r /\ campaign[at[r]] = "running"
    /\ Cardinality(Calling) < TenantMax
    /\ Cardinality(Of(at[r]) \cap Calling) < MaxConcurrent[at[r]]
    /\ empty[r] => Of(at[r]) \cap Calling = {}

RowsWithinCeilings ==
  /\ Cardinality(Calling) <= TenantMax
  /\ \A c \in Campaigns : Cardinality(Of(c) \cap Calling) <= MaxConcurrent[c]

KInv ==
  /\ CampaignTypeOK
  /\ DialsAlone
  /\ CallsAreKnown
  /\ PendingAreFree
  /\ DecisionsHold
  /\ GateHolds
  /\ RowsWithinCeilings
  /\ OneCallAtATime
  /\ DoneMeansDone

-----------------------------------------------------------------------------
(* What the helpers do, for the provers.                                    *)

(* A part of a set within a limit is within it.                             *)
LEMMA PartFits ==
  ASSUME NEW S, IsFiniteSet(S), NEW T \in SUBSET S
  PROVE  /\ IsFiniteSet(T) /\ Cardinality(T) <= Cardinality(S)
         /\ Cardinality(S) \in Nat /\ Cardinality(T) \in Nat
<1>1. IsFiniteSet(T) /\ Cardinality(T) <= Cardinality(S)
  BY FS_Subset
<1>. QED  BY <1>1, FS_CardinalityType

(* A reconcile decides only about a contact with a session that is over, or *)
(* without one and overdue, and only an unanswered one is to be redialled.  *)
LEMMA DecisionFacts ==
  ASSUME CampaignTypeOK, NEW k \in Contacts
  PROVE  /\ Decision(k) \in {"keep", "pending"} \cup Final
         /\ Decision(k) # "keep" => \/ linked[k] /\ call[k] # "started"
                                    \/ ~linked[k] /\ overdue[k]
         /\ Decision(k) = "pending" =>
              call[k] = "unanswered" /\ attempts[k] < MaxAttempts[CampaignOf[k]]
<1>1. Outcome(call[k]) \in Final
  BY DEF Outcome, Final
<1>2. Outcome(call[k]) = "no_answer" => call[k] = "unanswered"
  BY DEF Outcome
<1>3. CASE linked[k] /\ call[k] # "started"
  BY <1>1, <1>2, <1>3 DEF Decision, Settled, Final
<1>4. CASE ~linked[k] /\ overdue[k]
  BY <1>4 DEF Decision, Settled, Final
<1>5. CASE ~(linked[k] /\ call[k] # "started") /\ ~(~linked[k] /\ overdue[k])
  BY <1>5 DEF Decision, Final
<1>. QED  BY <1>3, <1>4, <1>5

(* A runner at rest is well typed.                                          *)
LEMMA RestTypes ==
  ASSUME CampaignTypeOK, NEW r \in Runners, Rest(r)
  PROVE  /\ pc' \in [Runners -> {"idle", "write", "writeOnly", "gate", "claim", "dial",
                                 "record", "fail"}]
         /\ at' \in [Runners -> Campaigns \cup {None}]
         /\ on' \in [Runners -> Contacts \cup {None}]
         /\ empty' \in [Runners -> BOOLEAN]
         /\ fails' \in [Runners -> 0 .. MaxDialFailures - 1]
<1>1. fails' \in [Runners -> 0 .. MaxDialFailures - 1]
  BY CampaignAssumption DEF CampaignTypeOK, Rest
<1>. QED  BY <1>1 DEF CampaignTypeOK, Rest

(* A step keeps the types.                                                  *)
LEMMA KTypeStep ==
  ASSUME KInv, [CampaignNext]_cvars PROVE CampaignTypeOK'
<1> USE CampaignAssumption DEF KInv, CampaignTypeOK
<1>1. CASE UNCHANGED cvars
  BY <1>1 DEF cvars, rows, runner
<1>2. ASSUME NEW c \in Campaigns, NEW s \in {"running", "paused", "stopped"}, Control(c, s)
      PROVE  CampaignTypeOK'
  BY <1>2 DEF Control, rows, runner
<1>3. ASSUME NEW r \in Runners, NEW c \in Campaigns, Reconcile(r, c)
      PROVE  CampaignTypeOK'
  <2>1. \A k \in Contacts : Decision(k) \in {"keep", "pending"} \cup Final
    BY DecisionFacts
  <2>2. [k \in Contacts |-> IF k \in Of(c) \cap Calling THEN Decision(k) ELSE "keep"]
          \in [Contacts -> {"keep", "pending"} \cup Final]
    BY <2>1
  <2>3. decided' \in [Runners -> [Contacts -> {"keep", "pending"} \cup Final]]
    BY <1>3, <2>2 DEF Reconcile
  <2>. QED  BY <1>3, <2>3 DEF Reconcile, rows, runner
<1>4. ASSUME NEW r \in Runners, NEW next, Write(r, next) PROVE CampaignTypeOK'
  <2>1. decided[r] \in [Contacts -> {"keep", "pending"} \cup Final]
    OBVIOUS
  <2>2. status' \in [Contacts -> {"pending", "calling"} \cup Final]
    BY <1>4, <2>1 DEF Write
  <2>3. resting' \in [Contacts -> BOOLEAN] /\ linked' \in [Contacts -> BOOLEAN]
    BY <1>4 DEF Write
  <2>4. decided' \in [Runners -> [Contacts -> {"keep", "pending"} \cup Final]]
    BY <1>4 DEF Write
  <2>. QED  BY <1>4, <2>2, <2>3, <2>4 DEF Write, rows, runner
<1>5. ASSUME NEW r \in Runners, EnterGate(r) \/ LeaveGate(r) PROVE CampaignTypeOK'
  <2>1. CASE EnterGate(r)
    <3>1. empty' \in [Runners -> BOOLEAN]
      BY <2>1 DEF EnterGate
    <3>2. pc' \in [Runners -> {"idle", "write", "writeOnly", "gate", "claim", "dial",
                              "record", "fail"}] /\ gate' \in Runners \cup {None}
      BY <2>1 DEF EnterGate
    <3>. QED  BY <2>1, <3>1, <3>2 DEF EnterGate, rows
  <2>2. CASE LeaveGate(r)
    BY <2>2, RestTypes DEF LeaveGate, rows
  <2>. QED  BY <1>5, <2>1, <2>2
<1>6. ASSUME NEW r \in Runners, NEW k \in Contacts, Claim(r, k) PROVE CampaignTypeOK'
  <2>1. attempts[k] < MaxAttempts[CampaignOf[k]]
    BY <1>6 DEF Claim, Eligible, Of, PendingAreFree
  <2>2. attempts' \in [Contacts -> Nat]
        /\ \A j \in Contacts : attempts'[j] <= MaxAttempts[CampaignOf[j]]
    BY <1>6, <2>1 DEF Claim
  <2>3. status' \in [Contacts -> {"pending", "calling"} \cup Final]
    BY <1>6 DEF Claim, Final
  <2>4. /\ pc' \in [Runners -> {"idle", "write", "writeOnly", "gate", "claim", "dial",
                                "record", "fail"}]
        /\ on' \in [Runners -> Contacts \cup {None}]
    <3>1. \/ pc' = [pc EXCEPT ![r] = "dial"] /\ on' = [on EXCEPT ![r] = k]
          \/ pc' = [pc EXCEPT ![r] = "gate"] /\ UNCHANGED on
      BY <1>6, Zenon DEF Claim
    <3>2. CASE pc' = [pc EXCEPT ![r] = "dial"] /\ on' = [on EXCEPT ![r] = k]
      BY <3>2
    <3>3. CASE pc' = [pc EXCEPT ![r] = "gate"] /\ UNCHANGED on
      BY <3>3
    <3>. QED  BY <3>1, <3>2, <3>3
  <2>5. overdue' \in [Contacts -> BOOLEAN] /\ lost' \in [Contacts -> BOOLEAN]
    BY <1>6 DEF Claim
  <2>6. stray' \in [Contacts -> BOOLEAN]
    BY <1>6 DEF Claim
  <2>7. call' \in [Contacts -> {"none", "ended", "unanswered", "failed"} \cup Live]
    BY <1>6 DEF Claim
  <2>. QED  BY <1>6, <2>2, <2>3, <2>4, <2>5, <2>6, <2>7 DEF Claim
<1>7. ASSUME NEW r \in Runners, Finish(r) PROVE CampaignTypeOK'
  <2>1. campaign' \in [Campaigns -> {"stopped", "running", "paused", "done"}]
    BY <1>7 DEF Finish
  <2>2. gate' \in Runners \cup {None}
    BY <1>7 DEF Finish
  <2>. QED  BY <1>7, <2>1, <2>2, RestTypes DEF Finish, rows
<1>8. ASSUME NEW r \in Runners, Dial(r) PROVE CampaignTypeOK'
  BY <1>8 DEF Dial, Live, rows, runner
<1>9. ASSUME NEW r \in Runners, Record(r) PROVE CampaignTypeOK'
  <2>1. fails' \in [Runners -> 0 .. MaxDialFailures - 1]
    BY <1>9 DEF Record
  <2>2. /\ pc' \in [Runners -> {"idle", "write", "writeOnly", "gate", "claim", "dial",
                                "record", "fail"}]
        /\ on' \in [Runners -> Contacts \cup {None}]
        /\ linked' \in [Contacts -> BOOLEAN]
    BY <1>9 DEF Record
  <2>. QED  BY <1>9, <2>1, <2>2 DEF Record
<1>10. ASSUME NEW r \in Runners, GiveUp(r) PROVE CampaignTypeOK'
  <2>1. status' \in [Contacts -> {"pending", "calling"} \cup Final]
        /\ linked' \in [Contacts -> BOOLEAN]
    BY <1>10 DEF GiveUp, Final
  <2>2. CASE Rest(r)
    BY <1>10, <2>1, <2>2, RestTypes DEF GiveUp
  <2>3. CASE ~Rest(r)
    <3>1. fails' \in [Runners -> 0 .. MaxDialFailures - 1]
      <4>1. ~(fails[r] + 1 >= MaxDialFailures) /\ fails' = [fails EXCEPT ![r] = @ + 1]
        BY <1>10, <2>3 DEF GiveUp
      <4>2. fails[r] \in 0 .. MaxDialFailures - 1 /\ MaxDialFailures \in Nat
        OBVIOUS
      <4>3. fails[r] + 1 \in 0 .. MaxDialFailures - 1
        BY <4>1, <4>2
      <4>. QED  BY <4>1, <4>3
    <3>2. /\ pc' \in [Runners -> {"idle", "write", "writeOnly", "gate", "claim", "dial",
                                  "record", "fail"}]
          /\ on' \in [Runners -> Contacts \cup {None}] /\ UNCHANGED <<at, empty>>
      BY <1>10, <2>3 DEF GiveUp
    <3>. QED  BY <1>10, <2>1, <3>1, <3>2 DEF GiveUp
  <2>. QED  BY <2>2, <2>3
<1>11. ASSUME NEW r \in Runners, Abort(r) PROVE CampaignTypeOK'
  <2>1. call' \in [Contacts -> {"none", "ended", "unanswered", "failed"} \cup Live]
    <3>1. CASE UNCHANGED call
      BY <3>1
    <3>2. CASE call' = [call EXCEPT ![on[r]] = IF @ = "none" THEN "started" ELSE @]
      BY <3>2 DEF Live
    <3>. QED  BY <1>11, <3>1, <3>2 DEF Abort
  <2>2. lost' \in [Contacts -> BOOLEAN]
        /\ decided' \in [Runners -> [Contacts -> {"keep", "pending"} \cup Final]]
    BY <1>11 DEF Abort
  <2>3. gate' \in Runners \cup {None}
    BY <1>11 DEF Abort
  <2>. QED  BY <1>11, <2>1, <2>2, <2>3, RestTypes DEF Abort, rows
<1>12. ASSUME NEW k \in Contacts, CallEnds(k) \/ Sweep(k) \/ Rested(k) \/ Overdue(k)
       PROVE  CampaignTypeOK'
  <2>1. CASE CallEnds(k)
    BY <2>1 DEF CallEnds, rows, runner
  <2>2. CASE Sweep(k)
    BY <2>2 DEF Sweep, Live, rows, runner
  <2>3. CASE Rested(k) \/ Overdue(k)
    BY <2>3 DEF Rested, Overdue, runner
  <2>. QED  BY <1>12, <2>1, <2>2, <2>3
<1>. QED
  BY <1>1, <1>2, <1>3, <1>4, <1>5, <1>6, <1>7, <1>8, <1>9, <1>10, <1>11, <1>12
  DEF CampaignNext

-----------------------------------------------------------------------------
(* Where the runners are.                                                   *)

(* The rows a runner's own steps leave alone, and where it goes.            *)
LEMMA ClaimFacts ==
  ASSUME CampaignTypeOK, NEW r \in Runners, NEW k \in Contacts, Claim(r, k)
  PROVE  /\ pc[r] = "claim" /\ status[k] = "pending" /\ ~resting[k]
         /\ CampaignOf[k] = at[r]
         /\ call' = [call EXCEPT ![k] = "none"] /\ lost' = [lost EXCEPT ![k] = FALSE]
         /\ attempts' = [attempts EXCEPT ![k] = @ + 1]
         /\ overdue' = [overdue EXCEPT ![k] = FALSE] /\ gate' = None
         /\ UNCHANGED <<campaign, resting, linked, at, empty, fails, decided>>
         /\ \/ /\ status' = [status EXCEPT ![k] = "calling"]
               /\ pc' = [pc EXCEPT ![r] = "dial"] /\ on' = [on EXCEPT ![r] = k]
            \/ /\ status' = [status EXCEPT ![k] = "failed"]
               /\ pc' = [pc EXCEPT ![r] = "gate"] /\ UNCHANGED on
<1>1. status[k] = "pending" /\ ~resting[k] /\ CampaignOf[k] = at[r]
  BY DEF Claim, Eligible, Of
<1>. QED  BY <1>1, Zenon DEF Claim

(* While nobody dials a contact nobody has decided about, it stays so, and  *)
(* who dials it goes on with what the step says.                            *)
LEMMA DialsStep ==
  ASSUME KInv, [CampaignNext]_cvars PROVE DialsAlone'
<1> USE CampaignAssumption DEF KInv, CampaignTypeOK, DialsAlone
<1>1. CASE UNCHANGED cvars
  BY <1>1 DEF cvars, rows, runner
<1>2. ASSUME NEW c \in Campaigns, NEW s \in {"running", "paused", "stopped"}, Control(c, s)
      PROVE  DialsAlone'
  BY <1>2 DEF Control, rows, runner
<1>3. ASSUME NEW r \in Runners, NEW c \in Campaigns, Reconcile(r, c)
      PROVE  DialsAlone'
  <2>1. ASSUME NEW q \in Runners, NEW k \in Contacts, on[q] = k
        PROVE  decided'[r][k] = "keep"
    <3>1. Decision(k) = "keep"
      BY <2>1, DecisionFacts
    <3>. QED  BY <1>3, <3>1 DEF Reconcile
  <2>2. ASSUME NEW q \in Runners, q # r PROVE decided'[q] = decided[q]
    BY <1>3, <2>2 DEF Reconcile
  <2>3. UNCHANGED <<status, linked, overdue, call, lost, on>>
    BY <1>3 DEF Reconcile, rows
  <2>4. pc[r] = "idle" /\ on[r] \notin Contacts
    BY <1>3 DEF Reconcile
  <2>5. at'[r] = c /\ pc'[r] \in {"write", "writeOnly"}
    BY <1>3 DEF Reconcile
  <2>6. \A q \in Runners \ {r} : pc'[q] = pc[q] /\ at'[q] = at[q]
    BY <1>3 DEF Reconcile
  <2>7. \A q \in Runners, k \in Contacts, p \in Runners : on[q] = k => decided'[p][k] = "keep"
    BY <2>1, <2>2
  <2>. QED  BY <2>3, <2>4, <2>5, <2>6, <2>7
<1>4. ASSUME NEW r \in Runners, NEW next, Write(r, next) PROVE DialsAlone'
  <2>1. \A k \in Contacts : \A q \in Runners : on[q] = k =>
          status'[k] = status[k] /\ linked'[k] = linked[k]
    BY <1>4 DEF Write
  <2>2. \A q \in Runners, k \in Contacts : decided[q][k] = "keep" => decided'[q][k] = "keep"
    BY <1>4 DEF Write
  <2>3. UNCHANGED <<overdue, call, lost, on>>
    BY <1>4 DEF Write
  <2>4. on[r] \notin Contacts /\ at[r] \in Campaigns
    BY <1>4 DEF Write
  <2>5. pc'[r] \in {"gate", "idle"} /\ (pc'[r] = "gate" => at'[r] = at[r])
    BY <1>4 DEF Write
  <2>6. \A q \in Runners \ {r} : pc'[q] = pc[q] /\ at'[q] = at[q]
    BY <1>4 DEF Write
  <2>. QED  BY <2>1, <2>2, <2>3, <2>4, <2>5, <2>6
<1>5. ASSUME NEW r \in Runners, EnterGate(r) \/ LeaveGate(r) \/ Finish(r)
      PROVE  DialsAlone'
  <2>1. UNCHANGED <<status, linked, overdue, call, lost, decided>>
    BY <1>5 DEF EnterGate, LeaveGate, Finish, rows
  <2>2. on[r] \notin Contacts /\ at[r] \in Campaigns
    BY <1>5 DEF EnterGate, LeaveGate, Finish
  <2>3. on'[r] \notin Contacts
    BY <1>5, <2>2 DEF EnterGate, LeaveGate, Finish, Rest
  <2>4. (pc'[r] = "claim" /\ at'[r] = at[r]) \/ pc'[r] = "idle"
    BY <1>5 DEF EnterGate, LeaveGate, Finish, Rest
  <2>5. \A q \in Runners \ {r} : pc'[q] = pc[q] /\ at'[q] = at[q] /\ on'[q] = on[q]
    BY <1>5 DEF EnterGate, LeaveGate, Finish, Rest
  <2>6. \A q \in Runners, k \in Contacts : on'[q] = k => q # r /\ on[q] = k
    BY <2>3, <2>5
  <2>. QED  BY <2>1, <2>2, <2>3, <2>4, <2>5, <2>6
<1>6. ASSUME NEW r \in Runners, NEW k \in Contacts, Claim(r, k) PROVE DialsAlone'
  <2>1. \A q \in Runners : on[q] # k /\ decided[q][k] = "keep"
    BY <1>6, ClaimFacts DEF DecisionsHold
  <2>2. UNCHANGED <<linked, at, decided>> /\ ~linked[k]
    BY <1>6, ClaimFacts DEF PendingAreFree
  <2>3. at[r] \in Campaigns /\ on[r] \notin Contacts
    BY <1>6, ClaimFacts
  <2>4. call'[k] = "none" /\ overdue'[k] = FALSE
    BY <1>6, ClaimFacts
  <2>5. \A j \in Contacts \ {k} : /\ status'[j] = status[j] /\ overdue'[j] = overdue[j]
                                   /\ call'[j] = call[j] /\ lost'[j] = lost[j]
    BY <1>6, ClaimFacts
  <2>6. \A q \in Runners \ {r} : pc'[q] = pc[q] /\ on'[q] = on[q]
    BY <1>6, ClaimFacts
  <2>7. \/ pc'[r] = "dial" /\ on'[r] = k /\ status'[k] = "calling"
        \/ pc'[r] = "gate" /\ on'[r] = on[r]
    BY <1>6, ClaimFacts
  <2>8. CASE pc'[r] = "dial" /\ on'[r] = k /\ status'[k] = "calling"
    BY <2>1, <2>2, <2>3, <2>4, <2>5, <2>6, <2>8
  <2>9. CASE pc'[r] = "gate" /\ on'[r] = on[r]
    BY <2>1, <2>2, <2>3, <2>5, <2>6, <2>9
  <2>. QED  BY <2>7, <2>8, <2>9
<1>7. ASSUME NEW r \in Runners, Dial(r) PROVE DialsAlone'
  <2> DEFINE k == on[r]
  <2>1. /\ k \in Contacts /\ pc[r] = "dial" /\ call[k] = "none"
        /\ \A q \in Runners \ {r} : on[q] # k
    BY <1>7 DEF Dial
  <2>2. /\ UNCHANGED <<status, linked, overdue, at, on, decided>>
        /\ \A j \in Contacts \ {k} : call'[j] = call[j] /\ lost'[j] = lost[j]
        /\ \A q \in Runners \ {r} : pc'[q] = pc[q]
        /\ \/ pc'[r] = "record" /\ call'[k] # "none"
           \/ pc'[r] = "fail" /\ (call'[k] = "none" \/ lost'[k])
    BY <1>7, <2>1 DEF Dial, rows
  <2>. QED  BY <2>1, <2>2
<1>8. ASSUME NEW r \in Runners, Record(r) \/ GiveUp(r) PROVE DialsAlone'
  <2> DEFINE k == on[r]
  <2>1. /\ k \in Contacts /\ pc[r] \in {"record", "fail"}
        /\ \A q \in Runners \ {r} : on[q] # k
    BY <1>8 DEF Record, GiveUp
  <2>2. /\ UNCHANGED <<overdue, call, lost, decided>>
        /\ \A j \in Contacts \ {k} : status'[j] = status[j] /\ linked'[j] = linked[j]
        /\ \A q \in Runners \ {r} : pc'[q] = pc[q] /\ at'[q] = at[q] /\ on'[q] = on[q]
        /\ on'[r] = None
        /\ \/ pc'[r] = "gate" /\ at'[r] = at[r]
           \/ pc'[r] = "idle"
    BY <1>8 DEF Record, GiveUp, Rest
  <2>. QED  BY <2>1, <2>2
<1>9. ASSUME NEW r \in Runners, Abort(r) PROVE DialsAlone'
  <2>1. /\ UNCHANGED <<status, linked, overdue>>
        /\ \A q \in Runners \ {r} : pc'[q] = pc[q] /\ at'[q] = at[q] /\ on'[q] = on[q]
        /\ pc'[r] = "idle" /\ on'[r] = None
    BY <1>9 DEF Abort, Rest, rows
  <2>2. \A k \in Contacts : on[r] # k => call'[k] = call[k] /\ lost'[k] = lost[k]
    BY <1>9 DEF Abort
  <2>3. \A q \in Runners, k \in Contacts : decided[q][k] = "keep" => decided'[q][k] = "keep"
    BY <1>9 DEF Abort
  <2>4. \A q \in Runners \ {r}, k \in Contacts : on[q] = k => on[r] # k
    OBVIOUS
  <2>. QED  BY <2>1, <2>2, <2>3, <2>4
<1>10. ASSUME NEW k \in Contacts, CallEnds(k) \/ Sweep(k) PROVE DialsAlone'
  <2>1. /\ UNCHANGED <<status, linked, overdue, pc, at, on, decided>>
        /\ \A j \in Contacts : lost[j] => lost'[j]
        /\ \A j \in Contacts \ {k} : call'[j] = call[j]
        /\ call[k] # "none" /\ call'[k] # "none"
    BY <1>10 DEF CallEnds, Sweep, Live, rows, runner
  <2>. QED  BY <2>1
<1>11. ASSUME NEW k \in Contacts, Rested(k) \/ Overdue(k) PROVE DialsAlone'
  <2>1. /\ UNCHANGED <<status, linked, pc, at, on, decided, call, lost>>
        /\ \A j \in Contacts : overdue'[j] = overdue[j] \/ \A q \in Runners : on[q] # j
    BY <1>11 DEF Rested, Overdue, runner
  <2>. QED  BY <2>1
<1>. QED
  BY <1>1, <1>2, <1>3, <1>4, <1>5, <1>6, <1>7, <1>8, <1>9, <1>10, <1>11
  DEF CampaignNext

-----------------------------------------------------------------------------
(* What is known of calls and of contacts that wait.                        *)

(* What a write of decisions makes of a row.                                *)
LEMMA WriteFacts ==
  ASSUME CampaignTypeOK, NEW r \in Runners, NEW next, Write(r, next)
  PROVE  /\ \A k \in Contacts :
              /\ decided[r][k] = "keep" => /\ status'[k] = status[k]
                                           /\ resting'[k] = resting[k]
                                           /\ linked'[k] = linked[k]
              /\ decided[r][k] # "keep" => status'[k] = decided[r][k]
              /\ decided[r][k] = "pending" => resting'[k] /\ ~linked'[k]
              /\ decided[r][k] # "pending" => /\ linked'[k] = linked[k]
                                              /\ resting'[k] = resting[k]
              /\ decided'[r][k] = "keep"
         /\ \A q \in Runners \ {r} : decided'[q] = decided[q]
         /\ UNCHANGED <<campaign, attempts, overdue, call, stray, on, gate, lost>>
<1> USE DEF CampaignTypeOK
<1>1. \A k \in Contacts :
        /\ status'[k] = IF decided[r][k] = "keep" THEN status[k] ELSE decided[r][k]
        /\ resting'[k] <=> (resting[k] \/ decided[r][k] = "pending")
        /\ linked'[k] <=> (linked[k] /\ decided[r][k] # "pending")
  BY DEF Write
<1>2. resting' \in [Contacts -> BOOLEAN] /\ linked' \in [Contacts -> BOOLEAN]
  BY DEF Write
<1>3. /\ \A k \in Contacts : decided'[r][k] = "keep"
      /\ \A q \in Runners \ {r} : decided'[q] = decided[q]
  BY DEF Write
<1>. QED  BY <1>1, <1>2, <1>3 DEF Write

(* A contact is to be redialled only when its call has ended, and is not    *)
(* linked to it any more.                                                   *)
LEMMA PendingStep ==
  ASSUME KInv, [CampaignNext]_cvars PROVE PendingAreFree'
<1> USE CampaignAssumption DEF KInv, CampaignTypeOK
<1>1. ASSUME UNCHANGED <<status, call, linked, attempts>> PROVE PendingAreFree'
  BY <1>1 DEF PendingAreFree
<1>2. ASSUME NEW r \in Runners, NEW next, Write(r, next) PROVE PendingAreFree'
  <2>1. ASSUME NEW k \in Contacts, status'[k] = "pending"
        PROVE  /\ call'[k] \notin Live /\ ~linked'[k]
               /\ attempts'[k] < MaxAttempts[CampaignOf[k]]
    <3>1. CASE decided[r][k] = "keep"
      BY <1>2, <2>1, <3>1, WriteFacts DEF PendingAreFree
    <3>2. CASE decided[r][k] # "keep"
      <4>1. decided[r][k] = "pending"
        BY <1>2, <2>1, <3>2, WriteFacts
      <4>. QED  BY <1>2, <4>1, WriteFacts DEF DecisionsHold, Live
    <3>. QED  BY <3>1, <3>2
  <2>. QED  BY <2>1 DEF PendingAreFree
<1>3. ASSUME NEW r \in Runners, NEW k \in Contacts, Claim(r, k) PROVE PendingAreFree'
  <2>1. status'[k] # "pending" /\ UNCHANGED linked
    BY <1>3, ClaimFacts
  <2>2. \A j \in Contacts \ {k} : /\ status'[j] = status[j] /\ call'[j] = call[j]
                                   /\ attempts'[j] = attempts[j]
    BY <1>3, ClaimFacts
  <2>. QED  BY <2>1, <2>2 DEF PendingAreFree
<1>4. ASSUME NEW r \in Runners, Dial(r) \/ Record(r) \/ GiveUp(r) \/ Abort(r)
      PROVE  PendingAreFree'
  <2>1. UNCHANGED attempts
    BY <1>4 DEF Dial, Record, GiveUp, Abort, rows
  <2>2. \A k \in Contacts : on[r] # k => /\ status'[k] = status[k] /\ call'[k] = call[k]
                                          /\ linked'[k] = linked[k]
    BY <1>4 DEF Dial, Record, GiveUp, Abort, rows
  <2>3. \A k \in Contacts : on[r] = k => status'[k] # "pending"
    BY <1>4 DEF Dial, Record, GiveUp, Abort, rows, DialsAlone
  <2>. QED  BY <2>1, <2>2, <2>3 DEF PendingAreFree
<1>5. ASSUME NEW k \in Contacts, CallEnds(k) \/ Sweep(k) PROVE PendingAreFree'
  <2>1. UNCHANGED <<status, linked, attempts>> /\ call[k] \in Live
        /\ \A j \in Contacts \ {k} : call'[j] = call[j]
    BY <1>5 DEF CallEnds, Sweep, Live, rows
  <2>. QED  BY <2>1 DEF PendingAreFree
<1>6. CASE UNCHANGED <<status, call, linked, attempts>>
  BY <1>1, <1>6
<1>. QED
  BY <1>2, <1>3, <1>4, <1>5, <1>6
  DEF CampaignNext, cvars, rows, runner, Control, Reconcile, EnterGate, LeaveGate,
      Finish, Rested, Overdue

(* A reconcile decides nothing about a contact whose live call its row has. *)
LEMMA LiveIsKept ==
  ASSUME KInv, NEW r \in Runners, NEW k \in Contacts, call[k] \in Live, ~lost[k]
  PROVE  decided[r][k] = "keep"
<1> SUFFICES ASSUME decided[r][k] # "keep" PROVE FALSE
  OBVIOUS
<1> USE DEF KInv
<1>1. status[k] = "calling" /\ call[k] = "started"
  BY DEF CallsAreKnown, Live
<1>2. linked[k] \/ \E q \in Runners : on[q] = k
  BY DEF CallsAreKnown
<1>3. ~ \E q \in Runners : on[q] = k
  BY DEF DialsAlone
<1>4. decided[r][k] \in {"keep", "pending"} \cup Final
  BY DEF CampaignTypeOK
<1>5. decided[r][k] = Decision(k)
  BY <1>1, <1>4 DEF DecisionsHold, Final
<1>. QED  BY <1>1, <1>2, <1>3, <1>5, DecisionFacts

(* A dial is answered to its runner, which links it, or is lost.            *)
LEMMA CallsStep ==
  ASSUME KInv, [CampaignNext]_cvars PROVE CallsAreKnown'
<1> USE CampaignAssumption DEF KInv, CampaignTypeOK
<1>1. ASSUME NEW j \in Contacts,
             UNCHANGED <<call[j], lost[j], status[j], linked[j]>>,
             \A q \in Runners : on[q] = j /\ pc[q] = "record" =>
                               on'[q] = j /\ pc'[q] = "record"
      PROVE  /\ call'[j] \in Live /\ ~lost'[j] =>
                  /\ status'[j] = "calling"
                  /\ linked'[j] \/ \E q \in Runners : on'[q] = j /\ pc'[q] = "record"
             /\ call'[j] = "swept" => lost'[j]
             /\ linked'[j] => call'[j] # "none"
  BY <1>1 DEF CallsAreKnown
<1>2. ASSUME UNCHANGED <<call, lost, status, linked>>,
             \A j \in Contacts, q \in Runners :
               on[q] = j /\ pc[q] = "record" => on'[q] = j /\ pc'[q] = "record"
      PROVE  CallsAreKnown'
  BY <1>1, <1>2 DEF CallsAreKnown
<1>3. CASE UNCHANGED <<call, lost, status, linked, on, pc>>
  BY <1>2, <1>3
<1>4. ASSUME NEW r \in Runners,
             (\E c \in Campaigns : Reconcile(r, c))
               \/ EnterGate(r) \/ LeaveGate(r) \/ Finish(r)
      PROVE  CallsAreKnown'
  <2>1. UNCHANGED <<call, lost, status, linked>> /\ pc[r] # "record"
    BY <1>4 DEF Reconcile, EnterGate, LeaveGate, Finish, rows
  <2>2. \A q \in Runners \ {r} : on'[q] = on[q] /\ pc'[q] = pc[q]
    BY <1>4 DEF Reconcile, EnterGate, LeaveGate, Finish, Rest
  <2>. QED  BY <1>2, <2>1, <2>2
<1>5. ASSUME NEW r \in Runners, NEW next, Write(r, next) PROVE CallsAreKnown'
  <2>1. pc[r] # "record" /\ \A q \in Runners \ {r} : pc'[q] = pc[q]
    BY <1>5 DEF Write
  <2>2. ASSUME NEW j \in Contacts
        PROVE  /\ call'[j] \in Live /\ ~lost'[j] =>
                    /\ status'[j] = "calling"
                    /\ linked'[j] \/ \E q \in Runners : on'[q] = j /\ pc'[q] = "record"
               /\ call'[j] = "swept" => lost'[j]
               /\ linked'[j] => call'[j] # "none"
    <3>1. CASE decided[r][j] = "keep"
      <4>1. UNCHANGED <<call[j], lost[j], status[j], linked[j]>> /\ UNCHANGED on
        BY <1>5, <3>1, WriteFacts
      <4>2. \A q \in Runners : on[q] = j /\ pc[q] = "record" =>
                               on'[q] = j /\ pc'[q] = "record"
        BY <2>1, <4>1
      <4>. QED  BY <1>1, <4>1, <4>2
    <3>2. CASE decided[r][j] # "keep"
      <4>1. UNCHANGED <<call, lost>> /\ (linked'[j] => linked[j])
        BY <1>5, WriteFacts
      <4>. QED  BY <3>2, <4>1, LiveIsKept DEF CallsAreKnown
    <3>. QED  BY <3>1, <3>2
  <2>. QED  BY <2>2 DEF CallsAreKnown
<1>6. ASSUME NEW r \in Runners, NEW k \in Contacts, Claim(r, k) PROVE CallsAreKnown'
  <2>1. /\ UNCHANGED linked /\ call'[k] = "none" /\ ~linked[k] /\ pc[r] = "claim"
        /\ \A j \in Contacts \ {k} :
             status'[j] = status[j] /\ call'[j] = call[j] /\ lost'[j] = lost[j]
    BY <1>6, ClaimFacts DEF PendingAreFree
  <2>2. \A q \in Runners \ {r} : on'[q] = on[q] /\ pc'[q] = pc[q]
    BY <1>6, ClaimFacts
  <2>3. \A j \in Contacts \ {k} : UNCHANGED <<call[j], lost[j], status[j], linked[j]>>
    BY <2>1
  <2>4. \A q \in Runners, j \in Contacts :
          on[q] = j /\ pc[q] = "record" => on'[q] = j /\ pc'[q] = "record"
    BY <2>1, <2>2
  <2>. QED  BY <1>1, <2>1, <2>3, <2>4 DEF CallsAreKnown, Live
<1>7. ASSUME NEW r \in Runners, Dial(r) \/ Record(r) \/ GiveUp(r) \/ Abort(r)
      PROVE  CallsAreKnown'
  <2>1. \A q \in Runners \ {r} : on'[q] = on[q] /\ pc'[q] = pc[q]
    BY <1>7 DEF Dial, Record, GiveUp, Abort, Rest
  <2>2. ASSUME NEW j \in Contacts, on[r] # j
        PROVE  UNCHANGED <<call[j], lost[j], status[j], linked[j]>>
    BY <1>7, <2>2 DEF Dial, Record, GiveUp, Abort, rows
  <2>3. ASSUME NEW k \in Contacts, on[r] = k
        PROVE  /\ call'[k] \in Live /\ ~lost'[k] =>
                    /\ status'[k] = "calling"
                    /\ linked'[k] \/ \E q \in Runners : on'[q] = k /\ pc'[q] = "record"
               /\ call'[k] = "swept" => lost'[k]
               /\ linked'[k] => call'[k] # "none"
    <3>1. /\ status[k] = "calling" /\ ~linked[k] /\ pc[r] \in {"dial", "record", "fail"}
          /\ pc[r] = "dial" => call[k] = "none"
          /\ pc[r] = "record" => call[k] # "none"
          /\ pc[r] = "fail" => call[k] = "none" \/ lost[k]
          /\ call[k] = "swept" => lost[k]
      BY <2>3 DEF DialsAlone, CallsAreKnown
    <3>2. CASE Dial(r)
      <4>1. UNCHANGED <<status, linked, on>>
        BY <3>2 DEF Dial, rows
      <4>2. \/ call'[k] = "started" /\ pc'[r] = "record"
            \/ call'[k] = "none"
            \/ call'[k] = "started" /\ lost'[k]
        BY <2>3, <3>1, <3>2 DEF Dial
      <4>. QED  BY <2>3, <3>1, <4>1, <4>2 DEF Live
    <3>3. CASE Record(r)
      BY <2>3, <3>1, <3>3 DEF Record
    <3>4. CASE GiveUp(r)
      <4>1. UNCHANGED <<call, lost>> /\ linked'[k] = FALSE
        BY <2>3, <3>4 DEF GiveUp
      <4>2. call[k] = "none" \/ lost[k]
        BY <3>1, <3>4 DEF GiveUp
      <4>. QED  BY <4>1, <4>2, <3>1 DEF Live
    <3>5. CASE Abort(r)
      <4>1. UNCHANGED linked
        BY <3>5 DEF Abort, rows
      <4>2. \/ pc[r] # "record" /\ UNCHANGED <<call, lost>>
            \/ lost'[k]
        BY <2>3, <3>5 DEF Abort
      <4>. QED  BY <3>1, <4>1, <4>2 DEF Live
    <3>. QED  BY <1>7, <3>2, <3>3, <3>4, <3>5
  <2>4. ASSUME NEW j \in Contacts, on[r] # j
        PROVE  \A q \in Runners : on[q] = j /\ pc[q] = "record" =>
                                 on'[q] = j /\ pc'[q] = "record"
    BY <2>1, <2>4
  <2>5. ASSUME NEW j \in Contacts
        PROVE  /\ call'[j] \in Live /\ ~lost'[j] =>
                    /\ status'[j] = "calling"
                    /\ linked'[j] \/ \E q \in Runners : on'[q] = j /\ pc'[q] = "record"
               /\ call'[j] = "swept" => lost'[j]
               /\ linked'[j] => call'[j] # "none"
    <3>1. CASE on[r] = j
      BY <2>3, <3>1
    <3>2. CASE on[r] # j
      BY <1>1, <2>2, <2>4, <3>2
    <3>. QED  BY <3>1, <3>2
  <2>. QED  BY <2>5 DEF CallsAreKnown
<1>8. ASSUME NEW k \in Contacts, CallEnds(k) \/ Sweep(k) PROVE CallsAreKnown'
  <2>1. UNCHANGED <<status, linked, on, pc>>
    BY <1>8 DEF CallEnds, Sweep, rows, runner
  <2>2. \A j \in Contacts \ {k} : UNCHANGED <<call[j], lost[j]>>
    BY <1>8 DEF CallEnds, Sweep
  <2>3. \/ call'[k] \in {"ended", "unanswered", "failed"}
        \/ call'[k] = "swept" /\ lost'[k]
    BY <1>8 DEF CallEnds, Sweep
  <2>. QED  BY <1>1, <2>1, <2>2, <2>3 DEF CallsAreKnown, Live
<1>. QED
  BY <1>3, <1>4, <1>5, <1>6, <1>7, <1>8
  DEF CampaignNext, cvars, rows, runner, Control, Rested, Overdue

-----------------------------------------------------------------------------
(* Reconciles under way.                                                    *)

(* What DecisionsHold says of one runner and one contact.                   *)
DecisionHolds(r, k) ==
  decided[r][k] # "keep" =>
    /\ decided[r][k] = "pending" =>
         call[k] = "unanswered" /\ attempts[k] < MaxAttempts[CampaignOf[k]]
    /\ ~lost[k] => \/ status[k] = decided[r][k]
                   \/ status[k] = "calling" /\ decided[r][k] = Decision(k)
    /\ status[k] = "calling" => linked[k] \/ overdue[k]
    /\ status[k] = "pending" => resting[k]

(* Nothing a step does makes a pending decision stale: what it depends on   *)
(* changes only for a contact nobody has decided about, or is lost.         *)
LEMMA DecisionsStep ==
  ASSUME KInv, [CampaignNext]_cvars PROVE DecisionsHold'
<1> USE CampaignAssumption DEF KInv, CampaignTypeOK
<1>1. ASSUME NEW q \in Runners, NEW j \in Contacts, decided'[q][j] = "keep"
      PROVE  DecisionHolds(q, j)'
  BY <1>1 DEF DecisionHolds
<1>2. ASSUME NEW q \in Runners, NEW j \in Contacts,
             UNCHANGED <<status[j], resting[j], linked[j], overdue[j], attempts[j],
                         call[j], lost[j]>>,
             decided'[q][j] = decided[q][j]
      PROVE  DecisionHolds(q, j)'
  <2>1. Decision(j)' = Decision(j)
    BY <1>2 DEF Decision, Settled, Outcome
  <2>2. DecisionHolds(q, j)
    BY DEF DecisionsHold, DecisionHolds
  <2>. QED  BY <1>2, <2>1, <2>2 DEF DecisionHolds
<1>3. ASSUME \A q \in Runners, j \in Contacts : DecisionHolds(q, j)'
      PROVE  DecisionsHold'
  BY <1>3 DEF DecisionsHold, DecisionHolds
<1>4. CASE UNCHANGED <<status, resting, linked, overdue, attempts, call, lost, decided>>
  BY <1>2, <1>3, <1>4
<1>5. ASSUME NEW r \in Runners, NEW c \in Campaigns, Reconcile(r, c)
      PROVE  DecisionsHold'
  <2>1. UNCHANGED <<status, resting, linked, overdue, attempts, call, lost>>
    BY <1>5 DEF Reconcile, rows
  <2>2. ASSUME NEW q \in Runners, NEW j \in Contacts PROVE DecisionHolds(q, j)'
    <3>1. CASE q # r
      <4>1. decided'[q][j] = decided[q][j]
        BY <1>5, <3>1 DEF Reconcile
      <4>. QED  BY <1>2, <2>1, <4>1
    <3>2. CASE q = r /\ j \in Of(c) \cap Calling
      <4>1. status[j] = "calling" /\ decided'[r][j] = Decision(j)
        BY <1>5, <3>2 DEF Reconcile, Calling
      <4>2. Decision(j)' = Decision(j)
        BY <2>1 DEF Decision, Settled, Outcome
      <4>. QED  BY <2>1, <3>2, <4>1, <4>2, DecisionFacts DEF DecisionHolds
    <3>3. CASE q = r /\ j \notin Of(c) \cap Calling
      <4>1. decided'[q][j] = "keep"
        BY <1>5, <3>3 DEF Reconcile
      <4>. QED  BY <1>1, <4>1
    <3>. QED  BY <3>1, <3>2, <3>3
  <2>. QED  BY <1>3, <2>2
<1>6. ASSUME NEW r \in Runners, NEW next, Write(r, next) PROVE DecisionsHold'
  <2>1. ASSUME NEW q \in Runners, NEW j \in Contacts PROVE DecisionHolds(q, j)'
    <3>1. CASE q = r
      BY <1>1, <1>6, <3>1, WriteFacts
    <3>2. CASE q # r /\ decided[r][j] = "keep"
      <4>1. UNCHANGED <<status[j], resting[j], linked[j], overdue[j], attempts[j],
                        call[j], lost[j]>>
        BY <1>6, <3>2, WriteFacts
      <4>2. decided'[q][j] = decided[q][j]
        BY <1>6, <3>2, WriteFacts
      <4>. QED  BY <1>2, <4>1, <4>2
    <3>3. CASE q # r /\ decided[r][j] # "keep" /\ decided[q][j] # "keep"
      <4>1. /\ status'[j] = decided[r][j] /\ decided'[q][j] = decided[q][j]
            /\ decided[r][j] = "pending" => resting'[j]
            /\ UNCHANGED <<overdue, attempts, call, lost>>
        BY <1>6, <3>3, WriteFacts
      <4>2. decided[r][j] \in {"pending"} \cup Final /\ decided[q][j] \in {"pending"} \cup Final
        BY <3>3
      <4>3. DecisionHolds(r, j) /\ DecisionHolds(q, j)
        BY DEF DecisionsHold, DecisionHolds
      <4>5. ~lost[j] => decided[r][j] = decided[q][j]
        BY <3>3, <4>2, <4>3 DEF DecisionHolds, Final
      <4>4. decided[q][j] = "pending" =>
              call[j] = "unanswered" /\ attempts[j] < MaxAttempts[CampaignOf[j]]
        BY DEF DecisionsHold
      <4>. QED  BY <4>1, <4>2, <4>4, <4>5 DEF DecisionHolds, Final
    <3>4. CASE q # r /\ decided[q][j] = "keep"
      <4>1. decided'[q][j] = "keep"
        BY <1>6, <3>4, WriteFacts
      <4>. QED  BY <1>1, <4>1
    <3>. QED  BY <3>1, <3>2, <3>3, <3>4
  <2>. QED  BY <1>3, <2>1
<1>7. ASSUME NEW r \in Runners, NEW k \in Contacts, Claim(r, k) PROVE DecisionsHold'
  <2>1. \A q \in Runners : decided[q][k] = "keep"
    BY <1>7, ClaimFacts DEF DecisionsHold
  <2>2. UNCHANGED <<resting, linked, decided>>
    BY <1>7, ClaimFacts
  <2>3. \A j \in Contacts \ {k} : UNCHANGED <<status[j], overdue[j], attempts[j], call[j],
                                             lost[j]>>
    BY <1>7, ClaimFacts
  <2>4. ASSUME NEW q \in Runners, NEW j \in Contacts PROVE DecisionHolds(q, j)'
    <3>1. CASE j = k
      BY <1>1, <2>1, <2>2, <3>1
    <3>2. CASE j # k
      BY <1>2, <2>2, <2>3, <3>2
    <3>. QED  BY <3>1, <3>2
  <2>. QED  BY <1>3, <2>4
<1>8. ASSUME NEW r \in Runners, Dial(r) \/ Record(r) \/ GiveUp(r) \/ Abort(r)
      PROVE  DecisionsHold'
  <2>1. ASSUME NEW q \in Runners, NEW j \in Contacts PROVE DecisionHolds(q, j)'
    <3>1. decided'[q][j] \in {decided[q][j], "keep"}
      BY <1>8 DEF Dial, Record, GiveUp, Abort
    <3>2. CASE on[r] = j
      <4>1. decided[q][j] = "keep"
        BY <3>2 DEF DialsAlone
      <4>. QED  BY <1>1, <3>1, <4>1
    <3>3. CASE on[r] # j
      <4>1. UNCHANGED <<status[j], resting[j], linked[j], overdue[j], attempts[j],
                        call[j], lost[j]>>
        BY <1>8, <3>3 DEF Dial, Record, GiveUp, Abort, rows
      <4>. QED  BY <1>1, <1>2, <3>1, <4>1
    <3>. QED  BY <3>2, <3>3
  <2>. QED  BY <1>3, <2>1
<1>9. ASSUME NEW k \in Contacts, CallEnds(k) \/ Sweep(k) PROVE DecisionsHold'
  <2>1. UNCHANGED <<status, resting, linked, overdue, attempts, decided>>
    BY <1>9 DEF CallEnds, Sweep, rows, runner
  <2>2. ASSUME NEW q \in Runners, NEW j \in Contacts PROVE DecisionHolds(q, j)'
    <3>1. CASE j # k
      <4>1. UNCHANGED <<call[j], lost[j]>>
        BY <1>9, <3>1 DEF CallEnds, Sweep
      <4>. QED  BY <1>2, <2>1, <4>1
    <3>2. CASE j = k /\ decided[q][k] # "keep"
      <4>1. call[k] \in Live /\ call[k] # "unanswered"
        BY <1>9 DEF CallEnds, Sweep, Live
      <4>2. lost[k] /\ lost'[k]
        BY <1>9, <3>2, <4>1, LiveIsKept DEF CallEnds, Sweep
      <4>. QED  BY <2>1, <3>2, <4>1, <4>2 DEF DecisionHolds, DecisionsHold
    <3>3. CASE j = k /\ decided[q][k] = "keep"
      BY <1>1, <2>1, <3>3
    <3>. QED  BY <3>1, <3>2, <3>3
  <2>. QED  BY <1>3, <2>2
<1>10. ASSUME NEW k \in Contacts, Rested(k) \/ Overdue(k) PROVE DecisionsHold'
  <2>1. UNCHANGED <<status, linked, attempts, call, lost, decided>>
    BY <1>10 DEF Rested, Overdue, runner
  <2>2. \A q \in Runners : decided[q][k] = "keep"
    BY <1>10 DEF Rested, Overdue, DecisionsHold
  <2>3. \A j \in Contacts \ {k} : UNCHANGED <<resting[j], overdue[j]>>
    BY <1>10 DEF Rested, Overdue
  <2>4. ASSUME NEW q \in Runners, NEW j \in Contacts PROVE DecisionHolds(q, j)'
    <3>1. CASE j = k
      BY <1>1, <2>1, <2>2, <3>1
    <3>2. CASE j # k
      BY <1>2, <2>1, <2>3, <3>2
    <3>. QED  BY <3>1, <3>2
  <2>. QED  BY <1>3, <2>4
<1>. QED
  BY <1>4, <1>5, <1>6, <1>7, <1>8, <1>9, <1>10
  DEF CampaignNext, cvars, rows, runner, Control, EnterGate, LeaveGate, Finish

-----------------------------------------------------------------------------
(* The gate.                                                                *)

(* No reconcile decides that a contact is calling.                          *)
LEMMA DecidedIsSettled ==
  ASSUME CampaignTypeOK, NEW r \in Runners, NEW k \in Contacts
  PROVE  decided[r][k] # "calling"
<1>1. decided[r][k] \in {"keep", "pending"} \cup Final
  BY DEF CampaignTypeOK
<1>. QED  BY <1>1 DEF Final

(* Only a claim adds a row to those that are calling.                       *)
LEMMA CallingGrowsByClaims ==
  ASSUME KInv, [CampaignNext]_cvars
  PROVE  \/ Calling' \subseteq Calling
         \/ \E r \in Runners, k \in Contacts :
              Claim(r, k) /\ Calling' \subseteq Calling \cup {k}
<1> USE DEF KInv, CampaignTypeOK
<1>1. CASE UNCHANGED status
  BY <1>1 DEF Calling
<1>2. ASSUME NEW r \in Runners, NEW next, Write(r, next) PROVE Calling' \subseteq Calling
  <2>1. \A k \in Contacts : decided[r][k] # "calling"
    BY DecidedIsSettled
  <2>2. \A k \in Contacts : status'[k] = "calling" => status[k] = "calling"
    BY <1>2, <2>1 DEF Write
  <2>. QED  BY <2>2 DEF Calling
<1>3. ASSUME NEW r \in Runners, NEW k \in Contacts, Claim(r, k)
      PROVE  Calling' \subseteq Calling \cup {k}
  <2>1. \A j \in Contacts \ {k} : status'[j] = status[j]
    BY <1>3, ClaimFacts
  <2>. QED  BY <2>1 DEF Calling
<1>4. ASSUME NEW r \in Runners, GiveUp(r) PROVE Calling' \subseteq Calling
  <2>1. status' = [status EXCEPT ![on[r]] = "failed"]
    BY <1>4 DEF GiveUp
  <2>2. \A k \in Contacts : status'[k] = "calling" => status[k] = "calling"
    BY <2>1
  <2>. QED  BY <2>2 DEF Calling
<1>. QED
  BY <1>1, <1>2, <1>3, <1>4
  DEF CampaignNext, cvars, rows, runner, Control, Reconcile, EnterGate, LeaveGate, Finish,
      Dial, Record, Abort, CallEnds, Sweep, Rested, Overdue

(* Calling rows are a finite set, and so is every part of them.             *)
LEMMA CallingIsFinite ==
  /\ IsFiniteSet(Calling)
  /\ Cardinality(Calling) \in Nat
  /\ \A c \in Campaigns : /\ IsFiniteSet(Of(c) \cap Calling)
                          /\ Cardinality(Of(c) \cap Calling) \in Nat
<1>1. IsFiniteSet(Contacts)
  BY CampaignAssumption
<1>2. IsFiniteSet(Calling) /\ Cardinality(Calling) \in Nat
  BY <1>1, PartFits DEF Calling
<1>3. ASSUME NEW c \in Campaigns
      PROVE  IsFiniteSet(Of(c) \cap Calling) /\ Cardinality(Of(c) \cap Calling) \in Nat
  BY <1>2, PartFits
<1>. QED  BY <1>2, <1>3

(* One more, where it is one: what was below a limit stays within it.       *)
LEMMA OneMoreFits ==
  ASSUME NEW S, IsFiniteSet(S), NEW x, NEW T \in SUBSET (S \cup {x})
  PROVE  Cardinality(T) <= Cardinality(S) + 1
<1>1. IsFiniteSet(S \cup {x}) /\ Cardinality(S \cup {x}) <= Cardinality(S) + 1
  <2>1. IsFiniteSet(S \cup {x})
        /\ Cardinality(S \cup {x}) = IF x \in S THEN Cardinality(S) ELSE Cardinality(S) + 1
    BY FS_AddElement
  <2>2. Cardinality(S) \in Nat
    BY FS_CardinalityType
  <2>. QED  BY <2>1, <2>2
<1>2. Cardinality(T) <= Cardinality(S \cup {x})
  BY <1>1, PartFits
<1>. QED  BY <1>1, <1>2, PartFits, FS_CardinalityType, FS_Subset

(* The ceilings, by the count the claiming runner made under the lock.      *)
LEMMA CeilingsStep ==
  ASSUME KInv, [CampaignNext]_cvars PROVE RowsWithinCeilings'
<1> USE CampaignAssumption DEF KInv, CampaignTypeOK
<1>1. CASE Calling' \subseteq Calling
  <2>1. Cardinality(Calling') <= Cardinality(Calling) /\ Cardinality(Calling') \in Nat
    BY <1>1, CallingIsFinite, PartFits
  <2>2. ASSUME NEW c \in Campaigns
        PROVE  /\ Cardinality(Of(c) \cap Calling') <= Cardinality(Of(c) \cap Calling)
               /\ Cardinality(Of(c) \cap Calling') \in Nat
    <3>1. Of(c) \cap Calling' \in SUBSET (Of(c) \cap Calling)
      BY <1>1
    <3>. QED  BY <3>1, CallingIsFinite, PartFits
  <2>3. Cardinality(Calling') <= TenantMax
    BY <2>1, CallingIsFinite DEF RowsWithinCeilings
  <2>4. ASSUME NEW c \in Campaigns
        PROVE  Cardinality(Of(c) \cap Calling') <= MaxConcurrent[c]
    <3>1. Cardinality(Of(c) \cap Calling) <= MaxConcurrent[c] /\ MaxConcurrent[c] \in Nat
      BY DEF RowsWithinCeilings
    <3>2. Cardinality(Of(c) \cap Calling) \in Nat
      BY CallingIsFinite
    <3>3. /\ Cardinality(Of(c) \cap Calling') <= Cardinality(Of(c) \cap Calling)
          /\ Cardinality(Of(c) \cap Calling') \in Nat
      BY <2>2
    <3>. QED  BY ONLY <3>1, <3>2, <3>3
  <2>. QED  BY <2>3, <2>4 DEF RowsWithinCeilings, Of
<1>2. ASSUME NEW r \in Runners, NEW k \in Contacts, Claim(r, k),
             Calling' \subseteq Calling \cup {k}
      PROVE  RowsWithinCeilings'
  <2>1. /\ Cardinality(Calling) < TenantMax
        /\ Cardinality(Of(at[r]) \cap Calling) < MaxConcurrent[at[r]]
        /\ CampaignOf[k] = at[r] /\ at[r] \in Campaigns
    BY <1>2, ClaimFacts DEF GateHolds
  <2>2. Cardinality(Calling') <= TenantMax
    <3>1. Cardinality(Calling') <= Cardinality(Calling) + 1
      BY <1>2, CallingIsFinite, OneMoreFits
    <3>2. IsFiniteSet(Calling') /\ Cardinality(Calling') \in Nat
      BY CallingIsFinite, PartFits DEF Calling
    <3>. QED  BY <2>1, <3>1, <3>2, CallingIsFinite
  <2>3. ASSUME NEW c \in Campaigns
        PROVE  Cardinality(Of(c) \cap Calling') <= MaxConcurrent[c]
    <3>1. IsFiniteSet(Calling') /\ Cardinality(Of(c) \cap Calling') \in Nat
      <4>1. IsFiniteSet(Contacts) /\ Of(c) \cap Calling' \in SUBSET Contacts
        BY DEF Of
      <4>. QED  BY <4>1, PartFits DEF Calling
    <3>2. MaxConcurrent[c] \in Nat /\ Cardinality(Of(c) \cap Calling) \in Nat
          /\ IsFiniteSet(Of(c) \cap Calling)
      BY CallingIsFinite
    <3>3. CASE c = at[r]
      <4>1. Of(c) \cap Calling' \in SUBSET ((Of(c) \cap Calling) \cup {k})
        BY <1>2
      <4>2. Cardinality(Of(c) \cap Calling') <= Cardinality(Of(c) \cap Calling) + 1
        BY <3>2, <4>1, OneMoreFits
      <4>. QED  BY <2>1, <3>1, <3>2, <3>3, <4>2
    <3>4. CASE c # at[r]
      <4>1. k \notin Of(c)
        BY <2>1, <3>4 DEF Of
      <4>2. Of(c) \cap Calling' \in SUBSET (Of(c) \cap Calling)
        BY <1>2, <4>1
      <4>3. Cardinality(Of(c) \cap Calling') <= Cardinality(Of(c) \cap Calling)
        BY <3>2, <4>2, PartFits
      <4>4. Cardinality(Of(c) \cap Calling) <= MaxConcurrent[c]
        BY DEF RowsWithinCeilings
      <4>. QED  BY ONLY <3>1, <3>2, <4>3, <4>4
    <3>. QED  BY <3>3, <3>4
  <2>. QED  BY <2>2, <2>3 DEF RowsWithinCeilings, Of
<1>. QED  BY <1>1, <1>2, CallingGrowsByClaims

(* What GateHolds says of one runner.                                       *)
GateHeld(r) ==
  pc[r] = "claim" =>
    /\ gate = r /\ campaign[at[r]] = "running"
    /\ Cardinality(Calling) < TenantMax
    /\ Cardinality(Of(at[r]) \cap Calling) < MaxConcurrent[at[r]]
    /\ empty[r] => Of(at[r]) \cap Calling = {}

(* A count made under the lock holds until the lock is released: the others *)
(* can only settle rows meanwhile.                                          *)
LEMMA GateStep ==
  ASSUME KInv, [CampaignNext]_cvars PROVE GateHolds'
<1> USE CampaignAssumption DEF KInv, CampaignTypeOK
<1>1. ASSUME NEW q \in Runners, pc[q] = "claim", Calling' \subseteq Calling,
             gate' = gate, at'[q] = at[q], empty'[q] = empty[q],
             campaign'[at[q]] = campaign[at[q]]
      PROVE  GateHeld(q)'
  <2>1. GateHeld(q) /\ at[q] \in Campaigns
    BY <1>1 DEF GateHolds, GateHeld, DialsAlone
  <2>2. Of(at[q])' = Of(at[q])
    BY <1>1 DEF Of
  <2>3. /\ Cardinality(Calling') <= Cardinality(Calling)
        /\ Cardinality(Calling') \in Nat /\ Cardinality(Calling) \in Nat
    BY <1>1, CallingIsFinite, PartFits
  <2>4. Cardinality(Of(at[q]) \cap Calling') <= Cardinality(Of(at[q]) \cap Calling)
        /\ Cardinality(Of(at[q]) \cap Calling') \in Nat
        /\ Cardinality(Of(at[q]) \cap Calling) \in Nat
    <3>1. Of(at[q]) \cap Calling' \in SUBSET (Of(at[q]) \cap Calling)
      BY <1>1
    <3>. QED  BY <2>1, <3>1, CallingIsFinite, PartFits
  <2>5. Cardinality(Calling') < TenantMax
    BY <1>1, <2>1, <2>3 DEF GateHeld
  <2>6. Cardinality(Of(at[q]) \cap Calling') < MaxConcurrent[at[q]]
    <3>1. Cardinality(Of(at[q]) \cap Calling) < MaxConcurrent[at[q]]
          /\ MaxConcurrent[at[q]] \in Nat
      BY <1>1, <2>1 DEF GateHeld
    <3>. QED  BY ONLY <2>4, <3>1
  <2>7. empty[q] => Of(at[q]) \cap Calling' = {}
    BY <1>1, <2>1 DEF GateHeld
  <2>8. gate' = q /\ campaign'[at'[q]] = "running"
    BY <1>1, <2>1 DEF GateHeld
  <2>. QED  BY <1>1, <2>2, <2>5, <2>6, <2>7, <2>8 DEF GateHeld
<1>2. ASSUME \A q \in Runners : GateHeld(q)' PROVE GateHolds'
  BY <1>2 DEF GateHolds, GateHeld
<1>3. \A q \in Runners : pc[q] = "claim" => gate = q
  BY DEF GateHolds
<1>4. CASE UNCHANGED <<status, pc, gate, at, empty, campaign>>
  <2>1. Calling' \subseteq Calling
    BY <1>4 DEF Calling
  <2>2. ASSUME NEW q \in Runners PROVE GateHeld(q)'
    <3>1. CASE pc[q] = "claim"
      BY <1>1, <1>4, <2>1, <3>1
    <3>2. CASE pc[q] # "claim"
      BY <1>4, <3>2 DEF GateHeld
    <3>. QED  BY <3>1, <3>2
  <2>. QED  BY <1>2, <2>2
<1>5. ASSUME NEW c \in Campaigns, NEW s \in {"running", "paused", "stopped"}, Control(c, s)
      PROVE  GateHolds'
  <2>1. UNCHANGED <<status, pc, gate, at, empty>>
    BY <1>5 DEF Control, rows, runner
  <2>2. Calling' \subseteq Calling
    BY <2>1 DEF Calling
  <2>3. ASSUME NEW q \in Runners PROVE GateHeld(q)'
    <3>1. CASE pc[q] = "claim"
      <4>1. campaign'[at[q]] = campaign[at[q]]
        BY <1>5, <3>1 DEF Control
      <4>. QED  BY <1>1, <2>1, <2>2, <3>1, <4>1
    <3>2. CASE pc[q] # "claim"
      BY <2>1, <3>2 DEF GateHeld
    <3>. QED  BY <3>1, <3>2
  <2>. QED  BY <1>2, <2>3
<1>6. ASSUME NEW r \in Runners, pc'[r] # "claim", UNCHANGED campaign,
             \A q \in Runners \ {r} : /\ pc'[q] = pc[q] /\ at'[q] = at[q]
                                      /\ empty'[q] = empty[q],
             Calling' \subseteq Calling, gate' = gate \/ gate = r
      PROVE  GateHolds'
  <2>1. ASSUME NEW q \in Runners PROVE GateHeld(q)'
    <3>1. CASE q # r /\ pc[q] = "claim"
      BY <1>1, <1>3, <1>6, <3>1
    <3>2. CASE q = r \/ pc[q] # "claim"
      BY <1>6, <3>2 DEF GateHeld
    <3>. QED  BY <3>1, <3>2
  <2>. QED  BY <1>2, <2>1
<1>7. ASSUME NEW r \in Runners, Reconcile(r, at'[r]) \/ LeaveGate(r) \/ Dial(r) \/ Record(r)
      PROVE  GateHolds'
  <2>1. UNCHANGED <<status, campaign, gate>>
    BY <1>7 DEF Reconcile, LeaveGate, Dial, Record, rows
  <2>2. pc'[r] # "claim"
    BY <1>7 DEF Reconcile, LeaveGate, Dial, Record, Rest
  <2>3. \A q \in Runners \ {r} : pc'[q] = pc[q] /\ at'[q] = at[q] /\ empty'[q] = empty[q]
    BY <1>7 DEF Reconcile, LeaveGate, Dial, Record, Rest
  <2>. QED  BY <1>6, <2>1, <2>2, <2>3 DEF Calling
<1>8. ASSUME NEW r \in Runners, (\E next : Write(r, next)) \/ GiveUp(r) \/ Abort(r)
      PROVE  GateHolds'
  <2>1. Calling' \subseteq Calling
    <3>1. CASE \E next : Write(r, next)
      <4>1. \A k \in Contacts : decided[r][k] # "calling"
        BY DecidedIsSettled
      <4>2. \A k \in Contacts : status'[k] = "calling" => status[k] = "calling"
        BY <3>1, <4>1 DEF Write
      <4>. QED  BY <4>2 DEF Calling
    <3>2. CASE GiveUp(r)
      <4>1. \A k \in Contacts : status'[k] = "calling" => status[k] = "calling"
        BY <3>2 DEF GiveUp
      <4>. QED  BY <4>1 DEF Calling
    <3>3. CASE Abort(r)
      BY <3>3 DEF Abort, rows, Calling
    <3>. QED  BY <1>8, <3>1, <3>2, <3>3
  <2>2. UNCHANGED campaign /\ (gate' = gate \/ gate = r)
    BY <1>8 DEF Write, GiveUp, Abort
  <2>3. pc'[r] # "claim"
    BY <1>8 DEF Write, GiveUp, Abort, Rest
  <2>4. \A q \in Runners \ {r} : pc'[q] = pc[q] /\ at'[q] = at[q] /\ empty'[q] = empty[q]
    BY <1>8 DEF Write, GiveUp, Abort, Rest
  <2>. QED  BY <1>6, <2>1, <2>2, <2>3, <2>4
<1>9. ASSUME NEW r \in Runners, (\E k \in Contacts : Claim(r, k)) \/ Finish(r)
      PROVE  GateHolds'
  <2>1. pc[r] = "claim" /\ \A q \in Runners \ {r} : pc'[q] = pc[q]
    BY <1>9 DEF Claim, Finish, Rest
  <2>2. pc'[r] # "claim"
    BY <1>9 DEF Claim, Finish, Rest
  <2>3. \A q \in Runners : pc'[q] # "claim"
    BY <1>3, <2>1, <2>2
  <2>. QED  BY <2>3 DEF GateHolds
<1>10. ASSUME NEW r \in Runners, EnterGate(r) PROVE GateHolds'
  <2>1. \A q \in Runners : pc[q] # "claim"
    BY <1>3, <1>10 DEF EnterGate, Serialised
  <2>2. \A q \in Runners \ {r} : pc'[q] # "claim"
    BY <1>10, <2>1 DEF EnterGate
  <2>3. UNCHANGED <<status, at, campaign>> /\ gate' = r
    BY <1>10 DEF EnterGate, rows
  <2>4. Calling' = Calling /\ Of(at[r])' = Of(at[r])
    BY <2>3 DEF Calling, Of
  <2>5. empty'[r] = (Of(at[r]) \cap Calling = {})
    BY <1>10, Zenon DEF EnterGate
  <2>6. HasRoom(at[r])
    BY <1>10 DEF EnterGate
  <2>7. GateHeld(r)'
    BY <2>3, <2>4, <2>5, <2>6 DEF HasRoom, GateHeld
  <2>. QED  BY <1>2, <2>2, <2>7 DEF GateHeld
<1>11. ASSUME NEW k \in Contacts, CallEnds(k) \/ Sweep(k) \/ Rested(k) \/ Overdue(k)
       PROVE  UNCHANGED <<status, pc, gate, at, empty, campaign>>
  BY <1>11 DEF CallEnds, Sweep, Rested, Overdue, rows, runner
<1>12. ASSUME NEW r \in Runners, NEW c \in Campaigns, Reconcile(r, c)
       PROVE  Reconcile(r, at'[r])
  BY <1>12 DEF Reconcile
<1>. QED
  BY <1>4, <1>5, <1>7, <1>8, <1>9, <1>10, <1>11, <1>12
  DEF CampaignNext, cvars, rows, runner

-----------------------------------------------------------------------------
(* What the invariant is for.                                               *)

(* A contact is dialled only from 'pending', where it has no call.          *)
LEMMA StrayStep ==
  ASSUME KInv, [CampaignNext]_cvars PROVE OneCallAtATime'
<1> USE DEF KInv, CampaignTypeOK, OneCallAtATime
<1>1. CASE UNCHANGED stray
  BY <1>1
<1>2. ASSUME NEW r \in Runners, NEW k \in Contacts, Claim(r, k) PROVE OneCallAtATime'
  <2>1. call[k] \notin Live
    BY <1>2, ClaimFacts DEF PendingAreFree
  <2>2. stray' = [stray EXCEPT ![k] = @ \/ call[k] \in Live]
    BY <1>2, Zenon DEF Claim
  <2>3. stray' = [stray EXCEPT ![k] = @]
    BY <2>1, <2>2
  <2>. QED  BY <2>3
<1>. QED
  BY <1>1, <1>2
  DEF CampaignNext, cvars, Control, Reconcile, Write, EnterGate, LeaveGate, Finish,
      Dial, Record, GiveUp, Abort, CallEnds, Sweep, Rested, Overdue

\* What DoneMeansDone says of one contact.
DoneFor(k) ==
  campaign[CampaignOf[k]] = "done" /\ ~lost[k] => status[k] \in Final /\ call[k] \notin Live

(* A campaign is done when the gate found it empty and nothing waits, and a *)
(* reconcile under way can write again only what is already there.          *)
LEMMA DoneStep ==
  ASSUME KInv, [CampaignNext]_cvars PROVE DoneMeansDone'
<1> USE CampaignAssumption DEF KInv, CampaignTypeOK
<1>1. \A k \in Contacts : DoneFor(k)
  BY DEF DoneMeansDone, DoneFor
<1>2. ASSUME \A k \in Contacts : DoneFor(k)' PROVE DoneMeansDone'
  BY <1>2 DEF DoneMeansDone, DoneFor
<1>3. ASSUME NEW k \in Contacts, campaign'[CampaignOf[k]] = "done"
                                  => campaign[CampaignOf[k]] = "done",
             UNCHANGED <<status[k], call[k], lost[k]>>
      PROVE  DoneFor(k)'
  BY <1>1, <1>3 DEF DoneFor
<1>4. CASE UNCHANGED <<campaign, status, call, lost>>
  BY <1>2, <1>3, <1>4
<1>5. ASSUME NEW c \in Campaigns, NEW s \in {"running", "paused", "stopped"}, Control(c, s)
      PROVE  DoneMeansDone'
  <2>1. UNCHANGED <<status, call, lost>>
    BY <1>5 DEF Control, rows
  <2>2. \A d \in Campaigns : campaign'[d] = "done" => campaign[d] = "done"
    BY <1>5 DEF Control
  <2>. QED  BY <1>2, <1>3, <2>1, <2>2
<1>6. ASSUME NEW r \in Runners, NEW next, Write(r, next) PROVE DoneMeansDone'
  <2>1. UNCHANGED <<campaign, call, lost>>
    BY <1>6 DEF Write
  <2>2. ASSUME NEW k \in Contacts PROVE DoneFor(k)'
    <3>1. CASE decided[r][k] = "keep"
      <4>1. status'[k] = status[k]
        BY <1>6, <3>1 DEF Write
      <4>. QED  BY <1>3, <2>1, <4>1
    <3>2. CASE decided[r][k] # "keep" /\ campaign[CampaignOf[k]] = "done" /\ ~lost[k]
      <4>1. status[k] \in Final /\ status[k] # "calling"
        BY <1>1, <3>2 DEF DoneFor, Final
      <4>2. status[k] = decided[r][k]
        BY <3>2, <4>1 DEF DecisionsHold
      <4>3. status'[k] = decided[r][k]
        BY <1>6, <3>2 DEF Write
      <4>. QED  BY <1>3, <2>1, <4>2, <4>3
    <3>3. CASE ~(campaign[CampaignOf[k]] = "done" /\ ~lost[k])
      BY <2>1, <3>3 DEF DoneFor
    <3>. QED  BY <3>1, <3>2, <3>3
  <2>. QED  BY <1>2, <2>2
<1>7. ASSUME NEW r \in Runners, NEW k \in Contacts, Claim(r, k) PROVE DoneMeansDone'
  <2>1. campaign[CampaignOf[k]] = "running" /\ campaign' = campaign
    <3>1. pc[r] = "claim" /\ CampaignOf[k] = at[r] /\ campaign' = campaign
      BY <1>7, ClaimFacts
    <3>. QED  BY <3>1 DEF GateHolds
  <2>2. \A j \in Contacts \ {k} : UNCHANGED <<status[j], call[j], lost[j]>>
    BY <1>7, ClaimFacts
  <2>3. DoneFor(k)'
    BY <2>1 DEF DoneFor
  <2>. QED  BY <1>2, <1>3, <2>1, <2>2, <2>3
<1>8. ASSUME NEW r \in Runners, Finish(r) PROVE DoneMeansDone'
  <2>1. UNCHANGED <<status, call, lost>> /\ pc[r] = "claim"
    BY <1>8 DEF Finish, rows
  <2>2. campaign' = [campaign EXCEPT ![at[r]] = IF NothingLeft(r) THEN "done" ELSE @]
    BY <1>8 DEF Finish
  <2>3. ASSUME NEW k \in Contacts, CampaignOf[k] = at[r], NothingLeft(r) PROVE DoneFor(k)'
    <3>1. k \in Of(at[r]) /\ k \notin Calling
      BY <2>1, <2>3 DEF GateHolds, NothingLeft, Of
    <3>2. status[k] # "pending" /\ status[k] # "calling"
      BY <2>3, <3>1 DEF NothingLeft, Calling
    <3>3. status[k] \in Final
      BY <3>2
    <3>4. call[k] \in Live => lost[k]
      BY <3>2 DEF CallsAreKnown
    <3>. QED  BY <2>1, <3>3, <3>4 DEF DoneFor
  <2>4. ASSUME NEW k \in Contacts, CampaignOf[k] # at[r] \/ ~NothingLeft(r)
        PROVE  campaign'[CampaignOf[k]] = campaign[CampaignOf[k]]
    BY <2>2, <2>4
  <2>5. ASSUME NEW k \in Contacts PROVE DoneFor(k)'
    <3>1. CASE CampaignOf[k] = at[r] /\ NothingLeft(r)
      BY <2>3, <3>1
    <3>2. CASE CampaignOf[k] # at[r] \/ ~NothingLeft(r)
      <4>1. campaign'[CampaignOf[k]] = campaign[CampaignOf[k]]
        BY <2>4, <3>2
      <4>. QED  BY <1>3, <2>1, <4>1
    <3>. QED  BY <3>1, <3>2
  <2>. QED  BY <1>2, <2>5
<1>9. ASSUME NEW r \in Runners, Dial(r) \/ GiveUp(r) \/ Abort(r) PROVE DoneMeansDone'
  <2>1. campaign' = campaign
    BY <1>9 DEF Dial, GiveUp, Abort
  <2>2. ASSUME NEW k \in Contacts, on[r] # k PROVE UNCHANGED <<status[k], call[k], lost[k]>>
    BY <1>9, <2>2 DEF Dial, GiveUp, Abort, rows
  <2>3. ASSUME NEW k \in Contacts, on[r] = k PROVE DoneFor(k)'
    <3>1. status[k] = "calling"
      BY <2>3 DEF DialsAlone
    <3>2. campaign[CampaignOf[k]] = "done" => lost[k]
      BY <1>1, <3>1 DEF DoneFor, Final
    <3>3. lost[k] => lost'[k]
      BY <1>9 DEF Dial, GiveUp, Abort
    <3>. QED  BY <2>1, <3>2, <3>3 DEF DoneFor
  <2>. QED  BY <1>2, <1>3, <2>1, <2>2, <2>3
<1>10. ASSUME NEW k \in Contacts, CallEnds(k) \/ Sweep(k) PROVE DoneMeansDone'
  <2>1. UNCHANGED <<campaign, status>>
    BY <1>10 DEF CallEnds, Sweep, rows
  <2>2. \A j \in Contacts \ {k} : UNCHANGED <<call[j], lost[j]>>
    BY <1>10 DEF CallEnds, Sweep
  <2>3. call'[k] \notin Live \/ lost'[k]
    BY <1>10 DEF CallEnds, Sweep, Live
  <2>4. lost[k] => lost'[k]
    BY <1>10 DEF CallEnds, Sweep
  <2>5. DoneFor(k)'
    BY <1>1, <2>1, <2>3, <2>4 DEF DoneFor
  <2>. QED  BY <1>2, <1>3, <2>1, <2>2, <2>5
<1>. QED
  BY <1>4, <1>5, <1>6, <1>7, <1>8, <1>9, <1>10
  DEF CampaignNext, cvars, rows, runner, Reconcile, EnterGate, LeaveGate, Record,
      Rested, Overdue

(* The dialer starts in the invariant: nobody has been called.              *)
LEMMA KInvInit == CampaignInit => KInv
<1> SUFFICES ASSUME CampaignInit PROVE KInv
  OBVIOUS
<1> USE CampaignAssumption DEF CampaignInit
<1>1. CampaignTypeOK
  <2>1. fails \in [Runners -> 0 .. MaxDialFailures - 1]
    OBVIOUS
  <2>2. \A k \in Contacts : attempts[k] <= MaxAttempts[CampaignOf[k]]
    OBVIOUS
  <2>. QED  BY <2>1, <2>2 DEF CampaignTypeOK, Final, Live
<1>2. DialsAlone /\ DecisionsHold /\ GateHolds /\ OneCallAtATime
  BY DEF DialsAlone, DecisionsHold, GateHolds, OneCallAtATime
<1>3. CallsAreKnown /\ DoneMeansDone
  BY DEF CallsAreKnown, DoneMeansDone, Live
<1>4. PendingAreFree
  BY DEF PendingAreFree, Live
<1>5. RowsWithinCeilings
  <2>1. Calling = {} /\ \A c \in Campaigns : Of(c) \cap Calling = {}
    BY DEF Calling
  <2>. QED  BY <2>1, FS_EmptySet DEF RowsWithinCeilings
<1>. QED  BY <1>1, <1>2, <1>3, <1>4, <1>5 DEF KInv

(* Every part holds in every reachable state.                               *)
THEOREM KInvHolds == CampaignSpec => []KInv
<1>1. KInv /\ [CampaignNext]_cvars => KInv'
  BY KTypeStep, DialsStep, CallsStep, PendingStep, DecisionsStep, GateStep, CeilingsStep,
     StrayStep, DoneStep
  DEF KInv
<1>. QED  BY KInvInit, <1>1, PTL DEF CampaignSpec

(* The campaigns, the contacts and the runners keep their types, and the    *)
(* dials of a contact their limit.                                          *)
THEOREM CampaignTypes == CampaignSpec => []CampaignTypeOK
<1>1. KInv => CampaignTypeOK
  BY DEF KInv
<1>. QED  BY KInvHolds, <1>1, PTL

(* The calls their rows know of stay within the tenant's ceiling and the    *)
(* campaign's: their rows are among those the claims counted.               *)
THEOREM CallsStayWithinCeilings == CampaignSpec => []CallsWithinCeilings
<1>1. KInv => CallsWithinCeilings
  <2> SUFFICES ASSUME KInv PROVE CallsWithinCeilings
    OBVIOUS
  <2> USE CampaignAssumption
  <2> DEFINE known == {k \in Contacts : call[k] \in Live /\ ~lost[k]}
  <2>1. known \subseteq Calling
    BY DEF KInv, CallsAreKnown, Calling
  <2>2. Cardinality(known) <= TenantMax
    <3>1. Cardinality(known) <= Cardinality(Calling) /\ Cardinality(known) \in Nat
      BY <2>1, CallingIsFinite, PartFits
    <3>2. Cardinality(Calling) <= TenantMax
      BY DEF KInv, RowsWithinCeilings
    <3>. QED  BY <3>1, <3>2, CallingIsFinite
  <2>3. ASSUME NEW c \in Campaigns PROVE Cardinality(known \cap Of(c)) <= MaxConcurrent[c]
    <3>1. known \cap Of(c) \in SUBSET (Of(c) \cap Calling)
      BY <2>1
    <3>2. /\ Cardinality(known \cap Of(c)) <= Cardinality(Of(c) \cap Calling)
          /\ Cardinality(known \cap Of(c)) \in Nat /\ Cardinality(Of(c) \cap Calling) \in Nat
      BY <3>1, CallingIsFinite, PartFits
    <3>3. Cardinality(Of(c) \cap Calling) <= MaxConcurrent[c] /\ MaxConcurrent[c] \in Nat
      BY DEF KInv, RowsWithinCeilings
    <3>. QED  BY ONLY <3>2, <3>3
  <2>. QED  BY <2>2, <2>3 DEF CallsWithinCeilings
<1>. QED  BY KInvHolds, <1>1, PTL

(* Nobody is dialled while an earlier call of theirs goes on.               *)
THEOREM NobodyCalledTwice == CampaignSpec => []OneCallAtATime
<1>1. KInv => OneCallAtATime
  BY DEF KInv
<1>. QED  BY KInvHolds, <1>1, PTL

(* A campaign that is done has nobody left to call and no call in progress. *)
THEOREM DoneIsDone == CampaignSpec => []DoneMeansDone
<1>1. KInv => DoneMeansDone
  BY DEF KInv
<1>. QED  BY KInvHolds, <1>1, PTL

(* No step changes the outcome of a settled contact, a reconcile that read  *)
(* it before it was settled included.                                       *)
THEOREM SettledStaysFinal == CampaignSpec => SettledContactIsFinal
<1>1. ASSUME KInv, [CampaignNext]_cvars, NEW k \in Contacts, status[k] \in Final, ~lost[k]
      PROVE  status'[k] = status[k]
  <2> USE DEF KInv, CampaignTypeOK
  <2>1. CASE UNCHANGED status
    BY <2>1
  <2>2. ASSUME NEW r \in Runners, NEW next, Write(r, next) PROVE status'[k] = status[k]
    <3>1. CASE decided[r][k] = "keep"
      BY <2>2, <3>1 DEF Write
    <3>2. CASE decided[r][k] # "keep"
      <4>1. status[k] = decided[r][k]
        BY <1>1, <3>2 DEF DecisionsHold, Final
      <4>. QED  BY <2>2, <3>2, <4>1 DEF Write
    <3>. QED  BY <3>1, <3>2
  <2>3. ASSUME NEW r \in Runners, NEW j \in Contacts, Claim(r, j)
        PROVE  status'[k] = status[k]
    <3>1. j # k
      BY <1>1, <2>3, ClaimFacts DEF Final
    <3>. QED  BY <1>1, <2>3, <3>1, ClaimFacts
  <2>4. ASSUME NEW r \in Runners, GiveUp(r) PROVE status'[k] = status[k]
    <3>1. on[r] # k
      BY <1>1 DEF DialsAlone, Final
    <3>. QED  BY <2>4, <3>1 DEF GiveUp
  <2>. QED
    BY <1>1, <2>1, <2>2, <2>3, <2>4
    DEF CampaignNext, cvars, rows, runner, Control, Reconcile, EnterGate, LeaveGate, Finish,
        Dial, Record, Abort, CallEnds, Sweep, Rested, Overdue
<1>2. KInv /\ [CampaignNext]_cvars
        => [\A k \in Contacts : status[k] \in Final /\ ~lost[k] => status'[k] = status[k]]_cvars
  BY <1>1
<1>. QED  BY KInvHolds, <1>2, PTL DEF CampaignSpec, SettledContactIsFinal
=============================================================================
