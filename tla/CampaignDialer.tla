--------------------------- MODULE CampaignDialer ---------------------------
(****************************************************************************)
(* The campaign dialer of one tenant: every replica runs a loop that        *)
(* settles finished calls, claims the next contact under the tenant's lock, *)
(* dials outside any transaction and records the session the dial made.     *)
(* What is in flight is a column, never a variable.                         *)
(*                                                                          *)
(* Runners may fail or die at any step.  Two comparisons of times are       *)
(* assumed: a redial rests longer than a reconcile transaction lasts, and a *)
(* dial answers or times out before its contact counts as stuck.            *)
(****************************************************************************)
EXTENDS Naturals, FiniteSets

CONSTANTS
  Runners,
  Campaigns,
  Contacts,
  CampaignOf,
  Position,        \* dial order
  MaxConcurrent,   \* per campaign
  MaxAttempts,     \* per campaign: dials of one contact
  TenantMax,       \* tenant_max_concurrent
  MaxDialFailures, \* MAX_CONSECUTIVE_DIAL_FAILURES
  None

ASSUME CampaignAssumption ==
  /\ IsFiniteSet(Contacts)
  /\ CampaignOf \in [Contacts -> Campaigns]
  /\ Position \in [Contacts -> Nat]
  /\ MaxConcurrent \in [Campaigns -> Nat \ {0}]
  /\ MaxAttempts \in [Campaigns -> Nat \ {0}]
  /\ TenantMax \in Nat \ {0}
  /\ MaxDialFailures \in Nat \ {0}
  /\ None \notin Runners \cup Campaigns \cup Contacts

VARIABLES
  \* campaigns.status; "stopped" is 'draft' or 'done' set by an operator
  campaign,
  \* campaign_contacts
  status, attempts,
  resting,  \* next_attempt_at is still to come
  linked,   \* session_id is set
  overdue,  \* called_at is older than stuck_after
  \* the contact's latest dial, and its row in public.sessions
  call,
  stray,    \* history: a call of an earlier dial went on when it was made
  \* the runners
  pc, at, on, empty, fails, decided,
  gate,     \* who holds the tenant's advisory lock
  lost      \* history: the contact's row does not know of its live call

rows    == <<status, attempts, resting, linked, overdue>>
runner  == <<pc, at, on, empty, fails, decided>>
cvars   == <<campaign, rows, call, stray, runner, gate, lost>>

Final == {"called", "no_answer", "failed"}
\* "swept": the row is 'failed' and the call may go on.
Live  == {"started", "swept"}

CampaignInit ==
  /\ campaign = [c \in Campaigns |-> "stopped"]
  /\ status   = [k \in Contacts |-> "pending"]
  /\ attempts = [k \in Contacts |-> 0]
  /\ resting  = [k \in Contacts |-> FALSE]
  /\ linked   = [k \in Contacts |-> FALSE]
  /\ overdue  = [k \in Contacts |-> FALSE]
  /\ call     = [k \in Contacts |-> "none"]
  /\ stray    = [k \in Contacts |-> FALSE]
  /\ pc       = [r \in Runners |-> "idle"]
  /\ at       = [r \in Runners |-> None]
  /\ on       = [r \in Runners |-> None]
  /\ empty    = [r \in Runners |-> FALSE]
  /\ fails    = [r \in Runners |-> 0]
  /\ decided  = [r \in Runners |-> [k \in Contacts |-> "keep"]]
  /\ gate     = None
  /\ lost     = [k \in Contacts |-> FALSE]

-----------------------------------------------------------------------------
(* Definitions with _Faulty in their name are plausible slips of the        *)
(* definition they precede.                                                 *)

Of(c)       == {k \in Contacts : CampaignOf[k] = c}
Calling     == {k \in Contacts : status[k] = "calling"}
Eligible(c) == {k \in Of(c) : status[k] = "pending" /\ ~resting[k]}

\* A runner between two campaigns.
Rest(r) ==
  /\ pc'    = [pc EXCEPT ![r] = "idle"]
  /\ at'    = [at EXCEPT ![r] = None]
  /\ on'    = [on EXCEPT ![r] = None]
  /\ empty' = [empty EXCEPT ![r] = FALSE]
  /\ fails' = [fails EXCEPT ![r] = 0]

-----------------------------------------------------------------------------
(* Operators.                                                               *)

\* control_campaign; the claiming transaction has the campaign's row locked.
Control(c, s) ==
  /\ s \in {"running", "paused", "stopped"} \ {campaign[c]}
  /\ \A r \in Runners : ~(pc[r] = "claim" /\ at[r] = c)
  /\ s = "running" => \E k \in Of(c) : status[k] = "pending"
  /\ campaign' = [campaign EXCEPT ![c] = s]
  /\ UNCHANGED <<rows, call, stray, runner, gate, lost>>

-----------------------------------------------------------------------------
(* _reconcile: contacts are read, their outcome decided, and the rows       *)
(* written at the commit without having been locked.                        *)

\* Any failure is worth another attempt.
Settled_FaultyRetriesAll(k, outcome) ==
  IF outcome # "called" /\ attempts[k] < MaxAttempts[CampaignOf[k]]
    THEN "pending" ELSE outcome

\* One attempt too many.
Settled_FaultyOneMore(k, outcome) ==
  IF outcome = "no_answer" /\ attempts[k] <= MaxAttempts[CampaignOf[k]]
    THEN "pending" ELSE outcome

\* _settle
Settled(k, outcome) ==
  IF outcome = "no_answer" /\ attempts[k] < MaxAttempts[CampaignOf[k]]
    THEN "pending" ELSE outcome

\* _outcome, of a session that is not 'started'
Outcome(s) == CASE s = "ended"      -> "called"
                [] s = "unanswered" -> "no_answer"
                [] OTHER            -> "failed"

\* A contact without a session is given up at once.
Decision_FaultyNoGrace(k) ==
  CASE linked[k] /\ call[k] # "started" -> Settled(k, Outcome(call[k]))
    [] ~linked[k]                        -> Settled(k, "failed")
    [] OTHER                             -> "keep"

Decision(k) ==
  CASE linked[k] /\ call[k] # "started" -> Settled(k, Outcome(call[k]))
    [] ~linked[k] /\ overdue[k]          -> Settled(k, "failed")
    [] OTHER                             -> "keep"

\* tick: a campaign that runs or is paused; only a running one goes on to dial.
Reconcile(r, c) ==
  /\ pc[r] = "idle" /\ campaign[c] \in {"running", "paused"}
  /\ decided' = [decided EXCEPT ![r] =
                   [k \in Contacts |-> IF k \in Of(c) \cap Calling THEN Decision(k)
                                       ELSE "keep"]]
  /\ pc' = [pc EXCEPT ![r] = IF campaign[c] = "running" THEN "write" ELSE "writeOnly"]
  /\ at' = [at EXCEPT ![r] = c]
  /\ UNCHANGED <<campaign, rows, call, stray, on, empty, fails, gate, lost>>

\* The commit, and the look at the calling window.
Write(r, next) ==
  /\ pc[r] \in {"write", "writeOnly"}
  /\ next \in {"gate", "idle"} /\ (next = "gate" => pc[r] = "write")
  /\ LET d == decided[r]
     IN /\ status'  = [k \in Contacts |-> IF d[k] = "keep" THEN status[k] ELSE d[k]]
        /\ resting' = [k \in Contacts |-> resting[k] \/ d[k] = "pending"]
        /\ linked'  = [k \in Contacts |-> linked[k] /\ d[k] # "pending"]
  /\ decided' = [decided EXCEPT ![r] = [k \in Contacts |-> "keep"]]
  /\ pc' = [pc EXCEPT ![r] = next]
  /\ at' = [at EXCEPT ![r] = IF next = "gate" THEN @ ELSE None]
  /\ UNCHANGED <<campaign, attempts, overdue, call, stray, on, empty, fails, gate, lost>>

-----------------------------------------------------------------------------
(* The loop of _advance: count and claim under the lock, dial, record.      *)

\* Counted and claimed in one transaction, but without the lock.
Serialised_FaultyNoLock(r) == r \in Runners

Serialised(r) == gate = None

HasRoom(c) ==
  /\ campaign[c] = "running"
  /\ Cardinality(Calling) < TenantMax
  /\ Cardinality(Of(c) \cap Calling) < MaxConcurrent[c]

EnterGate(r) ==
  /\ pc[r] = "gate" /\ Serialised(r)
  /\ HasRoom(at[r])
  /\ gate' = r
  /\ pc' = [pc EXCEPT ![r] = "claim"]
  /\ empty' = [empty EXCEPT ![r] = Of(at[r]) \cap Calling = {}]
  /\ UNCHANGED <<campaign, rows, call, stray, at, on, fails, decided, lost>>

LeaveGate(r) ==
  /\ pc[r] = "gate" /\ Serialised(r)
  /\ ~HasRoom(at[r])
  /\ Rest(r)
  /\ UNCHANGED <<campaign, rows, call, stray, decided, gate, lost>>

\* claim_next_contact, and the number decrypted
Claim(r, k) ==
  /\ pc[r] = "claim"
  /\ k \in Eligible(at[r]) /\ \A j \in Eligible(at[r]) : Position[k] <= Position[j]
  /\ attempts' = [attempts EXCEPT ![k] = @ + 1]
  /\ overdue' = [overdue EXCEPT ![k] = FALSE]
  /\ call' = [call EXCEPT ![k] = "none"]
  /\ stray' = [stray EXCEPT ![k] = @ \/ call[k] \in Live]
  /\ lost' = [lost EXCEPT ![k] = FALSE]
  /\ gate' = None
  /\ \/ /\ status' = [status EXCEPT ![k] = "calling"]
        /\ pc' = [pc EXCEPT ![r] = "dial"]
        /\ on' = [on EXCEPT ![r] = k]
     \/ \* unreadable
        /\ status' = [status EXCEPT ![k] = "failed"]
        /\ pc' = [pc EXCEPT ![r] = "gate"]
        /\ UNCHANGED on
  /\ UNCHANGED <<campaign, resting, linked, at, empty, fails, decided>>

\* Nothing to claim now is taken for nothing left.
NothingLeft_FaultyRestingForgotten(r) == empty[r]

NothingLeft(r) ==
  empty[r] /\ \A k \in Of(at[r]) : status[k] # "pending"

Finish(r) ==
  /\ pc[r] = "claim" /\ Eligible(at[r]) = {}
  /\ campaign' = [campaign EXCEPT ![at[r]] = IF NothingLeft(r) THEN "done" ELSE @]
  /\ gate' = None
  /\ Rest(r)
  /\ UNCHANGED <<rows, call, stray, decided, lost>>

\* POST /calls: answered; refused; or carried out with the answer lost.
Dial(r) ==
  /\ pc[r] = "dial"
  /\ LET k == on[r]
         dialled == [call EXCEPT ![k] = "started"]
     IN \/ /\ call' = dialled /\ UNCHANGED lost
           /\ pc' = [pc EXCEPT ![r] = "record"]
        \/ /\ UNCHANGED <<call, lost>>
           /\ pc' = [pc EXCEPT ![r] = "fail"]
        \/ /\ call' = dialled /\ lost' = [lost EXCEPT ![k] = TRUE]
           /\ pc' = [pc EXCEPT ![r] = "fail"]
  /\ UNCHANGED <<campaign, rows, stray, at, on, empty, fails, decided, gate>>

Record(r) ==
  /\ pc[r] = "record"
  /\ linked' = [linked EXCEPT ![on[r]] = TRUE]
  /\ fails' = [fails EXCEPT ![r] = 0]
  /\ pc' = [pc EXCEPT ![r] = "gate"]
  /\ on' = [on EXCEPT ![r] = None]
  /\ UNCHANGED <<campaign, status, attempts, resting, overdue, call, stray, at, empty,
                 decided, gate, lost>>

\* _finish, and the brake on an outage
GiveUp(r) ==
  /\ pc[r] = "fail"
  /\ status' = [status EXCEPT ![on[r]] = "failed"]
  /\ linked' = [linked EXCEPT ![on[r]] = FALSE]
  /\ IF fails[r] + 1 >= MaxDialFailures
       THEN Rest(r)
       ELSE /\ fails' = [fails EXCEPT ![r] = @ + 1]
            /\ pc' = [pc EXCEPT ![r] = "gate"]
            /\ on' = [on EXCEPT ![r] = None]
            /\ UNCHANGED <<at, empty>>
  /\ UNCHANGED <<campaign, attempts, resting, overdue, call, stray, decided, gate, lost>>

\* An error ends the tick, or the process dies: transactions roll back, and a
\* dial under way may still be carried out.
Abort(r) ==
  /\ pc[r] # "idle"
  /\ Rest(r)
  /\ decided' = [decided EXCEPT ![r] = [k \in Contacts |-> "keep"]]
  /\ gate' = IF gate = r THEN None ELSE gate
  /\ \/ pc[r] # "record" /\ UNCHANGED <<call, lost>>
     \/ /\ pc[r] \in {"dial", "record"}
        /\ call' = [call EXCEPT ![on[r]] = IF @ = "none" THEN "started" ELSE @]
        /\ lost' = [lost EXCEPT ![on[r]] = TRUE]
  /\ UNCHANGED <<campaign, rows, stray>>

-----------------------------------------------------------------------------
(* Calls and time.                                                          *)

\* The call is over and its row says how; after a sweep the agent's own write
\* may still come.
CallEnds(k) ==
  /\ call[k] \in Live
  /\ \E s \in {"ended", "unanswered", "failed"} : call' = [call EXCEPT ![k] = s]
  /\ UNCHANGED <<campaign, rows, stray, runner, gate, lost>>

\* fail_stale_voice_sessions: 'started' for hours, with an agent or without
Sweep(k) ==
  /\ call[k] = "started"
  /\ call' = [call EXCEPT ![k] = "swept"]
  /\ lost' = [lost EXCEPT ![k] = TRUE]
  /\ UNCHANGED <<campaign, rows, stray, runner, gate>>

\* next_attempt_at passes
Rested(k) ==
  /\ resting[k] /\ \A r \in Runners : decided[r][k] = "keep"
  /\ resting' = [resting EXCEPT ![k] = FALSE]
  /\ UNCHANGED <<campaign, status, attempts, linked, overdue, call, stray, runner, gate, lost>>

\* called_at falls behind stuck_after
Overdue(k) ==
  /\ status[k] = "calling" /\ ~linked[k] /\ ~overdue[k]
  /\ \A r \in Runners : on[r] # k
  /\ overdue' = [overdue EXCEPT ![k] = TRUE]
  /\ UNCHANGED <<campaign, status, attempts, resting, linked, call, stray, runner, gate, lost>>

-----------------------------------------------------------------------------
CampaignNext ==
  \/ \E c \in Campaigns, s \in {"running", "paused", "stopped"} : Control(c, s)
  \/ \E r \in Runners :
       \/ \E c \in Campaigns : Reconcile(r, c)
       \/ \E next \in {"gate", "idle"} : Write(r, next)
       \/ EnterGate(r) \/ LeaveGate(r) \/ (\E k \in Contacts : Claim(r, k))
       \/ Finish(r) \/ Dial(r) \/ Record(r) \/ GiveUp(r) \/ Abort(r)
  \/ \E k \in Contacts :
       \/ CallEnds(k) \/ Sweep(k) \/ Rested(k) \/ Overdue(k)

CampaignSpec == CampaignInit /\ [][CampaignNext]_cvars

-----------------------------------------------------------------------------
CampaignTypeOK ==
  /\ campaign \in [Campaigns -> {"stopped", "running", "paused", "done"}]
  /\ status   \in [Contacts -> {"pending", "calling"} \cup Final]
  /\ attempts \in [Contacts -> Nat]
  /\ \A k \in Contacts : attempts[k] <= MaxAttempts[CampaignOf[k]]
  /\ resting  \in [Contacts -> BOOLEAN]
  /\ linked   \in [Contacts -> BOOLEAN]
  /\ overdue  \in [Contacts -> BOOLEAN]
  /\ call     \in [Contacts -> {"none", "ended", "unanswered", "failed"} \cup Live]
  /\ stray    \in [Contacts -> BOOLEAN]
  /\ pc \in [Runners -> {"idle", "write", "writeOnly", "gate", "claim", "dial",
                         "record", "fail"}]
  /\ at \in [Runners -> Campaigns \cup {None}]
  /\ on \in [Runners -> Contacts \cup {None}]
  /\ empty \in [Runners -> BOOLEAN]
  /\ fails \in [Runners -> 0 .. MaxDialFailures - 1]
  /\ decided \in [Runners -> [Contacts -> {"keep", "pending"} \cup Final]]
  /\ gate \in Runners \cup {None}
  /\ lost \in [Contacts -> BOOLEAN]

(* The calls in progress, not only the rows, stay within the campaign's     *)
(* ceiling and the tenant's, with several replicas counting, claiming and   *)
(* settling at once; a call whose dial lost its answer or that was swept is *)
(* not known to any row.                                                    *)
CallsWithinCeilings ==
  LET known == {k \in Contacts : call[k] \in Live /\ ~lost[k]}
  IN /\ Cardinality(known) <= TenantMax
     /\ \A c \in Campaigns : Cardinality(known \cap Of(c)) <= MaxConcurrent[c]

(* Nobody's phone rings for a second call while a first one goes on, not    *)
(* even when an answer was lost, a runner died or the sweeper was early.    *)
OneCallAtATime ==
  \A k \in Contacts : ~stray[k]

(* A campaign the dialer declares done has nobody left to call or to redial *)
(* and no call in progress, and stays so: no reconcile that was under way   *)
(* revives a contact.                                                       *)
DoneMeansDone ==
  \A k \in Contacts : campaign[CampaignOf[k]] = "done" /\ ~lost[k] =>
    status[k] \in Final /\ call[k] \notin Live

(* A contact that is settled stays as it is: no reconcile that read it      *)
(* earlier, and that never locked it, overwrites its outcome or has it      *)
(* dialled again.                                                           *)
SettledContactIsFinal ==
  [][\A k \in Contacts : status[k] \in Final /\ ~lost[k] => status'[k] = status[k]]_cvars
=============================================================================
