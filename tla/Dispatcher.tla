----------------------------- MODULE Dispatcher -----------------------------
(****************************************************************************)
(* The voice dispatcher: one agent per LiveKit room, started for a caller   *)
(* who joins, for an outbound call or for a browser; a slot is reserved     *)
(* before the first await and released before the agent is stopped, and the *)
(* status a session still owes is kept apart until it is written.           *)
(*                                                                          *)
(* One asyncio loop: an action is what a task does between two awaits.      *)
(* Every database and provider call may fail, or succeed and lose its       *)
(* answer.  A room is never used for a second call.                         *)
(****************************************************************************)
EXTENDS Naturals, FiniteSets

CONSTANTS
  Rooms,
  Inbound,        \* rooms a caller joins
  Outbound,       \* rooms the dispatcher dials from; the rest are browser calls
  Tenants,
  TenantOf,       \* the tenant of a room's call
  MaxActive,      \* max_active_calls
  MaxPerTenant,   \* max_active_calls_per_tenant
  MaxUnfinalized  \* _MAX_UNFINALIZED_ROOMS

ASSUME DispatcherAssumption ==
  /\ IsFiniteSet(Rooms)
  /\ Inbound \subseteq Rooms /\ Outbound \subseteq Rooms \ Inbound
  /\ TenantOf \in [Rooms -> Tenants]
  /\ MaxActive \in Nat /\ MaxPerTenant \in Nat /\ MaxUnfinalized \in Nat \ {0}

VARIABLES
  slot,      \* in _pending, in _active, or free
  start,     \* how far the task is that starts the room's call
  bot,       \* the agent's task; "ended" or "failed" until its callback ran
  closing,   \* how far the task is that took the room out of _active
  owed,      \* _unfinalized: the status still to be written
  session,   \* status of the row in public.sessions
  leg,       \* the caller's or callee's leg; "adrift": a teardown was refused
  drain,     \* how far drain() is
  errors,    \* drain() has met an error
  abandoned  \* history: its owed write was evicted, or lost with a task

dvars == <<slot, start, bot, closing, owed, session, leg, drain, errors,
           abandoned>>

Statuses == {"ended", "failed"}

DispatcherInit ==
  /\ slot      = [r \in Rooms |-> "free"]
  /\ start     = [r \in Rooms |-> "idle"]
  /\ bot       = [r \in Rooms |-> "none"]
  /\ closing   = [r \in Rooms |-> "none"]
  /\ owed      = [r \in Rooms |-> "none"]
  /\ session   = [r \in Rooms |-> "none"]
  /\ leg       = [r \in Rooms |-> "none"]
  /\ drain     = "no"
  /\ errors    = FALSE
  /\ abandoned = [r \in Rooms |-> FALSE]

-----------------------------------------------------------------------------
(* Definitions with _Faulty in their name are plausible slips of the        *)
(* definition they precede.                                                 *)

Taken == {r \in Rooms : slot[r] # "free"}

\* Only established calls are counted, not those being started.
CanAdmit_FaultyActiveOnly(r) ==
  /\ drain = "no"
  /\ Cardinality({q \in Rooms : slot[q] = "active"}) < MaxActive
  /\ Cardinality({q \in Rooms : slot[q] = "active" /\ TenantOf[q] = TenantOf[r]})
       < MaxPerTenant

CanAdmit(r) ==
  /\ drain = "no"
  /\ Cardinality(Taken) < MaxActive
  /\ Cardinality({q \in Taken : TenantOf[q] = TenantOf[r]}) < MaxPerTenant

Owing == {r \in Rooms : owed[r] # "none"}

\* Off by one: the record is full only when it is over its limit.
Full_FaultyOver == Cardinality(Owing) > MaxUnfinalized

Full == Cardinality(Owing) >= MaxUnfinalized

\* _remember_unfinalized: the first status observed is kept; when the record
\* is full the oldest entry is dropped (here: any).
Remember(r, s) ==
  LET kept == [owed EXCEPT ![r] = s]
  IN \/ owed[r] # "none" /\ UNCHANGED <<owed, abandoned>>
     \/ /\ owed[r] = "none" /\ ~Full
        /\ owed' = kept /\ UNCHANGED abandoned
     \/ /\ owed[r] = "none" /\ Full
        /\ \E q \in Owing :
             /\ owed' = [kept EXCEPT ![q] = "none"]
             /\ abandoned' = [abandoned EXCEPT ![q] = TRUE]

\* The record is dropped before the write is known to have landed.
Persist_FaultyForgets(r) ==
  /\ owed' = [owed EXCEPT ![r] = "none"]
  /\ \/ session' = [session EXCEPT ![r] = IF owed[r] = "none" THEN @ ELSE owed[r]]
     \/ UNCHANGED session

\* _persist_finalization: a failed write, or one whose answer is lost, leaves
\* the record.
Persist(r) ==
  \/ owed[r] = "none" /\ UNCHANGED <<owed, session>>
  \/ /\ owed[r] # "none"
     /\ owed' = [owed EXCEPT ![r] = "none"]
     /\ session' = [session EXCEPT ![r] = owed[r]]
  \/ /\ owed[r] # "none"
     /\ session' \in {session, [session EXCEPT ![r] = owed[r]]}
     /\ UNCHANGED owed

\* delete_room takes every leg down, or fails and only logs it.
HangUp(r) ==
  \E l \in {"none", "adrift"} :
    leg' = [leg EXCEPT ![r] = IF @ = "none" THEN @ ELSE l]

\* The room leaves _active, its status is remembered and its agent cancelled,
\* all before the next await.
Release(r, s, next) ==
  /\ slot' = [slot EXCEPT ![r] = "free"]
  /\ Remember(r, s)
  /\ bot' = [bot EXCEPT ![r] = IF @ = "running" THEN "stopping" ELSE @]
  /\ closing' = [closing EXCEPT ![r] = next]

\* _finalize
Finalize(r, s) ==
  IF slot[r] = "active"
    THEN Release(r, s, "cancel") /\ UNCHANGED session
    ELSE Persist(r) /\ UNCHANGED <<slot, abandoned, bot, closing>>

-----------------------------------------------------------------------------
(* Starting a call.                                                         *)

\* A caller's leg joins a room.
Ring(r) ==
  /\ r \in Inbound
  /\ leg[r] = "none" /\ session[r] = "none" /\ start[r] = "idle"
  /\ leg' = [leg EXCEPT ![r] = "up"]
  /\ UNCHANGED <<slot, start, bot, closing, owed, session, drain, errors,
                 abandoned>>

\* handle_participant_joined, up to the first await of _start.
Join(r) ==
  /\ r \in Inbound
  /\ leg[r] = "up" /\ slot[r] = "free" /\ start[r] = "idle"
  /\ \/ /\ CanAdmit(r)
        /\ slot'  = [slot EXCEPT ![r] = "pending"]
        /\ start' = [start EXCEPT ![r] = "begin"]
     \/ \* no tenant for the number, the wrong trunk or rule, or no capacity
        /\ start' = [start EXCEPT ![r] = "refuse"]
        /\ UNCHANGED slot
  /\ UNCHANGED <<bot, closing, owed, session, leg, drain, errors,
                 abandoned>>

\* A second leg joins while the call is being started: it shares the result,
\* unless begin() has meanwhile found the caller's contact and the two
\* contexts differ; then it hangs up the room.
JoinAgain(r) ==
  /\ r \in Inbound
  /\ start[r] \in {"launch", "settle"}
  /\ HangUp(r)
  /\ UNCHANGED <<slot, start, bot, closing, owed, session, drain, errors,
                 abandoned>>

\* place_outbound_call and start_browser_call
Place(r) ==
  /\ r \notin Inbound
  /\ slot[r] = "free" /\ start[r] = "idle"
  /\ CanAdmit(r)
  /\ slot'  = [slot EXCEPT ![r] = "pending"]
  /\ start' = [start EXCEPT ![r] = "begin"]
  /\ UNCHANGED <<bot, closing, owed, session, leg, drain, errors,
                 abandoned>>

\* An inbound room that gets no agent is hung up by the task that tried.
Unstarted(r) ==
  /\ slot'  = [slot EXCEPT ![r] = "free"]
  /\ start' = [start EXCEPT ![r] = IF r \in Inbound THEN "refuse" ELSE "idle"]

BeginCreates(r) ==
  /\ start[r] = "begin" /\ drain = "no"
  /\ session[r] = "none"
  /\ session' = [session EXCEPT ![r] = "started"]
  /\ start' = [start EXCEPT ![r] = "launch"]
  /\ UNCHANGED <<slot, bot, closing, owed, leg, drain, errors, abandoned>>

\* The session exists: a repeated join or a repeated key.
BeginExists(r) ==
  /\ start[r] = "begin" /\ drain = "no"
  /\ session[r] # "none"
  /\ Unstarted(r)
  /\ UNCHANGED <<bot, closing, owed, session, leg, drain, errors, abandoned>>

\* begin() raises, or the drain cancels the task in it: the row may exist.
BeginRaises(r) ==
  /\ start[r] = "begin"
  /\ Unstarted(r)
  /\ \/ UNCHANGED <<session, abandoned>>
     \/ /\ session[r] = "none"
        /\ session' = [session EXCEPT ![r] = "started"]
        /\ abandoned' = [abandoned EXCEPT ![r] = TRUE]
  /\ UNCHANGED <<bot, closing, owed, leg, drain, errors>>

LaunchReturns(r) ==
  /\ start[r] = "launch" /\ drain = "no"
  /\ slot' = [slot EXCEPT ![r] = "active"]
  /\ bot'  = [bot EXCEPT ![r] = "running"]
  /\ start' = [start EXCEPT ![r] = IF r \in Outbound THEN "dial" ELSE "idle"]
  /\ UNCHANGED <<closing, owed, session, leg, drain, errors, abandoned>>

\* The launch fails, or the drain cancels it; the agent it had begun to run
\* has finished, and may have written a status of its own.
LaunchRaises(r) ==
  /\ start[r] = "launch"
  /\ Remember(r, "failed")
  /\ session' \in {session} \cup {[session EXCEPT ![r] = s] : s \in Statuses}
  /\ start' = [start EXCEPT ![r] = "settle"]
  /\ UNCHANGED <<slot, bot, closing, leg, drain, errors>>

SettleStart(r) ==
  /\ start[r] = "settle"
  /\ Persist(r)
  /\ Unstarted(r)
  /\ UNCHANGED <<bot, closing, leg, drain, errors, abandoned>>

Refuse(r) ==
  /\ start[r] = "refuse"
  /\ HangUp(r)
  /\ start' = [start EXCEPT ![r] = "idle"]
  /\ UNCHANGED <<slot, bot, closing, owed, session, drain, errors, abandoned>>

\* LiveKit accepts the dial; it would also recreate a room torn down meanwhile.
DialReturns(r) ==
  /\ start[r] = "dial"
  /\ leg' = [leg EXCEPT ![r] = "up"]
  /\ start' = [start EXCEPT ![r] = "idle"]
  /\ UNCHANGED <<slot, bot, closing, owed, session, drain, errors, abandoned>>

\* A dial error is not proof that no leg exists.
DialRaises(r) ==
  /\ start[r] = "dial"
  /\ leg' \in {leg, [leg EXCEPT ![r] = "up"]}
  /\ start' = [start EXCEPT ![r] = "undo"]
  /\ UNCHANGED <<slot, bot, closing, owed, session, drain, errors, abandoned>>

UndoDial(r) ==
  /\ start[r] = "undo"
  /\ HangUp(r)
  /\ Finalize(r, "failed")
  /\ start' = [start EXCEPT ![r] = "idle"]
  /\ UNCHANGED <<drain, errors>>

-----------------------------------------------------------------------------
(* Ending it.                                                               *)

\* The agent's task is over and has written its status, unless it could not.
BotExits(r) ==
  /\ bot[r] = "running"
  /\ \E s \in Statuses :
       /\ bot' = [bot EXCEPT ![r] = s]
       /\ session' \in {session, [session EXCEPT ![r] = s]}
  /\ UNCHANGED <<slot, start, closing, owed, leg, drain, errors, abandoned>>

\* A cancelled agent saves its recording and its row first: "ended", or
\* "failed" when the cancellation met it in the middle of its own failure.
BotStops(r) ==
  /\ bot[r] = "stopping"
  /\ bot' = [bot EXCEPT ![r] = "none"]
  /\ session' \in {session} \cup {[session EXCEPT ![r] = s] : s \in Statuses}
  /\ UNCHANGED <<slot, start, closing, owed, leg, drain, errors, abandoned>>

\* The agent's exit leaves the room to LiveKit.
Completes_FaultyNoHangup(r) ==
  /\ bot[r] \in Statuses
  /\ bot' = [bot EXCEPT ![r] = "none"]
  /\ IF slot[r] = "active"
       THEN /\ slot' = [slot EXCEPT ![r] = "free"]
            /\ Remember(r, bot[r])
            /\ closing' = [closing EXCEPT ![r] = "record"]
       ELSE UNCHANGED <<slot, owed, abandoned, closing>>
  /\ UNCHANGED <<start, session, leg, drain, errors>>

\* _handle_agent_completion, the callback of the agent's task
Completes(r) ==
  /\ bot[r] \in Statuses
  /\ bot' = [bot EXCEPT ![r] = "none"]
  /\ IF slot[r] = "active"
       THEN /\ slot' = [slot EXCEPT ![r] = "free"]
            /\ Remember(r, bot[r])
            /\ closing' = [closing EXCEPT ![r] = "hangup"]
       ELSE UNCHANGED <<slot, owed, abandoned, closing>>
  /\ UNCHANGED <<start, session, leg, drain, errors>>

\* handle_room_finished, delivered again while it raises
RoomFinished(r) ==
  /\ slot[r] # "free" \/ owed[r] # "none"
  /\ leg' = [leg EXCEPT ![r] = "none"]
  /\ Finalize(r, "ended")
  /\ UNCHANGED <<start, drain, errors>>

\* hangup(), by an operator
OperatorHangsUp(r) ==
  /\ slot[r] # "free"
  /\ HangUp(r)
  /\ Finalize(r, "ended")
  /\ UNCHANGED <<start, drain, errors>>

\* handle.cancel() returns when the agent has stopped, or when the webhook
\* pump cancels the handler: it suppresses that cancellation too.
CancelReturns(r) ==
  /\ closing[r] = "cancel"
  /\ closing' = [closing EXCEPT ![r] = "persist"]
  /\ UNCHANGED <<slot, start, bot, owed, session, leg, drain, errors, abandoned>>

Hangs(r) ==
  /\ closing[r] \in {"hangup", "drainHangup"}
  /\ HangUp(r)
  /\ closing' = [closing EXCEPT ![r] = IF @ = "hangup" THEN "record" ELSE "drainRecord"]
  /\ UNCHANGED <<slot, start, bot, owed, session, drain, errors, abandoned>>

\* The last write of a closing task; only a drain minds its failure here.
Records(r) ==
  /\ closing[r] \in {"persist", "record", "drainRecord"}
  /\ Persist(r)
  /\ errors' = (errors \/ (closing[r] = "drainRecord" /\ owed'[r] # "none"))
  /\ closing' = [closing EXCEPT ![r] = "none"]
  /\ UNCHANGED <<slot, start, bot, leg, drain, abandoned>>

\* The sweeper: sessions 'started' for hours, whether or not they are over;
\* no start takes that long.
Sweep(r) ==
  /\ session[r] = "started" /\ start[r] = "idle"
  /\ session' = [session EXCEPT ![r] = "failed"]
  /\ UNCHANGED <<slot, start, bot, closing, owed, leg, drain, errors, abandoned>>

-----------------------------------------------------------------------------
(* Draining, and the end of the process.                                    *)

\* Starts under way are cancelled: from here on they can only raise.
DrainBegins ==
  /\ drain = "no"
  /\ drain' = "starts"
  /\ UNCHANGED <<slot, start, bot, closing, owed, session, leg, errors, abandoned>>

\* The starts are cancelled but not waited for.
DrainWaitsForStarts_FaultyNoWait == drain = "starts"

DrainWaitsForStarts ==
  drain = "starts" /\ \A r \in Rooms : slot[r] # "pending"

DrainStartsDone ==
  /\ DrainWaitsForStarts
  /\ drain' = "rooms"
  /\ UNCHANGED <<slot, start, bot, closing, owed, session, leg, errors, abandoned>>

\* _drain_room up to its first await
DrainRoom(r) ==
  /\ drain = "rooms" /\ slot[r] = "active"
  /\ Release(r, "ended", "stop")
  /\ UNCHANGED <<start, session, leg, drain, errors>>

\* graceful_stop() returns, or the drain's deadline interrupts it.
StopReturns(r) ==
  /\ closing[r] = "stop"
  /\ bot[r] # "stopping" \/ drain = "failed"
  /\ closing' = [closing EXCEPT ![r] = "drainHangup"]
  /\ UNCHANGED <<slot, start, bot, owed, session, leg, drain, errors, abandoned>>

\* Every room is settled and every completion awaited.
DrainRoomsDone ==
  /\ drain = "rooms"
  /\ \A r \in Rooms : /\ slot[r] # "active"
                      /\ closing[r] \in {"none", "cancel", "persist"}
  /\ drain' = "owed"
  /\ UNCHANGED <<slot, start, bot, closing, owed, session, leg, errors, abandoned>>

\* What is still owed is written once more, room by room.
DrainEnds ==
  /\ drain = "owed"
  /\ \E S \in SUBSET Owing :
       /\ owed' = [r \in Rooms |-> IF r \in S THEN "none" ELSE owed[r]]
       /\ session' = [r \in Rooms |-> IF r \in S THEN owed[r] ELSE session[r]]
       /\ drain' = IF errors \/ \E r \in Rooms : owed'[r] # "none"
                     THEN "failed" ELSE "done"
  /\ UNCHANGED <<slot, start, bot, closing, leg, errors, abandoned>>

DrainDeadline ==
  /\ drain \in {"starts", "rooms", "owed"}
  /\ drain' = "failed"
  /\ UNCHANGED <<slot, start, bot, closing, owed, session, leg, errors, abandoned>>

\* The process dies, or exits after a drain, and another one starts.  A join
\* that was being handled is delivered again.
Restart ==
  /\ slot'    = [r \in Rooms |-> "free"]
  /\ start'   = [r \in Rooms |-> "idle"]
  /\ bot'     = [r \in Rooms |-> "none"]
  /\ closing' = [r \in Rooms |-> "none"]
  /\ owed'    = [r \in Rooms |-> "none"]
  /\ drain'   = "no"
  /\ errors'  = FALSE
  /\ leg' = [r \in Rooms |->
               IF leg[r] = "up" /\ (bot[r] # "none" \/ closing[r] # "none")
                 THEN "adrift" ELSE leg[r]]
  /\ abandoned' = [r \in Rooms |-> abandoned[r] \/ session[r] = "started"
                                   \/ owed[r] # "none" \/ start[r] # "idle"]
  /\ UNCHANGED session

-----------------------------------------------------------------------------
DispatcherNext ==
  \/ \E r \in Rooms :
       \/ Ring(r) \/ Join(r) \/ JoinAgain(r) \/ Place(r)
       \/ BeginCreates(r) \/ BeginExists(r) \/ BeginRaises(r)
       \/ LaunchReturns(r) \/ LaunchRaises(r) \/ SettleStart(r) \/ Refuse(r)
       \/ DialReturns(r) \/ DialRaises(r) \/ UndoDial(r)
       \/ BotExits(r) \/ BotStops(r) \/ Completes(r) \/ RoomFinished(r)
       \/ OperatorHangsUp(r) \/ CancelReturns(r) \/ Hangs(r) \/ Records(r) \/ Sweep(r)
       \/ DrainRoom(r) \/ StopReturns(r)
  \/ DrainBegins
  \/ DrainStartsDone
  \/ DrainRoomsDone
  \/ DrainEnds
  \/ DrainDeadline
  \/ Restart

DispatcherSpec == DispatcherInit /\ [][DispatcherNext]_dvars

-----------------------------------------------------------------------------
DispatcherTypeOK ==
  /\ slot      \in [Rooms -> {"free", "pending", "active"}]
  /\ start     \in [Rooms -> {"idle", "begin", "launch", "settle", "refuse", "dial", "undo"}]
  /\ bot       \in [Rooms -> {"none", "running", "stopping"} \cup Statuses]
  /\ closing   \in [Rooms -> {"none", "cancel", "persist", "hangup", "record",
                              "stop", "drainHangup", "drainRecord"}]
  /\ owed      \in [Rooms -> {"none"} \cup Statuses]
  /\ Cardinality(Owing) <= MaxUnfinalized
  /\ session   \in [Rooms -> {"none", "started"} \cup Statuses]
  /\ leg       \in [Rooms -> {"none", "up", "adrift"}]
  /\ drain     \in {"no", "starts", "rooms", "owed", "done", "failed"}
  /\ errors    \in BOOLEAN
  /\ abandoned \in [Rooms -> BOOLEAN]

\* Agents at work: being launched, or running and not told to stop.
Working == {r \in Rooms : start[r] = "launch" \/ bot[r] = "running"}

(* The agents at work never exceed the process's slots nor a tenant's, with *)
(* starts that await the database, calls that end in four ways and a drain  *)
(* interleaved.                                                             *)
AgentsWithinCapacity ==
  /\ Cardinality(Working) <= MaxActive
  /\ \A t \in Tenants :
       Cardinality({r \in Working : TenantOf[r] = t}) <= MaxPerTenant

(* A session that is still 'started' has a call, or a status write is owed  *)
(* for it; only an evicted record, a begin() that lost its answer or a      *)
(* process that died leaves it to the sweeper.                              *)
StartedIsAccounted ==
  \A r \in Rooms : session[r] = "started" =>
    slot[r] # "free" \/ owed[r] # "none" \/ abandoned[r]

(* A caller whose call was recorded is never left in a room nobody tends:   *)
(* an agent is there, or a task that will take the room down.               *)
CallerIsAttended ==
  \A r \in Inbound : leg[r] = "up" /\ session[r] # "none" /\ ~abandoned[r] =>
    \/ slot[r] # "free" \/ start[r] # "idle"
    \/ closing[r] \in {"stop", "hangup", "drainHangup"}

(* A drain that reports success leaves no call, no agent at work and no     *)
(* write owed, although calls were starting and ending meanwhile.           *)
DrainedMeansQuiet ==
  drain = "done" => \A r \in Rooms :
    slot[r] = "free" /\ owed[r] = "none" /\ r \notin Working
=============================================================================
