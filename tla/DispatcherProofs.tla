-------------------------- MODULE DispatcherProofs --------------------------
(****************************************************************************)
(* For any number of rooms, tenants and slots: agents stay within the       *)
(* process's and the tenant's capacity, no session is left 'started'        *)
(* unaccounted, no caller unattended, and a drain that succeeds leaves      *)
(* nothing behind.                                                          *)
(****************************************************************************)
EXTENDS Dispatcher, FiniteSetTheorems, TLAPS

-----------------------------------------------------------------------------
(* The parts of the inductive invariant.                                    *)

\* A slot is pending exactly while a task starts the call, and a call in
\* _active has an agent that nobody has stopped.
SlotsAgree ==
  \A r \in Rooms :
    /\ (slot[r] = "pending") <=> (start[r] \in {"begin", "launch", "settle"})
    /\ bot[r] = "running" => slot[r] = "active"
    /\ slot[r] = "active" => bot[r] \in {"running"} \cup Statuses
    /\ start[r] \in {"dial", "undo"} => r \in Outbound

\* Whatever has got past begin() has a row.
SessionsExist ==
  \A r \in Rooms : session[r] = "none" =>
    /\ start[r] \notin {"launch", "settle"} /\ slot[r] # "active"
    /\ bot[r] = "none" /\ owed[r] = "none"

\* The slots taken, of which the agents at work are some.
SlotsWithinCapacity ==
  /\ Cardinality(Taken) <= MaxActive
  /\ \A t \in Tenants :
       Cardinality({r \in Taken : TenantOf[r] = t}) <= MaxPerTenant

\* A start that will not get an agent leaves nothing unaccounted.
StartsAreAccounted ==
  \A r \in Rooms : start[r] \in {"begin", "settle"} /\ session[r] = "started" =>
    owed[r] # "none" \/ abandoned[r]

\* From phase to phase of a drain, fewer slots can be taken.
DrainEmpties ==
  /\ drain \in {"rooms", "owed", "done"} => \A r \in Rooms : slot[r] # "pending"
  /\ drain \in {"owed", "done"} => \A r \in Rooms : slot[r] # "active"
  /\ drain = "done" => \A r \in Rooms : owed[r] = "none"

DInv ==
  /\ DispatcherTypeOK
  /\ SlotsAgree
  /\ SessionsExist
  /\ SlotsWithinCapacity
  /\ StartedIsAccounted
  /\ StartsAreAccounted
  /\ CallerIsAttended
  /\ DrainEmpties

-----------------------------------------------------------------------------
(* What the helpers do, for the provers.                                    *)

(* A record from which entries are only dropped stays within its limit.     *)
LEMMA OwingShrinks ==
  ASSUME Cardinality(Owing) <= MaxUnfinalized, Owing' \subseteq Owing
  PROVE  Cardinality(Owing') <= MaxUnfinalized
<1>1. IsFiniteSet(Owing)
  BY FS_Subset, DispatcherAssumption DEF Owing
<1>2. IsFiniteSet(Owing') /\ Cardinality(Owing') <= Cardinality(Owing)
  BY <1>1, FS_Subset
<1>3. Cardinality(Owing) \in Nat /\ Cardinality(Owing') \in Nat
  BY <1>1, <1>2, FS_CardinalityType
<1>. QED  BY <1>2, <1>3, DispatcherAssumption

(* _remember_unfinalized: the room owes a status afterwards, whatever is    *)
(* evicted is abandoned, and the record keeps its limit.                    *)
LEMMA RememberFacts ==
  ASSUME DispatcherTypeOK, NEW r \in Rooms, NEW s \in Statuses, Remember(r, s)
  PROVE  /\ owed' \in [Rooms -> {"none"} \cup Statuses]
         /\ abandoned' \in [Rooms -> BOOLEAN]
         /\ Cardinality(Owing') <= MaxUnfinalized
         /\ owed'[r] # "none"
         /\ \A q \in Rooms : /\ owed[q] # "none" => owed'[q] # "none" \/ abandoned'[q]
                             /\ abandoned[q] => abandoned'[q]
<1> USE DispatcherAssumption DEF DispatcherTypeOK
<1>1. IsFiniteSet(Owing) /\ Cardinality(Owing) \in Nat
  <2>1. IsFiniteSet(Owing)
    BY FS_Subset DEF Owing
  <2>. QED  BY <2>1, FS_CardinalityType
<1>2. CASE owed[r] # "none"
  <2>1. UNCHANGED <<owed, abandoned>>
    BY <1>2 DEF Remember
  <2>. QED  BY <1>2, <2>1 DEF Owing
<1>3. CASE owed[r] = "none" /\ ~Full
  <2>1. owed' = [owed EXCEPT ![r] = s] /\ UNCHANGED abandoned
    BY <1>3 DEF Remember
  <2>2. Owing' = Owing \cup {r} /\ r \notin Owing
    BY <1>3, <2>1 DEF Owing, Statuses
  <2>3. Cardinality(Owing') = Cardinality(Owing) + 1
    BY <1>1, <2>2, FS_AddElement
  <2>4. Cardinality(Owing') <= MaxUnfinalized
    BY <1>1, <1>3, <2>3 DEF Full
  <2>. QED  BY <2>1, <2>4 DEF Statuses
<1>4. CASE owed[r] = "none" /\ Full
  <2>1. PICK q \in Owing : /\ owed' = [[owed EXCEPT ![r] = s] EXCEPT ![q] = "none"]
                           /\ abandoned' = [abandoned EXCEPT ![q] = TRUE]
    BY <1>4 DEF Remember
  <2>2. q \in Rooms /\ q # r
    BY <1>4 DEF Owing
  <2>3. Owing' = (Owing \ {q}) \cup {r} /\ r \notin Owing \ {q}
    BY <1>4, <2>1, <2>2 DEF Owing, Statuses
  <2>4. IsFiniteSet(Owing \ {q}) /\ Cardinality(Owing \ {q}) = Cardinality(Owing) - 1
    BY <1>1, FS_RemoveElement
  <2>5. Cardinality(Owing') = Cardinality(Owing \ {q}) + 1
    BY <2>3, <2>4, FS_AddElement
  <2>6. Cardinality(Owing') = Cardinality(Owing)
    BY <1>1, <2>4, <2>5
  <2>. QED  BY <2>1, <2>2, <2>6 DEF Statuses
<1>. QED  BY <1>2, <1>3, <1>4

(* _persist_finalization: a record is dropped only with its status written, *)
(* and a write is always a final status.                                    *)
LEMMA PersistFacts ==
  ASSUME DispatcherTypeOK, NEW r \in Rooms, Persist(r)
  PROVE  /\ owed' \in [Rooms -> {"none"} \cup Statuses]
         /\ session' \in [Rooms -> {"none", "started"} \cup Statuses]
         /\ Cardinality(Owing') <= MaxUnfinalized
         /\ \A q \in Rooms : /\ owed[q] = "none" => owed'[q] = "none"
                             /\ session'[q] = session[q] \/ session'[q] \in Statuses
                             /\ session'[q] = "started" => owed'[q] = owed[q]
                             /\ owed[q] = "none" => session'[q] = session[q]
<1> USE DEF DispatcherTypeOK
<1>1. /\ owed' \in [Rooms -> {"none"} \cup Statuses]
      /\ session' \in [Rooms -> {"none", "started"} \cup Statuses]
      /\ \A q \in Rooms : /\ owed[q] = "none" => owed'[q] = "none"
                          /\ session'[q] = session[q] \/ session'[q] \in Statuses
                          /\ session'[q] = "started" => owed'[q] = owed[q]
                          /\ owed[q] = "none" => session'[q] = session[q]
  BY DEF Persist, Statuses
<1>2. Owing' \subseteq Owing
  BY <1>1 DEF Owing
<1>. QED  BY <1>1, <1>2, OwingShrinks

(* delete_room: no leg comes up, and the room's own does not stay up.       *)
LEMMA HangUpFacts ==
  ASSUME DispatcherTypeOK, NEW r \in Rooms, HangUp(r)
  PROVE  /\ leg' \in [Rooms -> {"none", "up", "adrift"}]
         /\ leg'[r] # "up"
         /\ \A q \in Rooms : q # r => leg'[q] = leg[q]
  BY DEF DispatcherTypeOK, HangUp

-----------------------------------------------------------------------------
(* What a step does to the parts of the state, action by action.            *)

(* Finalize: the room is released and owes a status, or a status it owes is *)
(* written.                                                                 *)
LEMMA FinalizeFacts ==
  ASSUME DispatcherTypeOK, NEW r \in Rooms, NEW s \in Statuses, Finalize(r, s)
  PROVE  \/ /\ slot[r] = "active"
            /\ Release(r, s, "cancel") /\ UNCHANGED session
         \/ /\ slot[r] # "active"
            /\ Persist(r) /\ UNCHANGED <<slot, abandoned, bot, closing>>
  BY DEF Finalize

(* Release frees the slot, stops a running agent and leaves a status owed.  *)
LEMMA ReleaseFacts ==
  ASSUME DispatcherTypeOK, NEW r \in Rooms, NEW s \in Statuses,
         NEW next \in {"cancel", "stop"}, Release(r, s, next)
  PROVE  /\ slot' = [slot EXCEPT ![r] = "free"]
         /\ slot' \in [Rooms -> {"free", "pending", "active"}]
         /\ closing' = [closing EXCEPT ![r] = next]
         /\ closing' \in [Rooms -> {"none", "cancel", "persist", "hangup", "record",
                                    "stop", "drainHangup", "drainRecord"}]
         /\ bot' = [bot EXCEPT ![r] = IF @ = "running" THEN "stopping" ELSE @]
         /\ bot' \in [Rooms -> {"none", "running", "stopping"} \cup Statuses]
         /\ owed' \in [Rooms -> {"none"} \cup Statuses]
         /\ abandoned' \in [Rooms -> BOOLEAN]
         /\ Cardinality(Owing') <= MaxUnfinalized
         /\ owed'[r] # "none"
         /\ \A q \in Rooms : /\ owed[q] # "none" => owed'[q] # "none" \/ abandoned'[q]
                             /\ abandoned[q] => abandoned'[q]
<1>1. Remember(r, s)
  BY DEF Release
<1>. QED  BY <1>1, RememberFacts DEF Release, DispatcherTypeOK

(* Every step keeps the types, and the record of owed writes its limit.     *)
LEMMA DTypeStep ==
  ASSUME DispatcherTypeOK, [DispatcherNext]_dvars
  PROVE  DispatcherTypeOK'
<1> USE DEF DispatcherTypeOK
<1>1. CASE UNCHANGED dvars
  BY <1>1 DEF dvars, Owing
<1>2. ASSUME NEW r \in Rooms, Ring(r) PROVE DispatcherTypeOK'
  BY <1>2 DEF Ring, Owing, Statuses
<1>3. ASSUME NEW r \in Rooms, Join(r) PROVE DispatcherTypeOK'
  BY <1>3 DEF Join, Owing, Statuses
<1>4. ASSUME NEW r \in Rooms, JoinAgain(r) PROVE DispatcherTypeOK'
  BY <1>4, HangUpFacts DEF JoinAgain, Owing
<1>5. ASSUME NEW r \in Rooms, Place(r) PROVE DispatcherTypeOK'
  BY <1>5 DEF Place, Owing, Statuses
<1>6. ASSUME NEW r \in Rooms, BeginCreates(r) PROVE DispatcherTypeOK'
  BY <1>6 DEF BeginCreates, Owing, Statuses
<1>7. ASSUME NEW r \in Rooms, BeginExists(r) PROVE DispatcherTypeOK'
  BY <1>7 DEF BeginExists, Unstarted, Owing, Statuses
<1>8. ASSUME NEW r \in Rooms, BeginRaises(r) PROVE DispatcherTypeOK'
  BY <1>8 DEF BeginRaises, Unstarted, Owing, Statuses
<1>9. ASSUME NEW r \in Rooms, LaunchReturns(r) PROVE DispatcherTypeOK'
  BY <1>9 DEF LaunchReturns, Owing, Statuses
<1>10. ASSUME NEW r \in Rooms, LaunchRaises(r) PROVE DispatcherTypeOK'
  <2>1. Remember(r, "failed") /\ "failed" \in Statuses
    BY <1>10 DEF LaunchRaises, Statuses
  <2>. QED  BY <1>10, <2>1, RememberFacts DEF LaunchRaises
<1>11. ASSUME NEW r \in Rooms, SettleStart(r) PROVE DispatcherTypeOK'
  BY <1>11, PersistFacts DEF SettleStart, Unstarted
<1>12. ASSUME NEW r \in Rooms, Refuse(r) PROVE DispatcherTypeOK'
  BY <1>12, HangUpFacts DEF Refuse, Owing
<1>13. ASSUME NEW r \in Rooms, DialReturns(r) PROVE DispatcherTypeOK'
  BY <1>13 DEF DialReturns, Owing, Statuses
<1>14. ASSUME NEW r \in Rooms, DialRaises(r) PROVE DispatcherTypeOK'
  BY <1>14 DEF DialRaises, Owing, Statuses
<1>15. ASSUME NEW r \in Rooms, UndoDial(r) PROVE DispatcherTypeOK'
  <2>1. Finalize(r, "failed") /\ "failed" \in Statuses
    BY <1>15 DEF UndoDial, Statuses
  <2>2. leg' \in [Rooms -> {"none", "up", "adrift"}]
    BY <1>15, HangUpFacts DEF UndoDial
  <2>3. CASE slot[r] = "active"
    <3>1. Release(r, "failed", "cancel") /\ UNCHANGED session
      BY <2>1, <2>3, FinalizeFacts
    <3>. QED  BY <1>15, <2>1, <2>2, <3>1, ReleaseFacts DEF UndoDial
  <2>4. CASE slot[r] # "active"
    <3>1. Persist(r) /\ UNCHANGED <<slot, abandoned, bot, closing>>
      BY <2>1, <2>4, FinalizeFacts
    <3>. QED  BY <1>15, <2>2, <3>1, PersistFacts DEF UndoDial
  <2>. QED  BY <2>3, <2>4
<1>16. ASSUME NEW r \in Rooms, BotExits(r) PROVE DispatcherTypeOK'
  BY <1>16 DEF BotExits, Owing, Statuses
<1>17. ASSUME NEW r \in Rooms, BotStops(r) PROVE DispatcherTypeOK'
  BY <1>17 DEF BotStops, Owing, Statuses
<1>18. ASSUME NEW r \in Rooms, Completes(r) PROVE DispatcherTypeOK'
  <2>1. CASE slot[r] = "active"
    <3>1. Remember(r, bot[r]) /\ bot[r] \in Statuses
      BY <1>18, <2>1 DEF Completes
    <3>. QED  BY <1>18, <2>1, <3>1, RememberFacts DEF Completes
  <2>2. CASE slot[r] # "active"
    BY <1>18, <2>2 DEF Completes, Owing
  <2>. QED  BY <2>1, <2>2
<1>19. ASSUME NEW r \in Rooms, RoomFinished(r) PROVE DispatcherTypeOK'
  <2>1. Finalize(r, "ended") /\ "ended" \in Statuses
    BY <1>19 DEF RoomFinished, Statuses
  <2>2. leg' \in [Rooms -> {"none", "up", "adrift"}]
    BY <1>19, HangUpFacts DEF RoomFinished
  <2>3. CASE slot[r] = "active"
    <3>1. Release(r, "ended", "cancel") /\ UNCHANGED session
      BY <2>1, <2>3, FinalizeFacts
    <3>. QED  BY <1>19, <2>1, <2>2, <3>1, ReleaseFacts DEF RoomFinished
  <2>4. CASE slot[r] # "active"
    <3>1. Persist(r) /\ UNCHANGED <<slot, abandoned, bot, closing>>
      BY <2>1, <2>4, FinalizeFacts
    <3>. QED  BY <1>19, <2>2, <3>1, PersistFacts DEF RoomFinished
  <2>. QED  BY <2>3, <2>4
<1>20. ASSUME NEW r \in Rooms, OperatorHangsUp(r) PROVE DispatcherTypeOK'
  <2>1. Finalize(r, "ended") /\ "ended" \in Statuses
    BY <1>20 DEF OperatorHangsUp, Statuses
  <2>2. leg' \in [Rooms -> {"none", "up", "adrift"}]
    BY <1>20, HangUpFacts DEF OperatorHangsUp
  <2>3. CASE slot[r] = "active"
    <3>1. Release(r, "ended", "cancel") /\ UNCHANGED session
      BY <2>1, <2>3, FinalizeFacts
    <3>. QED  BY <1>20, <2>1, <2>2, <3>1, ReleaseFacts DEF OperatorHangsUp
  <2>4. CASE slot[r] # "active"
    <3>1. Persist(r) /\ UNCHANGED <<slot, abandoned, bot, closing>>
      BY <2>1, <2>4, FinalizeFacts
    <3>. QED  BY <1>20, <2>2, <3>1, PersistFacts DEF OperatorHangsUp
  <2>. QED  BY <2>3, <2>4
<1>21. ASSUME NEW r \in Rooms, CancelReturns(r) PROVE DispatcherTypeOK'
  BY <1>21 DEF CancelReturns, Owing, Statuses
<1>22. ASSUME NEW r \in Rooms, Hangs(r) PROVE DispatcherTypeOK'
  BY <1>22, HangUpFacts DEF Hangs, Owing
<1>23. ASSUME NEW r \in Rooms, Records(r) PROVE DispatcherTypeOK'
  BY <1>23, PersistFacts DEF Records
<1>24. ASSUME NEW r \in Rooms, Sweep(r) PROVE DispatcherTypeOK'
  BY <1>24 DEF Sweep, Owing, Statuses
<1>25. ASSUME NEW r \in Rooms, DrainRoom(r) PROVE DispatcherTypeOK'
  <2>1. Release(r, "ended", "stop") /\ "ended" \in Statuses
    BY <1>25 DEF DrainRoom, Statuses
  <2>. QED  BY <1>25, <2>1, ReleaseFacts DEF DrainRoom
<1>26. ASSUME NEW r \in Rooms, StopReturns(r) PROVE DispatcherTypeOK'
  BY <1>26 DEF StopReturns, Owing, Statuses
<1>27. CASE DrainBegins
  BY <1>27 DEF DrainBegins, Owing
<1>28. CASE DrainStartsDone
  BY <1>28 DEF DrainStartsDone, Owing
<1>29. CASE DrainRoomsDone
  BY <1>29 DEF DrainRoomsDone, Owing
<1>30. CASE DrainEnds
  <2>1. PICK S \in SUBSET Owing :
          /\ owed' = [r \in Rooms |-> IF r \in S THEN "none" ELSE owed[r]]
          /\ session' = [r \in Rooms |-> IF r \in S THEN owed[r] ELSE session[r]]
    BY <1>30 DEF DrainEnds
  <2>2. Owing' \subseteq Owing
    BY <2>1 DEF Owing
  <2>3. \A r \in S : r \in Rooms /\ owed[r] \in Statuses
    BY <2>1 DEF Owing
  <2>4. drain' \in {"done", "failed"}
    BY <1>30 DEF DrainEnds
  <2>. QED  BY <1>30, <2>1, <2>2, <2>3, <2>4, OwingShrinks DEF DrainEnds
<1>31. CASE DrainDeadline
  BY <1>31 DEF DrainDeadline, Owing
<1>32. CASE Restart
  <2>1. Owing' \subseteq Owing
    BY <1>32 DEF Restart, Owing
  <2>. QED  BY <1>32, <2>1, OwingShrinks DEF Restart
<1>. QED
  BY <1>1, <1>2, <1>3, <1>4, <1>5, <1>6, <1>7, <1>8, <1>9, <1>10, <1>11,
     <1>12, <1>13, <1>14, <1>15, <1>16, <1>17, <1>18, <1>19, <1>20,
     <1>21, <1>22, <1>23, <1>24, <1>25, <1>26, <1>27, <1>28, <1>29,
     <1>30, <1>31, <1>32
  DEF DispatcherNext

(* Slots, starts and agents go together.                                    *)
LEMMA AgreeStep ==
  ASSUME DispatcherTypeOK, SlotsAgree,
         [DispatcherNext]_dvars
  PROVE  SlotsAgree'
<1> USE DEF DispatcherTypeOK, SlotsAgree, Statuses
<1>1. CASE UNCHANGED dvars
  BY <1>1 DEF dvars
<1>2. ASSUME NEW r \in Rooms,
             Ring(r) \/ JoinAgain(r) \/ DialReturns(r) \/ DialRaises(r)
               \/ CancelReturns(r) \/ Hangs(r) \/ Records(r) \/ Sweep(r)
               \/ StopReturns(r) \/ Refuse(r)
      PROVE  SlotsAgree'
  BY <1>2 DEF Ring, JoinAgain, DialReturns, DialRaises, CancelReturns, Hangs,
     Records, Sweep, StopReturns, Refuse
<1>3. ASSUME NEW r \in Rooms, Join(r) \/ Place(r) PROVE SlotsAgree'
  BY <1>3 DEF Join, Place
<1>4. ASSUME NEW r \in Rooms,
             BeginCreates(r) \/ BeginExists(r) \/ BeginRaises(r)
      PROVE  SlotsAgree'
  BY <1>4 DEF BeginCreates, BeginExists, BeginRaises, Unstarted
<1>5. ASSUME NEW r \in Rooms,
             LaunchReturns(r) \/ LaunchRaises(r)
      PROVE  SlotsAgree'
  BY <1>5 DEF LaunchReturns, LaunchRaises
<1>6. ASSUME NEW r \in Rooms, SettleStart(r) PROVE SlotsAgree'
  BY <1>6 DEF SettleStart, Unstarted
<1>7. ASSUME NEW r \in Rooms, BotExits(r) \/ BotStops(r) PROVE SlotsAgree'
  BY <1>7 DEF BotExits, BotStops
<1>8. ASSUME NEW r \in Rooms, Completes(r) PROVE SlotsAgree'
  BY <1>8 DEF Completes
<1>9. ASSUME NEW r \in Rooms, UndoDial(r) PROVE SlotsAgree'
  <2>1. Finalize(r, "failed") /\ "failed" \in Statuses
    BY <1>9 DEF UndoDial, Statuses
  <2>2. CASE slot[r] = "active"
    <3>1. Release(r, "failed", "cancel") /\ UNCHANGED session
      BY <2>1, <2>2, FinalizeFacts
    <3>. QED  BY <1>9, <2>1, <2>2, <3>1, ReleaseFacts DEF UndoDial
  <2>3. CASE slot[r] # "active"
    <3>1. Persist(r) /\ UNCHANGED <<slot, abandoned, bot, closing>>
      BY <2>1, <2>3, FinalizeFacts
    <3>. QED  BY <1>9, <2>3, <3>1 DEF UndoDial
  <2>. QED  BY <2>2, <2>3
<1>10. ASSUME NEW r \in Rooms, RoomFinished(r) PROVE SlotsAgree'
  <2>1. Finalize(r, "ended") /\ "ended" \in Statuses
    BY <1>10 DEF RoomFinished, Statuses
  <2>2. CASE slot[r] = "active"
    <3>1. Release(r, "ended", "cancel") /\ UNCHANGED session
      BY <2>1, <2>2, FinalizeFacts
    <3>. QED  BY <1>10, <2>1, <2>2, <3>1, ReleaseFacts DEF RoomFinished
  <2>3. CASE slot[r] # "active"
    <3>1. Persist(r) /\ UNCHANGED <<slot, abandoned, bot, closing>>
      BY <2>1, <2>3, FinalizeFacts
    <3>. QED  BY <1>10, <2>3, <3>1 DEF RoomFinished
  <2>. QED  BY <2>2, <2>3
<1>11. ASSUME NEW r \in Rooms, OperatorHangsUp(r) PROVE SlotsAgree'
  <2>1. Finalize(r, "ended") /\ "ended" \in Statuses
    BY <1>11 DEF OperatorHangsUp, Statuses
  <2>2. CASE slot[r] = "active"
    <3>1. Release(r, "ended", "cancel") /\ UNCHANGED session
      BY <2>1, <2>2, FinalizeFacts
    <3>. QED  BY <1>11, <2>1, <2>2, <3>1, ReleaseFacts DEF OperatorHangsUp
  <2>3. CASE slot[r] # "active"
    <3>1. Persist(r) /\ UNCHANGED <<slot, abandoned, bot, closing>>
      BY <2>1, <2>3, FinalizeFacts
    <3>. QED  BY <1>11, <2>3, <3>1 DEF OperatorHangsUp
  <2>. QED  BY <2>2, <2>3
<1>12. ASSUME NEW r \in Rooms, DrainRoom(r) PROVE SlotsAgree'
  <2>1. Release(r, "ended", "stop") /\ "ended" \in Statuses
    BY <1>12 DEF DrainRoom, Statuses
  <2>. QED  BY <1>12, <2>1, ReleaseFacts DEF DrainRoom
<1>13. CASE DrainBegins \/ DrainStartsDone \/ DrainRoomsDone \/ DrainDeadline
  BY <1>13 DEF DrainBegins, DrainStartsDone, DrainRoomsDone, DrainDeadline
<1>14. CASE DrainEnds
  BY <1>14 DEF DrainEnds
<1>15. CASE Restart
  BY <1>15 DEF Restart
<1>. QED
  BY <1>1, <1>2, <1>3, <1>4, <1>5, <1>6, <1>7, <1>8, <1>9, <1>10, <1>11,
     <1>12, <1>13, <1>14, <1>15
  DEF DispatcherNext

(* A part of a finite set fits where the set fits.                          *)
LEMMA PartFits ==
  ASSUME NEW S, NEW T, IsFiniteSet(T), S \subseteq T, NEW m \in Nat, Cardinality(T) <= m
  PROVE  Cardinality(S) <= m
<1>1. IsFiniteSet(S) /\ Cardinality(S) <= Cardinality(T)
  BY FS_Subset
<1>2. Cardinality(S) \in Nat /\ Cardinality(T) \in Nat
  BY <1>1, FS_CardinalityType
<1>. QED  BY <1>1, <1>2

(* Fewer slots taken are within the capacity as well.                       *)
LEMMA TakenShrinks ==
  ASSUME SlotsWithinCapacity, Taken' \subseteq Taken
  PROVE  SlotsWithinCapacity'
<1>1. IsFiniteSet(Taken)
  BY FS_Subset, DispatcherAssumption DEF Taken
<1>2. Cardinality(Taken') <= MaxActive
  BY <1>1, PartFits, DispatcherAssumption DEF SlotsWithinCapacity
<1>3. ASSUME NEW t \in Tenants
      PROVE  Cardinality({r \in Taken' : TenantOf[r] = t}) <= MaxPerTenant
  <2>1. IsFiniteSet({r \in Taken : TenantOf[r] = t})
    BY <1>1, FS_Subset
  <2>2. {r \in Taken' : TenantOf[r] = t} \subseteq {r \in Taken : TenantOf[r] = t}
    OBVIOUS
  <2>3. Cardinality({r \in Taken : TenantOf[r] = t}) <= MaxPerTenant
    BY DEF SlotsWithinCapacity
  <2>. QED  BY <2>1, <2>2, <2>3, PartFits, DispatcherAssumption
<1>. QED  BY <1>2, <1>3 DEF SlotsWithinCapacity

(* The reservation of _start takes one slot that the limits leave free.     *)
LEMMA AdmissionWithinCapacity ==
  ASSUME DispatcherTypeOK, SlotsWithinCapacity, NEW r \in Rooms, slot[r] = "free",
         CanAdmit(r), slot' = [slot EXCEPT ![r] = "pending"]
  PROVE  SlotsWithinCapacity'
<1>1. IsFiniteSet(Taken) /\ Taken \subseteq Rooms
  BY FS_Subset, DispatcherAssumption DEF Taken
<1>2. Taken' = Taken \cup {r} /\ r \notin Taken
  BY DEF Taken, DispatcherTypeOK
<1>3. Cardinality(Taken') = Cardinality(Taken) + 1 /\ Cardinality(Taken) \in Nat
  BY <1>1, <1>2, FS_AddElement, FS_CardinalityType
<1>4. Cardinality(Taken') <= MaxActive
  BY <1>3, DispatcherAssumption DEF CanAdmit
<1>5. ASSUME NEW t \in Tenants
      PROVE  Cardinality({q \in Taken' : TenantOf[q] = t}) <= MaxPerTenant
  <2> DEFINE Of == {q \in Taken : TenantOf[q] = t}
  <2>1. IsFiniteSet(Of)
    BY <1>1, FS_Subset
  <2>2. Cardinality(Of) \in Nat
    BY <2>1, FS_CardinalityType
  <2>3. CASE TenantOf[r] = t
    <3>1. {q \in Taken' : TenantOf[q] = t} = Of \cup {r} /\ r \notin Of
      BY <1>2, <2>3
    <3>2. Cardinality(Of \cup {r}) = Cardinality(Of) + 1
      BY <2>1, <3>1, FS_AddElement
    <3>3. Cardinality(Of) < MaxPerTenant
      BY <2>3 DEF CanAdmit
    <3>4. Cardinality(Of) + 1 <= MaxPerTenant
      BY <2>2, <3>3, DispatcherAssumption
    <3>5. Cardinality(Of \cup {r}) <= MaxPerTenant
      BY <3>2, <3>4
    <3>. QED  BY <3>1, <3>5
  <2>4. CASE TenantOf[r] # t
    <3>1. {q \in Taken' : TenantOf[q] = t} = Of
      BY <1>2, <2>4
    <3>2. Cardinality(Of) <= MaxPerTenant
      BY DEF SlotsWithinCapacity
    <3>. QED  BY <3>1, <3>2
  <2>. QED  BY <2>3, <2>4
<1>. QED  BY <1>4, <1>5 DEF SlotsWithinCapacity

(* No step takes slots beyond the limits.                                   *)
LEMMA CapacityStep ==
  ASSUME DispatcherTypeOK, SlotsAgree, SlotsWithinCapacity,
         [DispatcherNext]_dvars
  PROVE  SlotsWithinCapacity'
<1> USE DEF DispatcherTypeOK
<1>1. CASE UNCHANGED dvars
  BY <1>1 DEF dvars, SlotsWithinCapacity, Taken
<1>2. ASSUME NEW r \in Rooms,
             Ring(r) \/ JoinAgain(r) \/ DialReturns(r) \/ DialRaises(r)
               \/ CancelReturns(r) \/ Hangs(r) \/ Records(r) \/ Sweep(r)
               \/ StopReturns(r) \/ Refuse(r) \/ BeginCreates(r)
               \/ LaunchRaises(r) \/ BotExits(r) \/ BotStops(r)
      PROVE  SlotsWithinCapacity'
  <2>1. UNCHANGED slot
    BY <1>2 DEF Ring, JoinAgain, DialReturns, DialRaises, CancelReturns, Hangs,
       Records, Sweep, StopReturns, Refuse, BeginCreates, LaunchRaises,
       BotExits, BotStops
  <2>. QED  BY <2>1, TakenShrinks DEF Taken
<1>3. ASSUME NEW r \in Rooms, Join(r) \/ Place(r) PROVE SlotsWithinCapacity'
  <2>1. CASE UNCHANGED slot
    BY <2>1 DEF SlotsWithinCapacity, Taken
  <2>2. CASE ~UNCHANGED slot
    <3>1. slot[r] = "free" /\ CanAdmit(r) /\ slot' = [slot EXCEPT ![r] = "pending"]
      BY <1>3, <2>2 DEF Join, Place
    <3>. QED  BY <3>1, AdmissionWithinCapacity
  <2>. QED  BY <2>1, <2>2
<1>4. ASSUME NEW r \in Rooms,
             BeginExists(r) \/ BeginRaises(r)
      PROVE  SlotsWithinCapacity'
  <2>1. Taken' \subseteq Taken
    BY <1>4 DEF BeginExists, BeginRaises, Unstarted, Taken
  <2>. QED  BY <2>1, TakenShrinks
<1>5. ASSUME NEW r \in Rooms, LaunchReturns(r) PROVE SlotsWithinCapacity'
  <2>1. Taken' \subseteq Taken
    BY <1>5 DEF LaunchReturns, SlotsAgree, Taken
  <2>. QED  BY <2>1, TakenShrinks
<1>6. ASSUME NEW r \in Rooms, SettleStart(r) PROVE SlotsWithinCapacity'
  <2>1. Taken' \subseteq Taken
    BY <1>6 DEF SettleStart, Unstarted, Taken
  <2>. QED  BY <2>1, TakenShrinks
<1>7. ASSUME NEW r \in Rooms, Completes(r) PROVE SlotsWithinCapacity'
  <2>1. Taken' \subseteq Taken
    BY <1>7 DEF Completes, Taken
  <2>. QED  BY <2>1, TakenShrinks
<1>8. ASSUME NEW r \in Rooms, UndoDial(r) PROVE SlotsWithinCapacity'
  <2>1. Finalize(r, "failed") /\ "failed" \in Statuses
    BY <1>8 DEF UndoDial, Statuses
  <2>2. slot' = [slot EXCEPT ![r] = "free"] \/ UNCHANGED slot
    BY <2>1 DEF Finalize, Release
  <2>3. Taken' \subseteq Taken
    BY <2>2 DEF Taken
  <2>. QED  BY <2>3, TakenShrinks
<1>9. ASSUME NEW r \in Rooms, RoomFinished(r) PROVE SlotsWithinCapacity'
  <2>1. Finalize(r, "ended") /\ "ended" \in Statuses
    BY <1>9 DEF RoomFinished, Statuses
  <2>2. slot' = [slot EXCEPT ![r] = "free"] \/ UNCHANGED slot
    BY <2>1 DEF Finalize, Release
  <2>3. Taken' \subseteq Taken
    BY <2>2 DEF Taken
  <2>. QED  BY <2>3, TakenShrinks
<1>10. ASSUME NEW r \in Rooms, OperatorHangsUp(r) PROVE SlotsWithinCapacity'
  <2>1. Finalize(r, "ended") /\ "ended" \in Statuses
    BY <1>10 DEF OperatorHangsUp, Statuses
  <2>2. slot' = [slot EXCEPT ![r] = "free"] \/ UNCHANGED slot
    BY <2>1 DEF Finalize, Release
  <2>3. Taken' \subseteq Taken
    BY <2>2 DEF Taken
  <2>. QED  BY <2>3, TakenShrinks
<1>11. ASSUME NEW r \in Rooms, DrainRoom(r) PROVE SlotsWithinCapacity'
  <2>1. Taken' \subseteq Taken
    BY <1>11 DEF DrainRoom, Release, Taken
  <2>. QED  BY <2>1, TakenShrinks
<1>12. CASE DrainBegins \/ DrainStartsDone \/ DrainRoomsDone \/ DrainDeadline
  <2>1. UNCHANGED slot
    BY <1>12 DEF DrainBegins, DrainStartsDone, DrainRoomsDone, DrainDeadline
  <2>. QED  BY <2>1, TakenShrinks DEF Taken
<1>13. CASE DrainEnds
  BY <1>13, TakenShrinks DEF DrainEnds, Taken
<1>14. CASE Restart
  <2>1. Taken' \subseteq Taken
    BY <1>14 DEF Restart, Taken
  <2>. QED  BY <2>1, TakenShrinks
<1>. QED
  BY <1>1, <1>2, <1>3, <1>4, <1>5, <1>6, <1>7, <1>8, <1>9, <1>10, <1>11,
     <1>12, <1>13, <1>14
  DEF DispatcherNext

(* A session is left 'started' only with a call, an owed write or a loss    *)
(* that is recorded.                                                        *)
LEMMA AccountedStep ==
  ASSUME DispatcherTypeOK, SlotsAgree, StartedIsAccounted, StartsAreAccounted,
         [DispatcherNext]_dvars
  PROVE  (StartedIsAccounted /\ StartsAreAccounted)'
<1> USE DEF StartedIsAccounted, StartsAreAccounted, DispatcherTypeOK
<1>1. CASE UNCHANGED dvars
  BY <1>1 DEF dvars
<1>2. ASSUME NEW r \in Rooms,
             Ring(r) \/ Join(r) \/ JoinAgain(r) \/ Place(r) \/ Refuse(r)
               \/ DialReturns(r) \/ DialRaises(r) \/ CancelReturns(r)
               \/ Hangs(r) \/ StopReturns(r)
      PROVE  (StartedIsAccounted /\ StartsAreAccounted)'
  BY <1>2 DEF Ring, Join, JoinAgain, Place, Refuse, DialReturns, DialRaises,
     CancelReturns, Hangs, StopReturns
<1>3. ASSUME NEW r \in Rooms,
             BeginCreates(r) \/ BeginExists(r) \/ BeginRaises(r)
      PROVE  (StartedIsAccounted /\ StartsAreAccounted)'
  BY <1>3 DEF SlotsAgree, BeginCreates, BeginExists, BeginRaises, Unstarted
<1>4. ASSUME NEW r \in Rooms,
             LaunchReturns(r)
      PROVE  (StartedIsAccounted /\ StartsAreAccounted)'
  BY <1>4 DEF SlotsAgree, LaunchReturns
<1>5. ASSUME NEW r \in Rooms,
             LaunchRaises(r)
      PROVE  (StartedIsAccounted /\ StartsAreAccounted)'
  <2>1. Remember(r, "failed") /\ "failed" \in Statuses
    BY <1>5 DEF LaunchRaises, Statuses
  <2>2. \A q \in Rooms : session'[q] = "started" => session[q] = "started"
    BY <1>5 DEF LaunchRaises, Statuses
  <2>. QED  BY <1>5, <2>1, <2>2, RememberFacts DEF LaunchRaises
<1>6. ASSUME NEW r \in Rooms,
             SettleStart(r)
      PROVE  (StartedIsAccounted /\ StartsAreAccounted)'
  BY <1>6, PersistFacts DEF SettleStart, Unstarted, Statuses
<1>7. ASSUME NEW r \in Rooms,
             Records(r)
      PROVE  (StartedIsAccounted /\ StartsAreAccounted)'
  BY <1>7, PersistFacts DEF Records, Statuses
<1>8. ASSUME NEW r \in Rooms,
             BotExits(r) \/ BotStops(r) \/ Sweep(r)
      PROVE  (StartedIsAccounted /\ StartsAreAccounted)'
  BY <1>8 DEF BotExits, BotStops, Sweep, Statuses
<1>9. ASSUME NEW r \in Rooms,
             Completes(r)
      PROVE  (StartedIsAccounted /\ StartsAreAccounted)'
  <2>1. CASE slot[r] = "active"
    <3>1. Remember(r, bot[r]) /\ bot[r] \in Statuses
      BY <1>9, <2>1 DEF Completes
    <3>. QED  BY <1>9, <2>1, <3>1, RememberFacts DEF Completes
  <2>2. CASE slot[r] # "active"
    BY <1>9, <2>2 DEF Completes
  <2>. QED  BY <2>1, <2>2
<1>10. ASSUME NEW r \in Rooms,
             UndoDial(r)
      PROVE  (StartedIsAccounted /\ StartsAreAccounted)'
  <2>1. Finalize(r, "failed") /\ "failed" \in Statuses
    BY <1>10 DEF UndoDial, Statuses
  <2>2. CASE slot[r] = "active"
    <3>1. Release(r, "failed", "cancel") /\ UNCHANGED session
      BY <2>1, <2>2, FinalizeFacts
    <3>. QED  BY <1>10, <2>1, <2>2, <3>1, ReleaseFacts DEF UndoDial, Statuses
  <2>3. CASE slot[r] # "active"
    <3>1. Persist(r) /\ UNCHANGED <<slot, abandoned, bot, closing>>
      BY <2>1, <2>3, FinalizeFacts
    <3>. QED  BY <1>10, <2>3, <3>1, PersistFacts DEF UndoDial, Statuses
  <2>. QED  BY <2>2, <2>3
<1>11. ASSUME NEW r \in Rooms,
             RoomFinished(r)
      PROVE  (StartedIsAccounted /\ StartsAreAccounted)'
  <2>1. Finalize(r, "ended") /\ "ended" \in Statuses
    BY <1>11 DEF RoomFinished, Statuses
  <2>2. CASE slot[r] = "active"
    <3>1. Release(r, "ended", "cancel") /\ UNCHANGED session
      BY <2>1, <2>2, FinalizeFacts
    <3>. QED  BY <1>11, <2>1, <2>2, <3>1, ReleaseFacts DEF RoomFinished, Statuses
  <2>3. CASE slot[r] # "active"
    <3>1. Persist(r) /\ UNCHANGED <<slot, abandoned, bot, closing>>
      BY <2>1, <2>3, FinalizeFacts
    <3>. QED  BY <1>11, <2>3, <3>1, PersistFacts DEF RoomFinished, Statuses
  <2>. QED  BY <2>2, <2>3
<1>12. ASSUME NEW r \in Rooms,
             OperatorHangsUp(r)
      PROVE  (StartedIsAccounted /\ StartsAreAccounted)'
  <2>1. Finalize(r, "ended") /\ "ended" \in Statuses
    BY <1>12 DEF OperatorHangsUp, Statuses
  <2>2. CASE slot[r] = "active"
    <3>1. Release(r, "ended", "cancel") /\ UNCHANGED session
      BY <2>1, <2>2, FinalizeFacts
    <3>. QED  BY <1>12, <2>1, <2>2, <3>1, ReleaseFacts DEF OperatorHangsUp, Statuses
  <2>3. CASE slot[r] # "active"
    <3>1. Persist(r) /\ UNCHANGED <<slot, abandoned, bot, closing>>
      BY <2>1, <2>3, FinalizeFacts
    <3>. QED  BY <1>12, <2>3, <3>1, PersistFacts DEF OperatorHangsUp, Statuses
  <2>. QED  BY <2>2, <2>3
<1>13. ASSUME NEW r \in Rooms,
             DrainRoom(r)
      PROVE  (StartedIsAccounted /\ StartsAreAccounted)'
  <2>1. Release(r, "ended", "stop") /\ "ended" \in Statuses
    BY <1>13 DEF DrainRoom, Statuses
  <2>. QED  BY <1>13, <2>1, ReleaseFacts DEF DrainRoom
<1>14. CASE DrainBegins \/ DrainStartsDone \/ DrainRoomsDone \/ DrainDeadline
  BY <1>14 DEF DrainBegins, DrainStartsDone, DrainRoomsDone, DrainDeadline
<1>15. CASE DrainEnds
  <2>1. PICK S \in SUBSET Owing :
          /\ owed' = [r \in Rooms |-> IF r \in S THEN "none" ELSE owed[r]]
          /\ session' = [r \in Rooms |-> IF r \in S THEN owed[r] ELSE session[r]]
    BY <1>15 DEF DrainEnds
  <2>2. \A r \in S : r \in Rooms /\ owed[r] \in Statuses
    BY <2>1 DEF Owing
  <2>. QED  BY <1>15, <2>1, <2>2 DEF DrainEnds, Statuses
<1>16. CASE Restart
  BY <1>16 DEF Restart
<1>. QED
  BY <1>1, <1>2, <1>3, <1>4, <1>5, <1>6, <1>7, <1>8, <1>9, <1>10, <1>11,
     <1>12, <1>13, <1>14, <1>15, <1>16
  DEF DispatcherNext

(* Whatever has got past begin() keeps its row.                             *)
LEMMA SessionStep ==
  ASSUME DispatcherTypeOK, SlotsAgree, SessionsExist,
         [DispatcherNext]_dvars
  PROVE  SessionsExist'
<1> USE DEF DispatcherTypeOK, SessionsExist
<1>1. CASE UNCHANGED dvars
  BY <1>1 DEF dvars
<1>2. ASSUME NEW r \in Rooms,
             Ring(r) \/ Join(r) \/ JoinAgain(r) \/ Place(r) \/ Refuse(r)
      PROVE  SessionsExist'
  BY <1>2 DEF SlotsAgree, Ring, Join, JoinAgain, Place, Refuse
<1>3. ASSUME NEW r \in Rooms,
             BeginCreates(r) \/ BeginExists(r) \/ BeginRaises(r)
      PROVE  SessionsExist'
  BY <1>3 DEF SlotsAgree, BeginCreates, BeginExists, BeginRaises, Unstarted
<1>4. ASSUME NEW r \in Rooms,
             LaunchReturns(r) \/ DialReturns(r) \/ DialRaises(r)
      PROVE  SessionsExist'
  BY <1>4 DEF LaunchReturns, DialReturns, DialRaises
<1>5. ASSUME NEW r \in Rooms, LaunchRaises(r) PROVE SessionsExist'
  <2>1. session[r] # "none" /\ \A q \in Rooms :
            session'[q] = session[q] \/ session'[q] \in Statuses
    BY <1>5 DEF LaunchRaises
  <2>2. \A q \in Rooms : owed'[q] # "none" => owed[q] # "none" \/ q = r
    BY <1>5 DEF LaunchRaises, Remember, Owing
  <2>. QED  BY <1>5, <2>1, <2>2 DEF LaunchRaises, Statuses
<1>6. ASSUME NEW r \in Rooms, SettleStart(r) PROVE SessionsExist'
  BY <1>6, PersistFacts DEF SettleStart, Unstarted, Statuses
<1>7. ASSUME NEW r \in Rooms, Records(r) PROVE SessionsExist'
  BY <1>7, PersistFacts DEF Records, Statuses
<1>8. ASSUME NEW r \in Rooms, BotExits(r) \/ BotStops(r) PROVE SessionsExist'
  BY <1>8 DEF BotExits, BotStops, Statuses
<1>9. ASSUME NEW r \in Rooms,
             CancelReturns(r) \/ Hangs(r) \/ Sweep(r) \/ StopReturns(r)
      PROVE  SessionsExist'
  BY <1>9 DEF CancelReturns, Hangs, Sweep, StopReturns
<1>10. ASSUME NEW r \in Rooms, Completes(r) PROVE SessionsExist'
  <2>1. \A q \in Rooms : owed'[q] # "none" => owed[q] # "none" \/ q = r
    BY <1>10 DEF Completes, Remember, Owing
  <2>. QED  BY <1>10, <2>1 DEF Completes, Statuses
<1>11. ASSUME NEW r \in Rooms, DrainRoom(r) PROVE SessionsExist'
  <2>1. \A q \in Rooms : owed'[q] # "none" => owed[q] # "none" \/ q = r
    BY <1>11 DEF DrainRoom, Release, Remember, Owing
  <2>. QED  BY <1>11, <2>1 DEF DrainRoom, Release
<1>12. ASSUME NEW r \in Rooms, UndoDial(r) PROVE SessionsExist'
  <2>1. Finalize(r, "failed")
    BY <1>12 DEF UndoDial
  <2>2. CASE slot[r] = "active"
    <3>1. Release(r, "failed", "cancel") /\ UNCHANGED session
      BY <2>1, <2>2 DEF Finalize
    <3>2. \A q \in Rooms : owed'[q] # "none" => owed[q] # "none" \/ q = r
      BY <3>1 DEF Release, Remember, Owing
    <3>. QED  BY <1>12, <2>2, <3>1, <3>2 DEF UndoDial, Release
  <2>3. CASE slot[r] # "active"
    <3>1. Persist(r) /\ UNCHANGED <<slot, abandoned, bot, closing>>
      BY <2>1, <2>3 DEF Finalize
    <3>. QED  BY <1>12, <3>1, PersistFacts DEF UndoDial, Statuses
  <2>. QED  BY <2>2, <2>3
<1>13. ASSUME NEW r \in Rooms, RoomFinished(r) PROVE SessionsExist'
  <2>1. Finalize(r, "ended")
    BY <1>13 DEF RoomFinished
  <2>2. CASE slot[r] = "active"
    <3>1. Release(r, "ended", "cancel") /\ UNCHANGED session
      BY <2>1, <2>2 DEF Finalize
    <3>2. \A q \in Rooms : owed'[q] # "none" => owed[q] # "none" \/ q = r
      BY <3>1 DEF Release, Remember, Owing
    <3>. QED  BY <1>13, <2>2, <3>1, <3>2 DEF RoomFinished, Release
  <2>3. CASE slot[r] # "active"
    <3>1. Persist(r) /\ UNCHANGED <<slot, abandoned, bot, closing>>
      BY <2>1, <2>3 DEF Finalize
    <3>. QED  BY <1>13, <3>1, PersistFacts DEF RoomFinished, Statuses
  <2>. QED  BY <2>2, <2>3
<1>14. ASSUME NEW r \in Rooms, OperatorHangsUp(r) PROVE SessionsExist'
  <2>1. Finalize(r, "ended")
    BY <1>14 DEF OperatorHangsUp
  <2>2. CASE slot[r] = "active"
    <3>1. Release(r, "ended", "cancel") /\ UNCHANGED session
      BY <2>1, <2>2 DEF Finalize
    <3>2. \A q \in Rooms : owed'[q] # "none" => owed[q] # "none" \/ q = r
      BY <3>1 DEF Release, Remember, Owing
    <3>. QED  BY <1>14, <2>2, <3>1, <3>2 DEF OperatorHangsUp, Release
  <2>3. CASE slot[r] # "active"
    <3>1. Persist(r) /\ UNCHANGED <<slot, abandoned, bot, closing>>
      BY <2>1, <2>3 DEF Finalize
    <3>. QED  BY <1>14, <3>1, PersistFacts DEF OperatorHangsUp, Statuses
  <2>. QED  BY <2>2, <2>3
<1>15. CASE DrainBegins \/ DrainStartsDone \/ DrainRoomsDone \/ DrainDeadline
  BY <1>15 DEF DrainBegins, DrainStartsDone, DrainRoomsDone, DrainDeadline
<1>16. CASE DrainEnds
  <2>1. \A r \in Rooms : /\ session[r] # "none" => session'[r] # "none"
                         /\ owed'[r] # "none" => owed[r] # "none"
    BY <1>16 DEF DrainEnds, Owing
  <2>. QED  BY <1>16, <2>1 DEF DrainEnds
<1>17. CASE Restart
  BY <1>17 DEF Restart
<1>. QED
  BY <1>1, <1>2, <1>3, <1>4, <1>5, <1>6, <1>7, <1>8, <1>9, <1>10, <1>11,
     <1>12, <1>13, <1>14, <1>15, <1>16, <1>17
  DEF DispatcherNext

(* A caller's leg stays up only in a room that is being started, has an     *)
(* agent, or has a task that is still to hang it up.                        *)
LEMMA AttendedStep ==
  ASSUME DispatcherTypeOK, SlotsAgree, SessionsExist, CallerIsAttended,
         [DispatcherNext]_dvars
  PROVE  CallerIsAttended'
<1> USE DEF DispatcherTypeOK, SessionsExist, CallerIsAttended
<1>1. CASE UNCHANGED dvars
  BY <1>1 DEF dvars
<1>2. ASSUME NEW r \in Rooms,
             Ring(r) \/ Join(r) \/ Place(r)
      PROVE  CallerIsAttended'
  BY <1>2, DispatcherAssumption DEF Ring, Join, Place
<1>3. ASSUME NEW r \in Rooms, JoinAgain(r) PROVE CallerIsAttended'
  BY <1>3, HangUpFacts, DispatcherAssumption DEF JoinAgain
<1>4. ASSUME NEW r \in Rooms,
             BeginCreates(r) \/ BeginExists(r) \/ BeginRaises(r)
      PROVE  CallerIsAttended'
  BY <1>4, DispatcherAssumption DEF SlotsAgree, BeginCreates, BeginExists,
     BeginRaises, Unstarted
<1>5. ASSUME NEW r \in Rooms, LaunchReturns(r) PROVE CallerIsAttended'
  BY <1>5, DispatcherAssumption DEF LaunchReturns
<1>6. ASSUME NEW r \in Rooms, LaunchRaises(r) PROVE CallerIsAttended'
  <2>1. Remember(r, "failed") /\ "failed" \in Statuses
    BY <1>6 DEF LaunchRaises, Statuses
  <2>2. \A q \in Rooms : session'[q] = session[q] \/ q = r
    BY <1>6 DEF LaunchRaises
  <2>. QED  BY <1>6, <2>1, <2>2, RememberFacts, DispatcherAssumption DEF LaunchRaises
<1>7. ASSUME NEW r \in Rooms, SettleStart(r) PROVE CallerIsAttended'
  <2>1. start'[r] # "idle" \/ r \notin Inbound
    BY <1>7 DEF SettleStart, Unstarted
  <2>2. \A q \in Rooms : q # r => session'[q] = session[q]
    BY <1>7 DEF SettleStart, Persist
  <2>. QED  BY <1>7, <2>1, <2>2, DispatcherAssumption DEF SettleStart, Unstarted
<1>8. ASSUME NEW r \in Rooms, Refuse(r) PROVE CallerIsAttended'
  BY <1>8, HangUpFacts, DispatcherAssumption DEF Refuse
<1>9. ASSUME NEW r \in Rooms,
             DialReturns(r) \/ DialRaises(r)
      PROVE  CallerIsAttended'
  <2>1. \A q \in Inbound : q # r
    BY <1>9, DispatcherAssumption DEF DialReturns, DialRaises, SlotsAgree
  <2>. QED  BY <1>9, <2>1, DispatcherAssumption DEF DialReturns, DialRaises
<1>10. ASSUME NEW r \in Rooms,
             BotExits(r) \/ BotStops(r)
      PROVE  CallerIsAttended'
  BY <1>10, DispatcherAssumption DEF BotExits, BotStops
<1>11. ASSUME NEW r \in Rooms, Completes(r) PROVE CallerIsAttended'
  <2>1. CASE slot[r] = "active"
    <3>1. Remember(r, bot[r]) /\ bot[r] \in Statuses
      BY <1>11, <2>1 DEF Completes
    <3>. QED  BY <1>11, <2>1, <3>1, RememberFacts, DispatcherAssumption DEF Completes
  <2>2. CASE slot[r] # "active"
    BY <1>11, <2>2 DEF Completes
  <2>. QED  BY <2>1, <2>2
<1>12. ASSUME NEW r \in Rooms,
             CancelReturns(r) \/ Sweep(r) \/ StopReturns(r)
      PROVE  CallerIsAttended'
  BY <1>12, DispatcherAssumption DEF CancelReturns, Sweep, StopReturns
<1>13. ASSUME NEW r \in Rooms, Hangs(r) PROVE CallerIsAttended'
  BY <1>13, HangUpFacts, DispatcherAssumption DEF Hangs
<1>14. ASSUME NEW r \in Rooms, Records(r) PROVE CallerIsAttended'
  BY <1>14, PersistFacts, DispatcherAssumption DEF Records
<1>15. ASSUME NEW r \in Rooms, UndoDial(r) PROVE CallerIsAttended'
  <2>1. Finalize(r, "failed") /\ "failed" \in Statuses
    BY <1>15 DEF UndoDial, Statuses
  <2>2. CASE slot[r] = "active"
    <3>1. Release(r, "failed", "cancel") /\ UNCHANGED session
      BY <2>1, <2>2, FinalizeFacts
    <3>. QED  BY <1>15, <2>1, <2>2, <3>1, ReleaseFacts,
              HangUpFacts, DispatcherAssumption DEF UndoDial
  <2>3. CASE slot[r] # "active"
    <3>1. Persist(r) /\ UNCHANGED <<slot, abandoned, bot, closing>>
      BY <2>1, <2>3, FinalizeFacts
    <3>. QED  BY <1>15, <2>3, <3>1, HangUpFacts, PersistFacts,
              DispatcherAssumption DEF UndoDial
  <2>. QED  BY <2>2, <2>3
<1>16. ASSUME NEW r \in Rooms, RoomFinished(r) PROVE CallerIsAttended'
  <2>1. Finalize(r, "ended") /\ "ended" \in Statuses
    BY <1>16 DEF RoomFinished, Statuses
  <2>2. CASE slot[r] = "active"
    <3>1. Release(r, "ended", "cancel") /\ UNCHANGED session
      BY <2>1, <2>2, FinalizeFacts
    <3>. QED  BY <1>16, <2>1, <2>2, <3>1, ReleaseFacts,
              HangUpFacts, DispatcherAssumption DEF RoomFinished
  <2>3. CASE slot[r] # "active"
    <3>1. Persist(r) /\ UNCHANGED <<slot, abandoned, bot, closing>>
      BY <2>1, <2>3, FinalizeFacts
    <3>. QED  BY <1>16, <2>3, <3>1, HangUpFacts, PersistFacts,
              DispatcherAssumption DEF RoomFinished
  <2>. QED  BY <2>2, <2>3
<1>17. ASSUME NEW r \in Rooms, OperatorHangsUp(r) PROVE CallerIsAttended'
  <2>1. Finalize(r, "ended") /\ "ended" \in Statuses
    BY <1>17 DEF OperatorHangsUp, Statuses
  <2>2. CASE slot[r] = "active"
    <3>1. Release(r, "ended", "cancel") /\ UNCHANGED session
      BY <2>1, <2>2, FinalizeFacts
    <3>. QED  BY <1>17, <2>1, <2>2, <3>1, ReleaseFacts,
              HangUpFacts, DispatcherAssumption DEF OperatorHangsUp
  <2>3. CASE slot[r] # "active"
    <3>1. Persist(r) /\ UNCHANGED <<slot, abandoned, bot, closing>>
      BY <2>1, <2>3, FinalizeFacts
    <3>. QED  BY <1>17, <2>3, <3>1, HangUpFacts, PersistFacts,
              DispatcherAssumption DEF OperatorHangsUp
  <2>. QED  BY <2>2, <2>3
<1>18. ASSUME NEW r \in Rooms, DrainRoom(r) PROVE CallerIsAttended'
  <2>1. Release(r, "ended", "stop") /\ "ended" \in Statuses
    BY <1>18 DEF DrainRoom, Statuses
  <2>. QED  BY <1>18, <2>1, ReleaseFacts, DispatcherAssumption DEF DrainRoom
<1>19. CASE DrainBegins \/ DrainStartsDone \/ DrainRoomsDone \/ DrainDeadline
  BY <1>19 DEF DrainBegins, DrainStartsDone, DrainRoomsDone, DrainDeadline
<1>20. CASE DrainEnds
  <2>1. \A r \in Rooms : session'[r] # "none" => session[r] # "none"
    BY <1>20 DEF DrainEnds, Owing
  <2>. QED  BY <1>20, <2>1, DispatcherAssumption DEF DrainEnds
<1>21. CASE Restart
  BY <1>21, DispatcherAssumption DEF Restart, SlotsAgree, Statuses
<1>. QED
  BY <1>1, <1>2, <1>3, <1>4, <1>5, <1>6, <1>7, <1>8, <1>9, <1>10, <1>11,
     <1>12, <1>13, <1>14, <1>15, <1>16, <1>17, <1>18, <1>19, <1>20,
     <1>21
  DEF DispatcherNext

(* From phase to phase a drain leaves fewer slots, and success nothing.     *)
LEMMA DrainStep ==
  ASSUME DispatcherTypeOK, SlotsAgree, DrainEmpties,
         [DispatcherNext]_dvars
  PROVE  DrainEmpties'
<1> USE DEF DispatcherTypeOK, SlotsAgree, DrainEmpties, Statuses
<1>1. CASE UNCHANGED dvars
  BY <1>1 DEF dvars
<1>2. ASSUME NEW r \in Rooms,
             Ring(r) \/ JoinAgain(r) \/ DialReturns(r) \/ DialRaises(r)
               \/ CancelReturns(r) \/ Hangs(r) \/ BotExits(r)
               \/ BotStops(r) \/ Sweep(r) \/ StopReturns(r) \/ Refuse(r)
               \/ Join(r) \/ Place(r) \/ BeginCreates(r)
      PROVE  DrainEmpties'
  BY <1>2 DEF Ring, JoinAgain, DialReturns, DialRaises, CancelReturns, Hangs,
     BotExits, BotStops, Sweep, StopReturns, Refuse, Join, Place,
     BeginCreates, CanAdmit
<1>3. ASSUME NEW r \in Rooms,
             BeginExists(r) \/ BeginRaises(r)
      PROVE  DrainEmpties'
  BY <1>3 DEF BeginExists, BeginRaises, Unstarted
<1>4. ASSUME NEW r \in Rooms,
             LaunchReturns(r) \/ LaunchRaises(r)
      PROVE  DrainEmpties'
  BY <1>4 DEF LaunchReturns, LaunchRaises
<1>5. ASSUME NEW r \in Rooms, SettleStart(r) PROVE DrainEmpties'
  BY <1>5, PersistFacts DEF SettleStart, Unstarted
<1>6. ASSUME NEW r \in Rooms, Records(r) PROVE DrainEmpties'
  BY <1>6, PersistFacts DEF Records
<1>7. ASSUME NEW r \in Rooms, Completes(r) PROVE DrainEmpties'
  BY <1>7 DEF Completes
<1>8. ASSUME NEW r \in Rooms, UndoDial(r) PROVE DrainEmpties'
  <2>1. Finalize(r, "failed") /\ UNCHANGED drain
    BY <1>8 DEF UndoDial
  <2>2. CASE slot[r] = "active"
    BY <2>1, <2>2 DEF Finalize, Release
  <2>3. CASE slot[r] # "active"
    <3>1. Persist(r) /\ UNCHANGED slot
      BY <2>1, <2>3 DEF Finalize
    <3>. QED  BY <2>1, <3>1, PersistFacts
  <2>. QED  BY <2>2, <2>3
<1>9. ASSUME NEW r \in Rooms, RoomFinished(r) PROVE DrainEmpties'
  <2>1. Finalize(r, "ended") /\ UNCHANGED drain
    BY <1>9 DEF RoomFinished
  <2>2. CASE slot[r] = "active"
    BY <2>1, <2>2 DEF Finalize, Release
  <2>3. CASE slot[r] # "active"
    <3>1. Persist(r) /\ UNCHANGED slot
      BY <2>1, <2>3 DEF Finalize
    <3>. QED  BY <2>1, <3>1, PersistFacts
  <2>. QED  BY <2>2, <2>3
<1>10. ASSUME NEW r \in Rooms, OperatorHangsUp(r) PROVE DrainEmpties'
  <2>1. Finalize(r, "ended") /\ UNCHANGED drain
    BY <1>10 DEF OperatorHangsUp
  <2>2. CASE slot[r] = "active"
    BY <2>1, <2>2 DEF Finalize, Release
  <2>3. CASE slot[r] # "active"
    <3>1. Persist(r) /\ UNCHANGED slot
      BY <2>1, <2>3 DEF Finalize
    <3>. QED  BY <2>1, <3>1, PersistFacts
  <2>. QED  BY <2>2, <2>3
<1>11. ASSUME NEW r \in Rooms, DrainRoom(r) PROVE DrainEmpties'
  BY <1>11 DEF DrainRoom, Release
<1>12. CASE DrainBegins \/ DrainDeadline \/ Restart
  BY <1>12 DEF DrainBegins, DrainDeadline, Restart
<1>13. CASE DrainStartsDone
  BY <1>13 DEF DrainStartsDone, DrainWaitsForStarts
<1>14. CASE DrainRoomsDone
  BY <1>14 DEF DrainRoomsDone
<1>15. CASE DrainEnds
  BY <1>15 DEF DrainEnds
<1>. QED
  BY <1>1, <1>2, <1>3, <1>4, <1>5, <1>6, <1>7, <1>8, <1>9, <1>10, <1>11,
     <1>12, <1>13, <1>14, <1>15
  DEF DispatcherNext

-----------------------------------------------------------------------------
(* The first state, and the induction.                                      *)

(* A process that has just started satisfies every part.                    *)
LEMMA DInvInit == DispatcherInit => DInv
<1> SUFFICES ASSUME DispatcherInit PROVE DInv
  OBVIOUS
<1>1. Owing = {} /\ Taken = {}
  BY DEF DispatcherInit, Owing, Taken
<1>2. Cardinality({}) = 0
  BY FS_EmptySet
<1>3. DispatcherTypeOK
  <2>1. Cardinality(Owing) <= MaxUnfinalized
    BY <1>1, <1>2, DispatcherAssumption
  <2>. QED  BY <2>1 DEF DispatcherInit, DispatcherTypeOK
<1>4. SlotsAgree /\ SessionsExist
  BY DEF DispatcherInit, SlotsAgree, SessionsExist, Statuses
<1>5. SlotsWithinCapacity
  <2>1. \A t : {r \in Taken : TenantOf[r] = t} = {}
    BY <1>1
  <2>. QED  BY <1>1, <1>2, <2>1, DispatcherAssumption DEF SlotsWithinCapacity
<1>6. StartedIsAccounted /\ StartsAreAccounted /\ CallerIsAttended /\ DrainEmpties
  BY DispatcherAssumption
  DEF DispatcherInit, StartedIsAccounted, StartsAreAccounted, CallerIsAttended,
      DrainEmpties
<1>. QED  BY <1>3, <1>4, <1>5, <1>6 DEF DInv

(* Every part holds in every reachable state.                               *)
THEOREM DInvHolds == DispatcherSpec => []DInv
<1>1. DInv /\ [DispatcherNext]_dvars => DInv'
  BY DTypeStep, AgreeStep, SessionStep, CapacityStep, AccountedStep,
     AttendedStep, DrainStep DEF DInv
<1>. QED  BY DInvInit, <1>1, PTL DEF DispatcherSpec

(* The dispatcher's state keeps its types, and _unfinalized its limit.      *)
THEOREM DispatcherTypes == DispatcherSpec => []DispatcherTypeOK
<1>1. DInv => DispatcherTypeOK
  BY DEF DInv
<1>. QED  BY DInvHolds, <1>1, PTL

(* Agents being launched or at work never exceed max_active_calls, nor a    *)
(* tenant's share of it.                                                    *)
THEOREM AgentsStayWithinCapacity == DispatcherSpec => []AgentsWithinCapacity
<1>1. DInv => AgentsWithinCapacity
  <2> SUFFICES ASSUME DInv PROVE AgentsWithinCapacity
    OBVIOUS
  <2>1. Working \subseteq Taken
    BY DEF DInv, SlotsAgree, Working, Taken
  <2>2. IsFiniteSet(Taken)
    BY FS_Subset, DispatcherAssumption DEF Taken
  <2>3. Cardinality(Working) <= MaxActive
    BY <2>1, <2>2, PartFits, DispatcherAssumption DEF DInv, SlotsWithinCapacity
  <2>4. ASSUME NEW t \in Tenants
        PROVE  Cardinality({r \in Working : TenantOf[r] = t}) <= MaxPerTenant
    <3>1. IsFiniteSet({r \in Taken : TenantOf[r] = t})
      BY <2>2, FS_Subset
    <3>2. {r \in Working : TenantOf[r] = t} \subseteq {r \in Taken : TenantOf[r] = t}
      BY <2>1
    <3>3. Cardinality({r \in Taken : TenantOf[r] = t}) <= MaxPerTenant
      BY DEF DInv, SlotsWithinCapacity
    <3>. QED  BY <3>1, <3>2, <3>3, PartFits, DispatcherAssumption
  <2>. QED  BY <2>3, <2>4 DEF AgentsWithinCapacity
<1>. QED  BY DInvHolds, <1>1, PTL

(* No session stays 'started' without a call, an owed write, or a loss that *)
(* leaves it to the sweeper.                                                *)
THEOREM StartedSessionsAccounted == DispatcherSpec => []StartedIsAccounted
<1>1. DInv => StartedIsAccounted
  BY DEF DInv
<1>. QED  BY DInvHolds, <1>1, PTL

(* No caller whose call was recorded is left in a room nobody tends.        *)
THEOREM CallersAttended == DispatcherSpec => []CallerIsAttended
<1>1. DInv => CallerIsAttended
  BY DEF DInv
<1>. QED  BY DInvHolds, <1>1, PTL

(* A drain that reports success leaves no call, agent or owed write.        *)
THEOREM DrainIsQuiet == DispatcherSpec => []DrainedMeansQuiet
<1>1. DInv => DrainedMeansQuiet
  BY DEF DInv, DispatcherTypeOK, DrainEmpties, SlotsAgree, DrainedMeansQuiet, Working
<1>. QED  BY DInvHolds, <1>1, PTL
=============================================================================
