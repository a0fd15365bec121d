------------------------ MODULE FairAdmissionProofs ------------------------
(****************************************************************************)
(* For any jobs, tenants, processes and limits: the caps of fair admission, *)
(* its bounded overtaking, and the shutdown that waits for the replies.     *)
(****************************************************************************)
EXTENDS FairAdmission, FiniteSetTheorems, TLAPS

-----------------------------------------------------------------------------
(* The parts of the inductive invariant.                                    *)

\* The caps count the live claims, each of which has at most one call.
LiveWithinCaps ==
  /\ Cardinality(Live) <= Cap
  /\ \A t \in Tenants : Cardinality(Live \cap Of(t)) <= TenantCap
  /\ \A j, k \in Live : ConvOf[j] = ConvOf[k] => j = k

\* The map has every call but those of a job that had two.
MapAgrees ==
  \A p \in Processes :
    /\ IsFiniteSet(held[p]) /\ Cardinality(held[p]) <= ProcessCap
    /\ held[p] \subseteq calls[p]
    /\ \A c \in calls[p] : c \in held[p] \/ c[1] \in doubled[p]
    /\ \A c, d \in calls[p] : c[1] = d[1] => c = d \/ c[1] \in doubled[p]

\* What a shutdown took from the map is all that still runs.
ShutdownWaits ==
  \A p \in Processes : phase[p] = "draining" =>
    \A c \in calls[p] : c \in awaited[p] \/ c[1] \in doubled[p]

\* Who has passed over a tenant comes after it.
TurnsAreTaken ==
  /\ \A t \in Tenants : last[t] <= clock
  /\ \A t, u \in Tenants : ahead[t][u] = 1 => last[t] < last[u]

FInv ==
  /\ FairTypeOK
  /\ LiveWithinCaps
  /\ MapAgrees
  /\ ShutdownWaits
  /\ RepliesAreAwaited
  /\ TurnsAreTaken
  /\ BoundedOvertaking

-----------------------------------------------------------------------------
(* Cardinalities.                                                           *)

(* A part of a set within a limit is within it.                             *)
LEMMA PartFits ==
  ASSUME NEW S, IsFiniteSet(S), NEW T \in SUBSET S, NEW n \in Nat, Cardinality(S) <= n
  PROVE  IsFiniteSet(T) /\ Cardinality(T) <= n
<1>1. IsFiniteSet(T) /\ Cardinality(T) <= Cardinality(S)
  BY FS_Subset
<1>2. Cardinality(S) \in Nat /\ Cardinality(T) \in Nat
  BY <1>1, FS_CardinalityType
<1>. QED  BY <1>1, <1>2

(* One more fits where there is room.                                       *)
LEMMA OneMoreFits ==
  ASSUME NEW S, IsFiniteSet(S), NEW x, NEW n \in Nat, Cardinality(S) < n
  PROVE  IsFiniteSet(S \cup {x}) /\ Cardinality(S \cup {x}) <= n
<1>1. Cardinality(S) \in Nat
  BY FS_CardinalityType
<1>2. /\ IsFiniteSet(S \cup {x})
      /\ Cardinality(S \cup {x}) = IF x \in S THEN Cardinality(S) ELSE Cardinality(S) + 1
  BY FS_AddElement
<1>. QED  BY <1>1, <1>2

(* Calls of different jobs are no more than the jobs.                       *)
LEMMA CallsPerJob ==
  ASSUME NEW S \in SUBSET Jobs, NEW C \in SUBSET Calls, NEW n \in Nat,
         Cardinality(S) <= n,
         \A c \in C : c[1] \in S,
         \A c, d \in C : c[1] = d[1] => c = d
  PROVE  Cardinality(C) <= n
<1> DEFINE f == [c \in C |-> c[1]]
<1>1. f \in Injection(C, S)
  BY DEF Injection, IsInjective
<1>2. IsFiniteSet(S)
  BY FS_Subset, FairAssumption
<1>3. IsFiniteSet(C) /\ Cardinality(C) <= Cardinality(S)
  <2> HIDE DEF f
  <2>. QED  BY <1>1, <1>2, FS_Injection
<1>4. Cardinality(S) \in Nat /\ Cardinality(C) \in Nat
  BY <1>2, <1>3, FS_CardinalityType
<1>. QED  BY <1>3, <1>4

-----------------------------------------------------------------------------
(* What a claim that admits does.                                           *)

(* The admitted job is the only new live one, and no other job's attempts   *)
(* or live claims change.                                                   *)
LEMMA AdmitFacts ==
  ASSUME FairTypeOK, NEW p \in Processes, NEW j \in Jobs, NEW locked \in SUBSET Jobs,
         Admit(p, j, locked)
  PROVE  /\ Live' = Live \cup {j}
         /\ Cardinality(Live) < Cap
         /\ Cardinality(Live \cap Of(TenantOf[j])) < TenantCap
         /\ \A k \in Live : ConvOf[k] # ConvOf[j]
         /\ attempts[j] < MaxAttempts[j]
         /\ TenantOf[j] \in Tenants
         /\ status' \in [Jobs -> {"asleep", "ready", "running", "lapsed", "over"}]
<1>1. j \in Candidates /\ HasRoom(p)
  BY DEF Admit
<1>2. j \notin Discarded(locked)
  BY <1>1 DEF Candidates, Discarded
<1>3. status' = [Discarding(locked) EXCEPT ![j] = "running"]
  BY DEF Admit
<1>4. status'[j] = "running"
  BY <1>3 DEF Discarding
<1>5. ASSUME NEW k \in Jobs, k # j
      PROVE  status'[k] = IF k \in Discarded(locked) THEN "over" ELSE status[k]
  BY <1>3, <1>5 DEF Discarding
<1>6. Live' = Live \cup {j}
  BY <1>4, <1>5 DEF Live, Discarded
<1>7. status' \in [Jobs -> {"asleep", "ready", "running", "lapsed", "over"}]
  <2>1. \A k \in Jobs : status'[k] \in {"asleep", "ready", "running", "lapsed", "over"}
    BY <1>4, <1>5 DEF FairTypeOK
  <2>. QED  BY <1>3, <2>1 DEF Discarding
<1>. QED  BY <1>1, <1>6, <1>7, FairAssumption DEF Candidates, HasRoom

(* Every other step leaves no new live job.                                 *)
LEMMA LiveShrinks ==
  ASSUME FairTypeOK, [FairNext]_fvars,
         ~ \E p \in Processes, j \in Jobs, locked \in SUBSET Jobs : Admit(p, j, locked)
  PROVE  Live' \subseteq Live
<1> USE DEF FairTypeOK, Live
<1>1. CASE UNCHANGED fvars
  BY <1>1 DEF fvars
<1>2. ASSUME NEW j \in Jobs, Wake(j) \/ Lapse(j) \/ Sweep(j) PROVE Live' \subseteq Live
  BY <1>2 DEF Wake, Lapse, Sweep
<1>3. ASSUME NEW p \in Processes, NEW locked, AdmitNobody(p, locked)
      PROVE  Live' \subseteq Live
  BY <1>3 DEF AdmitNobody, Discarding
<1>4. ASSUME NEW p \in Processes, NEW c \in calls[p], End(p, c)
      PROVE  Live' \subseteq Live
  <2>1. CASE UNCHANGED status
    BY <2>1
  <2>2. CASE /\ status[c[1]] = "running"
             /\ \E s \in Outcomes(c[1]) : status' = [status EXCEPT ![c[1]] = s]
    BY <2>2
  <2>. QED  BY <1>4, <2>1, <2>2 DEF End
<1>5. ASSUME NEW p \in Processes, Stop(p) \/ Drained(p) \/ Exit(p)
      PROVE  Live' \subseteq Live
  BY <1>5 DEF Stop, Drained, Exit
<1>. QED  BY <1>1, <1>2, <1>3, <1>4, <1>5 DEF FairNext, Due

-----------------------------------------------------------------------------
(* One lemma for each part of the invariant.                                *)

(* A step keeps the types.                                                  *)
LEMMA FairTypeStep ==
  ASSUME FInv, [FairNext]_fvars PROVE FairTypeOK'
<1> USE FairAssumption DEF FInv, FairTypeOK
<1>1. CASE UNCHANGED fvars
  BY <1>1 DEF fvars
<1>2. ASSUME NEW j \in Jobs, Wake(j) \/ Lapse(j) \/ Sweep(j) PROVE FairTypeOK'
  BY <1>2 DEF Wake, Lapse, Sweep
<1>3. ASSUME NEW p \in Processes, NEW j \in Jobs, NEW locked \in SUBSET Jobs,
             Admit(p, j, locked)
      PROVE  FairTypeOK'
  <2> DEFINE t == TenantOf[j]
  <2>1. /\ attempts[j] < MaxAttempts[j] /\ t \in Tenants
        /\ status' \in [Jobs -> {"asleep", "ready", "running", "lapsed", "over"}]
    BY <1>3, AdmitFacts
  <2>2. attempts' = [attempts EXCEPT ![j] = @ + 1]
    BY <1>3 DEF Admit
  <2>3. attempts' \in [Jobs -> Nat] /\ \A k \in Jobs : attempts'[k] <= MaxAttempts[k]
    BY <2>1, <2>2
  <2>4. clock' \in Nat /\ last' \in [Tenants -> Nat]
    BY <1>3, <2>1 DEF Admit
  <2>5. ahead' \in [Tenants -> [Tenants -> Nat]]
    <3>1. ASSUME NEW u \in Tenants PROVE ahead'[u] \in [Tenants -> Nat]
      BY <1>3, <2>1 DEF Admit, NoCount
    <3>2. ahead' = [u \in Tenants |-> ahead'[u]]
      BY <1>3 DEF Admit
    <3>. QED  BY <3>1, <3>2
  <2>6. <<j, attempts[j] + 1>> \in Calls
    BY DEF Calls
  <2>7. /\ calls' \in [Processes -> SUBSET Calls] /\ held' \in [Processes -> SUBSET Calls]
        /\ doubled' \in [Processes -> SUBSET Jobs]
    <3>1. CASE UNCHANGED <<calls, held, doubled>>
      BY <3>1
    <3>2. CASE ~UNCHANGED <<calls, held, doubled>>
      <4>1. /\ calls' = [calls EXCEPT ![p] = @ \cup {<<j, attempts[j] + 1>>}]
            /\ held' = [held EXCEPT ![p] =
                          {d \in @ : d[1] # j} \cup {<<j, attempts[j] + 1>>}]
            /\ doubled' = [doubled EXCEPT ![p] =
                             IF \E d \in calls[p] : d[1] = j THEN @ \cup {j} ELSE @]
        BY <1>3, <3>2 DEF Admit
      <4>. QED  BY <2>6, <4>1
    <3>. QED  BY <3>1, <3>2
  <2>8. awaited' \in [Processes -> SUBSET Calls]
        /\ phase' \in [Processes -> {"open", "draining", "closed"}]
    BY <1>3 DEF Admit
  <2>. QED  BY <2>1, <2>3, <2>4, <2>5, <2>7, <2>8
<1>4. ASSUME NEW p \in Processes, NEW locked \in SUBSET Jobs, AdmitNobody(p, locked)
      PROVE  FairTypeOK'
  BY <1>4 DEF AdmitNobody, Discarding
<1>5. ASSUME NEW p \in Processes, NEW c \in calls[p], End(p, c) PROVE FairTypeOK'
  <2>1. c[1] \in Jobs
    BY DEF Calls
  <2>2. status' \in [Jobs -> {"asleep", "ready", "running", "lapsed", "over"}]
    <3>1. CASE UNCHANGED status
      BY <3>1
    <3>2. CASE \E s \in Outcomes(c[1]) : status' = [status EXCEPT ![c[1]] = s]
      BY <2>1, <3>2 DEF Outcomes
    <3>. QED  BY <1>5, <3>1, <3>2 DEF End
  <2>3. /\ calls' \in [Processes -> SUBSET Calls] /\ held' \in [Processes -> SUBSET Calls]
        /\ awaited' \in [Processes -> SUBSET Calls]
        /\ doubled' \in [Processes -> SUBSET Jobs]
    BY <1>5 DEF End
  <2>. QED  BY <1>5, <2>2, <2>3 DEF End
<1>6. ASSUME NEW p \in Processes, Stop(p) \/ Drained(p) \/ Exit(p) PROVE FairTypeOK'
  BY <1>6 DEF Stop, Drained, Exit
<1>. QED  BY <1>1, <1>2, <1>3, <1>4, <1>5, <1>6 DEF FairNext, Due

(* A claim admits only where all three caps leave room, and nothing else    *)
(* makes a claim live.                                                      *)
LEMMA LiveStep ==
  ASSUME FInv, [FairNext]_fvars PROVE LiveWithinCaps'
<1> USE FairAssumption
<1>1. FairTypeOK /\ LiveWithinCaps /\ IsFiniteSet(Live)
  BY FS_Subset DEF FInv, Live
<1>2. ASSUME NEW t \in Tenants
      PROVE  IsFiniteSet(Live \cap Of(t)) /\ Cardinality(Live \cap Of(t)) <= TenantCap
  BY <1>1, FS_Subset DEF LiveWithinCaps
<1>3. CASE \E p \in Processes, j \in Jobs, locked \in SUBSET Jobs : Admit(p, j, locked)
  <2>1. PICK j \in Jobs : /\ Live' = Live \cup {j}
                          /\ Cardinality(Live) < Cap
                          /\ Cardinality(Live \cap Of(TenantOf[j])) < TenantCap
                          /\ \A k \in Live : ConvOf[k] # ConvOf[j]
                          /\ TenantOf[j] \in Tenants
    BY <1>1, <1>3, AdmitFacts
  <2>2. Cardinality(Live') <= Cap
    BY <1>1, <2>1, OneMoreFits
  <2>3. ASSUME NEW t \in Tenants PROVE Cardinality(Live' \cap Of(t)) <= TenantCap
    <3>1. CASE t = TenantOf[j]
      <4>1. Live' \cap Of(t) = (Live \cap Of(t)) \cup {j}
        BY <2>1, <3>1 DEF Of
      <4>. QED  BY <1>2, <2>1, <3>1, <4>1, OneMoreFits
    <3>2. CASE t # TenantOf[j]
      <4>1. Live' \cap Of(t) = Live \cap Of(t)
        BY <2>1, <3>2 DEF Of
      <4>. QED  BY <1>2, <4>1
    <3>. QED  BY <3>1, <3>2
  <2>4. \A i, k \in Live' : ConvOf[i] = ConvOf[k] => i = k
    BY <1>1, <2>1 DEF LiveWithinCaps
  <2>. QED  BY <2>2, <2>3, <2>4 DEF LiveWithinCaps, Of
<1>4. CASE ~ \E p \in Processes, j \in Jobs, locked \in SUBSET Jobs : Admit(p, j, locked)
  <2>1. Live' \subseteq Live
    BY <1>1, <1>4, LiveShrinks
  <2>2. Cardinality(Live') <= Cap
    BY <1>1, <2>1, PartFits DEF LiveWithinCaps
  <2>3. ASSUME NEW t \in Tenants PROVE Cardinality(Live' \cap Of(t)) <= TenantCap
    <3>1. Live' \cap Of(t) \subseteq Live \cap Of(t)
      BY <2>1
    <3>. QED  BY <1>2, <3>1, PartFits
  <2>. QED  BY <1>1, <2>1, <2>2, <2>3 DEF LiveWithinCaps, Of
<1>. QED  BY <1>3, <1>4

(* The map of one process keeps its limit, and misses a call only of a job  *)
(* that has had two; a shutdown that waits for the map misses no other.     *)
LEMMA MapStep ==
  ASSUME FInv, [FairNext]_fvars
  PROVE  MapAgrees' /\ ShutdownWaits' /\ RepliesAreAwaited'
<1> USE FairAssumption DEF FInv, FairTypeOK
<1>1. ASSUME UNCHANGED <<calls, held, awaited, phase, doubled>>
      PROVE  MapAgrees' /\ ShutdownWaits' /\ RepliesAreAwaited'
  BY <1>1 DEF MapAgrees, ShutdownWaits, RepliesAreAwaited
<1>2. CASE UNCHANGED fvars
  BY <1>1, <1>2 DEF fvars
<1>3. ASSUME NEW j \in Jobs, Wake(j) \/ Lapse(j) \/ Sweep(j)
      PROVE  MapAgrees' /\ ShutdownWaits' /\ RepliesAreAwaited'
  BY <1>1, <1>3 DEF Wake, Lapse, Sweep
<1>4. ASSUME NEW p \in Processes, NEW locked, AdmitNobody(p, locked)
      PROVE  MapAgrees' /\ ShutdownWaits' /\ RepliesAreAwaited'
  BY <1>1, <1>4 DEF AdmitNobody
<1>5. ASSUME NEW p \in Processes, NEW j \in Jobs, NEW locked, Admit(p, j, locked)
      PROVE  MapAgrees' /\ ShutdownWaits' /\ RepliesAreAwaited'
  <2>1. CASE UNCHANGED <<calls, held, doubled>>
    BY <1>1, <1>5, <2>1 DEF Admit
  <2>2. CASE ~UNCHANGED <<calls, held, doubled>>
    <3> DEFINE c == <<j, attempts[j] + 1>>
               kept == {d \in held[p] : d[1] # j}
    <3>1. /\ calls' = [calls EXCEPT ![p] = @ \cup {c}]
          /\ held' = [held EXCEPT ![p] = {d \in @ : d[1] # j} \cup {c}]
          /\ doubled' = [doubled EXCEPT ![p] =
                           IF \E d \in calls[p] : d[1] = j THEN @ \cup {j} ELSE @]
          /\ UNCHANGED <<awaited, phase>>
          /\ phase[p] = "open" /\ Cardinality(held[p]) < ProcessCap
      BY <1>5, <2>2 DEF Admit, Polls
    <3>2. c[1] = j
      OBVIOUS
    <3> HIDE DEF c
    <3>3. /\ calls'[p] = calls[p] \cup {c} /\ held'[p] = kept \cup {c}
          /\ doubled'[p] = IF \E d \in calls[p] : d[1] = j THEN doubled[p] \cup {j}
                                                          ELSE doubled[p]
          /\ \A q \in Processes \ {p} :
               calls'[q] = calls[q] /\ held'[q] = held[q] /\ doubled'[q] = doubled[q]
      BY <3>1
    <3>4. IsFiniteSet(kept) /\ Cardinality(kept) < ProcessCap
      <4>1. IsFiniteSet(kept) /\ Cardinality(kept) <= Cardinality(held[p])
        BY FS_Subset DEF MapAgrees
      <4>2. Cardinality(kept) \in Nat /\ Cardinality(held[p]) \in Nat
        BY <4>1, FS_CardinalityType DEF MapAgrees
      <4>. QED  BY <3>1, <4>1, <4>2
    <3>5. IsFiniteSet(held'[p]) /\ Cardinality(held'[p]) <= ProcessCap
      <4>1. ProcessCap \in Nat /\ held'[p] = kept \cup {c}
        BY <3>3
      <4> HIDE DEF kept
      <4>2. IsFiniteSet(kept \cup {c}) /\ Cardinality(kept \cup {c}) <= ProcessCap
        BY <3>4, <4>1, OneMoreFits
      <4>. QED  BY <4>1, <4>2
    <3>6. held'[p] \subseteq calls'[p]
      BY <3>3 DEF MapAgrees
    <3>7. \A d \in calls'[p] : d \in held'[p] \/ d[1] \in doubled'[p]
      BY <3>2, <3>3 DEF MapAgrees
    <3>8. \A d, e \in calls'[p] : d[1] = e[1] => d = e \/ d[1] \in doubled'[p]
      BY <3>2, <3>3 DEF MapAgrees
    <3>9. MapAgrees'
      BY <3>3, <3>5, <3>6, <3>7, <3>8 DEF MapAgrees
    <3>10. ShutdownWaits' /\ RepliesAreAwaited'
      BY <3>1, <3>3 DEF ShutdownWaits, RepliesAreAwaited
    <3>. QED  BY <3>9, <3>10
  <2>. QED  BY <2>1, <2>2
<1>6. ASSUME NEW p \in Processes, NEW c \in calls[p], End(p, c)
      PROVE  MapAgrees' /\ ShutdownWaits' /\ RepliesAreAwaited'
  <2> DEFINE j == c[1]
  <2>1. /\ calls'[p] = calls[p] \ {c}
        /\ held'[p] = {d \in held[p] : d[1] # j}
        /\ doubled'[p] = IF \E d \in calls'[p] : d[1] = j THEN doubled[p]
                                                         ELSE doubled[p] \ {j}
        /\ awaited'[p] = awaited[p] \ {c}
        /\ phase' = phase
        /\ \A q \in Processes \ {p} :
             /\ calls'[q] = calls[q] /\ held'[q] = held[q]
             /\ doubled'[q] = doubled[q] /\ awaited'[q] = awaited[q]
    BY <1>6 DEF End
  <2>2. IsFiniteSet(held'[p]) /\ Cardinality(held'[p]) <= ProcessCap
    <3>1. held'[p] \subseteq held[p]
      BY <2>1
    <3>. QED  BY <3>1, PartFits DEF MapAgrees
  <2>3. held'[p] \subseteq calls'[p]
    BY <2>1 DEF MapAgrees
  <2>4. \A d \in calls'[p] : d[1] \in doubled[p] => d[1] \in doubled'[p]
    BY <2>1
  <2>5. \A d \in calls'[p] : d[1] = j => d[1] \in doubled'[p]
    <3>1. \A d \in calls'[p] : d[1] = j => d[1] \in doubled[p]
      BY <2>1 DEF MapAgrees
    <3>. QED  BY <2>4, <3>1
  <2>6. \A d \in calls'[p] : d \in held'[p] \/ d[1] \in doubled'[p]
    BY <2>1, <2>4, <2>5 DEF MapAgrees
  <2>7. \A d, e \in calls'[p] : d[1] = e[1] => d = e \/ d[1] \in doubled'[p]
    BY <2>1, <2>4 DEF MapAgrees
  <2>8. MapAgrees'
    BY <2>1, <2>2, <2>3, <2>6, <2>7 DEF MapAgrees
  <2>9. ShutdownWaits' /\ RepliesAreAwaited'
    BY <2>1, <2>4 DEF ShutdownWaits, RepliesAreAwaited
  <2>. QED  BY <2>8, <2>9
<1>7. ASSUME NEW p \in Processes, Stop(p)
      PROVE  MapAgrees' /\ ShutdownWaits' /\ RepliesAreAwaited'
  BY <1>7 DEF Stop, MapAgrees, ShutdownWaits, RepliesAreAwaited
<1>8. ASSUME NEW p \in Processes, Drained(p)
      PROVE  MapAgrees' /\ ShutdownWaits' /\ RepliesAreAwaited'
  BY <1>8 DEF Drained, AllEnded, MapAgrees, ShutdownWaits, RepliesAreAwaited
<1>9. ASSUME NEW p \in Processes, Exit(p)
      PROVE  MapAgrees' /\ ShutdownWaits' /\ RepliesAreAwaited'
  <2>1. IsFiniteSet({}) /\ Cardinality({}) <= ProcessCap
    BY FS_EmptySet
  <2>. QED  BY <1>9, <2>1 DEF Exit, MapAgrees, ShutdownWaits, RepliesAreAwaited
<1>. QED  BY <1>2, <1>3, <1>4, <1>5, <1>6, <1>7, <1>8, <1>9 DEF FairNext, Due

(* The tenant admitted moves behind all others, and only tenants that were  *)
(* not before it are passed over.                                           *)
LEMMA TurnsStep ==
  ASSUME FInv, [FairNext]_fvars PROVE TurnsAreTaken' /\ BoundedOvertaking'
<1> USE FairAssumption DEF FInv, FairTypeOK
<1>1. ASSUME UNCHANGED <<clock, last, ahead>>
      PROVE  TurnsAreTaken' /\ BoundedOvertaking'
  BY <1>1 DEF TurnsAreTaken, BoundedOvertaking
<1>2. ASSUME NEW p \in Processes, NEW j \in Jobs, NEW locked, Admit(p, j, locked)
      PROVE  TurnsAreTaken' /\ BoundedOvertaking'
  <2> DEFINE t == TenantOf[j]
             passed == InTurn(locked) \ {t}
  <2>1. /\ t \in Tenants
        /\ clock' = clock + 1
        /\ last' = [last EXCEPT ![t] = clock']
        /\ ahead' = [u \in Tenants |->
                       IF u = t THEN NoCount
                       ELSE IF u \in passed THEN [ahead[u] EXCEPT ![t] = @ + 1]
                       ELSE ahead[u]]
    BY <1>2 DEF Admit
  <2>2. \A u \in passed : u \in Tenants /\ last[u] >= last[t]
    <3>1. \A k \in Candidates \ locked : k \in Jobs /\ ~(last[TenantOf[k]] < last[t])
      BY <1>2 DEF Admit, Earlier, Candidates
    <3>2. \A k \in Candidates \ locked : TenantOf[k] \in Tenants
      BY <3>1
    <3>. QED  BY <2>1, <3>1, <3>2 DEF InTurn
  <2>3. ASSUME NEW u \in passed PROVE ahead[u][t] = 0
    <3>1. u \in Tenants /\ ~(last[u] < last[t])
      BY <2>1, <2>2
    <3>2. ahead[u][t] \in Nat /\ ahead[u][t] <= 1 /\ ahead[u][t] # 1
      BY <2>1, <3>1 DEF TurnsAreTaken, BoundedOvertaking
    <3>3. \A n \in Nat : n <= 1 /\ n # 1 => n = 0
      OBVIOUS
    <3>. QED  BY <3>2, <3>3
  <2>4. \A u \in Tenants : last'[u] <= clock' /\ last[u] <= last'[u]
    BY <2>1 DEF TurnsAreTaken
  <2>5. ASSUME NEW u \in Tenants, NEW v \in Tenants
        PROVE  ahead'[u][v] <= 1 /\ (ahead'[u][v] = 1 => last'[u] < last'[v])
    <3>1. CASE u = t
      BY <2>1, <3>1 DEF NoCount
    <3>2. CASE u # t /\ v = t
      <4>1. ahead'[u][v] <= 1
        BY <2>1, <2>3, <3>2 DEF BoundedOvertaking
      <4>2. last'[u] < last'[v]
        BY <2>1, <3>2 DEF TurnsAreTaken
      <4>. QED  BY <4>1, <4>2
    <3>3. CASE u # t /\ v # t
      <4>1. ahead'[u][v] = ahead[u][v]
        BY <2>1, <3>3
      <4>. QED  BY <2>1, <3>3, <4>1 DEF TurnsAreTaken, BoundedOvertaking
    <3>. QED  BY <3>1, <3>2, <3>3
  <2>. QED  BY <2>4, <2>5 DEF TurnsAreTaken, BoundedOvertaking
<1>3. CASE UNCHANGED <<clock, last, ahead>>
  BY <1>1, <1>3
<1>. QED
  BY <1>2, <1>3
  DEF FairNext, Due, fvars, Wake, Lapse, Sweep, AdmitNobody, End, Stop, Drained, Exit

-----------------------------------------------------------------------------
(* The first state, and the induction.                                      *)

(* Nothing is admitted at first.                                            *)
LEMMA FInvInit == FairInit => FInv
<1> SUFFICES ASSUME FairInit PROVE FInv
  OBVIOUS
<1> USE FairAssumption DEF FairInit
<1>1. FairTypeOK
  BY DEF FairTypeOK, NoCount
<1>2. IsFiniteSet({}) /\ Cardinality({}) = 0
  BY FS_EmptySet
<1>3. LiveWithinCaps
  <2>1. Live = {}
    BY DEF Live
  <2>2. \A t : Live \cap Of(t) = {}
    BY <2>1
  <2>. QED  BY <1>2, <2>1, <2>2 DEF LiveWithinCaps
<1>4. MapAgrees
  BY <1>2 DEF MapAgrees
<1>5. ShutdownWaits /\ RepliesAreAwaited
  BY DEF ShutdownWaits, RepliesAreAwaited
<1>6. TurnsAreTaken /\ BoundedOvertaking
  BY DEF TurnsAreTaken, BoundedOvertaking, NoCount
<1>. QED  BY <1>1, <1>3, <1>4, <1>5, <1>6 DEF FInv

(* Every part holds in every reachable state.                               *)
THEOREM FInvHolds == FairSpec => []FInv
<1>1. FInv /\ [FairNext]_fvars => FInv'
  BY FairTypeStep, LiveStep, MapStep, TurnsStep DEF FInv
<1>. QED  BY FInvInit, <1>1, PTL DEF FairSpec

(* The jobs, the calls and the maps keep their types, and the attempts      *)
(* their limit.                                                             *)
THEOREM FairTypes == FairSpec => []FairTypeOK
<1>1. FInv => FairTypeOK
  BY DEF FInv
<1>. QED  BY FInvHolds, <1>1, PTL

(* The replies with a valid claim stay within the global cap, the tenant's  *)
(* and the conversation's, and those of a worker within its own.            *)
THEOREM CallsStayWithinCaps == FairSpec => []CallsWithinCaps
<1>1. FInv => CallsWithinCaps
  <2> SUFFICES ASSUME FInv PROVE CallsWithinCaps
    OBVIOUS
  <2> USE FairAssumption
  <2>1. /\ Working \subseteq Calls
        /\ \A c \in Working : c[1] \in Live /\ c[2] = attempts[c[1]]
    BY DEF FInv, FairTypeOK, Working, Live, Calls
  <2>2. \A c, d \in Working : c[1] = d[1] => c = d
    BY <2>1 DEF Calls
  <2>3. Cardinality(Working) <= Cap
    <3>1. Live \in SUBSET Jobs
      BY DEF Live
    <3>. QED  BY <2>1, <2>2, <3>1, CallsPerJob DEF FInv, LiveWithinCaps
  <2>4. ASSUME NEW t \in Tenants
        PROVE  Cardinality({c \in Working : TenantOf[c[1]] = t}) <= TenantCap
    <3> DEFINE S == Live \cap Of(t)
               C == {c \in Working : TenantOf[c[1]] = t}
    <3>1. S \in SUBSET Jobs /\ Cardinality(S) <= TenantCap
      BY DEF FInv, LiveWithinCaps, Of
    <3>2. C \in SUBSET Calls /\ \A c \in C : c[1] \in S
      BY <2>1 DEF Live, Of
    <3>3. \A c, d \in C : c[1] = d[1] => c = d
      BY <2>2
    <3> HIDE DEF S, C
    <3>4. Cardinality(C) <= TenantCap
      BY <3>1, <3>2, <3>3, CallsPerJob
    <3>. QED  BY <3>4 DEF C
  <2>5. \A c, d \in Working : ConvOf[c[1]] = ConvOf[d[1]] => c = d
    BY <2>1, <2>2 DEF FInv, LiveWithinCaps
  <2>6. ASSUME NEW p \in Processes
        PROVE  Cardinality({c \in calls[p] : c[1] \notin doubled[p]}) <= ProcessCap
    <3>1. {c \in calls[p] : c[1] \notin doubled[p]} \subseteq held[p]
      BY DEF FInv, MapAgrees
    <3>2. IsFiniteSet(held[p]) /\ Cardinality(held[p]) <= ProcessCap
      BY DEF FInv, MapAgrees
    <3>. QED  BY <3>1, <3>2, PartFits
  <2>. QED  BY <2>3, <2>4, <2>5, <2>6 DEF CallsWithinCaps
<1>. QED  BY FInvHolds, <1>1, PTL

(* While a tenant waits, each other one is admitted at most once before it. *)
THEOREM OvertakingIsBounded == FairSpec => []BoundedOvertaking
<1>1. FInv => BoundedOvertaking
  BY DEF FInv
<1>. QED  BY FInvHolds, <1>1, PTL

(* A closed pool has no reply left, but of a job that was running twice.    *)
THEOREM ShutdownAwaitsReplies == FairSpec => []RepliesAreAwaited
<1>1. FInv => RepliesAreAwaited
  BY DEF FInv
<1>. QED  BY FInvHolds, <1>1, PTL
=============================================================================
