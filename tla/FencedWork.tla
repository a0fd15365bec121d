----------------------------- MODULE FencedWork -----------------------------
(****************************************************************************)
(* What the job queue promises to whoever hands it work: each job is        *)
(* granted over and over, one grant at a time, and only the grant that is   *)
(* current may write anything under the job or decide what becomes of it.   *)
(* Workers, leases, locks and time do not appear.                           *)
(****************************************************************************)
EXTENDS Naturals

CONSTANT Jobs

VARIABLES
  phase,   \* "absent", "waiting", "granted" or "settled"
  issued,  \* the number of grants made so far; the last one is current
  mark     \* the grant under which the job last wrote anything

fvars == <<phase, issued, mark>>

Init ==
  /\ phase  = [j \in Jobs |-> "absent"]
  /\ issued = [j \in Jobs |-> 0]
  /\ mark   = [j \in Jobs |-> 0]

(* What may happen to one job in a step; several jobs may change at once,   *)
(* as when a claim sweeps the rows of other, abandoned grants.              *)

Submit(j) == phase[j] = "absent" /\ phase'[j] = "waiting"
             /\ issued'[j] = issued[j] /\ mark'[j] = mark[j]

\* A grant to a first worker, or to the next one after a grant was abandoned.
Grant(j) == phase[j] \in {"waiting", "granted"} /\ phase'[j] = "granted"
            /\ issued'[j] = issued[j] + 1 /\ mark'[j] = mark[j]

\* Durable work under the current grant, which may keep, return or settle it.
Write(j) == phase[j] = "granted" /\ phase'[j] \in {"granted", "waiting", "settled"}
            /\ issued'[j] = issued[j] /\ mark'[j] = issued[j]

\* A grant nobody will answer for is closed, with nothing written under it.
Expire(j) == phase[j] = "granted" /\ phase'[j] = "settled"
             /\ issued'[j] = issued[j] /\ mark'[j] = mark[j]

Same(j) == phase'[j] = phase[j] /\ issued'[j] = issued[j] /\ mark'[j] = mark[j]

Step(j) == Submit(j) \/ Grant(j) \/ Write(j) \/ Expire(j) \/ Same(j)

Next ==
  /\ \A j \in Jobs : Step(j)
  /\ DOMAIN phase' = Jobs /\ DOMAIN issued' = Jobs /\ DOMAIN mark' = Jobs

Spec == Init /\ [][Next]_fvars
=============================================================================
