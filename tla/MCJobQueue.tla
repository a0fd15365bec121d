----------------------------- MODULE MCJobQueue -----------------------------
(* Small instances of JobQueue: two calls of one process, which share a     *)
(* locked_by, one job that polls and one that puts itself off, either of    *)
(* which a claim may take first.  Calls of two processes meet in            *)
(* MCOutboundDelivery.                                                      *)
EXTENDS JobQueue

CONSTANTS j1, j2, w1, e1, e2

TwoJobs  == {j1, j2}
OneJob   == {j1}
AudioJob == {j1}
FlowJob  == {j2}

OneProcess == [e \in Executors |-> w1]

TwoAttempts  == [j \in Jobs |-> 2]
SomeAttempts == [j \in Jobs |-> IF j = j1 THEN 2 ELSE 1]
FlatPriority == [j \in Jobs |-> 0]
=============================================================================
