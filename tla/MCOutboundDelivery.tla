------------------------- MODULE MCOutboundDelivery -------------------------
(* One request, two calls; the queue's constants as for one send job.       *)
EXTENDS OutboundDelivery

CONSTANTS j1, w1, w2, e1, e2

OneJob == {j1}
NoJobs == {}
TwoProcesses == [e \in Executors |-> IF e = e1 THEN w1 ELSE w2]
TwoAttempts == [j \in Jobs |-> 2]
FlatPriority == [j \in Jobs |-> 0]
=============================================================================
