-------------------------- MODULE MCInboundEvents --------------------------
(* Small instances of InboundEvents: one message and one status report.     *)
EXTENDS InboundEvents

CONSTANTS m1, r1, w1, w2
=============================================================================
