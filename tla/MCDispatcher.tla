---------------------------- MODULE MCDispatcher ----------------------------
(* Small instances of Dispatcher: a caller's room and a dialled one.        *)
EXTENDS Dispatcher

CONSTANTS i1, o1, t1

OneTenant == [r \in Rooms |-> t1]
=============================================================================
