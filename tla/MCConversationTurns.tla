------------------------ MODULE MCConversationTurns ------------------------
(* Small instances of ConversationTurns: two messages of one customer.      *)
EXTENDS ConversationTurns

CONSTANTS m1, m2, w1, w2
=============================================================================
