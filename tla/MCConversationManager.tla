----------------------- MODULE MCConversationManager -----------------------
(* ConversationManager with two callers, each of which may make any number *)
(* of calls one after the other, and two backends: one, and its            *)
(* replacement or the one a second caller starts beside it.                *)
EXTENDS ConversationManager

CONSTANTS c1, c2
MCCallers == {c1, c2}
=============================================================================
