------------------------------ MODULE MCSession ------------------------------
(* Session with two chats: an ordinary one and the empty chat "".          *)
EXTENDS Session

CONSTANTS c1, e

MCChats == {c1, e}
=============================================================================
