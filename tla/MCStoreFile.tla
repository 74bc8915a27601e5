---------------------------- MODULE MCStoreFile ----------------------------
(* StoreFile with two chats and three runs of check-messages.              *)
EXTENDS StoreFile

CONSTANTS c1, c2

MCChats == {c1, c2}
=============================================================================
