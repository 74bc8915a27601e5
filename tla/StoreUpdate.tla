----------------------------- MODULE StoreUpdate -----------------------------
(***************************************************************************)
(* What FetchUnread promises about the last-seen store, with the channel, *)
(* the drain and the read loop hidden.  A call takes at once the messages *)
(* it will report, all newer than the store's time for their chat, and    *)
(* the latest of their times per chat; it then stores those times one     *)
(* chat at a time, and fails on the empty chat or, for a FileStore, on a  *)
(* save; a call that gets through reports what it took.                    *)
(***************************************************************************)
EXTENDS Naturals

CONSTANTS
    Chats,       \* chat keys
    EmptyChat,   \* the chat ""
    FileBacked,  \* the Store is a FileStore
    MaxTime,     \* bound on timestamps
    MaxFetches,  \* bound on the calls of FetchUnread
    Msgs         \* the messages: records with a chat and a timestamp ts

VARIABLES
    phase,       \* "idle", "fetch" (between the handshake and the take),
                 \*   "update" (storing the latest times)
    fetches,     \* calls of FetchUnread so far
    unread,      \* the messages the call took
    chatLatest,  \* chat -> the latest time among them, 0 for none
    pending,     \* chats whose latest time is not yet stored
    lastSeen,    \* the store: chat -> time
    result,      \* what the last call returned
    reported     \* [msg, fetch] for each message a call returned

vars == <<phase, fetches, unread, chatLatest, pending, lastSeen, result, reported>>

\* No chat has a latest time.
NoLatest == [c \in Chats |-> 0]

(* f gives each chat the latest time among the messages of S in that      *)
(* chat: a bound on them that one of them has, or 0 when S has none.      *)
Latest(f, S) ==
    \A c \in Chats :
        /\ \A m \in S : m.chat = c => m.ts <= f[c]
        /\ f[c] = 0 \/ \E m \in S : m.chat = c /\ m.ts = f[c]

Init ==
    /\ phase = "idle"
    /\ fetches = 0
    /\ unread = {}
    /\ chatLatest = NoLatest
    /\ pending = {}
    /\ lastSeen \in IF FileBacked THEN [Chats -> 0..MaxTime] ELSE {NoLatest}
    /\ result = "none"
    /\ reported = {}

\* A call whose handshake fails.
Refuse ==
    /\ phase = "idle"
    /\ fetches < MaxFetches
    /\ fetches' = fetches + 1
    /\ result' = "error"
    /\ UNCHANGED <<phase, unread, chatLatest, pending, lastSeen, reported>>

\* A call gets past its handshake.
Begin ==
    /\ phase = "idle"
    /\ fetches < MaxFetches
    /\ fetches' = fetches + 1
    /\ phase' = "fetch"
    /\ UNCHANGED <<unread, chatLatest, pending, lastSeen, result, reported>>

\* The call takes messages newer than the store's time for their chat, and
\* the latest time per chat among them.
Take ==
    /\ phase = "fetch"
    /\ unread' \subseteq {m \in Msgs : m.ts > lastSeen[m.chat]}
    /\ chatLatest' \in [Chats -> 0..MaxTime]
    /\ Latest(chatLatest', unread')
    /\ pending' = {c \in Chats : chatLatest'[c] # 0}
    /\ phase' = "update"
    /\ UNCHANGED <<fetches, lastSeen, result, reported>>

\* The call returns an error and its messages are gone.
Fail ==
    /\ phase' = "idle"
    /\ result' = "error"
    /\ unread' = {}
    /\ chatLatest' = NoLatest
    /\ pending' = {}

\* One chat's latest time is stored; the empty chat is refused, and a
\* FileStore's save may fail after the store has changed.
Store(c) ==
    /\ phase = "update"
    /\ c \in pending
    /\ \/ /\ c = EmptyChat
          /\ Fail
          /\ UNCHANGED lastSeen
       \/ /\ c # EmptyChat
          /\ lastSeen' = [lastSeen EXCEPT ![c] = chatLatest[c]]
          /\ \/ /\ pending' = pending \ {c}
                /\ UNCHANGED <<phase, result, unread, chatLatest>>
             \/ /\ FileBacked
                /\ Fail
    /\ UNCHANGED <<fetches, reported>>

\* Every time is stored and the call returns what it took.
Report ==
    /\ phase = "update"
    /\ pending = {}
    /\ reported' = reported \cup {[msg |-> m, fetch |-> fetches] : m \in unread}
    /\ phase' = "idle"
    /\ result' = "ok"
    /\ unread' = {}
    /\ chatLatest' = NoLatest
    /\ UNCHANGED <<fetches, pending, lastSeen>>

Next == Refuse \/ Begin \/ Take \/ (\E c \in Chats : Store(c)) \/ Report

Spec == Init /\ [][Next]_vars
=============================================================================
