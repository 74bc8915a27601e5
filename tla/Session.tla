------------------------------- MODULE Session -------------------------------
(***************************************************************************)
(* The messaging Session (unnamed/part_004) and its last-seen Store        *)
(* (messaging/store.go, FileStore in messaging/apns/binary.go): the        *)
(* read loop's callback handleAPNSMessage pushes messages into            *)
(* messageChan without blocking; FetchUnread, on the caller's goroutine,   *)
(* runs ensureHandshake, drains the channel (FetchMessages), keeps the     *)
(* messages newer than the store's last-seen time of their chat            *)
(* (filterUnread) and records the latest time per chat (updateStore).      *)
(*                                                                         *)
(* A message is its identity, its chat and its timestamp; time is an       *)
(* integer clock 1..MaxTime and the zero time.Time is 0.  The text,        *)
(* sender and decryption of a message do not change where it goes.         *)
(***************************************************************************)
EXTENDS Integers, Sequences, FiniteSets, FiniteSetsExt, SequencesExt

CONSTANTS
    Chats,       \* chat keys handleAPNSMessage can produce
    EmptyChat,   \* the chat "" (a decrypted message whose first participant is "")
    ChanCap,     \* capacity of messageChan
    FileBacked,  \* the Store is a FileStore (it saves on every SetLastSeen)
    MaxTime,     \* bound on the clock
    MaxMsgs,     \* bound on the messages the read loop handles
    MaxFetches   \* bound on the calls of FetchUnread

ASSUME SessionAssumption ==
    /\ EmptyChat \in Chats
    /\ ChanCap \in Nat
    /\ FileBacked \in BOOLEAN
    /\ MaxTime \in Nat \ {0}
    /\ MaxMsgs \in Nat
    /\ MaxFetches \in Nat

Msg == [id : 1..MaxMsgs, chat : Chats, ts : 1..MaxTime]

VARIABLES
    hs,         \* s.state: "none" until a handshake succeeds, then "done"
    loop,       \* the APNS read loop: "stopped" or "running"
    chan,       \* messageChan's buffer
    clock,      \* time.Now()
    nextId,     \* the next message the loop will hand over
    fetches,    \* the calls of FetchUnread so far
    phase,      \* the caller in FetchUnread: "idle", "drain", "latest", "update"
    batch,      \* FetchMessages' local slice of drained messages
    unread,     \* filterUnread's result while updateStore runs
    todo,       \* the messages updateStore's first loop has not yet visited
    chatLatest, \* updateStore's map chat -> latest time (0: no entry)
    pending,    \* chats of chatLatest updateStore has not yet stored
    lastSeen,   \* the Store's map chat -> time
    result,     \* what the last FetchUnread returned
    loaded,     \* ghost: the Store's contents when the session began
    produced,   \* ghost: every message handleAPNSMessage built
    dropped,    \* ghost: the messages refused with "message channel full"
    reported    \* ghost: [msg, fetch] for each message returned as a summary

vars == <<hs, loop, chan, clock, nextId, fetches, phase, batch, unread, todo, chatLatest, pending,
          lastSeen, result, loaded, produced, dropped, reported>>

\* The latest timestamp among the messages of chat c in S, or the zero time.
LatestTs(S, c) == Max({0} \cup {m.ts : m \in {x \in S : x.chat = c}})

-----------------------------------------------------------------------------

\* Connect: a new Session with no handshake; a MemoryStore starts empty, a
\* FileStore holds what an earlier run saved (any time, also a later one).
Init ==
    /\ hs = "none"
    /\ loop = "stopped"
    /\ chan = <<>>
    /\ clock \in 1..MaxTime
    /\ nextId = 1
    /\ fetches = 0
    /\ phase = "idle"
    /\ batch = <<>>
    /\ unread = {}
    /\ todo = {}
    /\ chatLatest = [c \in Chats |-> 0]
    /\ pending = {}
    /\ lastSeen \in IF FileBacked THEN [Chats -> 0..MaxTime] ELSE {[c \in Chats |-> 0]}
    /\ result = "none"
    /\ loaded = lastSeen
    /\ produced = {}
    /\ dropped = {}
    /\ reported = {}

\* Time passes.
Tick ==
    /\ clock < MaxTime
    /\ clock' = clock + 1
    /\ UNCHANGED <<hs, loop, chan, nextId, fetches, phase, batch, unread, todo, chatLatest, pending,
                   lastSeen, result, loaded, produced, dropped, reported>>

\* startAPNS: Connect, SetMessageHandler, Filter and SetState on the
\* handshake's connection, then the read loop; any error leaves it stopped.
StartAPNS ==
    /\ hs = "done"
    /\ loop = "stopped"
    /\ loop' \in {"stopped", "running"}
    /\ UNCHANGED <<hs, chan, clock, nextId, fetches, phase, batch, unread, todo, chatLatest, pending,
                   lastSeen, result, loaded, produced, dropped, reported>>

\* Mutant: the room check is off by one.
HandleAPNSMessageOverfilling(c) ==
    /\ loop = "running"
    /\ nextId <= MaxMsgs
    /\ LET m == [id |-> nextId, chat |-> c, ts |-> clock]
       IN  /\ IF Len(chan) <= ChanCap
                THEN chan' = Append(chan, m) /\ UNCHANGED dropped
                ELSE dropped' = dropped \cup {m} /\ UNCHANGED chan
           /\ produced' = produced \cup {m}
    /\ nextId' = nextId + 1
    /\ UNCHANGED <<hs, loop, clock, fetches, phase, batch, unread, todo, chatLatest, pending, lastSeen,
                   result, loaded, reported>>

\* handleAPNSMessage on the read loop: every branch builds a message stamped
\* time.Now() and sends it with select/default, dropping it when the channel
\* has no room.
HandleAPNSMessage(c) ==
    /\ loop = "running"
    /\ nextId <= MaxMsgs
    /\ LET m == [id |-> nextId, chat |-> c, ts |-> clock]
       IN  /\ IF Len(chan) < ChanCap
                THEN chan' = Append(chan, m) /\ UNCHANGED dropped
                ELSE dropped' = dropped \cup {m} /\ UNCHANGED chan
           /\ produced' = produced \cup {m}
    /\ nextId' = nextId + 1
    /\ UNCHANGED <<hs, loop, clock, fetches, phase, batch, unread, todo, chatLatest, pending, lastSeen,
                   result, loaded, reported>>

\* FetchUnread, ensureHandshake: the handshake fails; FetchUnread returns it.
HandshakeFails ==
    /\ phase = "idle"
    /\ fetches < MaxFetches
    /\ hs = "none"
    /\ fetches' = fetches + 1
    /\ result' = "error"
    /\ UNCHANGED <<hs, loop, chan, clock, nextId, phase, batch, unread, todo, chatLatest, pending,
                   lastSeen, loaded, produced, dropped, reported>>

\* FetchUnread, ensureHandshake succeeds (or already had), and FetchMessages
\* (whose own ensureHandshake is then a no-op) starts draining.
FetchStart ==
    /\ phase = "idle"
    /\ fetches < MaxFetches
    /\ hs' = "done"
    /\ phase' = "drain"
    /\ fetches' = fetches + 1
    /\ UNCHANGED <<loop, chan, clock, nextId, batch, unread, todo, chatLatest, pending,
                   lastSeen, result, loaded, produced, dropped, reported>>

\* FetchMessages: one receive of the drain loop.
DrainOne ==
    /\ phase = "drain"
    /\ chan # <<>>
    /\ batch' = Append(batch, Head(chan))
    /\ chan' = Tail(chan)
    /\ UNCHANGED <<hs, loop, clock, nextId, fetches, phase, unread, todo, chatLatest, pending, lastSeen,
                   result, loaded, produced, dropped, reported>>

\* Mutant: filterUnread keeps a message as new as the last-seen time.
DrainDoneNotBefore ==
    /\ phase = "drain"
    /\ chan = <<>>
    /\ unread' = {m \in ToSet(batch) : m.ts >= lastSeen[m.chat]}
    /\ todo' = unread'
    /\ chatLatest' = [c \in Chats |-> 0]
    /\ batch' = <<>>
    /\ phase' = "latest"
    /\ UNCHANGED <<hs, loop, chan, clock, nextId, fetches, pending, lastSeen, result,
                   loaded, produced, dropped, reported>>

\* Mutant: FetchUnread skips filterUnread.
DrainDoneUnfiltered ==
    /\ phase = "drain"
    /\ chan = <<>>
    /\ unread' = ToSet(batch)
    /\ todo' = unread'
    /\ chatLatest' = [c \in Chats |-> 0]
    /\ batch' = <<>>
    /\ phase' = "latest"
    /\ UNCHANGED <<hs, loop, chan, clock, nextId, fetches, pending, lastSeen, result,
                   loaded, produced, dropped, reported>>

\* FetchMessages returns at the default case; filterUnread keeps the messages
\* newer than LastSeen of their chat; updateStore starts an empty chatLatest.
DrainDone ==
    /\ phase = "drain"
    /\ chan = <<>>
    /\ unread' = {m \in ToSet(batch) : m.ts > lastSeen[m.chat]}
    /\ todo' = unread'
    /\ chatLatest' = [c \in Chats |-> 0]
    /\ batch' = <<>>
    /\ phase' = "latest"
    /\ UNCHANGED <<hs, loop, chan, clock, nextId, fetches, pending, lastSeen, result,
                   loaded, produced, dropped, reported>>

\* Mutant: the first loop overwrites a chat's entry with every message.
FoldLatestOverwriting(m) ==
    /\ phase = "latest"
    /\ m \in todo
    /\ chatLatest' = [chatLatest EXCEPT ![m.chat] = m.ts]
    /\ todo' = todo \ {m}
    /\ UNCHANGED <<hs, loop, chan, clock, nextId, fetches, phase, batch, unread,
                   pending, lastSeen, result, loaded, produced, dropped, reported>>

\* updateStore's first loop: one message raises its chat's entry if it has
\* none or is later (ranging over a slice in any order gives the same map).
FoldLatest(m) ==
    /\ phase = "latest"
    /\ m \in todo
    /\ chatLatest' = [chatLatest EXCEPT ![m.chat] = IF m.ts > @ THEN m.ts ELSE @]
    /\ todo' = todo \ {m}
    /\ UNCHANGED <<hs, loop, chan, clock, nextId, fetches, phase, batch, unread,
                   pending, lastSeen, result, loaded, produced, dropped, reported>>

\* The first loop ends; the second ranges over chatLatest's keys.
LatestDone ==
    /\ phase = "latest"
    /\ todo = {}
    /\ pending' = {c \in Chats : chatLatest[c] # 0}
    /\ phase' = "update"
    /\ UNCHANGED <<hs, loop, chan, clock, nextId, fetches, batch, unread, todo,
                   chatLatest, lastSeen, result, loaded, produced, dropped, reported>>

\* The error return of FetchUnread from updateStore: the drained messages
\* are dropped with the local slices.
UpdateFails ==
    /\ phase' = "idle"
    /\ result' = "error"
    /\ unread' = {}
    /\ pending' = {}

\* updateStore: SetLastSeen of one chat of chatLatest, in map order.  The
\* empty chat is refused before the store changes; a FileStore stores the
\* time and then save() may fail.
SetLastSeen(c) ==
    /\ phase = "update"
    /\ c \in pending
    /\ \/ /\ c = EmptyChat
          /\ UpdateFails
          /\ UNCHANGED lastSeen
       \/ /\ c # EmptyChat
          /\ lastSeen' = [lastSeen EXCEPT ![c] = chatLatest[c]]
          /\ \/ /\ pending' = pending \ {c}
                /\ UNCHANGED <<phase, result, unread>>
             \/ /\ FileBacked
                /\ UpdateFails
    /\ UNCHANGED <<hs, loop, chan, clock, nextId, fetches, batch, todo, chatLatest, loaded, produced,
                   dropped, reported>>

\* updateStore returns nil; FetchUnread returns the unread messages.
UpdateDone ==
    /\ phase = "update"
    /\ pending = {}
    /\ reported' = reported \cup {[msg |-> m, fetch |-> fetches] : m \in unread}
    /\ unread' = {}
    /\ phase' = "idle"
    /\ result' = "ok"
    /\ UNCHANGED <<hs, loop, chan, clock, nextId, fetches, batch, todo, chatLatest, pending, lastSeen,
                   loaded, produced, dropped>>

\* Every bound is reached and the caller is back from FetchUnread.
Finished ==
    /\ clock = MaxTime
    /\ nextId > MaxMsgs \/ loop = "stopped"
    /\ fetches = MaxFetches
    /\ phase = "idle"
    /\ UNCHANGED vars

Next ==
    \/ Tick
    \/ StartAPNS
    \/ \E c \in Chats : HandleAPNSMessage(c)
    \/ HandshakeFails
    \/ FetchStart
    \/ DrainOne
    \/ DrainDone
    \/ \E m \in Msg : FoldLatest(m)
    \/ LatestDone
    \/ \E c \in Chats : SetLastSeen(c)
    \/ UpdateDone
    \/ Finished

Spec == Init /\ [][Next]_vars
-----------------------------------------------------------------------------
(* Properties.                                                             *)

TypeOK ==
    /\ hs \in {"none", "done"}
    /\ loop \in {"stopped", "running"}
    /\ chan \in Seq(Msg) /\ Len(chan) <= ChanCap
    /\ clock \in 1..MaxTime
    /\ nextId \in 1..MaxMsgs + 1
    /\ fetches \in 0..MaxFetches
    /\ phase \in {"idle", "drain", "latest", "update"}
    /\ phase # "idle" => fetches # 0
    /\ batch \in Seq(Msg)
    /\ unread \subseteq Msg
    /\ todo \subseteq Msg
    /\ chatLatest \in [Chats -> 0..MaxTime]
    /\ pending \subseteq Chats
    /\ lastSeen \in [Chats -> 0..MaxTime]
    /\ result \in {"none", "ok", "error"}
    /\ loaded \in [Chats -> 0..MaxTime]
    /\ produced \subseteq Msg /\ dropped \subseteq produced
    /\ reported \subseteq [msg : Msg, fetch : 1..MaxFetches]

(* filterUnread and updateStore together never move a chat's last-seen    *)
(* time backwards, whatever the store held, whichever chats fail and in    *)
(* whatever order updateStore visits them.                                 *)
StoreNeverRegresses == [][\A c \in Chats : lastSeen'[c] >= lastSeen[c]]_vars

(* A message FetchUnread returns is newer than every message of its chat   *)
(* an earlier FetchUnread returned: no message is reported twice and a     *)
(* chat's reports never go back in time, across handshake failures,       *)
(* failed store updates and messages arriving during a fetch.              *)
ReportsNewerThanEarlier ==
    \A r1, r2 \in reported :
        r1.fetch < r2.fetch /\ r1.msg.chat = r2.msg.chat => r1.msg.ts < r2.msg.ts

(* Spec section 7: the poller never silently loses a notification.  Every  *)
(* message the read loop hands over is still queued or being fetched, was  *)
(* returned by FetchUnread, was dropped because the queue was full, or is  *)
(* no newer than what the store held or FetchUnread returned for its chat. *)
NoMessageLost ==
    \A m \in produced :
        \/ m \in ToSet(chan) \cup ToSet(batch) \cup unread \cup dropped
        \/ \E r \in reported : r.msg = m
        \/ m.ts <= loaded[m.chat]
        \/ m.ts <= LatestTs({r.msg : r \in reported}, m.chat)
-----------------------------------------------------------------------------
(* The refinement of StoreUpdate.  The drain and the first loop of         *)
(* updateStore are hidden in its "fetch" phase; the messages FetchUnread   *)
(* took and their latest times per chat become visible when the second    *)
(* loop starts, and are gone once FetchUnread has returned.                *)
StorePhase == IF phase \in {"drain", "latest"} THEN "fetch" ELSE phase

TakenUnread == IF phase = "update" THEN unread ELSE {}

TakenLatest == IF phase = "update" THEN chatLatest ELSE [c \in Chats |-> 0]

SU == INSTANCE StoreUpdate
        WITH Msgs <- Msg, phase <- StorePhase, unread <- TakenUnread, chatLatest <- TakenLatest

(* FetchUnread implements StoreUpdate: the messages it keeps are newer     *)
(* than the store's time for their chat, the times updateStore stores are  *)
(* the latest of those messages per chat, whichever order the first loop  *)
(* visits them in, and what it returns is what it took.                    *)
ImplementsStoreUpdate == SU!Spec
=============================================================================
