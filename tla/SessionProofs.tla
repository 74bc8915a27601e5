---------------------------- MODULE SessionProofs ----------------------------
(***************************************************************************)
(* Proofs about the session model (Session.tla) for every value of its     *)
(* constants.                                                              *)
(***************************************************************************)
EXTENDS Session, SequenceTheorems, TLAPS

-----------------------------------------------------------------------------
(* Facts about the channel and the drained slice.                          *)

(* Appending a message keeps a sequence of messages and adds one to its    *)
(* length.                                                                 *)
LEMMA AppendMsg ==
    ASSUME NEW s \in Seq(Msg), NEW m \in Msg
    PROVE  Append(s, m) \in Seq(Msg) /\ Len(Append(s, m)) = Len(s) + 1
BY AppendProperties

(* Receiving from the channel yields a message and leaves one fewer.       *)
LEMMA ReceiveMsg ==
    ASSUME NEW s \in Seq(Msg), s # <<>>
    PROVE  Head(s) \in Msg /\ Tail(s) \in Seq(Msg) /\ Len(Tail(s)) = Len(s) - 1
BY HeadTailProperties

(* The messages of a sequence of messages are messages.                    *)
LEMMA ToSetMsg ==
    ASSUME NEW s \in Seq(Msg)
    PROVE  ToSet(s) \subseteq Msg
BY DEF ToSet

(* The message handleAPNSMessage builds is a message while the bounds hold. *)
LEMMA NewMsg ==
    ASSUME TypeOK, nextId <= MaxMsgs, NEW c \in Chats
    PROVE  [id |-> nextId, chat |-> c, ts |-> clock] \in Msg
BY DEF TypeOK, Msg

-----------------------------------------------------------------------------
(* Type correctness.                                                       *)

(* Every step of the session keeps the types.                             *)
LEMMA TypeStep == SessionAssumption /\ TypeOK /\ [Next]_vars => TypeOK'
<1> SUFFICES ASSUME SessionAssumption, TypeOK, [Next]_vars PROVE TypeOK'
  OBVIOUS
<1> USE SessionAssumption
<1>2. TypeOK'
  <2> SUFFICES TypeOK'
    OBVIOUS
  <2>1. CASE Tick
    BY <2>1 DEF Tick, TypeOK
  <2>2. CASE StartAPNS
    BY <2>2 DEF StartAPNS, TypeOK
  <2>3. ASSUME NEW c \in Chats, HandleAPNSMessage(c) PROVE TypeOK'
    <3> DEFINE m == [id |-> nextId, chat |-> c, ts |-> clock]
    <3>1. m \in Msg
      BY <2>3, NewMsg DEF HandleAPNSMessage
    <3>2. CASE Len(chan) < ChanCap
      <4>1. chan' = Append(chan, m) /\ dropped' = dropped /\ produced' = produced \cup {m}
        BY <2>3, <3>2 DEF HandleAPNSMessage
      <4>2. chan' \in Seq(Msg) /\ Len(chan') <= ChanCap
        BY <3>1, <3>2, <4>1, AppendMsg DEF TypeOK
      <4> QED
        BY <2>3, <3>1, <4>1, <4>2 DEF HandleAPNSMessage, TypeOK
    <3>3. CASE ~(Len(chan) < ChanCap)
      BY <2>3, <3>1, <3>3 DEF HandleAPNSMessage, TypeOK
    <3> QED
      BY <3>2, <3>3
  <2>4. CASE HandshakeFails
    BY <2>4 DEF HandshakeFails, TypeOK
  <2>5. CASE FetchStart
    BY <2>5 DEF FetchStart, TypeOK
  <2>6. CASE DrainOne
    BY <2>6, ReceiveMsg, AppendMsg DEF DrainOne, TypeOK
  <2>7. CASE DrainDone
    BY <2>7, ToSetMsg DEF DrainDone, TypeOK
  <2>8. ASSUME NEW m \in Msg, FoldLatest(m) PROVE TypeOK'
    <3>1. chatLatest' \in [Chats -> 0..MaxTime]
      BY <2>8 DEF FoldLatest, TypeOK, Msg
    <3> QED
      BY <2>8, <3>1 DEF FoldLatest, TypeOK
  <2>9. CASE LatestDone
    BY <2>9 DEF LatestDone, TypeOK
  <2>10. ASSUME NEW c \in Chats, SetLastSeen(c) PROVE TypeOK'
    BY <2>10 DEF SetLastSeen, UpdateFails, TypeOK
  <2>11. CASE UpdateDone
    <3>1. fetches \in 1..MaxFetches
      BY <2>11 DEF UpdateDone, TypeOK
    <3>2. reported' \subseteq [msg : Msg, fetch : 1..MaxFetches]
      BY <2>11, <3>1 DEF UpdateDone, TypeOK
    <3> QED
      BY <2>11, <3>2 DEF UpdateDone, TypeOK
  <2>12. CASE Finished \/ UNCHANGED vars
    BY <2>12 DEF Finished, vars, TypeOK
  <2> QED
    BY <2>1, <2>2, <2>3, <2>4, <2>5, <2>6, <2>7, <2>8, <2>9, <2>10, <2>11, <2>12
       DEF Next
<1> QED
  BY <1>2

(* Every state the session reaches has the types TypeOK gives its          *)
(* variables, and the channel never holds more than its capacity.          *)
THEOREM TypeCorrect == Spec => []TypeOK
<1>1. SessionAssumption /\ Init => TypeOK
  BY DEF Init, TypeOK
<1>2. QED
  BY <1>1, TypeStep, SessionAssumption, PTL DEF Spec
-----------------------------------------------------------------------------
(* The store and the reports.                                              *)

(* The strengthening of ReportsNewerThanEarlier.  A reported message is    *)
(* never later than its chat's last-seen time (SeenCoversReports).  While  *)
(* a FetchUnread runs, every report is of an earlier call (EarlierFetches) *)
(* and every message it will report is later than every report of its      *)
(* chat (UnreadAfterReports).  updateStore's first loop only records       *)
(* times later than the store's (LatestAhead) and covers the messages it   *)
(* has visited (LatestCovers); the second stores for each chat a time      *)
(* that covers its messages (StoredCovers), later than the store's time    *)
(* for the chats still pending (PendingAhead).                             *)
SeenCoversReports == \A r \in reported : r.msg.ts <= lastSeen[r.msg.chat]

EarlierFetches ==
    \A r \in reported : r.fetch <= fetches /\ (phase # "idle" => r.fetch < fetches)

UnreadAfterReports ==
    \A m \in unread, r \in reported : r.msg.chat = m.chat => r.msg.ts < m.ts

LatestAhead ==
    phase = "latest" =>
        /\ todo \subseteq unread
        /\ \A m \in unread : m.ts > lastSeen[m.chat]
        /\ \A c \in Chats : chatLatest[c] # 0 => chatLatest[c] > lastSeen[c]

LatestCovers == phase = "latest" => \A m \in unread \ todo : m.ts <= chatLatest[m.chat]

StoredCovers ==
    phase = "update" =>
        \A m \in unread : IF m.chat \in pending THEN m.ts <= chatLatest[m.chat]
                                              ELSE m.ts <= lastSeen[m.chat]

PendingAhead == phase = "update" => \A c \in pending : chatLatest[c] > lastSeen[c]

IdleEmpty == phase \in {"idle", "drain"} => unread = {}

StoreInv ==
    /\ TypeOK
    /\ SeenCoversReports
    /\ EarlierFetches
    /\ UnreadAfterReports
    /\ LatestAhead
    /\ LatestCovers
    /\ StoredCovers
    /\ PendingAhead
    /\ IdleEmpty
    /\ ReportsNewerThanEarlier

LEMMA StoreInvInit == SessionAssumption /\ Init => StoreInv
BY DEF Init, StoreInv, TypeOK, SeenCoversReports, EarlierFetches, UnreadAfterReports,
       LatestAhead, LatestCovers, StoredCovers, PendingAhead, IdleEmpty,
       ReportsNewerThanEarlier
(* The steps that change none of the store, the reports and FetchUnread's  *)
(* locals keep the strengthening.                                          *)
LEMMA StoreInvFrame ==
    ASSUME StoreInv, TypeOK',
           UNCHANGED <<reported, lastSeen, fetches, phase, unread, todo, chatLatest, pending>>
    PROVE  StoreInv'
BY DEF StoreInv, SeenCoversReports, EarlierFetches, UnreadAfterReports, LatestAhead,
       LatestCovers, StoredCovers, PendingAhead, IdleEmpty, ReportsNewerThanEarlier

(* Every step keeps the strengthening.                                     *)
LEMMA StoreInvStep == SessionAssumption /\ StoreInv /\ [Next]_vars => StoreInv'
<1> SUFFICES ASSUME SessionAssumption, StoreInv, [Next]_vars PROVE StoreInv'
  OBVIOUS
<1> USE SessionAssumption
<1>0. TypeOK /\ TypeOK'
  BY TypeStep DEF StoreInv
<1>9. /\ lastSeen \in [Chats -> 0..MaxTime] /\ lastSeen' \in [Chats -> 0..MaxTime]
      /\ chatLatest \in [Chats -> 0..MaxTime] /\ chatLatest' \in [Chats -> 0..MaxTime]
      /\ reported \subseteq [msg : Msg, fetch : 1..MaxFetches]
      /\ unread \subseteq Msg /\ fetches \in Nat
  <2>1. TypeOK
    BY <1>0
  <2>2. TypeOK'
    BY <1>0
  <2>3. /\ lastSeen \in [Chats -> 0..MaxTime] /\ chatLatest \in [Chats -> 0..MaxTime]
        /\ reported \subseteq [msg : Msg, fetch : 1..MaxFetches]
        /\ unread \subseteq Msg
    BY <2>1, Zenon DEF TypeOK
  <2>5. fetches \in Nat
    BY <2>1 DEF TypeOK
  <2>4. lastSeen' \in [Chats -> 0..MaxTime] /\ chatLatest' \in [Chats -> 0..MaxTime]
    BY <2>2, Zenon DEF TypeOK
  <2> QED
    BY <2>3, <2>4, <2>5
<1> USE DEF StoreInv
<1>1. CASE Tick \/ StartAPNS \/ DrainOne \/ Finished \/ UNCHANGED vars
  BY <1>0, <1>1, StoreInvFrame DEF Tick, StartAPNS, DrainOne, Finished, vars
<1>2. ASSUME NEW c \in Chats, HandleAPNSMessage(c) PROVE StoreInv'
  BY <1>0, <1>2, StoreInvFrame DEF HandleAPNSMessage
<1>3. CASE HandshakeFails \/ FetchStart
  <2>1. UNCHANGED <<reported, lastSeen, unread, todo, chatLatest, pending>>
        /\ fetches' = fetches + 1 /\ phase' \in {"idle", "drain"}
    BY <1>3 DEF HandshakeFails, FetchStart
  <2>2. phase = "idle"
    BY <1>3 DEF HandshakeFails, FetchStart
  <2>3. EarlierFetches'
    BY <1>0, <2>1 DEF EarlierFetches, TypeOK
  <2> QED
    BY <1>0, <2>1, <2>2, <2>3 DEF SeenCoversReports, UnreadAfterReports, LatestAhead,
       LatestCovers, StoredCovers, PendingAhead, IdleEmpty, ReportsNewerThanEarlier
<1>4. CASE DrainDone
  <2>1. /\ unread' = {m \in ToSet(batch) : m.ts > lastSeen[m.chat]}
        /\ todo' = unread' /\ phase' = "latest" /\ phase = "drain"
        /\ chatLatest' = [c \in Chats |-> 0]
        /\ UNCHANGED <<reported, lastSeen, fetches, pending>>
    BY <1>4 DEF DrainDone
  <2>2. UnreadAfterReports'
    <3> SUFFICES ASSUME NEW m \in unread', NEW r \in reported', r.msg.chat = m.chat
                 PROVE  r.msg.ts < m.ts
      BY DEF UnreadAfterReports
    <3>1. m \in ToSet(batch) /\ m.ts > lastSeen[m.chat]
      BY <2>1
    <3>2. m \in Msg
      BY <1>0, <3>1, ToSetMsg DEF TypeOK
    <3>3. r \in reported /\ r.msg \in Msg /\ r.msg.ts <= lastSeen[r.msg.chat]
      BY <1>9, <2>1 DEF SeenCoversReports
    <3>4. lastSeen[m.chat] \in Nat
      BY <1>9, <3>2 DEF Msg
    <3> QED
      BY <3>1, <3>2, <3>3, <3>4 DEF Msg
  <2>3. LatestAhead'
    BY <2>1 DEF LatestAhead
  <2> QED
    BY <1>0, <2>1, <2>2, <2>3 DEF SeenCoversReports, EarlierFetches, LatestCovers,
       StoredCovers, PendingAhead, IdleEmpty, ReportsNewerThanEarlier
<1>5. ASSUME NEW m \in Msg, FoldLatest(m) PROVE StoreInv'
  <2>1. /\ phase = "latest" /\ m \in todo /\ todo' = todo \ {m}
        /\ chatLatest' = [chatLatest EXCEPT ![m.chat] = IF m.ts > @ THEN m.ts ELSE @]
        /\ UNCHANGED <<reported, lastSeen, fetches, phase, unread, pending>>
    BY <1>5 DEF FoldLatest
  <2>5. /\ chatLatest'[m.chat] = IF m.ts > chatLatest[m.chat] THEN m.ts ELSE chatLatest[m.chat]
        /\ \A d \in Chats \ {m.chat} : chatLatest'[d] = chatLatest[d]
    <3>1. m.chat \in Chats /\ chatLatest \in [Chats -> 0..MaxTime]
      BY <1>0 DEF TypeOK, Msg
    <3> QED
      BY <2>1, <3>1
  <2>2. \A c \in Chats : chatLatest'[c] >= chatLatest[c]
    <3> SUFFICES ASSUME NEW c \in Chats PROVE chatLatest'[c] >= chatLatest[c]
      OBVIOUS
    <3>1. CASE c = m.chat
      BY <1>9, <2>5, <3>1 DEF Msg
    <3>2. CASE c # m.chat
      BY <1>9, <2>5, <3>2
    <3> QED
      BY <3>1, <3>2
  <2>3. LatestAhead'
    BY <1>0, <2>1, <2>5 DEF LatestAhead, TypeOK, Msg
  <2>4. LatestCovers'
    <3> SUFFICES ASSUME NEW x \in unread' \ todo' PROVE x.ts <= chatLatest'[x.chat]
      BY <2>1 DEF LatestCovers
    <3>1. x \in Msg
      BY <1>9, <2>1
    <3>2. CASE x = m
      BY <1>9, <2>5, <3>1, <3>2 DEF Msg
    <3>3. CASE x # m
      <4>1. x \in unread \ todo /\ x.ts <= chatLatest[x.chat]
        BY <2>1, <3>3 DEF LatestCovers
      <4> QED
        BY <1>9, <2>2, <3>1, <4>1 DEF Msg
    <3> QED
      BY <3>2, <3>3
  <2> QED
    BY <1>0, <2>1, <2>3, <2>4 DEF SeenCoversReports, EarlierFetches, UnreadAfterReports,
       StoredCovers, PendingAhead, IdleEmpty, ReportsNewerThanEarlier
<1>6. CASE LatestDone
  <2>1. /\ phase = "latest" /\ todo = {} /\ phase' = "update"
        /\ pending' = {c \in Chats : chatLatest[c] # 0}
        /\ UNCHANGED <<reported, lastSeen, fetches, unread, todo, chatLatest>>
    BY <1>6 DEF LatestDone
  <2>2. StoredCovers'
    BY <1>0, <2>1 DEF StoredCovers, LatestCovers, TypeOK, Msg
  <2>3. PendingAhead'
    BY <2>1 DEF PendingAhead, LatestAhead
  <2> QED
    BY <1>0, <2>1, <2>2, <2>3 DEF SeenCoversReports, EarlierFetches, UnreadAfterReports,
       LatestAhead, LatestCovers, IdleEmpty, ReportsNewerThanEarlier
<1>7. ASSUME NEW c \in Chats, SetLastSeen(c) PROVE StoreInv'
  <2>1. phase = "update" /\ c \in pending /\ UNCHANGED <<reported, fetches, todo, chatLatest>>
    BY <1>7 DEF SetLastSeen
  <2>2. CASE UpdateFails
    <3>1. phase' = "idle" /\ unread' = {} /\ pending' = {}
      BY <2>2 DEF UpdateFails
    <3>2. \A d \in Chats : lastSeen'[d] >= lastSeen[d]
      BY <1>0, <1>7, <2>1 DEF SetLastSeen, PendingAhead, TypeOK
    <3>3. SeenCoversReports'
      <4> SUFFICES ASSUME NEW r \in reported' PROVE r.msg.ts <= lastSeen'[r.msg.chat]
        BY DEF SeenCoversReports
      <4>1. r \in reported /\ r.msg \in Msg /\ r.msg.ts <= lastSeen[r.msg.chat]
        BY <1>9, <2>1 DEF SeenCoversReports
      <4> QED
        BY <1>9, <3>2, <4>1 DEF Msg
    <3> QED
      BY <1>0, <2>1, <3>1, <3>3 DEF EarlierFetches, UnreadAfterReports, LatestAhead,
         LatestCovers, StoredCovers, PendingAhead, IdleEmpty, ReportsNewerThanEarlier
  <2>3. CASE ~UpdateFails
    <3>1. /\ c # EmptyChat
          /\ lastSeen' = [lastSeen EXCEPT ![c] = chatLatest[c]]
          /\ pending' = pending \ {c}
          /\ UNCHANGED <<phase, unread>>
      BY <1>7, <2>3 DEF SetLastSeen
    <3>2. \A d \in Chats : lastSeen'[d] >= lastSeen[d]
      <4> SUFFICES ASSUME NEW d \in Chats PROVE lastSeen'[d] >= lastSeen[d]
        OBVIOUS
      <4>1. chatLatest[c] > lastSeen[c]
        BY <2>1 DEF PendingAhead
      <4> QED
        BY <1>9, <3>1, <4>1
    <3>3. SeenCoversReports'
      <4> SUFFICES ASSUME NEW r \in reported' PROVE r.msg.ts <= lastSeen'[r.msg.chat]
        BY DEF SeenCoversReports
      <4>1. r \in reported /\ r.msg \in Msg /\ r.msg.ts <= lastSeen[r.msg.chat]
        BY <1>9, <2>1 DEF SeenCoversReports
      <4> QED
        BY <1>9, <3>2, <4>1 DEF Msg
    <3>4. StoredCovers'
      BY <1>0, <2>1, <3>1 DEF StoredCovers, TypeOK, Msg
    <3>5. PendingAhead'
      <4> SUFFICES ASSUME NEW d \in pending' PROVE chatLatest'[d] > lastSeen'[d]
        BY <2>1, <3>1 DEF PendingAhead
      <4>1. d \in pending /\ d # c /\ chatLatest[d] > lastSeen[d]
        BY <2>1, <3>1 DEF PendingAhead
      <4> QED
        BY <1>9, <2>1, <3>1, <4>1
    <3> QED
      BY <1>0, <2>1, <3>1, <3>3, <3>4, <3>5 DEF EarlierFetches, UnreadAfterReports,
         LatestAhead, LatestCovers, IdleEmpty, ReportsNewerThanEarlier
  <2> QED
    BY <1>0, <2>2, <2>3
<1>8. CASE UpdateDone
  <2> DEFINE new == {[msg |-> m, fetch |-> fetches] : m \in unread}
  <2>1. /\ phase = "update" /\ pending = {} /\ phase' = "idle" /\ unread' = {}
        /\ reported' = reported \cup new
        /\ UNCHANGED <<lastSeen, fetches, todo, chatLatest, pending>>
    BY <1>8 DEF UpdateDone
  <2>2. SeenCoversReports'
    BY <1>0, <2>1 DEF SeenCoversReports, StoredCovers
  <2>3. EarlierFetches'
    BY <1>0, <2>1 DEF EarlierFetches, TypeOK
  <2>4. ReportsNewerThanEarlier'
    <3> SUFFICES ASSUME NEW r1 \in reported', NEW r2 \in reported',
                        r1.fetch < r2.fetch, r1.msg.chat = r2.msg.chat
                 PROVE  r1.msg.ts < r2.msg.ts
      BY DEF ReportsNewerThanEarlier
    <3>1. CASE r1 \in reported /\ r2 \in reported
      BY <3>1 DEF ReportsNewerThanEarlier
    <3>2. CASE r1 \in reported /\ r2 \in new
      BY <2>1, <3>2 DEF UnreadAfterReports
    <3>3. CASE r1 \in new
      BY <1>0, <2>1, <3>3 DEF EarlierFetches, TypeOK
    <3> QED
      BY <1>0, <2>1, <3>1, <3>2, <3>3
  <2> QED
    BY <1>0, <2>1, <2>2, <2>3, <2>4 DEF UnreadAfterReports, LatestAhead, LatestCovers,
       StoredCovers, PendingAhead, IdleEmpty
<1> QED
  BY <1>1, <1>2, <1>3, <1>4, <1>5, <1>6, <1>7, <1>8 DEF Next

(* FetchUnread never reports a message twice and a chat's reports never go *)
(* back in time, for every store, chat set, channel capacity and bound.    *)
THEOREM ReportsOrdered == Spec => []ReportsNewerThanEarlier
<1>1. SessionAssumption /\ Init => StoreInv
  BY StoreInvInit
<1>2. StoreInv => ReportsNewerThanEarlier
  BY DEF StoreInv
<1>3. QED
  BY <1>1, <1>2, StoreInvStep, SessionAssumption, PTL DEF Spec

(* No step of filterUnread and updateStore moves a last-seen time back,    *)
(* including the error returns of updateStore and a FileStore that held    *)
(* later times than the clock.                                             *)
THEOREM StoreMonotone == Spec => StoreNeverRegresses
<1>1. SessionAssumption /\ StoreInv /\ [Next]_vars => \A c \in Chats : lastSeen'[c] >= lastSeen[c]
  <2> SUFFICES ASSUME SessionAssumption, StoreInv, [Next]_vars, NEW c \in Chats
               PROVE  lastSeen'[c] >= lastSeen[c]
    OBVIOUS
  <2>1. lastSeen \in [Chats -> 0..MaxTime]
    BY DEF StoreInv, TypeOK
  <2>2. ASSUME NEW d \in Chats, SetLastSeen(d) PROVE lastSeen'[c] >= lastSeen[c]
    <3>1. CASE lastSeen' = lastSeen
      BY <2>1, <3>1
    <3>2. CASE lastSeen' = [lastSeen EXCEPT ![d] = chatLatest[d]]
      <4>1. chatLatest[d] > lastSeen[d] /\ chatLatest[d] \in Nat
        BY <2>2 DEF SetLastSeen, StoreInv, PendingAhead, TypeOK
      <4> QED
        BY <2>1, <3>2, <4>1
    <3> QED
      BY <2>2, <3>1, <3>2 DEF SetLastSeen, UpdateFails
  <2>3. CASE ~\E d \in Chats : SetLastSeen(d)
    <3>1. lastSeen' = lastSeen
      BY <2>3 DEF Next, vars, Tick, StartAPNS, HandleAPNSMessage, HandshakeFails,
         FetchStart, DrainOne, DrainDone, FoldLatest, LatestDone, UpdateDone, Finished
    <3> QED
      BY <2>1, <3>1
  <2> QED
    BY <2>2, <2>3
<1>2. QED
  BY <1>1, StoreInvInit, StoreInvStep, SessionAssumption, PTL DEF Spec, StoreNeverRegresses
-----------------------------------------------------------------------------
(* The refinement of StoreUpdate.                                          *)

(* What StoreInv lacks for the refinement.  The first loop of updateStore  *)
(* records for a chat only a time one of the visited messages has          *)
(* (LatestAttained), so that when it ends chatLatest is the latest time of *)
(* each chat; and the second loop's chats are empty whenever it is not     *)
(* running (PendingOnlyInUpdate), as a new call's Begin must find them.    *)
LatestAttained ==
    phase = "latest" =>
        \A c \in Chats :
            chatLatest[c] = 0 \/ \E m \in unread \ todo : m.chat = c /\ m.ts = chatLatest[c]

PendingOnlyInUpdate == phase # "update" => pending = {}

RefInv == StoreInv /\ LatestAttained /\ PendingOnlyInUpdate
LEMMA RefInvInit == Init => RefInv
BY StoreInvInit, SessionAssumption DEF Init, RefInv, LatestAttained, PendingOnlyInUpdate

(* The first loop's step records the time of the message it visits only   *)
(* when it is later, so each recorded time is still one of a visited       *)
(* message's.                                                              *)
LEMMA FoldAttains ==
    ASSUME NEW m \in Msg, RefInv, FoldLatest(m)
    PROVE  LatestAttained'
<1> SUFFICES ASSUME NEW c \in Chats, chatLatest'[c] # 0
             PROVE  \E x \in unread' \ todo' : x.chat = c /\ x.ts = chatLatest'[c]
  BY DEF FoldLatest, LatestAttained
<1>1. /\ phase = "latest" /\ m \in todo /\ todo' = todo \ {m} /\ unread' = unread
      /\ chatLatest' = [chatLatest EXCEPT ![m.chat] = IF m.ts > @ THEN m.ts ELSE @]
  BY DEF FoldLatest
<1>2. m.chat \in Chats /\ chatLatest \in [Chats -> 0..MaxTime] /\ todo \subseteq unread
  BY <1>1 DEF RefInv, StoreInv, TypeOK, LatestAhead, Msg
<1>3. CASE c = m.chat /\ m.ts > chatLatest[c]
  <2>1. chatLatest'[c] = m.ts
    BY <1>1, <1>2, <1>3
  <2> QED
    BY <1>1, <1>2, <1>3, <2>1
<1>4. CASE ~(c = m.chat /\ m.ts > chatLatest[c])
  <2>1. chatLatest'[c] = chatLatest[c]
    BY <1>1, <1>2, <1>4
  <2>2. PICK x \in unread \ todo : x.chat = c /\ x.ts = chatLatest[c]
    BY <1>1, <2>1 DEF RefInv, LatestAttained
  <2> QED
    BY <1>1, <2>1, <2>2
<1> QED
  BY <1>3, <1>4

(* Every step keeps the refinement's invariant.                            *)
LEMMA RefInvStep == RefInv /\ [Next]_vars => RefInv'
<1> SUFFICES ASSUME RefInv, [Next]_vars PROVE RefInv'
  OBVIOUS
<1>0. StoreInv'
  BY StoreInvStep, SessionAssumption DEF RefInv
<1>1. CASE Tick \/ StartAPNS \/ DrainOne \/ Finished \/ UNCHANGED vars
  BY <1>0, <1>1 DEF Tick, StartAPNS, DrainOne, Finished, vars, RefInv, LatestAttained,
                    PendingOnlyInUpdate
<1>2. ASSUME NEW c \in Chats, HandleAPNSMessage(c) PROVE RefInv'
  BY <1>0, <1>2 DEF HandleAPNSMessage, RefInv, LatestAttained, PendingOnlyInUpdate
<1>3. CASE HandshakeFails \/ FetchStart
  BY <1>0, <1>3 DEF HandshakeFails, FetchStart, RefInv, LatestAttained, PendingOnlyInUpdate
<1>4. CASE DrainDone
  BY <1>0, <1>4 DEF DrainDone, RefInv, LatestAttained, PendingOnlyInUpdate
<1>5. ASSUME NEW m \in Msg, FoldLatest(m) PROVE RefInv'
  BY <1>0, <1>5, FoldAttains DEF FoldLatest, RefInv, PendingOnlyInUpdate
<1>6. CASE LatestDone
  BY <1>0, <1>6 DEF LatestDone, RefInv, LatestAttained, PendingOnlyInUpdate
<1>7. ASSUME NEW c \in Chats, SetLastSeen(c) PROVE RefInv'
  <2>1. phase' \in {"update", "idle"} /\ (phase' = "idle" => pending' = {})
    BY <1>7 DEF SetLastSeen, UpdateFails
  <2> QED
    BY <1>0, <2>1 DEF RefInv, LatestAttained, PendingOnlyInUpdate
<1>8. CASE UpdateDone
  BY <1>0, <1>8 DEF UpdateDone, RefInv, LatestAttained, PendingOnlyInUpdate
<1> QED
  BY <1>1, <1>2, <1>3, <1>4, <1>5, <1>6, <1>7, <1>8 DEF Next
LEMMA StoreInitRefines == Init => SU!Init
BY DEF Init, SU!Init, StorePhase, TakenUnread, TakenLatest, SU!NoLatest

(* When the first loop ends, chatLatest holds the latest time per chat of  *)
(* the messages filterUnread kept, all newer than the store's.             *)
LEMMA LatestDoneTakes == RefInv /\ LatestDone => SU!Take
<1> SUFFICES ASSUME RefInv, LatestDone PROVE SU!Take
  OBVIOUS
<1>1. /\ phase = "latest" /\ todo = {} /\ phase' = "update"
      /\ pending' = {c \in Chats : chatLatest[c] # 0}
      /\ UNCHANGED <<reported, lastSeen, fetches, unread, chatLatest, result>>
  BY DEF LatestDone
<1>2. unread \subseteq {m \in Msg : m.ts > lastSeen[m.chat]}
  BY <1>1 DEF RefInv, StoreInv, TypeOK, LatestAhead
<1>3. chatLatest \in [Chats -> 0..MaxTime]
  BY DEF RefInv, StoreInv, TypeOK
<1>4. SU!Latest(chatLatest, unread)
  <2>1. \A m \in unread : m.ts <= chatLatest[m.chat]
    BY <1>1 DEF RefInv, StoreInv, LatestCovers
  <2>2. \A c \in Chats : chatLatest[c] = 0 \/ \E m \in unread : m.chat = c /\ m.ts = chatLatest[c]
    BY <1>1 DEF RefInv, LatestAttained
  <2> QED
    BY <2>1, <2>2 DEF SU!Latest
<1> QED
  BY <1>1, <1>2, <1>3, <1>4 DEF SU!Take, StorePhase, TakenUnread, TakenLatest

(* Each step of the session is a step of StoreUpdate or leaves its         *)
(* variables as they were: a failed handshake is Refuse, FetchStart is     *)
(* Begin, the end of the first loop is Take, SetLastSeen is Store and the  *)
(* return of the unread messages is Report; the clock, the read loop, the *)
(* drain and the first loop's steps are stutters.                          *)
LEMMA StoreStepRefines == RefInv /\ [Next]_vars => [SU!Next]_SU!vars
<1> SUFFICES ASSUME RefInv, [Next]_vars PROVE [SU!Next]_SU!vars
  OBVIOUS
<1> USE DEF SU!vars, StorePhase, TakenUnread, TakenLatest
<1>1. CASE Tick \/ StartAPNS \/ DrainOne \/ Finished \/ UNCHANGED vars
  BY <1>1 DEF Tick, StartAPNS, DrainOne, Finished, vars
<1>2. ASSUME NEW c \in Chats, HandleAPNSMessage(c) PROVE [SU!Next]_SU!vars
  BY <1>2 DEF HandleAPNSMessage
<1>3. CASE HandshakeFails
  BY <1>3 DEF HandshakeFails, SU!Next, SU!Refuse
<1>4. CASE FetchStart
  BY <1>4 DEF FetchStart, SU!Next, SU!Begin, RefInv, PendingOnlyInUpdate
<1>5. CASE DrainDone
  BY <1>5 DEF DrainDone
<1>6. ASSUME NEW m \in Msg, FoldLatest(m) PROVE [SU!Next]_SU!vars
  BY <1>6 DEF FoldLatest
<1>7. CASE LatestDone
  BY <1>7, LatestDoneTakes DEF SU!Next
<1>8. ASSUME NEW c \in Chats, SetLastSeen(c) PROVE [SU!Next]_SU!vars
  <2>1. SU!Store(c)
    BY <1>8 DEF SetLastSeen, UpdateFails, SU!Store, SU!Fail, SU!NoLatest
  <2> QED
    BY <2>1 DEF SU!Next
<1>9. CASE UpdateDone
  BY <1>9 DEF UpdateDone, SU!Next, SU!Report, SU!NoLatest
<1> QED
  BY <1>1, <1>2, <1>3, <1>4, <1>5, <1>6, <1>7, <1>8, <1>9 DEF Next

(* For every store, chat set, channel capacity and bound, FetchUnread      *)
(* implements StoreUpdate: it reports only messages newer than the store's *)
(* time for their chat, stores for each chat the latest time among them    *)
(* whichever order updateStore visits them in, and returns all it took.    *)
THEOREM StoreRefinement == Spec => ImplementsStoreUpdate
<1>1. Spec => []RefInv
  BY RefInvInit, RefInvStep, PTL DEF Spec
<1>2. []RefInv /\ [][Next]_vars => [][SU!Next]_SU!vars
  BY StoreStepRefines, PTL
<1> QED
  BY <1>1, <1>2, StoreInitRefines, PTL DEF Spec, ImplementsStoreUpdate, SU!Spec
=============================================================================
