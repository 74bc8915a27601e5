--------------------------- MODULE StoreFileProofs ---------------------------
(***************************************************************************)
(* Proofs about the FileStore across runs of the command (StoreFile.tla),  *)
(* for every set of chats and runs and every time bound.                   *)
(***************************************************************************)
EXTENDS StoreFile, TLAPS

USE StoreFileAssumption

\* A run between its load and its end.
Working(p) == pc[p] \in {"ready", "open", "write"}

\* Unless a save is cut short, the file holds the last map written whole.
FileMatches == disk # Torn => disk.seen = good

\* A working run's map is at least as late, chat by chat, as that map.
AheadOfFile == \A p \in Procs : Working(p) => \A c \in Chats : mem[p][c] >= good[c]

\* A run that has loaded comes after runs that have all ended.
InTurn == \A p, q \in Procs : pc[p] # "new" /\ q < p => Ended(q)

(* The strengthening of SavedNeverRegresses and of the refinement: the    *)
(* torn file is never loaded (FileMatches), so a run starts from the last  *)
(* complete save and only raises it (AheadOfFile); with runs in turn        *)
(* (InTurn) no other run's save comes between.                              *)
Inv == TypeOK /\ FileMatches /\ AheadOfFile /\ InTurn

-----------------------------------------------------------------------------
(* Lemmas.                                                                 *)

(* Two runs never work at the same time when runs do not overlap.         *)
LEMMA OneWorking ==
    ASSUME TypeOK, InTurn, NEW p \in Procs, NEW q \in Procs, Working(p), Working(q)
    PROVE  p = q
<1>1. p \in Nat /\ q \in Nat
  BY StoreFileAssumption
<1>2. ~(q < p) /\ ~(p < q)
  BY DEF InTurn, Working, Ended
<1> QED
  BY <1>1, <1>2

(* The time of a chat in any map is a natural number.                      *)
LEMMA MapTimes ==
    ASSUME NEW m \in Maps, NEW c \in Chats
    PROVE  m[c] \in Nat
BY DEF Maps

-----------------------------------------------------------------------------
(* Type correctness.                                                       *)

LEMMA TypeInductive == TypeOK /\ [Next]_vars => TypeOK'
<1> SUFFICES ASSUME TypeOK, [Next]_vars PROVE TypeOK'
  OBVIOUS
<1> USE DEF TypeOK
<1>1. ASSUME NEW p \in Procs, Load(p) PROVE TypeOK'
  BY <1>1 DEF Load, Files, Json, Absent, Torn, Empty, Maps
<1>2. ASSUME NEW p \in Procs, NEW c \in Chats, NEW ts \in 1..MaxTime, SetLastSeen(p, c, ts)
      PROVE  TypeOK'
  BY <1>2 DEF SetLastSeen, Maps
<1>3. ASSUME NEW p \in Procs, SaveOpen(p) PROVE TypeOK'
  BY <1>3 DEF SaveOpen, Files
<1>4. ASSUME NEW p \in Procs, SaveWrite(p) PROVE TypeOK'
  BY <1>4 DEF SaveWrite, Files
<1>5. ASSUME NEW p \in Procs, Finish(p) \/ Crash(p) PROVE TypeOK'
  BY <1>5 DEF Finish, Crash
<1>6. CASE AllEnded \/ UNCHANGED vars
  BY <1>6 DEF AllEnded, vars
<1> QED
  BY <1>1, <1>2, <1>3, <1>4, <1>5, <1>6 DEF Next

(* Every state the runs and the file reach is well typed.                  *)
THEOREM TypeCorrect == Spec => []TypeOK
<1>1. Init => TypeOK
  BY DEF Init, TypeOK, Files, Json, Absent, Empty, Maps
<1> QED
  BY <1>1, TypeInductive, PTL DEF Spec


-----------------------------------------------------------------------------
(* The strengthening is inductive when runs do not overlap.                *)

\* The states a run goes through.
PcStates == {"new", "ready", "open", "write", "done", "failed", "crashed"}

(* A step of a working run that leaves it working or ends it keeps the     *)
(* runs in turn.                                                           *)
LEMMA InTurnKept ==
    ASSUME TypeOK, InTurn, NEW p \in Procs, Working(p),
           NEW s \in PcStates \ {"new"}, pc' = [pc EXCEPT ![p] = s]
    PROVE  InTurn'
BY DEF InTurn, Working, Ended, TypeOK, PcStates

(* A step of a working run that keeps its map and the file's, and after    *)
(* which it is no longer at "ready", keeps every working run ahead.        *)
LEMMA AheadKept ==
    ASSUME TypeOK, AheadOfFile, NEW p \in Procs, Working(p),
           NEW s \in {"open", "write", "done", "failed", "crashed"},
           pc' = [pc EXCEPT ![p] = s], mem' = mem, good' = good
    PROVE  AheadOfFile'
BY DEF AheadOfFile, Working, TypeOK

LEMMA InvInductive ==
    ASSUME ~Overlap
    PROVE  Inv /\ [Next]_vars => Inv'
<1> SUFFICES ASSUME Inv, [Next]_vars PROVE Inv'
  OBVIOUS
<1>0. TypeOK /\ TypeOK'
  BY TypeInductive DEF Inv
<1> HIDE DEF Inv
<1>1. ASSUME NEW p \in Procs, Load(p) PROVE Inv'
  <2>1. FileMatches'
    BY <1>1, <1>0 DEF Inv, FileMatches, Load
  <2>2. AheadOfFile'
    BY <1>1, <1>0 DEF Inv, AheadOfFile, FileMatches, Working, Load, TypeOK, Maps
  <2>3. InTurn'
    <3> SUFFICES ASSUME NEW r \in Procs, NEW q \in Procs, pc'[r] # "new", q < r
                 PROVE  Ended(q)'
      BY DEF InTurn
    <3>1. \A x \in Procs : x < p => Ended(x)
      BY <1>1 DEF Load
    <3>2. CASE r = p
      BY <3>1, <3>2, <1>1, <1>0 DEF Load, Ended, TypeOK
    <3>3. CASE r # p
      <4>1. Ended(q)
        BY <3>3, <1>1, <1>0 DEF Inv, InTurn, Load, TypeOK
      <4>2. q # p
        BY <4>1, <1>1 DEF Load, Ended
      <4> QED
        BY <4>1, <4>2, <1>1, <1>0 DEF Load, Ended, TypeOK
    <3> QED
      BY <3>2, <3>3
  <2> QED
    BY <1>0, <2>1, <2>2, <2>3 DEF Inv
<1>2. ASSUME NEW p \in Procs, NEW c \in Chats, NEW ts \in 1..MaxTime, SetLastSeen(p, c, ts)
      PROVE  Inv'
  <2>1. FileMatches'
    BY <1>2 DEF Inv, FileMatches, SetLastSeen
  <2>2. AheadOfFile'
    BY <1>2, <1>0 DEF Inv, AheadOfFile, Working, SetLastSeen, TypeOK, Maps
  <2>3. InTurn'
    BY <1>2, <1>0, InTurnKept DEF Inv, SetLastSeen, Working, PcStates
  <2> QED
    BY <1>0, <2>1, <2>2, <2>3 DEF Inv
<1>3. ASSUME NEW p \in Procs, SaveOpen(p) PROVE Inv'
  <2>1. FileMatches'
    BY <1>3 DEF Inv, FileMatches, SaveOpen
  <2>2. AheadOfFile'
    BY <1>3, <1>0, AheadKept DEF Inv, SaveOpen, Working
  <2>3. InTurn'
    BY <1>3, <1>0, InTurnKept DEF Inv, SaveOpen, Working, PcStates
  <2> QED
    BY <1>0, <2>1, <2>2, <2>3 DEF Inv
<1>4. ASSUME NEW p \in Procs, SaveWrite(p) PROVE Inv'
  <2>1. FileMatches'
    BY <1>4 DEF Inv, FileMatches, SaveWrite, Json, Torn
  <2>2. AheadOfFile'
    <3>1. CASE good' = mem[p] /\ pc' = [pc EXCEPT ![p] = "ready"]
      <4> SUFFICES ASSUME NEW r \in Procs, Working(r)', NEW c \in Chats
                   PROVE  mem'[r][c] >= good'[c]
        BY DEF AheadOfFile
      <4>1. Working(r)
        BY <1>4, <1>0 DEF Working, SaveWrite, TypeOK
      <4>2. r = p
        BY <4>1, <1>4, <1>0, OneWorking DEF Inv, Working, SaveWrite
      <4> QED
        BY <4>2, <3>1, <1>4, <1>0, MapTimes DEF SaveWrite, TypeOK
    <3>2. CASE pc' = [pc EXCEPT ![p] = "failed"] /\ UNCHANGED good
      BY <3>2, <1>4, <1>0, AheadKept DEF Inv, SaveWrite, Working
    <3> QED
      BY <3>1, <3>2, <1>4 DEF SaveWrite
  <2>3. InTurn'
    BY <1>4, <1>0, InTurnKept DEF Inv, SaveWrite, Working, PcStates
  <2> QED
    BY <1>0, <2>1, <2>2, <2>3 DEF Inv
<1>5. ASSUME NEW p \in Procs, Finish(p) \/ Crash(p) PROVE Inv'
  <2>1. FileMatches'
    BY <1>5 DEF Inv, FileMatches, Finish, Crash
  <2>2. AheadOfFile'
    BY <1>5, <1>0, AheadKept DEF Inv, Finish, Crash, Working
  <2>3. InTurn'
    BY <1>5, <1>0, InTurnKept DEF Inv, Finish, Crash, Working, PcStates
  <2> QED
    BY <1>0, <2>1, <2>2, <2>3 DEF Inv
<1>6. CASE AllEnded \/ UNCHANGED vars
  <2>1. disk' = disk /\ pc' = pc /\ mem' = mem /\ good' = good
    BY <1>6 DEF AllEnded, vars
  <2>2. FileMatches' /\ AheadOfFile'
    BY <2>1 DEF Inv, FileMatches, AheadOfFile, Working
  <2>3. InTurn'
    BY <2>1 DEF Inv, InTurn, Ended
  <2> QED
    BY <1>0, <2>2, <2>3 DEF Inv
<1> QED
  BY <1>1, <1>2, <1>3, <1>4, <1>5, <1>6 DEF Next


-----------------------------------------------------------------------------
(* The file's history, and the refinement of LastSeenStore.               *)

(* The file's last complete map never goes back in time when runs do not  *)
(* overlap: a save writes the map of the only working run, which is ahead  *)
(* of the file (AheadOfFile).                                              *)
THEOREM SavedMonotone ==
    ASSUME ~Overlap
    PROVE  Spec => SavedNeverRegresses
<1>1. Init => Inv
  BY DEF Init, Inv, TypeOK, Files, Json, Absent, Empty, Maps, FileMatches,
         AheadOfFile, Working, InTurn
<1>2. Inv /\ [Next]_vars => Inv'
  BY InvInductive
<1>3. Inv /\ [Next]_vars => [\A c \in Chats : good'[c] >= good[c]]_vars
  <2> SUFFICES ASSUME Inv, [Next]_vars, NEW c \in Chats PROVE good'[c] >= good[c]
    OBVIOUS
  <2>1. good[c] \in Nat
    BY MapTimes DEF Inv, TypeOK
  <2>2. CASE \E p \in Procs : SaveWrite(p) /\ good' = mem[p]
    <3>1. PICK p \in Procs : SaveWrite(p) /\ good' = mem[p]
      BY <2>2
    <3>2. Working(p)
      BY <3>1 DEF SaveWrite, Working
    <3> QED
      BY <3>1, <3>2 DEF Inv, AheadOfFile
  <2>3. CASE ~\E p \in Procs : SaveWrite(p) /\ good' = mem[p]
    <3>1. good' = good
      BY <2>3 DEF Next, Load, SetLastSeen, SaveOpen, SaveWrite, Finish, Crash,
                  AllEnded, vars
    <3> QED
      BY <3>1, <2>1
  <2> QED
    BY <2>2, <2>3
<1> QED
  BY <1>1, <1>2, <1>3, PTL DEF Spec, SavedNeverRegresses

(* How a step of run p changes what LastSeenStore sees of the runs.       *)
LEMMA RunOfUpdate ==
    ASSUME TypeOK, NEW p \in Procs, NEW s \in PcStates, pc' = [pc EXCEPT ![p] = s]
    PROVE  RunOf' = [RunOf EXCEPT ![p] = IF s = "new" THEN "new"
                                         ELSE IF s \in {"done", "failed", "crashed"}
                                              THEN "ended" ELSE "active"]
BY DEF RunOf, Ended, TypeOK, PcStates

(* A step that leaves an active run active leaves RunOf as it is.          *)
LEMMA RunOfSame ==
    ASSUME NEW p \in Procs, RunOf[p] = "active"
    PROVE  [RunOf EXCEPT ![p] = "active"] = RunOf
BY DEF RunOf

LEMMA StepRefines ==
    ASSUME ~Overlap
    PROVE  Inv /\ [Next]_vars => [LSS!Next]_LSS!vars
<1> SUFFICES ASSUME Inv, [Next]_vars PROVE [LSS!Next]_LSS!vars
  OBVIOUS
<1>0. TypeOK
  BY DEF Inv
<1>1. ASSUME NEW p \in Procs, Load(p) PROVE [LSS!Next]_LSS!vars
  <2>1. RunOf[p] = "new" /\ LSS!Turn(p)
    BY <1>1, <1>0 DEF Load, RunOf, Ended, LSS!Turn, TypeOK
  <2>2. CASE disk = Torn
    <3>1. RunOf' = [RunOf EXCEPT ![p] = "ended"]
      BY <2>2, <1>1, <1>0, RunOfUpdate DEF Load, PcStates
    <3>2. LSS!Refuse(p)
      BY <3>1, <2>1, <2>2, <1>1 DEF LSS!Refuse, Load
    <3> QED
      BY <3>2 DEF LSS!Next
  <2>3. CASE disk # Torn
    <3>1. RunOf' = [RunOf EXCEPT ![p] = "active"]
      BY <2>3, <1>1, <1>0, RunOfUpdate DEF Load, PcStates
    <3>2. mem' = [mem EXCEPT ![p] = good]
      BY <2>3, <1>1 DEF Load, Inv, FileMatches
    <3>3. LSS!Start(p)
      BY <3>1, <3>2, <2>1, <1>1 DEF LSS!Start, Load
    <3> QED
      BY <3>3 DEF LSS!Next
  <2> QED
    BY <2>2, <2>3
<1>2. ASSUME NEW p \in Procs, NEW c \in Chats, NEW ts \in 1..MaxTime, SetLastSeen(p, c, ts)
      PROVE  [LSS!Next]_LSS!vars
  <2>1. RunOf' = RunOf /\ RunOf[p] = "active"
    <3>1. RunOf' = [RunOf EXCEPT ![p] = "active"]
      BY <1>2, <1>0, RunOfUpdate DEF SetLastSeen, PcStates
    <3>2. RunOf[p] = "active"
      BY <1>2 DEF SetLastSeen, RunOf, Ended
    <3> QED
      BY <3>1, <3>2, RunOfSame
  <2>2. LSS!Advance(p, c, ts)
    BY <2>1, <1>2 DEF LSS!Advance, SetLastSeen
  <2> QED
    BY <2>2 DEF LSS!Next
<1>3. ASSUME NEW p \in Procs, SaveOpen(p) PROVE [LSS!Next]_LSS!vars
  <2>1. RunOf[p] = "active"
    BY <1>3 DEF SaveOpen, RunOf, Ended
  <2>2. CASE pc' = [pc EXCEPT ![p] = "failed"]
    <3>1. RunOf' = [RunOf EXCEPT ![p] = "ended"]
      BY <2>2, <1>0, RunOfUpdate DEF PcStates
    <3>2. LSS!End(p)
      BY <3>1, <2>1, <1>3 DEF LSS!End, SaveOpen
    <3> QED
      BY <3>2 DEF LSS!Next
  <2>3. CASE pc' = [pc EXCEPT ![p] = "write"]
    <3>1. RunOf' = RunOf
      <4>1. RunOf' = [RunOf EXCEPT ![p] = "active"]
        BY <2>3, <1>0, RunOfUpdate DEF PcStates
      <4> QED
        BY <4>1, <2>1, RunOfSame
    <3> QED
      BY <3>1, <1>3 DEF SaveOpen, LSS!vars
  <2> QED
    BY <2>2, <2>3, <1>3 DEF SaveOpen
<1>4. ASSUME NEW p \in Procs, SaveWrite(p) PROVE [LSS!Next]_LSS!vars
  <2>1. RunOf[p] = "active"
    BY <1>4 DEF SaveWrite, RunOf, Ended
  <2>2. CASE pc' = [pc EXCEPT ![p] = "ready"] /\ good' = mem[p]
    <3>1. RunOf' = RunOf
      <4>1. RunOf' = [RunOf EXCEPT ![p] = "active"]
        BY <2>2, <1>0, RunOfUpdate DEF PcStates
      <4> QED
        BY <4>1, <2>1, RunOfSame
    <3>2. LSS!Save(p)
      BY <3>1, <2>1, <2>2, <1>4 DEF LSS!Save, SaveWrite
    <3> QED
      BY <3>2 DEF LSS!Next
  <2>3. CASE pc' = [pc EXCEPT ![p] = "failed"] /\ good' = good
    <3>1. RunOf' = [RunOf EXCEPT ![p] = "ended"]
      BY <2>3, <1>0, RunOfUpdate DEF PcStates
    <3>2. LSS!End(p)
      BY <3>1, <2>1, <2>3, <1>4 DEF LSS!End, SaveWrite
    <3> QED
      BY <3>2 DEF LSS!Next
  <2> QED
    BY <2>2, <2>3, <1>4 DEF SaveWrite
<1>5. ASSUME NEW p \in Procs, Finish(p) \/ Crash(p) PROVE [LSS!Next]_LSS!vars
  <2>1. RunOf[p] = "active"
    BY <1>5 DEF Finish, Crash, RunOf, Ended
  <2>2. \E s \in {"done", "crashed"} : pc' = [pc EXCEPT ![p] = s]
    BY <1>5 DEF Finish, Crash
  <2>3. RunOf' = [RunOf EXCEPT ![p] = "ended"]
    BY <2>2, <1>0, RunOfUpdate DEF PcStates
  <2>4. LSS!End(p)
    BY <2>1, <2>3, <1>5 DEF LSS!End, Finish, Crash
  <2> QED
    BY <2>4 DEF LSS!Next
<1>6. CASE AllEnded \/ UNCHANGED vars
  BY <1>6 DEF AllEnded, vars, LSS!vars, RunOf, Ended
<1> QED
  BY <1>1, <1>2, <1>3, <1>4, <1>5, <1>6 DEF Next

(* Runs of check-messages that do not overlap see the FileStore as the   *)
(* atomic store LastSeenStore: each loads the last complete save, a torn   *)
(* file never reaches a run, and every save puts back one run's map.       *)
THEOREM Refinement ==
    ASSUME ~Overlap
    PROVE  Spec => ImplementsLastSeenStore
<1>1. Init => Inv
  BY DEF Init, Inv, TypeOK, Files, Json, Absent, Empty, Maps, FileMatches,
         AheadOfFile, Working, InTurn
<1>2. Init => LSS!Init
  BY DEF Init, LSS!Init, RunOf, Ended, Json, Absent, Empty, Maps, LSS!Maps
<1>3. Inv /\ [Next]_vars => Inv'
  BY InvInductive
<1>4. Inv /\ [Next]_vars => [LSS!Next]_LSS!vars
  BY StepRefines
<1> QED
  BY <1>1, <1>2, <1>3, <1>4, PTL DEF Spec, ImplementsLastSeenStore, LSS!Spec

=============================================================================
