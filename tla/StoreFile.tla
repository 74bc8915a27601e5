------------------------------ MODULE StoreFile ------------------------------
(***************************************************************************)
(* The FileStore (messaging/apns/binary.go) as the check-messages command  *)
(* uses it with --store: each run of the command is a process that loads   *)
(* the JSON file once (NewFileStore), and then, in updateStore, calls      *)
(* SetLastSeen for each chat with news; every SetLastSeen saves the whole  *)
(* map by truncating the file and writing it again.  Processes may crash   *)
(* at any point; the file outlives them.                                   *)
(*                                                                         *)
(* The file is absent, a JSON map chat -> time (a chat the map lacks has  *)
(* the zero time, 0, which is also what LastSeen returns for it), or torn: *)
(* empty or cut short, which json.Unmarshal refuses.                       *)
(***************************************************************************)
EXTENDS Naturals

CONSTANTS
    Chats,    \* chat keys
    Procs,    \* runs of the command, numbered in the order they start
    MaxTime,  \* bound on timestamps
    Overlap   \* whether a run may start before the previous one has ended

ASSUME StoreFileAssumption ==
    /\ Procs \subseteq Nat
    /\ MaxTime \in Nat
    /\ Overlap \in BOOLEAN

Maps == [Chats -> 0..MaxTime]

Empty == [c \in Chats |-> 0]

\* The file's contents.
Json(m) == [kind |-> "json", seen |-> m]
Absent == [kind |-> "absent", seen |-> Empty]
Torn == [kind |-> "torn", seen |-> Empty]
Files == {Absent, Torn} \cup {Json(m) : m \in Maps}

VARIABLES
    disk,   \* the file at f.path
    pc,     \* each process: "new", "ready", "open", "write", "done", "failed", "crashed"
    mem,    \* each process's f.seen
    good    \* ghost: the last map that was written to the file completely

vars == <<disk, pc, mem, good>>

\* A process that has ended, one way or another.
Ended(p) == pc[p] \in {"done", "failed", "crashed"}

-----------------------------------------------------------------------------
(* The file an earlier version of the program left, or none.               *)
Init ==
    /\ disk \in {Absent} \cup {Json(m) : m \in Maps}
    /\ pc = [p \in Procs |-> "new"]
    /\ mem = [p \in Procs |-> Empty]
    /\ good = disk.seen

\* Mutant: load treats a file it cannot decode as an empty store.
LoadTreatingErrorAsEmpty(p) ==
    /\ pc[p] = "new"
    /\ Overlap \/ \A q \in Procs : q < p => Ended(q)
    /\ pc' = [pc EXCEPT ![p] = "ready"]
    /\ mem' = [mem EXCEPT ![p] = disk.seen]
    /\ UNCHANGED <<disk, good>>

(* NewFileStore and load: a missing file is an empty store, a file that    *)
(* does not decode is an error, and the command then exits with "failed to *)
(* initialize store".                                                      *)
Load(p) ==
    /\ pc[p] = "new"
    /\ Overlap \/ \A q \in Procs : q < p => Ended(q)
    /\ \/ /\ disk = Torn
          /\ pc' = [pc EXCEPT ![p] = "failed"]
          /\ UNCHANGED mem
       \/ /\ disk # Torn
          /\ pc' = [pc EXCEPT ![p] = "ready"]
          /\ mem' = [mem EXCEPT ![p] = disk.seen]
    /\ UNCHANGED <<disk, good>>

(* updateStore calls SetLastSeen(chat, ts) with the latest new time of the *)
(* chat, later than f.seen[chat] (filterUnread kept only later messages);  *)
(* f.seen[chat] = ts, and save begins.                                     *)
SetLastSeen(p, c, ts) ==
    /\ pc[p] = "ready"
    /\ ts > mem[p][c]
    /\ mem' = [mem EXCEPT ![p][c] = ts]
    /\ pc' = [pc EXCEPT ![p] = "open"]
    /\ UNCHANGED <<disk, good>>

(* save up to the write: MkdirAll and OpenFile with O_TRUNC.  Either may   *)
(* fail, and SetLastSeen, updateStore and the command return the error;    *)
(* once the file is open it is empty.                                      *)
SaveOpen(p) ==
    /\ pc[p] = "open"
    /\ \/ /\ pc' = [pc EXCEPT ![p] = "failed"]
          /\ UNCHANGED disk
       \/ /\ pc' = [pc EXCEPT ![p] = "write"]
          /\ disk' = Torn
    /\ UNCHANGED <<mem, good>>

(* enc.Encode(tmp) writes the whole map, or fails (the disk is full) and   *)
(* leaves the file as it is.                                               *)
SaveWrite(p) ==
    /\ pc[p] = "write"
    /\ \/ /\ disk' = Json(mem[p])
          /\ good' = mem[p]
          /\ pc' = [pc EXCEPT ![p] = "ready"]
       \/ /\ pc' = [pc EXCEPT ![p] = "failed"]
          /\ UNCHANGED <<disk, good>>
    /\ UNCHANGED mem

\* updateStore has stored every chat: the command prints and exits.
Finish(p) ==
    /\ pc[p] = "ready"
    /\ pc' = [pc EXCEPT ![p] = "done"]
    /\ UNCHANGED <<disk, mem, good>>

\* The process is killed (Ctrl-C, a crash of the machine).
Crash(p) ==
    /\ pc[p] \in {"ready", "open", "write"}
    /\ pc' = [pc EXCEPT ![p] = "crashed"]
    /\ UNCHANGED <<disk, mem, good>>

\* Every run has ended.
AllEnded ==
    /\ \A p \in Procs : Ended(p)
    /\ UNCHANGED vars

Next ==
    \/ \E p \in Procs :
          \/ Load(p) \/ SaveOpen(p) \/ SaveWrite(p) \/ Finish(p) \/ Crash(p)
          \/ \E c \in Chats, ts \in 1..MaxTime : SetLastSeen(p, c, ts)
    \/ AllEnded

Spec == Init /\ [][Next]_vars

-----------------------------------------------------------------------------
(* Properties.                                                             *)

TypeOK ==
    /\ disk \in Files
    /\ pc \in [Procs -> {"new", "ready", "open", "write", "done", "failed", "crashed"}]
    /\ mem \in [Procs -> Maps]
    /\ good \in Maps

(* What the file holds never goes back in time, across runs, crashes and   *)
(* failed saves: a run starts from the file the last complete save left,   *)
(* and every save writes the whole map.  A store that went back would make *)
(* filterUnread report old messages again.                                 *)
SavedNeverRegresses == [][\A c \in Chats : good'[c] >= good[c]]_vars

(* The file can always be loaded, except while a save is between its       *)
(* truncation and its write: a store the program writes is a store it can  *)
(* read back.                                                              *)
StoreLoadable == disk = Torn => \E p \in Procs : pc[p] = "write"

\* Each run as LastSeenStore sees it.
RunOf == [p \in Procs |-> IF pc[p] = "new" THEN "new"
                          ELSE IF Ended(p) THEN "ended" ELSE "active"]

LSS == INSTANCE LastSeenStore WITH saved <- good, view <- mem, run <- RunOf

(* Runs of the command that do not overlap use the FileStore as an atomic *)
(* store: a run that loads the file gets the map the last complete save    *)
(* wrote, never a map a torn save left (load refuses those), and every     *)
(* save puts back the whole map of one run.                                *)
ImplementsLastSeenStore == LSS!Spec
=============================================================================
