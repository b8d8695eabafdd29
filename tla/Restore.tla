------------------------------- MODULE Restore -------------------------------
(* Restoring a backup (src/backup/restore.cjs), activating the account data  *)
(* it brought (activation.cjs) and recovering either at startup              *)
(* (recovery.cjs), with the process dying between any two durable steps and  *)
(* any file operation failing.                                               *)
(*                                                                           *)
(* Everything from the end of the extraction on is synchronous code: mem.at  *)
(* is the durable step it takes next, and events arrive only at "idle".      *)
(* disk is what survives the process.  A rename with its fsyncs, an atomic   *)
(* JSON file, a recursive removal and an SQLite transaction are one step.    *)
EXTENDS Integers, Sequences, FiniteSets

CONSTANTS Restores,     \* the restores the operator makes, one backup each
          Accounts,     \* those whose backup has an account
          Order,        \* the folders of an account, in the order of the code
          Holds,        \* the folders each backup has
          OwnFolders,   \* the folders the install has at first
          MaxFaults,    \* bound: operations that fail
          MaxCrashes    \* bound: deaths of the process

Folders == {Order[i] : i \in DOMAIN Order}

VARIABLES disk, mem, faults, crashes,
          dropped       \* observer: restores whose data the operator discarded
vars == <<disk, mem, faults, crashes, dropped>>

(* -------------------------------- the disk -------------------------------- *)

None  == "none"
Own   == "own"      \* what belongs to the account the install began with
Fresh == "fresh"    \* a folder the bot made because there was none
Gone  == "gone"     \* no such file
Data  == Restores \cup {Own, Fresh, Gone}
Ids   == Restores \cup {None}

ASSUME RestoreAssumption ==
  /\ Restores \cap {None, Own, Fresh, Gone} = {}
  /\ Accounts \subseteq Restores
  /\ Order \in Seq(STRING) /\ Order # <<>> /\ "db" \notin Folders
  /\ Holds \in [Restores -> SUBSET Folders]
  /\ OwnFolders \subseteq Folders
  /\ MaxFaults \in Nat /\ MaxCrashes \in Nat

Parts     == Folders \cup {"db"}
NoFolders == [f \in Folders |-> Gone]
\* restore/pending and restore/pending.next: pending.json names the restore.
Absent    == [id |-> None, has |-> [k \in Parts |-> Gone]]
Packages  == [id : Ids, has : [Parts -> Data]]

\* What activation has moved: "out" live to previous, "in" pending to live.
Moves     == [way : {"out", "in"}, folder : Folders]
NoJournal == [op |-> "none", id |-> None, step |-> "none", moved |-> <<>>]

\* Mutant: a journal whose step the recovery does not know.
RenamedStep(r, step) == [op |-> "restore", id |-> r, step |-> "staged", moved |-> <<>>]

RestoreJournal(r, step)         == [op |-> "restore", id |-> r, step |-> step, moved |-> <<>>]

ActivateJournal(r, step, moved) == [op |-> "activate", id |-> r, step |-> step, moved |-> moved]

\* Everything under restore/<id>.
RmRoot(d, r) == [d EXCEPT !.staged[r] = {}, !.previous[r] = NoFolders, !.replaced[r] = Absent]

WantedParts(r) == {"db"} \cup Holds[r]

\* The first of some parts, in the order the code takes them.
First(S) == IF "db" \in S THEN "db"
            ELSE Order[CHOOSE i \in DOMAIN Order :
                         Order[i] \in S /\ \A j \in 1..(i - 1) : Order[j] \notin S]

AllStaged(r) == {"metadata", "persona"} \cup WantedParts(r)

\* validateBeforePersona
Complete(d, r) == /\ {"metadata", "persona"} \subseteq d.staged[r]
                  /\ r \in Accounts => WantedParts(r) \subseteq d.staged[r]

Init ==
  /\ disk = [live      |-> [f \in Folders |-> IF f \in OwnFolders THEN Own ELSE Gone],
             tables    |-> Own,  activated |-> None,     \* levix.db: account, its marker
             settings  |-> Own,  applied   |-> None,     \* levix.db: settings, their marker
             persona   |-> Own,
             journal   |-> NoJournal,
             staged    |-> [r \in Restores |-> {}],
             previous  |-> [r \in Restores |-> NoFolders],
             replaced  |-> [r \in Restores |-> Absent],
             next      |-> Absent,
             pending   |-> Absent]
  /\ mem = [at |-> "idle", for |-> "none", id |-> None, moved |-> <<>>, again |-> FALSE,
            job |-> "none", jobId |-> None, tried |-> {}, serving |-> FALSE]
  /\ faults = 0 /\ crashes = 0 /\ dropped = {}

(* ------------------------------ control flow ------------------------------ *)

Goto(step) == [mem EXCEPT !.at = step]
Idle       == [mem EXCEPT !.at = "idle", !.for = "none", !.id = None, !.moved = <<>>, !.again = FALSE]
JobOver    == [Idle EXCEPT !.job = "none", !.jobId = None]
Serve      == [Idle EXCEPT !.serving = TRUE]
Down       == [JobOver EXCEPT !.at = "down", !.serving = FALSE]

Installing == {"apply", "commit", "toPersona", "persona", "toPending", "install",
               "replace", "swap", "dropReplaced", "clear"}
Activating == {"migrate", "check", "out", "outMove", "in", "inMove", "toDb", "tables", "toCleanup"}
Finishing  == {"dropPrevious", "dropPending", "dropRoot", "clearDone"}
Undoing    == {"undo"}

\* Where the code goes on after a throw that left the disk as d: the catch of
\* restorePinnedUpload, of runRestoreRecovery, of activatePendingIfMatching.
Thrown(d) ==
  CASE mem.at \in {"unstage", "unjournal", "idle"} -> JobOver
    [] mem.at \in Installing /\ mem.for = "job" ->
         IF d.applied = mem.id /\ d.journal.id = mem.id THEN JobOver ELSE Goto("unstage")
    [] mem.at = "sweep" -> IF mem.for = "job" THEN JobOver ELSE Goto("orphans")
    [] mem.at \in Activating ->
         IF d.activated = mem.id THEN [Goto("dropPrevious") EXCEPT !.again = TRUE] ELSE Goto("undo")
    [] mem.at \in Finishing /\ mem.for = "open" ->
         IF mem.again THEN Serve ELSE [Goto("dropPrevious") EXCEPT !.again = TRUE]
    [] mem.at \in Undoing /\ mem.for = "open" -> Idle         \* ACTIVATION_UNSAFE
    [] mem.at \in Finishing \cup Undoing /\ mem.for = "start" -> Down   \* refused startup
    [] OTHER -> Idle                                   \* "will retry on next start"

Throws == disk' = disk /\ mem' = Thrown(disk) /\ UNCHANGED <<faults, crashes, dropped>>

\* One durable step: it succeeds, or fails with or without its effect.
Try(new, after) ==
  /\ UNCHANGED <<crashes, dropped>>
  /\ \/ disk' = new /\ mem' = after /\ UNCHANGED faults
     \/ /\ faults < MaxFaults
        /\ faults' = faults + 1
        /\ \E d \in {disk, new} : disk' = d /\ mem' = Thrown(d)

(* -------------------------------- a restore ------------------------------- *)

\* startRestore and restorePinnedUpload up to openBackup's await.
StartRestore(r) ==
  /\ mem.at = "idle" /\ mem.job = "none" /\ r \notin mem.tried
  /\ disk.journal = NoJournal
  /\ mem' = [mem EXCEPT !.job = "opening", !.jobId = r, !.tried = @ \cup {r}]
  /\ UNCHANGED <<disk, faults, crashes, dropped>>

\* The wrong password, a newer schema, no space.
OpenFails ==
  /\ mem.at = "idle" /\ mem.job = "opening"
  /\ mem' = JobOver
  /\ UNCHANGED <<disk, faults, crashes, dropped>>

\* The journal is not looked at again.
Stage ==
  /\ mem.at = "idle" /\ mem.job = "opening"
  /\ Try([disk EXCEPT !.staged[mem.jobId] = {"metadata"},
                      !.journal = RestoreJournal(mem.jobId, "stage")],
         [mem EXCEPT !.job = "staging"])

\* opened.extract and the checks of the copy; what follows is synchronous.
Extracted ==
  /\ mem.at = "idle" /\ mem.job = "staging"
  /\ disk' = [disk EXCEPT !.staged[mem.jobId] = AllStaged(mem.jobId)]
  /\ mem' = [mem EXCEPT !.at = "apply", !.for = "job", !.id = mem.jobId]
  /\ UNCHANGED <<faults, crashes, dropped>>

ExtractFails ==
  /\ mem.at = "idle" /\ mem.job = "staging"
  /\ mem' = [mem EXCEPT !.at = "unstage", !.for = "job", !.id = mem.jobId]
  /\ UNCHANGED <<disk, faults, crashes, dropped>>

Apply ==
  /\ mem.at = "apply"
  /\ Try([disk EXCEPT !.journal = RestoreJournal(mem.id, "apply")], Goto("commit"))

\* Mutant: the marker is not written in the transaction.
CommitUnmarked ==
  /\ mem.at = "commit"
  /\ Try([disk EXCEPT !.settings = mem.id], Goto("toPersona"))

\* applySettings: one transaction, with its marker.
Commit ==
  /\ mem.at = "commit"
  /\ Try([disk EXCEPT !.settings = mem.id, !.applied = mem.id], Goto("toPersona"))

\* CONFIRM_REQUIRED rolls the transaction back.
Refuse == mem.at = "commit" /\ Throws

\* Mutant: the journal is a step ahead of the persona.
ToPersonaEarly ==
  /\ mem.at = "toPersona"
  /\ IF Complete(disk, mem.id)
     THEN Try([disk EXCEPT !.journal = RestoreJournal(mem.id, "pending")], Goto("persona"))
     ELSE Throws

ToPersona ==
  /\ mem.at = "toPersona"
  /\ IF Complete(disk, mem.id)
     THEN Try([disk EXCEPT !.journal = RestoreJournal(mem.id, "persona")], Goto("persona"))
     ELSE Throws

InstallPersona ==
  /\ mem.at = "persona"
  /\ Try([disk EXCEPT !.persona = mem.id], Goto("toPending"))

ToPending ==
  /\ mem.at = "toPending"
  /\ Try([disk EXCEPT !.journal = RestoreJournal(mem.id, "pending")], Goto("install"))

\* installPending: nothing to install, or installed before a crash.
AlreadyInstalled ==
  /\ mem.at = "install"
  /\ mem.id \notin Accounts \/ disk.pending.id = mem.id
  /\ IF mem.id \in Accounts /\ \E k \in WantedParts(mem.id) : disk.pending.has[k] = Gone
     THEN Throws
     ELSE mem' = Goto("clear") /\ UNCHANGED <<disk, faults, crashes, dropped>>

\* Mutant: only the database is taken to restore/pending.
MissingDatabase == {k \in {"db"} : disk.next.has[k] = Gone}

\* The parts that are not in pending.next yet.
Missing == {k \in WantedParts(mem.id) : disk.next.has[k] = Gone}

\* The next part goes from the stage to pending.next, pending.json at the end.
InstallPart ==
  /\ mem.at = "install" /\ mem.id \in Accounts /\ disk.pending.id # mem.id
  /\ LET k == First(Missing)
     IN IF Missing = {}
        THEN Try([disk EXCEPT !.next.id = mem.id], Goto("replace"))
        ELSE IF k \in disk.staged[mem.id]
        THEN Try([disk EXCEPT !.staged[mem.id] = @ \ {k}, !.next.has[k] = mem.id], Goto("install"))
        ELSE Throws

\* What waited before is kept until its successor is in place.
Replace ==
  /\ mem.at = "replace"
  /\ Try(IF disk.pending = Absent THEN disk
         ELSE [disk EXCEPT !.replaced[mem.id] = disk.pending, !.pending = Absent], Goto("swap"))

Swap ==
  /\ mem.at = "swap"
  /\ Try([disk EXCEPT !.pending = disk.next, !.next = Absent], Goto("dropReplaced"))

DropReplaced ==
  /\ mem.at = "dropReplaced"
  /\ Try([disk EXCEPT !.replaced[mem.id] = Absent], Goto("clear"))

\* finish
Clear ==
  /\ mem.at = "clear"
  /\ Try([disk EXCEPT !.journal = NoJournal], Goto("sweep"))

Sweep ==
  /\ mem.at = "sweep"
  /\ Try(RmRoot(disk, mem.id), IF mem.for = "job" THEN JobOver ELSE Goto("orphans"))

\* The catch of a restore that changed nothing.
Unstage ==
  /\ mem.at = "unstage"
  /\ Try(RmRoot(disk, mem.id), Goto("unjournal"))

\* Mutant: a restore that failed does not release the latch of jobs.cjs.
UnjournalLatched ==
  /\ mem.at = "unjournal"
  /\ Try([disk EXCEPT !.journal = NoJournal], Idle)

Unjournal ==
  /\ mem.at = "unjournal"
  /\ Try([disk EXCEPT !.journal = NoJournal], JobOver)

(* ------------------------------- activation ------------------------------- *)

\* activatePendingIfMatching, called when a socket opens.  Whether the paired
\* account is the backup's is up to the environment.
SocketOpens(matches) ==
  /\ mem.at = "idle" /\ ~mem.serving
  /\ mem' = IF disk.journal.op = "activate" THEN mem             \* ACTIVATION_UNSAFE
            ELSE IF disk.journal = NoJournal /\ disk.pending.id # None /\ matches
            THEN [mem EXCEPT !.at = "migrate", !.for = "open", !.id = disk.pending.id]
            ELSE Serve
  /\ UNCHANGED <<disk, faults, crashes, dropped>>

SocketCloses ==
  /\ mem.at = "idle" /\ mem.serving
  /\ mem' = [mem EXCEPT !.serving = FALSE]
  /\ UNCHANGED <<disk, faults, crashes, dropped>>

Migrate ==
  /\ mem.at = "migrate"
  /\ Try([disk EXCEPT !.journal = ActivateJournal(mem.id, "migrate", <<>>)], Goto("check"))

\* The copy is migrated and its schema compared.
Check ==
  /\ mem.at = "check"
  /\ Try([disk EXCEPT !.journal = ActivateJournal(mem.id, "files", <<>>)], Goto("out"))

CheckFails == mem.at = "check" /\ Throws

MovedOf(way) == {mem.moved[i].folder : i \in {j \in DOMAIN mem.moved : mem.moved[j].way = way}}
\* The folder the loop is at: the first that has not been moved in.
Current == First(Folders \ MovedOf("in"))

\* move() notes its intent, in memory and then in the journal.
Intend(way, new, after) ==
  LET moved == Append(mem.moved, [way |-> way, folder |-> Current])
      noted == [mem EXCEPT !.moved = moved]
  IN /\ UNCHANGED <<crashes, dropped>>
     /\ \/ /\ disk' = [new EXCEPT !.journal = ActivateJournal(mem.id, "files", moved)]
           /\ mem' = [noted EXCEPT !.at = after]
           /\ UNCHANGED faults
        \/ /\ faults < MaxFaults
           /\ faults' = faults + 1
           /\ \E d \in {disk, new, [new EXCEPT !.journal = ActivateJournal(mem.id, "files", moved)]} :
                disk' = d
           /\ mem' = [noted EXCEPT !.at = "undo"]

\* A folder the backup does not have is taken as empty.
Sourced == [disk EXCEPT !.pending.has[Current] = IF @ = Gone THEN mem.id ELSE @]

MoveOut ==
  /\ mem.at = "out"
  /\ IF disk.live[Current] = Gone
     THEN Try(Sourced, Goto("in"))
     ELSE Intend("out", Sourced, "outMove")

RenameOut ==
  /\ mem.at = "outMove"
  /\ Try([disk EXCEPT !.previous[mem.id][Current] = disk.live[Current], !.live[Current] = Gone],
         Goto("in"))

\* Mutant: a folder is moved in without noting it.
MoveInUnnoted == mem.at = "in" /\ Try(disk, [Goto("inMove") EXCEPT
                   !.moved = Append(@, [way |-> "in", folder |-> Current])])

MoveIn == mem.at = "in" /\ Intend("in", disk, "inMove")

RenameIn ==
  /\ mem.at = "inMove"
  /\ LET f == mem.moved[Len(mem.moved)].folder
     IN Try([disk EXCEPT !.live[f] = disk.pending.has[f], !.pending.has[f] = Gone],
            Goto(IF MovedOf("in") = Folders THEN "toDb" ELSE "out"))

\* Mutant: the old folders are deleted before the tables are replaced.
ToDbDropping ==
  /\ mem.at = "toDb"
  /\ Try([disk EXCEPT !.journal = ActivateJournal(mem.id, "db", mem.moved),
                      !.previous[mem.id] = NoFolders], Goto("tables"))

ToDb ==
  /\ mem.at = "toDb"
  /\ Try([disk EXCEPT !.journal = ActivateJournal(mem.id, "db", mem.moved)], Goto("tables"))

\* replaceTables: one transaction, with its marker.
ReplaceTables ==
  /\ mem.at = "tables"
  /\ Try([disk EXCEPT !.tables = disk.pending.has["db"], !.activated = mem.id], Goto("toCleanup"))

ToCleanup ==
  /\ mem.at = "toCleanup"
  /\ Try([disk EXCEPT !.journal = ActivateJournal(mem.id, "cleanup", mem.moved)],
         Goto("dropPrevious"))

\* finishActivation
DropPrevious ==
  /\ mem.at = "dropPrevious"
  /\ Try([disk EXCEPT !.previous[mem.id] = NoFolders], Goto("dropPending"))

DropPending ==
  /\ mem.at = "dropPending"
  /\ Try([disk EXCEPT !.pending = Absent], Goto("dropRoot"))

DropRoot ==
  /\ mem.at = "dropRoot"
  /\ Try(RmRoot(disk, mem.id), Goto("clearDone"))

AfterActivation == IF mem.for = "open" THEN Serve ELSE Goto("orphans")

ClearDone ==
  /\ mem.at = "clearDone"
  /\ Try([disk EXCEPT !.journal = NoJournal], AfterActivation)

\* undoMoves, last move first.  A move that was only intended is skipped: what
\* decides is which side exists.
Undone(m) ==
  IF m.way = "out"
  THEN IF disk.previous[mem.id][m.folder] # Gone /\ disk.live[m.folder] = Gone
       THEN [disk EXCEPT !.live[m.folder] = disk.previous[mem.id][m.folder],
                         !.previous[mem.id][m.folder] = Gone]
       ELSE disk
  ELSE IF disk.live[m.folder] # Gone /\ disk.pending.has[m.folder] = Gone
       THEN [disk EXCEPT !.pending.has[m.folder] = disk.live[m.folder], !.live[m.folder] = Gone]
       ELSE disk

Undo ==
  /\ mem.at = "undo" /\ mem.moved # <<>>
  /\ LET n == Len(mem.moved)
     IN Try(Undone(mem.moved[n]), [mem EXCEPT !.moved = SubSeq(@, 1, n - 1)])

AllUndone ==
  /\ mem.at = "undo" /\ mem.moved = <<>>
  /\ Try([disk EXCEPT !.journal = NoJournal], AfterActivation)

(* ------------------------- crashes, startup, others ----------------------- *)

Crash ==
  /\ mem.at # "down" /\ crashes < MaxCrashes
  /\ crashes' = crashes + 1
  /\ mem' = Down
  /\ UNCHANGED <<disk, faults, dropped>>

\* runRestoreRecovery
Start ==
  /\ mem.at = "down"
  /\ LET j == disk.journal
     IN mem' = [mem EXCEPT !.for = "start", !.id = j.id, !.moved = j.moved,
                  !.at = CASE j.op = "none" -> "orphans"
                           [] j.op = "activate" ->
                                IF disk.activated = j.id THEN "dropPrevious" ELSE "undo"
                           [] j.op = "restore" ->
                                IF j.step = "stage" \/ disk.applied # j.id THEN "giveBack"
                                ELSE IF j.step = "pending" THEN "install" ELSE "toPersona"]
  /\ UNCHANGED <<disk, faults, crashes, dropped>>

\* recover() of a restore that was not committed.
GiveBack ==
  /\ mem.at = "giveBack"
  /\ LET kept == IF disk.pending.id = mem.id THEN Absent ELSE disk.pending
     IN Try([disk EXCEPT !.pending = IF kept = Absent THEN disk.replaced[mem.id] ELSE kept,
                         !.replaced[mem.id] = IF kept = Absent THEN Absent ELSE @],
            Goto("forget"))

Forget ==
  /\ mem.at = "forget"
  /\ Try([RmRoot(disk, mem.id) EXCEPT !.next = Absent], Goto("clear"))

\* cleanupOrphans
Orphans ==
  /\ mem.at = "orphans"
  /\ Try([disk EXCEPT !.staged   = [r \in Restores |-> {}],
                      !.previous = [r \in Restores |-> NoFolders],
                      !.replaced = [r \in Restores |-> Absent],
                      !.next     = Absent], Idle)

\* The restore whose account data waits: the one in restore/pending, or on its
\* way there since its settings were committed.
Waiting ==
  LET j == disk.journal
  IN CASE j.op = "restore" /\ disk.applied = j.id /\ j.id \in Accounts \ dropped -> j.id
       [] j.op = "activate" /\ disk.activated = j.id -> None
       [] OTHER -> disk.pending.id

\* DELETE /backup/pending
Discard ==
  /\ mem.at = "idle" /\ disk.pending # Absent
  /\ disk' = [disk EXCEPT !.pending = Absent]
  /\ dropped' = IF Waiting # None /\ disk.pending.id = Waiting THEN dropped \cup {Waiting} ELSE dropped
  /\ UNCHANGED <<mem, faults, crashes>>

\* The bot or the panel stores a memory, a sticker or the file of a schedule.
MakeFolder(f) ==
  /\ mem.at = "idle" /\ disk.live[f] = Gone
  /\ disk' = [disk EXCEPT !.live[f] = Fresh]
  /\ UNCHANGED <<mem, faults, crashes, dropped>>

(* ---------------------------------- spec ---------------------------------- *)

RestoreSteps == Apply \/ Commit \/ Refuse \/ ToPersona \/ InstallPersona \/ ToPending
                \/ AlreadyInstalled \/ InstallPart \/ Replace \/ Swap \/ DropReplaced
                \/ Clear \/ Sweep \/ Unstage \/ Unjournal
ActivationSteps == Migrate \/ Check \/ CheckFails \/ MoveOut \/ RenameOut \/ MoveIn \/ RenameIn
                   \/ ToDb \/ ReplaceTables \/ ToCleanup \/ DropPrevious \/ DropPending
                   \/ DropRoot \/ ClearDone \/ Undo \/ AllUndone
RecoverySteps == GiveBack \/ Forget \/ Orphans
Steps == RestoreSteps \/ ActivationSteps \/ RecoverySteps
JobEvents == OpenFails \/ Stage \/ Extracted \/ ExtractFails

Next == \/ Steps \/ JobEvents \/ SocketCloses \/ Crash \/ Start \/ Discard
        \/ \E r \in Restores : StartRestore(r)
        \/ \E matches \in BOOLEAN : SocketOpens(matches)
        \/ \E f \in Folders : MakeFolder(f)

Spec == Init /\ [][Next]_vars

\* Synchronous code runs on.  The two awaits of a restore, opening the backup
\* and extracting it, end, and the event loop gets round to what follows however
\* often sockets come and go (strong fairness).
FairSpec == Spec /\ WF_vars(Steps) /\ SF_vars(JobEvents)

(* ------------------------------- properties ------------------------------- *)

TypeOK ==
  /\ disk \in [live : [Folders -> Data], tables : Data, activated : Ids,
               settings : Data, applied : Ids, persona : Data,
               journal : [op : {"none", "restore", "activate"}, id : Ids,
                          step : {"none", "stage", "apply", "persona", "pending",
                                  "migrate", "files", "db", "cleanup"},
                          moved : Seq(Moves)],
               staged : [Restores -> SUBSET (Parts \cup {"metadata", "persona"})],
               previous : [Restores -> [Folders -> Data]],
               replaced : [Restores -> Packages], next : Packages, pending : Packages]
  /\ mem \in [at : Installing \cup Activating \cup Finishing \cup Undoing \cup
                   {"down", "idle", "sweep", "unstage", "unjournal", "giveBack", "forget", "orphans"},
              for : {"none", "job", "open", "start"}, id : Ids, moved : Seq(Moves),
              again : BOOLEAN, job : {"none", "opening", "staging"}, jobId : Ids,
              tried : SUBSET Restores, serving : BOOLEAN]
  /\ faults \in 0..MaxFaults /\ crashes \in 0..MaxCrashes
  /\ dropped \subseteq Restores

\* The folders that belong to the account in the tables.
FoldersOf(owner) == IF owner = Own THEN OwnFolders ELSE Folders
IsWhole == \A f \in Folders : IF f \in FoldersOf(disk.tables) THEN disk.live[f] = disk.tables
                              ELSE disk.live[f] \in {Gone, Fresh}

\* The bot works with the tables and the folders of one account, and whatever
\* moment the process dies at, a journal tells the next start that it must put
\* folders in order first (handleConnectionOpen, runRestoreRecovery).
AccountIsWhole ==
  /\ IsWhole \/ disk.journal.op = "activate"
  /\ mem.serving => IsWhole

\* Every folder of the account in the tables is in place or where the undo of
\* its journal finds it: nothing is deleted before its replacement is committed.
NothingIsLost ==
  \A f \in FoldersOf(disk.tables) :
    \/ disk.live[f] = disk.tables
    \/ /\ disk.journal.op = "activate"
       /\ disk.previous[disk.journal.id][f] = disk.tables
       /\ \E i \in DOMAIN disk.journal.moved :
            disk.journal.moved[i] = [way |-> "out", folder |-> f]

\* Settings and persona are those of the same restore, unless a journal says
\* that its persona is still to come (recover).
PersonaFollows ==
  \/ disk.persona = disk.settings
  \/ disk.journal.op = "restore" /\ disk.journal.id = disk.settings
     /\ disk.journal.step \in {"apply", "persona"}

\* All parts of the account data that waits exist, in the stage, on their way
\* to restore/pending or there: what recovery is told to finish it can finish
\* (installPending).
WaitingIsComplete ==
  Waiting # None =>
    \A k \in WantedParts(Waiting) :
      \/ k \in disk.staged[Waiting]
      \/ Waiting \in {disk.next.has[k], disk.pending.has[k]}
      \/ /\ disk.journal.op = "activate" /\ k \in Folders
         /\ disk.live[k] = Waiting

\* A restore and an activation are each one step of AccountSwap, however often
\* they are interrupted, and only the operator discards what waits.
Swapped == INSTANCE AccountSwap
             WITH settings <- disk.settings, account <- disk.tables, waiting <- Waiting,
                  discarded <- dropped
SwapsAtOnce == Swapped!Spec

\* A restore, failed or not, ends, so that the next is not refused as BUSY
\* (the finally of startRestore).
JobsEnd == mem.job # "none" ~> mem.job = "none"
=============================================================================
