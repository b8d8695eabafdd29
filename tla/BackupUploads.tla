---------------------------- MODULE BackupUploads ----------------------------
(* Uploaded backups (src/backup/uploads.cjs): received into a file each, at   *)
(* most two at a time, opened by previews and by the restore job, kept for an *)
(* hour, closed after five wrong passwords.  Opening is asynchronous, so a    *)
(* file is pinned by whoever has it open; what wants it deleted meanwhile     *)
(* dooms it, and the last to let go of it deletes it.                         *)
EXTENDS Naturals, FiniteSets

CONSTANTS Uploads,      \* the uploads made, one id each
          Previews,     \* previews that can be in flight together
          MaxUploads,   \* two
          MaxWrong,     \* wrong passwords that close an upload
          UploadBudget  \* bound on previews, restores and restarts

ASSUME UploadAssumption ==
  /\ IsFiniteSet(Uploads) /\ "none" \notin Uploads
  /\ IsFiniteSet(Previews)
  /\ MaxUploads \in Nat \ {0} /\ MaxWrong \in Nat \ {0} /\ UploadBudget \in Nat

NoUpload == "none"

NoJob == [pc |-> "idle", id |-> NoUpload, wrong |-> FALSE]

VARIABLES
  uploads,      \* uploads[i]: the file of i and what is remembered of it
  receiving,    \* the counter of uploads being received
  previews,     \* previews[p]: the upload a preview has open
  restoreJob,   \* the restore job
  uploadBudget

uploadVars == <<uploads, receiving, previews, restoreJob, uploadBudget>>

NewUpload == [file |-> "none", expired |-> FALSE, timer |-> FALSE,
              pins |-> 0, doomed |-> FALSE, attempts |-> 0, wrong |-> 0]

UploadInit ==
  /\ uploads = [i \in Uploads |-> NewUpload]
  /\ receiving = 0
  /\ previews = [p \in Previews |-> NoUpload]
  /\ restoreJob = NoJob
  /\ uploadBudget = UploadBudget

SpendUpload == uploadBudget > 0 /\ uploadBudget' = uploadBudget - 1
-----------------------------------------------------------------------------
(* One upload                                                                 *)

LockedOut(u) == u.attempts >= MaxWrong

Forgiven(u) == IF LockedOut(u) THEN u ELSE [u EXCEPT !.attempts = 0]

Deleted(u) == [u EXCEPT !.file = "gone", !.doomed = FALSE]

\* Mutant: whoever has the file open is not asked.
RemoveAtOnce(u) == Forgiven(Deleted(u))

\* removeUpload
RemoveUpload(u) == Forgiven(IF u.pins > 0 THEN [u EXCEPT !.doomed = TRUE] ELSE Deleted(u))

\* getUpload: a file past its time is removed unless it is pinned.
Looked(u) == IF u.file = "whole" /\ u.expired /\ u.pins = 0 THEN RemoveUpload(u) ELSE u

Pinned(u) == [u EXCEPT !.pins = @ + 1]

\* The end of a pin; deleting the file may fail, which is logged.
Released(u, fails) ==
  LET v == [u EXCEPT !.pins = @ - 1]
  IN IF v.pins = 0 /\ (v.doomed \/ v.expired) /\ ~fails THEN RemoveUpload(v) ELSE v

\* Mutant: the wrong password that closes the upload leaves its file.
CountedOnly(u) == [u EXCEPT !.attempts = @ + 1, !.wrong = @ + 1]

\* wrongPassword
Guessed(u) ==
  LET v == [u EXCEPT !.attempts = @ + 1, !.wrong = @ + 1]
  IN CASE ~LockedOut(v) -> v
       [] LockedOut(v) /\ v.pins > 0 -> [v EXCEPT !.doomed = TRUE]
       [] OTHER -> [v EXCEPT !.file = "gone"]

\* sweepUploads, before an upload is received.
Swept(u) ==
  IF u.file = "whole" /\ (u.expired \/ u.doomed) /\ u.pins = 0 THEN Forgiven(Deleted(u)) ELSE u

SweptAll == [i \in Uploads |-> Swept(uploads[i])]
-----------------------------------------------------------------------------
(* Receiving                                                                  *)

Whole(all) == {i \in Uploads : all[i].file = "whole"}

\* Mutant: the uploads being received are not counted.
RoomForFile == Cardinality(Whole(SweptAll)) < MaxUploads

Room == Cardinality(Whole(SweptAll)) + receiving < MaxUploads

Receive(i) ==
  /\ uploads[i].file = "none"
  /\ Room
  /\ receiving' = receiving + 1
  /\ uploads' = [SweptAll EXCEPT ![i].file = "part"]
  /\ UNCHANGED <<previews, restoreJob, uploadBudget>>

\* BUSY, or there is not the space.
ReceiveRefused ==
  /\ uploads' = SweptAll
  /\ UNCHANGED <<receiving, previews, restoreJob, uploadBudget>>

ReceiveEnds(i, complete) ==
  /\ uploads[i].file = "part"
  /\ receiving' = receiving - 1
  /\ uploads' = IF complete THEN [uploads EXCEPT ![i].file = "whole", ![i].timer = TRUE]
                ELSE [uploads EXCEPT ![i].file = "gone"]
  /\ UNCHANGED <<previews, restoreJob, uploadBudget>>

HourPasses(i) ==
  /\ uploads[i].file = "whole" /\ ~uploads[i].expired
  /\ uploads' = [uploads EXCEPT ![i].expired = TRUE]
  /\ UNCHANGED <<receiving, previews, restoreJob, uploadBudget>>

\* The timer set when i was received; the deletion may fail.
Expire(i, fails) ==
  /\ uploads[i].timer /\ uploads[i].expired
  /\ uploads' = [uploads EXCEPT ![i] =
                   LET u == [uploads[i] EXCEPT !.timer = FALSE]
                   IN CASE u.file # "whole" \/ (u.pins = 0 /\ fails) -> u
                        [] u.file = "whole" /\ u.pins > 0 -> [u EXCEPT !.doomed = TRUE]
                        [] OTHER -> RemoveUpload(u)]
  /\ UNCHANGED <<receiving, previews, restoreJob, uploadBudget>>
-----------------------------------------------------------------------------
(* Opening                                                                    *)

\* A preview pins the file and awaits its opening.
Preview(p, i) ==
  /\ SpendUpload
  /\ previews[p] = NoUpload
  /\ ~LockedOut(uploads[i])
  /\ LET u == Looked(uploads[i])
     IN IF u.file = "whole"
          THEN uploads' = [uploads EXCEPT ![i] = Pinned(u)] /\ previews' = [previews EXCEPT ![p] = i]
          ELSE uploads' = [uploads EXCEPT ![i] = u] /\ UNCHANGED previews
  /\ UNCHANGED <<receiving, restoreJob>>

PreviewEnds(p, wrong, fails) ==
  /\ previews[p] # NoUpload
  /\ uploads' = [uploads EXCEPT ![previews[p]] = Released(IF wrong THEN Guessed(@) ELSE @, fails)]
  /\ previews' = [previews EXCEPT ![p] = NoUpload]
  /\ UNCHANGED <<receiving, restoreJob, uploadBudget>>

\* The job takes a pin of its own before it is queued, restoreUpload another.
StartRestore(i) ==
  /\ SpendUpload
  /\ restoreJob = NoJob
  /\ ~LockedOut(uploads[i])
  /\ LET u == Looked(uploads[i])
     IN IF u.file = "whole"
          THEN uploads' = [uploads EXCEPT ![i] = Pinned(u)] /\ restoreJob' = [NoJob EXCEPT !.pc = "queued", !.id = i]
          ELSE uploads' = [uploads EXCEPT ![i] = u] /\ UNCHANGED restoreJob
  /\ UNCHANGED <<receiving, previews>>

RestoreOpens ==
  /\ restoreJob.pc = "queued"
  /\ uploads' = [uploads EXCEPT ![restoreJob.id] = Pinned(@)]
  /\ restoreJob' = [restoreJob EXCEPT !.pc = "open"]
  /\ UNCHANGED <<receiving, previews, uploadBudget>>

\* A restore that went through removes its upload.
RestoreCloses(outcome, fails) ==
  /\ restoreJob.pc = "open"
  /\ uploads' = [uploads EXCEPT ![restoreJob.id] = Released(IF outcome = "restored" THEN RemoveUpload(@) ELSE @, fails)]
  /\ restoreJob' = [restoreJob EXCEPT !.pc = "closing", !.wrong = outcome = "wrong"]
  /\ UNCHANGED <<receiving, previews, uploadBudget>>

RestoreEnds(fails) ==
  /\ restoreJob.pc = "closing"
  /\ uploads' = [uploads EXCEPT ![restoreJob.id] = Released(IF restoreJob.wrong THEN Guessed(@) ELSE @, fails)]
  /\ restoreJob' = NoJob
  /\ UNCHANGED <<receiving, previews, uploadBudget>>

\* A process that starts has no pins and sweeps every file away.
RestartUploads ==
  /\ SpendUpload
  /\ uploads' = [i \in Uploads |-> IF uploads[i].file = "none" THEN NewUpload
                                   ELSE [NewUpload EXCEPT !.file = "gone"]]
  /\ receiving' = 0
  /\ previews' = [p \in Previews |-> NoUpload]
  /\ restoreJob' = NoJob

UploadNext ==
  \/ \E i \in Uploads :
       \/ Receive(i) \/ HourPasses(i) \/ StartRestore(i)
       \/ \E complete \in BOOLEAN : ReceiveEnds(i, complete)
       \/ \E fails \in BOOLEAN : Expire(i, fails)
       \/ \E p \in Previews : Preview(p, i)
  \/ \E p \in Previews, wrong, fails \in BOOLEAN : PreviewEnds(p, wrong, fails)
  \/ \E fails \in BOOLEAN :
       \/ \E outcome \in {"restored", "wrong", "failed"} : RestoreCloses(outcome, fails)
       \/ RestoreEnds(fails)
  \/ ReceiveRefused \/ RestoreOpens \/ RestartUploads

UploadSpec == UploadInit /\ [][UploadNext]_uploadVars
-----------------------------------------------------------------------------
(* Properties                                                                 *)

Upload == [file : {"none", "part", "whole", "gone"}, expired : BOOLEAN, timer : BOOLEAN,
           pins : Nat, doomed : BOOLEAN, attempts : Nat, wrong : Nat]

UploadTypeOK ==
  /\ uploads \in [Uploads -> Upload]
  /\ receiving \in 0..MaxUploads
  /\ previews \in [Previews -> Uploads \cup {NoUpload}]
  /\ restoreJob \in [pc : {"idle", "queued", "open", "closing"}, id : Uploads \cup {NoUpload}, wrong : BOOLEAN]
  /\ uploadBudget \in 0..UploadBudget

\* The pins the restore job has on i.
JobPins(i) ==
  CASE restoreJob.id # i -> 0
    [] restoreJob.id = i /\ restoreJob.pc = "open" -> 2
    [] OTHER -> 1

\* A preview or a restore that has a file open keeps it, whatever the others
\* find out meanwhile (the hour is over, the password was wrong for the last
\* time, the restore went through): its pins are exactly those of who has it.
OpenFileStays ==
  \A i \in Uploads :
    /\ uploads[i].pins = Cardinality({p \in Previews : previews[p] = i}) + JobPins(i)
    /\ uploads[i].pins > 0 => uploads[i].file = "whole"

\* After the last allowed wrong password an upload is as good as gone: its
\* file is deleted, or will be with its last pin or the next sweep, and what
\* resets the counter, a finished restore, leaves it doomed too.
WrongPasswordsClose ==
  \A i \in Uploads : uploads[i].wrong >= MaxWrong => uploads[i].file = "gone" \/ uploads[i].doomed

\* No more than MaxUploads are on the disk, those being received included.
DiskIsBounded ==
  Cardinality({i \in Uploads : uploads[i].file \in {"part", "whole"}}) <= MaxUploads
=============================================================================
