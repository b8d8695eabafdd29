---------------------------- MODULE ServicesProofs ----------------------------
(* The components that MCServices checks side by side never meet: what one   *)
(* does there is what it does alone, so that whatever is proved of it alone   *)
(* holds there as well, and the run of it shows of each what a run of its own *)
(* would.                                                                     *)
EXTENDS MCServices, ModerationProofs, PasswordResetProofs, StickerQueueProofs,
        BackupUploadsProofs

\* The behaviours of moderation in the composition are those of Moderation.
THEOREM ModerationAlone == ServicesSpec => Spec
<1>1. ServicesInit => Init
  BY DEF ServicesInit
<1>2. [ServicesNext]_<<part, vars, resetVars, queueVars, uploadVars>>
        => [Next]_vars
  BY DEF ServicesNext
<1> QED BY <1>1, <1>2, PTL DEF ServicesSpec, Spec

\* Those of the reset code and the recovery address are those of PasswordReset.
THEOREM ResetAlone == ServicesSpec => ResetSpec
<1>1. ServicesInit => ResetInit
  BY DEF ServicesInit
<1>2. [ServicesNext]_<<part, vars, resetVars, queueVars, uploadVars>>
        => [ResetNext]_resetVars
  BY DEF ServicesNext
<1> QED BY <1>1, <1>2, PTL DEF ServicesSpec, ResetSpec

\* Those of the sticker queue are those of StickerQueue.
THEOREM QueueAlone == ServicesSpec => QueueSpec
<1>1. ServicesInit => QueueInit
  BY DEF ServicesInit
<1>2. [ServicesNext]_<<part, vars, resetVars, queueVars, uploadVars>>
        => [QueueNext]_queueVars
  BY DEF ServicesNext
<1> QED BY <1>1, <1>2, PTL DEF ServicesSpec, QueueSpec

\* Those of the uploads are those of BackupUploads.
THEOREM UploadsAlone == ServicesSpec => UploadSpec
<1>1. ServicesInit => UploadInit
  BY DEF ServicesInit
<1>2. [ServicesNext]_<<part, vars, resetVars, queueVars, uploadVars>>
        => [UploadNext]_uploadVars
  BY DEF ServicesNext
<1> QED BY <1>1, <1>2, PTL DEF ServicesSpec, UploadSpec

\* So the values of each keep their shape while they run side by side.
THEOREM ServicesTypeCorrect == ServicesSpec => []ServicesTypeOK
<1>1. TypeOK /\ ResetTypeOK /\ QueueTypeOK /\ UploadTypeOK => ServicesTypeOK
  BY DEF ServicesTypeOK
<1> QED BY <1>1, ModerationAlone, ResetAlone, QueueAlone, UploadsAlone, TypeCorrect,
           ResetTypeCorrect, QueueTypeCorrect, UploadTypeCorrect, PTL

\* And what is promised of each: no warning counted twice or lost, no member
\* over the limit left alone, no code that outlives its address or a newer
\* code, no slot of the queue lost, no file deleted under a restore, no password
\* guessed for ever, no disk filled.
THEOREM ServicesAreSafe ==
  ServicesSpec =>
    /\ [](AtLimitIsHandled /\ EmailCodeDiesWithAddress /\ NoSlotIsLost)
    /\ [](OpenFileStays /\ WrongPasswordsClose /\ DiskIsBounded)
    /\ CountsOnce /\ PointsAreKept
    /\ NewerCodeWins /\ RemoveIsFinal /\ TokenIsNotLost
<1>1. ServicesSpec => []AtLimitIsHandled /\ CountsOnce /\ PointsAreKept
  BY ModerationAlone, AtLimitIsHandledHolds, CountsOnceHolds, PointsAreKeptHolds
<1>2. ServicesSpec => /\ []EmailCodeDiesWithAddress
                      /\ NewerCodeWins /\ RemoveIsFinal /\ TokenIsNotLost
  BY ResetAlone, EmailCodeDiesHolds, NewerCodeWinsHolds, RemoveIsFinalHolds,
     TokenIsNotLostHolds
<1>3. ServicesSpec => []NoSlotIsLost
  BY QueueAlone, NoSlotIsLostHolds
<1>4. ServicesSpec => []OpenFileStays /\ []WrongPasswordsClose /\ []DiskIsBounded
  BY UploadsAlone, OpenFileStaysHolds, WrongPasswordsCloseHolds, DiskIsBoundedHolds
<1> QED BY <1>1, <1>2, <1>3, <1>4, PTL
=============================================================================
