----------------------------- MODULE MCServices -----------------------------
(* The components that share no state with the rest and none with each other: *)
(* moderation, the reset code and the recovery address, the sticker queue, the *)
(* uploads. Interleaving them would only multiply their states, so each        *)
(* behaviour is one of one of them while the others rest.                      *)
EXTENDS MCModeration, PasswordReset, StickerQueue, BackupUploads

CONSTANTS r1, r2, v1, g1, g2, mail1, mail2, j1, j2, j3, u1, u2, u3, p1, p2

TwoAddresses == {mail1, mail2}
TwoResets == {r1, r2}
OneVerify == {v1}
TwoGuesses == {g1, g2}
ThreeJobs == {j1, j2, j3}
ThreeUploads == {u1, u2, u3}
TwoPreviews == {p1, p2}

VARIABLE part

ServicesInit ==
  /\ part \in {"moderation", "reset", "queue", "uploads"}
  /\ Init /\ ResetInit /\ QueueInit /\ UploadInit
  /\ part # "moderation" => policy = Standard /\ ~linked

ServicesNext ==
  /\ UNCHANGED part
  /\ \/ part = "moderation" /\ Next       /\ UNCHANGED <<resetVars, queueVars, uploadVars>>
     \/ part = "reset"      /\ ResetNext  /\ UNCHANGED <<vars, queueVars, uploadVars>>
     \/ part = "queue"      /\ QueueNext  /\ UNCHANGED <<vars, resetVars, uploadVars>>
     \/ part = "uploads"    /\ UploadNext /\ UNCHANGED <<vars, resetVars, queueVars>>

ServicesSpec == ServicesInit /\ [][ServicesNext]_<<part, vars, resetVars, queueVars, uploadVars>>

\* The values of each component have their shape.
ServicesTypeOK == TypeOK /\ ResetTypeOK /\ QueueTypeOK /\ UploadTypeOK
=============================================================================
