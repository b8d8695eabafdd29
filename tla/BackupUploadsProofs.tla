-------------------------- MODULE BackupUploadsProofs --------------------------
(* Proofs about the uploaded backups, for every number of uploads, previews,  *)
(* places on the disk and wrong passwords.                                     *)
EXTENDS BackupUploads, FiniteSetTheorems, TLAPS

\* As good as gone.
Closed(u) == u.file = "gone" \/ u.doomed

\* An upload as it may be: the counter is what is remembered of the wrong
\* passwords unless it is closed, which it is once there were too many, and
\* only a whole file is open.
Good(u) ==
  /\ u \in Upload
  /\ u.wrong # u.attempts => Closed(u)
  /\ u.attempts >= MaxWrong => Closed(u)
  /\ u.pins > 0 => u.file = "whole"

\* A file stays as it is or is deleted when it was whole.
Kept(u, v) == v.file = u.file \/ (u.file = "whole" /\ v.file = "gone")

\* The fields of an upload.
LEMMA Fields ==
  ASSUME NEW u \in Upload
  PROVE  /\ u.file \in {"none", "part", "whole", "gone"} /\ u.expired \in BOOLEAN /\ u.timer \in BOOLEAN
         /\ u.pins \in Nat /\ u.doomed \in BOOLEAN /\ u.attempts \in Nat /\ u.wrong \in Nat
         /\ MaxWrong \in Nat /\ MaxWrong > 0
BY UploadAssumption DEF Upload

\* Forgetting the wrong passwords of a closed upload leaves it good.
LEMMA ForgivenIsGood ==
  ASSUME NEW u \in Upload, Closed(u), u.pins > 0 => u.file = "whole"
  PROVE  /\ Good(Forgiven(u)) /\ Forgiven(u).pins = u.pins /\ Forgiven(u).file = u.file
BY Fields DEF Forgiven, LockedOut, Good, Closed, Upload

\* A removal dooms or deletes.
LEMMA RemovedIsGood ==
  ASSUME NEW u, Good(u), u.file = "whole"
  PROVE  /\ Good(RemoveUpload(u)) /\ RemoveUpload(u).pins = u.pins /\ Kept(u, RemoveUpload(u))
<1>1. u \in Upload
  BY DEF Good
<1>2. CASE u.pins > 0
  <2> DEFINE v == [u EXCEPT !.doomed = TRUE]
  <2>1. v \in Upload /\ Closed(v) /\ v.pins = u.pins /\ v.file = u.file
    BY <1>1 DEF Upload, Closed
  <2>2. RemoveUpload(u) = Forgiven(v)
    BY <1>2 DEF RemoveUpload
  <2> QED
    BY <2>1, <2>2, ForgivenIsGood DEF Kept
<1>3. CASE u.pins = 0
  <2> DEFINE v == Deleted(u)
  <2>1. v \in Upload /\ Closed(v) /\ v.pins = u.pins /\ v.file = "gone"
    BY <1>1 DEF Upload, Closed, Deleted
  <2>2. RemoveUpload(u) = Forgiven(v)
    BY <1>1, <1>3 DEF RemoveUpload
  <2>3. ~(v.pins > 0)
    BY <1>3, <2>1
  <2> HIDE DEF v
  <2> QED
    BY <2>1, <2>2, <2>3, ForgivenIsGood DEF Kept
<1> QED
  BY <1>1, <1>2, <1>3, Fields

\* So does looking one up, and sweeping.
LEMMA LookedIsGood ==
  ASSUME NEW u, Good(u)
  PROVE  /\ Good(Looked(u)) /\ Looked(u).pins = u.pins /\ Kept(u, Looked(u))
BY RemovedIsGood DEF Looked, Kept

LEMMA SweptIsGood ==
  ASSUME NEW u, Good(u)
  PROVE  /\ Good(Swept(u)) /\ Swept(u).pins = u.pins /\ Kept(u, Swept(u))
<1>1. u \in Upload
  BY DEF Good
<1>2. CASE u.file = "whole" /\ (u.expired \/ u.doomed) /\ u.pins = 0
  <2> DEFINE v == Deleted(u)
  <2>1. v \in Upload /\ Closed(v) /\ v.pins = u.pins /\ v.file = "gone"
    BY <1>1 DEF Upload, Closed, Deleted
  <2>2. Swept(u) = Forgiven(v)
    BY <1>2 DEF Swept
  <2>3. ~(v.pins > 0)
    BY <1>2, <2>1
  <2> HIDE DEF v
  <2> QED
    BY <1>2, <2>1, <2>2, <2>3, ForgivenIsGood DEF Kept
<1> QED
  BY <1>2 DEF Swept, Kept

\* A pin more, on a whole file.
LEMMA PinnedIsGood ==
  ASSUME NEW u, Good(u), u.file = "whole"
  PROVE  /\ Good(Pinned(u)) /\ Pinned(u).pins = u.pins + 1 /\ Kept(u, Pinned(u))
BY Fields DEF Good, Pinned, Upload, Closed, Kept

\* A wrong password closes an upload that is open, or counts.
LEMMA GuessedIsGood ==
  ASSUME NEW u, Good(u), u.pins > 0
  PROVE  /\ Good(Guessed(u)) /\ Guessed(u).pins = u.pins /\ Guessed(u).file = u.file
<1> DEFINE v == [u EXCEPT !.attempts = @ + 1, !.wrong = @ + 1]
<1>1. u \in Upload
  BY DEF Good
<1>2. /\ v \in Upload /\ v.pins = u.pins /\ v.file = u.file /\ v.doomed = u.doomed
      /\ v.attempts = u.attempts + 1 /\ v.wrong = u.wrong + 1
  <2>1. u.attempts + 1 \in Nat /\ u.wrong + 1 \in Nat
    BY <1>1, Fields
  <2>2. v \in Upload
    BY <1>1, <2>1 DEF Upload
  <2>3. /\ v.pins = u.pins /\ v.file = u.file /\ v.doomed = u.doomed
        /\ v.attempts = u.attempts + 1 /\ v.wrong = u.wrong + 1
    BY <1>1 DEF Upload
  <2> QED
    BY <2>2, <2>3
<1>3. v.wrong # v.attempts => Closed(v)
  BY <1>1, <1>2, Fields DEF Good, Closed
<1>4. CASE ~LockedOut(v)
  <2>1. Guessed(u) = v
    BY <1>4 DEF Guessed
  <2> HIDE DEF v
  <2> QED
    BY <1>2, <1>3, <1>4, <2>1 DEF Good, LockedOut
<1>5. CASE LockedOut(v)
  <2>1. Guessed(u) = [v EXCEPT !.doomed = TRUE]
    BY <1>2, <1>5 DEF Guessed
  <2> HIDE DEF v
  <2>2. [v EXCEPT !.doomed = TRUE] \in Upload
    BY <1>2 DEF Upload
  <2>3. /\ [v EXCEPT !.doomed = TRUE].pins = v.pins /\ [v EXCEPT !.doomed = TRUE].file = v.file
        /\ [v EXCEPT !.doomed = TRUE].doomed
    BY <1>2 DEF Upload
  <2> QED
    BY <1>2, <2>1, <2>2, <2>3 DEF Good, Closed
<1> QED
  BY <1>4, <1>5

\* A pin less.
LEMMA ReleasedIsGood ==
  ASSUME NEW u, Good(u), u.pins > 0, NEW fails
  PROVE  /\ Good(Released(u, fails)) /\ Released(u, fails).pins = u.pins - 1 /\ Kept(u, Released(u, fails))
<1> DEFINE v == [u EXCEPT !.pins = @ - 1]
<1>1. u \in Upload /\ u.file = "whole"
  BY DEF Good
<1>2. /\ v \in Upload /\ v.pins = u.pins - 1 /\ v.file = u.file /\ v.doomed = u.doomed
      /\ v.attempts = u.attempts /\ v.wrong = u.wrong
  BY <1>1, Fields DEF Upload
<1>3. Good(v) /\ v.file = "whole"
  BY <1>1, <1>2 DEF Good, Closed
<1>4. Released(u, fails) = v \/ Released(u, fails) = RemoveUpload(v)
  BY DEF Released
<1> HIDE DEF v
<1>5. Good(RemoveUpload(v)) /\ RemoveUpload(v).pins = v.pins /\ Kept(v, RemoveUpload(v))
  BY <1>3, RemovedIsGood
<1> QED
  BY <1>1, <1>2, <1>3, <1>4, <1>5 DEF Kept
-----------------------------------------------------------------------------
(* The invariant                                                              *)

UploadShape ==
  /\ uploads \in [Uploads -> Upload]
  /\ receiving \in Nat
  /\ previews \in [Previews -> Uploads \cup {NoUpload}]
  /\ restoreJob \in [pc : {"idle", "queued", "open", "closing"}, id : Uploads \cup {NoUpload}, wrong : BOOLEAN]
  /\ uploadBudget \in 0..UploadBudget

\* The restore job is of an upload as long as there is one.
JobIsOfUpload == restoreJob = NoJob \/ (restoreJob.pc # "idle" /\ restoreJob.id \in Uploads)

OpenBy(open, i) == {p \in Previews : open[p] = i}

PinsAreCounted ==
  \A i \in Uploads : uploads[i].pins = Cardinality(OpenBy(previews, i)) + JobPins(i)

Parts(all) == {i \in Uploads : all[i].file = "part"}

OnDisk(all) == {i \in Uploads : all[i].file \in {"part", "whole"}}

DiskIsCounted ==
  /\ receiving = Cardinality(Parts(uploads))
  /\ Cardinality(OnDisk(uploads)) <= MaxUploads

UploadInv ==
  /\ UploadShape
  /\ \A i \in Uploads : Good(uploads[i])
  /\ JobIsOfUpload
  /\ PinsAreCounted
  /\ DiskIsCounted

\* The sets that are counted are finite.
LEMMA Finite ==
  /\ \A open, i : IsFiniteSet(OpenBy(open, i)) /\ Cardinality(OpenBy(open, i)) \in Nat
  /\ \A all : IsFiniteSet(Parts(all)) /\ Cardinality(Parts(all)) \in Nat
  /\ \A all : IsFiniteSet(OnDisk(all)) /\ Cardinality(OnDisk(all)) \in Nat
  /\ \A all : IsFiniteSet(Whole(all)) /\ Cardinality(Whole(all)) \in Nat
<1>1. \A S : S \in SUBSET Uploads => IsFiniteSet(S) /\ Cardinality(S) \in Nat
  BY UploadAssumption, FS_Subset, FS_CardinalityType
<1>2. \A S : S \in SUBSET Previews => IsFiniteSet(S) /\ Cardinality(S) \in Nat
  BY UploadAssumption, FS_Subset, FS_CardinalityType
<1>3. \A open, i : OpenBy(open, i) \in SUBSET Previews
  BY DEF OpenBy
<1>4. \A all : Parts(all) \in SUBSET Uploads /\ OnDisk(all) \in SUBSET Uploads /\ Whole(all) \in SUBSET Uploads
  BY DEF Parts, OnDisk, Whole
<1> QED
  BY <1>1, <1>2, <1>3, <1>4

\* Files that stay or are deleted when whole leave the disk counted.
LEMMA DiskShrinks ==
  ASSUME DiskIsCounted, UNCHANGED receiving, \A i \in Uploads : Kept(uploads[i], uploads'[i])
  PROVE  DiskIsCounted'
<1>1. Parts(uploads)' = Parts(uploads)
  BY DEF Parts, Kept
<1>2. OnDisk(uploads)' \in SUBSET OnDisk(uploads)
  BY DEF OnDisk, Kept
<1>3. Cardinality(OnDisk(uploads)') <= Cardinality(OnDisk(uploads))
  BY <1>2, Finite, FS_Subset
<1>4. MaxUploads \in Nat /\ Cardinality(OnDisk(uploads)) \in Nat
  BY UploadAssumption, Finite
<1>5. Cardinality(OnDisk(uploads)') \in Nat
  <2>1. IsFiniteSet(OnDisk(uploads)')
    BY <1>2, Finite, FS_Subset
  <2> QED
    BY <2>1, FS_CardinalityType
<1>6. Cardinality(OnDisk(uploads)') <= MaxUploads
  BY <1>3, <1>4, <1>5 DEF DiskIsCounted
<1> QED
  BY <1>1, <1>6 DEF DiskIsCounted

\* A preview opens i, or lets go of it.
LEMMA OneMorePreview ==
  ASSUME NEW open \in [Previews -> Uploads \cup {NoUpload}], NEW p \in Previews, NEW i \in Uploads,
         open[p] = NoUpload
  PROVE  /\ Cardinality(OpenBy([open EXCEPT ![p] = i], i)) = Cardinality(OpenBy(open, i)) + 1
         /\ \A j \in Uploads \ {i} : OpenBy([open EXCEPT ![p] = i], j) = OpenBy(open, j)
<1>1. NoUpload \notin Uploads
  BY UploadAssumption DEF NoUpload
<1>2. OpenBy([open EXCEPT ![p] = i], i) = OpenBy(open, i) \cup {p} /\ p \notin OpenBy(open, i)
  BY <1>1 DEF OpenBy
<1>3. \A j \in Uploads \ {i} : OpenBy([open EXCEPT ![p] = i], j) = OpenBy(open, j)
  BY <1>1 DEF OpenBy
<1> QED
  BY <1>2, <1>3, Finite, FS_AddElement, ZenonT(60)

LEMMA OnePreviewLess ==
  ASSUME NEW open \in [Previews -> Uploads \cup {NoUpload}], NEW p \in Previews, open[p] # NoUpload
  PROVE  /\ Cardinality(OpenBy([open EXCEPT ![p] = NoUpload], open[p])) = Cardinality(OpenBy(open, open[p])) - 1
         /\ \A j \in Uploads \ {open[p]} : OpenBy([open EXCEPT ![p] = NoUpload], j) = OpenBy(open, j)
         /\ Cardinality(OpenBy(open, open[p])) > 0
<1>1. NoUpload \notin Uploads
  BY UploadAssumption DEF NoUpload
<1>2. OpenBy([open EXCEPT ![p] = NoUpload], open[p]) = OpenBy(open, open[p]) \ {p} /\ p \in OpenBy(open, open[p])
  BY <1>1 DEF OpenBy
<1>3. \A j \in Uploads \ {open[p]} : OpenBy([open EXCEPT ![p] = NoUpload], j) = OpenBy(open, j)
  BY <1>1 DEF OpenBy
<1>4. Cardinality(OpenBy([open EXCEPT ![p] = NoUpload], open[p])) = Cardinality(OpenBy(open, open[p])) - 1
  BY <1>2, Finite, FS_RemoveElement
<1>5. Cardinality(OpenBy(open, open[p])) # 0
  BY <1>2, Finite, FS_EmptySet
<1>6. Cardinality(OpenBy(open, open[p])) \in Nat
  BY Finite
<1>7. Cardinality(OpenBy(open, open[p])) > 0
  BY <1>5, <1>6
<1> QED
  BY <1>3, <1>4, <1>7
-----------------------------------------------------------------------------
(* The steps                                                                  *)

\* One upload changes, the others stand.
LEMMA OneUpload ==
  ASSUME UploadInv, NEW i \in Uploads, NEW v, Good(v), Kept(uploads[i], v),
         uploads' = [uploads EXCEPT ![i] = v], UNCHANGED receiving
  PROVE  /\ uploads' \in [Uploads -> Upload] /\ receiving' \in Nat
         /\ \A j \in Uploads : Good(uploads'[j])
         /\ DiskIsCounted'
         /\ uploads'[i] = v /\ \A j \in Uploads \ {i} : uploads'[j] = uploads[j]
<1>1. uploads \in [Uploads -> Upload] /\ receiving \in Nat /\ v \in Upload /\ \A j \in Uploads : Good(uploads[j])
  BY DEF UploadInv, UploadShape, Good
<1>2. uploads'[i] = v /\ \A j \in Uploads \ {i} : uploads'[j] = uploads[j]
  BY <1>1
<1>3. \A j \in Uploads : Kept(uploads[j], uploads'[j])
  BY <1>2 DEF Kept
<1>4. DiskIsCounted'
  BY <1>3, DiskShrinks DEF UploadInv
<1> QED
  BY <1>1, <1>2, <1>4

\* Uploads that change without being opened or let go of.
LEMMA PinsStand ==
  ASSUME UploadInv, uploads' \in [Uploads -> Upload], UNCHANGED <<receiving, previews, restoreJob>>,
         \A i \in Uploads : Good(uploads'[i]) /\ uploads'[i].pins = uploads[i].pins /\ Kept(uploads[i], uploads'[i]),
         uploadBudget' \in 0..UploadBudget
  PROVE  UploadInv'
<1>1. UploadShape' /\ JobIsOfUpload'
  BY DEF UploadInv, UploadShape, JobIsOfUpload
<1>2. PinsAreCounted'
  BY DEF UploadInv, PinsAreCounted, JobPins, OpenBy
<1>3. DiskIsCounted'
  BY DiskShrinks DEF UploadInv
<1> QED
  BY <1>1, <1>2, <1>3 DEF UploadInv

\* The same, of one upload.
LEMMA OneStands ==
  ASSUME UploadInv, NEW i \in Uploads, NEW v, Good(v), v.pins = uploads[i].pins, Kept(uploads[i], v),
         uploads' = [uploads EXCEPT ![i] = v], UNCHANGED <<receiving, previews, restoreJob>>,
         uploadBudget' \in 0..UploadBudget
  PROVE  UploadInv'
<1>1. /\ uploads' \in [Uploads -> Upload]
      /\ \A j \in Uploads : Good(uploads'[j])
      /\ uploads'[i] = v /\ \A j \in Uploads \ {i} : uploads'[j] = uploads[j]
  BY OneUpload
<1>2. \A j \in Uploads : uploads'[j].pins = uploads[j].pins /\ Kept(uploads[j], uploads'[j])
  BY <1>1 DEF Kept
<1> QED
  BY <1>1, <1>2, PinsStand

\* The budget only shrinks.
LEMMA UploadSpent ==
  ASSUME UploadInv, SpendUpload \/ UNCHANGED uploadBudget
  PROVE  uploadBudget' \in 0..UploadBudget
BY UploadAssumption DEF UploadInv, UploadShape, SpendUpload

\* Sweeping concerns files that nobody has open.
LEMMA SweepStands ==
  ASSUME UploadInv, ReceiveRefused
  PROVE  UploadInv'
<1>1. \A i \in Uploads : SweptAll[i] = Swept(uploads[i])
  BY DEF SweptAll
<1>2. \A i \in Uploads : Good(SweptAll[i]) /\ SweptAll[i].pins = uploads[i].pins /\ Kept(uploads[i], SweptAll[i])
  BY <1>1, SweptIsGood DEF UploadInv
<1>3. SweptAll \in [Uploads -> Upload]
  BY <1>1, <1>2 DEF SweptAll, Good
<1>4. uploads' = SweptAll /\ UNCHANGED <<receiving, previews, restoreJob, uploadBudget>>
  BY DEF ReceiveRefused
<1>5. uploadBudget' \in 0..UploadBudget
  BY <1>4, UploadSpent
<1> QED
  BY <1>2, <1>3, <1>4, <1>5, PinsStand

\* The hour of an upload, and its timer.
LEMMA HourStands ==
  ASSUME UploadInv, NEW i \in Uploads, HourPasses(i) \/ \E fails \in BOOLEAN : Expire(i, fails)
  PROVE  UploadInv'
<1>1. Good(uploads[i]) /\ uploads[i] \in Upload
  BY DEF UploadInv, Good
<1>2. CASE HourPasses(i)
  <2> DEFINE v == [uploads[i] EXCEPT !.expired = TRUE]
  <2>1. uploads' = [uploads EXCEPT ![i] = v] /\ UNCHANGED <<receiving, previews, restoreJob, uploadBudget>>
    BY <1>2 DEF HourPasses
  <2>2. v \in Upload
    BY <1>1 DEF Upload
  <2>3. /\ v.file = uploads[i].file /\ v.pins = uploads[i].pins /\ v.doomed = uploads[i].doomed
        /\ v.wrong = uploads[i].wrong /\ v.attempts = uploads[i].attempts
    BY <1>1 DEF Upload
  <2> HIDE DEF v
  <2>4. Good(v) /\ Kept(uploads[i], v)
    BY <1>1, <2>2, <2>3 DEF Good, Closed, Kept
  <2> QED
    BY <2>1, <2>3, <2>4, OneStands, UploadSpent
<1>3. ASSUME NEW fails \in BOOLEAN, Expire(i, fails) PROVE UploadInv'
  <2> DEFINE u == [uploads[i] EXCEPT !.timer = FALSE]
  <2> DEFINE v == CASE u.file # "whole" \/ (u.pins = 0 /\ fails) -> u
                    [] u.file = "whole" /\ u.pins > 0 -> [u EXCEPT !.doomed = TRUE]
                    [] OTHER -> RemoveUpload(u)
  <2>1. uploads' = [uploads EXCEPT ![i] = v] /\ UNCHANGED <<receiving, previews, restoreJob, uploadBudget>>
    BY <1>3 DEF Expire
  <2>2. u \in Upload
    BY <1>1 DEF Upload
  <2>3. /\ u.file = uploads[i].file /\ u.pins = uploads[i].pins /\ u.doomed = uploads[i].doomed
        /\ u.wrong = uploads[i].wrong /\ u.attempts = uploads[i].attempts
    BY <1>1 DEF Upload
  <2> HIDE DEF u
  <2>4. Good(u) /\ Kept(uploads[i], u)
    BY <1>1, <2>2, <2>3 DEF Good, Closed, Kept
  <2> DEFINE d == [u EXCEPT !.doomed = TRUE]
  <2>5. d \in Upload
    BY <2>2 DEF Upload
  <2>6. d.file = u.file /\ d.pins = u.pins /\ d.doomed
    BY <2>2 DEF Upload
  <2>7. Good(d) /\ d.pins = u.pins /\ Kept(u, d)
    BY <2>4, <2>5, <2>6 DEF Good, Closed, Kept
  <2>8. u.file = "whole" => Good(RemoveUpload(u)) /\ RemoveUpload(u).pins = u.pins /\ Kept(u, RemoveUpload(u))
    BY <2>4, RemovedIsGood
  <2>9. v = u \/ v = d \/ (u.file = "whole" /\ v = RemoveUpload(u))
    OBVIOUS
  <2> HIDE DEF v, d
  <2>10. Good(v) /\ v.pins = uploads[i].pins /\ Kept(uploads[i], v)
    BY <2>3, <2>4, <2>7, <2>8, <2>9 DEF Kept
  <2> QED
    BY <2>1, <2>10, OneStands, UploadSpent
<1> QED
  BY <1>2, <1>3

\* A new upload finds its place on the disk.
LEMMA ReceiveCounts ==
  ASSUME UploadInv, NEW i \in Uploads, Receive(i)
  PROVE  UploadInv'
<1>1. /\ uploads[i].file = "none" /\ Cardinality(Whole(SweptAll)) + receiving < MaxUploads
      /\ receiving' = receiving + 1 /\ uploads' = [SweptAll EXCEPT ![i].file = "part"]
      /\ UNCHANGED <<previews, restoreJob, uploadBudget>>
  BY DEF Receive, Room
<1>2. \A j \in Uploads : /\ Good(SweptAll[j]) /\ SweptAll[j].pins = uploads[j].pins
                         /\ Kept(uploads[j], SweptAll[j])
  BY SweptIsGood DEF SweptAll, UploadInv
<1>3. SweptAll \in [Uploads -> Upload]
  BY <1>2 DEF SweptAll, Good
<1>4. SweptAll[i].file = "none" /\ SweptAll[i] \in Upload /\ SweptAll[i].pins = 0
  BY <1>1, <1>2, <1>3, Fields DEF Kept, Good
<1> DEFINE v == [SweptAll[i] EXCEPT !.file = "part"]
<1>5. v \in Upload
  BY <1>4 DEF Upload
<1>6. /\ v.file = "part" /\ v.pins = 0 /\ v.doomed = SweptAll[i].doomed
      /\ v.wrong = SweptAll[i].wrong /\ v.attempts = SweptAll[i].attempts
  BY <1>4 DEF Upload
<1>7. uploads' = [SweptAll EXCEPT ![i] = v]
  BY <1>1, <1>3
<1> HIDE DEF v
<1>8. Good(v)
  BY <1>2, <1>4, <1>5, <1>6 DEF Good, Closed
<1>9. /\ uploads'[i] = v /\ \A j \in Uploads \ {i} : uploads'[j] = SweptAll[j]
      /\ uploads' \in [Uploads -> Upload]
  BY <1>3, <1>5, <1>7
<1>10. \A j \in Uploads : Good(uploads'[j])
  BY <1>2, <1>8, <1>9
<1>11. \A j \in Uploads : uploads'[j].pins = uploads[j].pins
  BY <1>2, <1>4, <1>6, <1>9
<1>12. PinsAreCounted'
  BY <1>1, <1>11 DEF UploadInv, PinsAreCounted, JobPins, OpenBy
<1>13. Parts(uploads)' = Parts(uploads) \cup {i} /\ i \notin Parts(uploads)
  BY <1>1, <1>2, <1>6, <1>9 DEF Parts, Kept
<1>14. OnDisk(uploads)' = Whole(SweptAll) \cup (Parts(uploads) \cup {i})
  BY <1>1, <1>2, <1>4, <1>6, <1>9 DEF OnDisk, Whole, Parts, Kept
<1>15. Cardinality(Parts(uploads)') = receiving + 1 /\ IsFiniteSet(Parts(uploads)')
  BY <1>13, Finite, FS_AddElement DEF UploadInv, DiskIsCounted
<1>16. Whole(SweptAll) \cap Parts(uploads)' = {}
  BY <1>2, <1>4, <1>13 DEF Whole, Parts, Kept
<1>17. Cardinality(OnDisk(uploads)') = Cardinality(Whole(SweptAll)) + Cardinality(Parts(uploads)')
  <2>1. Cardinality(Whole(SweptAll) \cap Parts(uploads)') = 0
    BY <1>16, FS_EmptySet
  <2>2. /\ IsFiniteSet(Whole(SweptAll)) /\ Cardinality(Whole(SweptAll)) \in Nat
        /\ Cardinality(Parts(uploads)') \in Nat
    BY <1>15, Finite, FS_CardinalityType
  <2>3. Cardinality(Whole(SweptAll) \cup Parts(uploads)')
          = Cardinality(Whole(SweptAll)) + Cardinality(Parts(uploads)') - Cardinality(Whole(SweptAll) \cap Parts(uploads)')
    BY <1>15, <2>2, FS_Union
  <2>4. OnDisk(uploads)' = Whole(SweptAll) \cup Parts(uploads)'
    BY <1>13, <1>14
  <2> QED
    BY <2>1, <2>2, <2>3, <2>4
<1>18. /\ receiving \in Nat /\ MaxUploads \in Nat /\ Cardinality(Whole(SweptAll)) \in Nat
  BY Finite, UploadAssumption DEF UploadInv, UploadShape
<1>19. DiskIsCounted'
  BY <1>1, <1>15, <1>17, <1>18 DEF DiskIsCounted
<1>20. UploadShape' /\ JobIsOfUpload'
  BY <1>1, <1>9, <1>18 DEF UploadInv, UploadShape, JobIsOfUpload
<1> QED
  BY <1>10, <1>12, <1>19, <1>20 DEF UploadInv

\* An upload that has been received leaves the count of those being received.
LEMMA ReceivedCounts ==
  ASSUME UploadInv, NEW i \in Uploads, NEW complete \in BOOLEAN, ReceiveEnds(i, complete)
  PROVE  UploadInv'
<1>1. /\ uploads[i].file = "part" /\ receiving' = receiving - 1
      /\ UNCHANGED <<previews, restoreJob, uploadBudget>>
  BY DEF ReceiveEnds
<1>2. uploads \in [Uploads -> Upload] /\ Good(uploads[i]) /\ uploads[i] \in Upload /\ receiving \in Nat
  BY DEF UploadInv, UploadShape, Good
<1> DEFINE v == IF complete THEN [uploads[i] EXCEPT !.file = "whole", !.timer = TRUE]
                ELSE [uploads[i] EXCEPT !.file = "gone"]
<1>3. uploads' = [uploads EXCEPT ![i] = v]
  BY <1>2 DEF ReceiveEnds
<1>4. v \in Upload
  BY <1>2 DEF Upload
<1>5. /\ v.file \in {"whole", "gone"} /\ v.pins = uploads[i].pins /\ v.doomed = uploads[i].doomed
      /\ v.wrong = uploads[i].wrong /\ v.attempts = uploads[i].attempts
  BY <1>2 DEF Upload
<1> HIDE DEF v
<1>6. v.pins = 0
  BY <1>1, <1>2, <1>5, Fields DEF Good
<1>7. Good(v)
  BY <1>1, <1>2, <1>4, <1>5, <1>6 DEF Good, Closed
<1>8. /\ uploads'[i] = v /\ \A j \in Uploads \ {i} : uploads'[j] = uploads[j]
      /\ uploads' \in [Uploads -> Upload]
  BY <1>2, <1>3, <1>4
<1>9. \A j \in Uploads : Good(uploads'[j])
  BY <1>7, <1>8 DEF UploadInv
<1>10. PinsAreCounted'
  <2>1. \A j \in Uploads : uploads'[j].pins = uploads[j].pins
    BY <1>5, <1>8
  <2> QED
    BY <1>1, <2>1 DEF UploadInv, PinsAreCounted, JobPins, OpenBy
<1>11. Parts(uploads)' = Parts(uploads) \ {i} /\ i \in Parts(uploads)
  BY <1>1, <1>5, <1>8 DEF Parts
<1>12. Cardinality(Parts(uploads)') = receiving - 1 /\ IsFiniteSet(Parts(uploads)')
  BY <1>11, Finite, FS_RemoveElement DEF UploadInv, DiskIsCounted
<1>13. OnDisk(uploads)' \in SUBSET OnDisk(uploads)
  BY <1>1, <1>8 DEF OnDisk
<1>14. Cardinality(OnDisk(uploads)') <= Cardinality(OnDisk(uploads)) /\ IsFiniteSet(OnDisk(uploads)')
  BY <1>13, Finite, FS_Subset
<1>15. /\ Cardinality(OnDisk(uploads)') \in Nat /\ Cardinality(OnDisk(uploads)) \in Nat
       /\ Cardinality(Parts(uploads)') \in Nat /\ MaxUploads \in Nat
  BY <1>12, <1>14, Finite, FS_CardinalityType, UploadAssumption
<1>16. Cardinality(OnDisk(uploads)') <= MaxUploads
  BY <1>14, <1>15 DEF UploadInv, DiskIsCounted
<1>17. DiskIsCounted'
  BY <1>1, <1>12, <1>16 DEF DiskIsCounted
<1>18. receiving' \in Nat
  BY <1>1, <1>12, <1>15
<1>19. UploadShape' /\ JobIsOfUpload'
  BY <1>1, <1>8, <1>18 DEF UploadInv, UploadShape, JobIsOfUpload
<1> QED
  BY <1>9, <1>10, <1>17, <1>19 DEF UploadInv

\* A preview opens an upload, which is whole and stays so.
LEMMA PreviewCounts ==
  ASSUME UploadInv, NEW p \in Previews, NEW i \in Uploads, Preview(p, i)
  PROVE  UploadInv'
<1> DEFINE u == Looked(uploads[i])
<1>1. Good(uploads[i]) /\ uploads[i].pins \in Nat
  BY Fields DEF UploadInv, Good
<1>2. Good(u) /\ u.pins = uploads[i].pins /\ Kept(uploads[i], u)
  BY <1>1, LookedIsGood
<1>3. /\ previews[p] = NoUpload /\ UNCHANGED <<receiving, restoreJob>> /\ SpendUpload
      /\ IF u.file = "whole"
           THEN uploads' = [uploads EXCEPT ![i] = Pinned(u)] /\ previews' = [previews EXCEPT ![p] = i]
           ELSE uploads' = [uploads EXCEPT ![i] = u] /\ UNCHANGED previews
  BY DEF Preview
<1>4. uploadBudget' \in 0..UploadBudget
  BY <1>3, UploadSpent
<1> HIDE DEF u
<1>5. CASE u.file # "whole"
  BY <1>2, <1>3, <1>4, <1>5, OneStands
<1>6. CASE u.file = "whole"
  <2>1. Good(Pinned(u)) /\ Pinned(u).pins = u.pins + 1 /\ Kept(u, Pinned(u))
    BY <1>2, <1>6, PinnedIsGood
  <2>2. Kept(uploads[i], Pinned(u))
    BY <1>2, <2>1 DEF Kept
  <2>3. /\ uploads' \in [Uploads -> Upload] /\ receiving' \in Nat
        /\ \A j \in Uploads : Good(uploads'[j])
        /\ DiskIsCounted'
        /\ uploads'[i] = Pinned(u) /\ \A j \in Uploads \ {i} : uploads'[j] = uploads[j]
    BY <1>3, <1>6, <2>1, <2>2, OneUpload
  <2>4. previews \in [Previews -> Uploads \cup {NoUpload}]
    BY DEF UploadInv, UploadShape
  <2>5. /\ Cardinality(OpenBy(previews', i)) = Cardinality(OpenBy(previews, i)) + 1
        /\ \A j \in Uploads \ {i} : OpenBy(previews', j) = OpenBy(previews, j)
    <3>1. previews[p] = NoUpload /\ previews' = [previews EXCEPT ![p] = i]
      BY <1>3, <1>6
    <3> QED
      BY <2>4, <3>1, OneMorePreview
  <2>6. \A j \in Uploads : JobPins(j)' = JobPins(j)
    BY <1>3 DEF JobPins
  <2>7. JobPins(i) \in Nat /\ Cardinality(OpenBy(previews, i)) \in Nat
    BY Finite DEF JobPins
  <2>8. uploads'[i].pins = Cardinality(OpenBy(previews', i)) + JobPins(i)'
    BY <1>1, <1>2, <2>1, <2>3, <2>5, <2>6, <2>7 DEF UploadInv, PinsAreCounted
  <2>9. \A j \in Uploads \ {i} : uploads'[j].pins = Cardinality(OpenBy(previews', j)) + JobPins(j)'
    BY <2>3, <2>5, <2>6 DEF UploadInv, PinsAreCounted
  <2>10. \A j \in Uploads : uploads'[j].pins = Cardinality(OpenBy(previews', j)) + JobPins(j)'
    BY <2>8, <2>9
  <2>11. PinsAreCounted'
    BY <2>10 DEF PinsAreCounted, OpenBy
  <2>12. previews' \in [Previews -> Uploads \cup {NoUpload}]
    BY <1>3, <1>6, <2>4
  <2>13. UploadShape' /\ JobIsOfUpload'
    BY <1>3, <1>4, <2>3, <2>12 DEF UploadInv, UploadShape, JobIsOfUpload
  <2> QED
    BY <2>3, <2>11, <2>13 DEF UploadInv
<1> QED
  BY <1>5, <1>6

\* A preview that ends takes its pin with it.
LEMMA PreviewEndCounts ==
  ASSUME UploadInv, NEW p \in Previews, NEW wrong \in BOOLEAN, NEW fails \in BOOLEAN,
         PreviewEnds(p, wrong, fails)
  PROVE  UploadInv'
<1>1. /\ previews[p] # NoUpload /\ previews' = [previews EXCEPT ![p] = NoUpload]
      /\ UNCHANGED <<receiving, restoreJob, uploadBudget>>
  BY DEF PreviewEnds
<1>2. /\ previews \in [Previews -> Uploads \cup {NoUpload}] /\ uploads \in [Uploads -> Upload]
      /\ previews[p] \in Uploads
  BY <1>1 DEF UploadInv, UploadShape
<1> PICK i \in Uploads : previews[p] = i
  BY <1>2
<1> DEFINE u == IF wrong THEN Guessed(uploads[i]) ELSE uploads[i]
           v == Released(u, fails)
<1>3. uploads' = [uploads EXCEPT ![i] = v]
  BY <1>2 DEF PreviewEnds
<1>4. Good(uploads[i]) /\ uploads[i].pins \in Nat
  BY <1>2, Fields DEF UploadInv, Good
<1>5. /\ Cardinality(OpenBy(previews', i)) = Cardinality(OpenBy(previews, i)) - 1
      /\ \A j \in Uploads \ {i} : OpenBy(previews', j) = OpenBy(previews, j)
      /\ Cardinality(OpenBy(previews, i)) > 0
  BY <1>1, <1>2, OnePreviewLess
<1>6. JobPins(i) \in Nat /\ Cardinality(OpenBy(previews, i)) \in Nat
  BY Finite DEF JobPins
<1>7. uploads[i].pins > 0
  BY <1>2, <1>4, <1>5, <1>6 DEF UploadInv, PinsAreCounted
<1>8. Good(u) /\ u.pins = uploads[i].pins /\ u.file = uploads[i].file
  BY <1>4, <1>7, GuessedIsGood
<1> HIDE DEF u
<1>9. Good(v) /\ v.pins = u.pins - 1 /\ Kept(u, v)
  BY <1>7, <1>8, ReleasedIsGood
<1> HIDE DEF v
<1>10. Kept(uploads[i], v)
  BY <1>8, <1>9 DEF Kept
<1>11. /\ uploads' \in [Uploads -> Upload] /\ receiving' \in Nat
       /\ \A j \in Uploads : Good(uploads'[j])
       /\ DiskIsCounted'
       /\ uploads'[i] = v /\ \A j \in Uploads \ {i} : uploads'[j] = uploads[j]
  BY <1>1, <1>2, <1>3, <1>9, <1>10, OneUpload
<1>12. \A j \in Uploads : JobPins(j)' = JobPins(j)
  BY <1>1 DEF JobPins
<1>13. uploads'[i].pins = Cardinality(OpenBy(previews', i)) + JobPins(i)'
  BY <1>2, <1>4, <1>5, <1>6, <1>8, <1>9, <1>11, <1>12 DEF UploadInv, PinsAreCounted
<1>14. \A j \in Uploads \ {i} : uploads'[j].pins = Cardinality(OpenBy(previews', j)) + JobPins(j)'
  BY <1>5, <1>11, <1>12 DEF UploadInv, PinsAreCounted
<1>15. \A j \in Uploads : uploads'[j].pins = Cardinality(OpenBy(previews', j)) + JobPins(j)'
  BY <1>13, <1>14
<1>16. PinsAreCounted'
  BY <1>15 DEF PinsAreCounted, OpenBy
<1>17. previews' \in [Previews -> Uploads \cup {NoUpload}]
  BY <1>1, <1>2
<1>18. UploadShape' /\ JobIsOfUpload'
  BY <1>1, <1>11, <1>17 DEF UploadInv, UploadShape, JobIsOfUpload
<1> QED
  BY <1>11, <1>16, <1>18 DEF UploadInv

\* The restore job changes the pins of its upload alone.
LEMMA JobCounts ==
  ASSUME UploadInv, NEW i \in Uploads, NEW v, Good(v), Kept(uploads[i], v),
         uploads' = [uploads EXCEPT ![i] = v], UNCHANGED <<receiving, previews>>,
         uploadBudget' \in 0..UploadBudget,
         restoreJob' \in [pc : {"idle", "queued", "open", "closing"}, id : Uploads \cup {NoUpload}, wrong : BOOLEAN],
         JobIsOfUpload',
         JobPins(i) \in Int, JobPins(i)' \in Int,
         v.pins = uploads[i].pins + (JobPins(i)' - JobPins(i)),
         \A j \in Uploads \ {i} : JobPins(j)' = JobPins(j)
  PROVE  UploadInv'
<1>1. /\ uploads' \in [Uploads -> Upload] /\ receiving' \in Nat
      /\ \A j \in Uploads : Good(uploads'[j])
      /\ DiskIsCounted'
      /\ uploads'[i] = v /\ \A j \in Uploads \ {i} : uploads'[j] = uploads[j]
  BY OneUpload
<1>2. \A j \in Uploads : Cardinality(OpenBy(previews, j)) \in Nat
  BY Finite
<1>3. uploads[i].pins = Cardinality(OpenBy(previews, i)) + JobPins(i)
  BY DEF UploadInv, PinsAreCounted
<1>4. uploads'[i].pins = Cardinality(OpenBy(previews, i)) + JobPins(i)'
  BY <1>1, <1>2, <1>3
<1>5. \A j \in Uploads \ {i} : uploads'[j].pins = Cardinality(OpenBy(previews, j)) + JobPins(j)'
  BY <1>1 DEF UploadInv, PinsAreCounted
<1>6. \A j \in Uploads : uploads'[j].pins = Cardinality(OpenBy(previews, j)) + JobPins(j)'
  BY <1>4, <1>5
<1>7. PinsAreCounted'
  BY <1>6 DEF PinsAreCounted, OpenBy
<1>8. UploadShape'
  BY <1>1 DEF UploadInv, UploadShape
<1> QED
  BY <1>1, <1>7, <1>8 DEF UploadInv

\* What the job holds open is whole.
LEMMA JobHolds ==
  ASSUME UploadInv, restoreJob.pc # "idle"
  PROVE  /\ restoreJob.id \in Uploads /\ uploads[restoreJob.id].file = "whole"
         /\ uploads[restoreJob.id].pins \in Nat
         /\ uploads[restoreJob.id].pins >= (IF restoreJob.pc = "open" THEN 2 ELSE 1)
<1>1. restoreJob.id \in Uploads
  BY DEF UploadInv, JobIsOfUpload, NoJob
<1>2. JobPins(restoreJob.id) = IF restoreJob.pc = "open" THEN 2 ELSE 1
  BY DEF JobPins
<1>3. uploads[restoreJob.id].pins = Cardinality(OpenBy(previews, restoreJob.id)) + JobPins(restoreJob.id)
  BY <1>1 DEF UploadInv, PinsAreCounted
<1>4. Cardinality(OpenBy(previews, restoreJob.id)) \in Nat
  BY Finite
<1>5. Good(uploads[restoreJob.id])
  BY <1>1 DEF UploadInv
<1> QED
  BY <1>1, <1>2, <1>3, <1>4, <1>5 DEF Good

\* The job that is queued takes a pin.
LEMMA StartCounts ==
  ASSUME UploadInv, NEW i \in Uploads, StartRestore(i)
  PROVE  UploadInv'
<1> DEFINE u == Looked(uploads[i])
<1>1. Good(uploads[i]) /\ uploads[i].pins \in Nat
  BY Fields DEF UploadInv, Good
<1>2. Good(u) /\ u.pins = uploads[i].pins /\ Kept(uploads[i], u)
  BY <1>1, LookedIsGood
<1>3. /\ restoreJob = NoJob /\ UNCHANGED <<receiving, previews>> /\ SpendUpload
      /\ IF u.file = "whole"
           THEN uploads' = [uploads EXCEPT ![i] = Pinned(u)] /\ restoreJob' = [NoJob EXCEPT !.pc = "queued", !.id = i]
           ELSE uploads' = [uploads EXCEPT ![i] = u] /\ UNCHANGED restoreJob
  BY DEF StartRestore
<1>4. uploadBudget' \in 0..UploadBudget
  BY <1>3, UploadSpent
<1> HIDE DEF u
<1>5. CASE u.file # "whole"
  BY <1>2, <1>3, <1>4, <1>5, OneStands
<1>6. CASE u.file = "whole"
  <2>1. Good(Pinned(u)) /\ Pinned(u).pins = uploads[i].pins + 1 /\ Kept(uploads[i], Pinned(u))
    BY <1>2, <1>6, PinnedIsGood DEF Kept
  <2>2. restoreJob' = [pc |-> "queued", id |-> i, wrong |-> FALSE]
    BY <1>3, <1>6 DEF NoJob
  <2>3. NoUpload \notin Uploads
    BY UploadAssumption DEF NoUpload
  <2>4. \A j \in Uploads : JobPins(j) = 0
    BY <1>3, <2>3 DEF JobPins, NoJob
  <2>5. JobPins(i)' = 1 /\ \A j \in Uploads \ {i} : JobPins(j)' = 0
    BY <2>2 DEF JobPins
  <2>6. JobIsOfUpload'
    BY <2>2 DEF JobIsOfUpload
  <2>7. restoreJob' \in [pc : {"idle", "queued", "open", "closing"}, id : Uploads \cup {NoUpload}, wrong : BOOLEAN]
    BY <2>2
  <2>8. uploads' = [uploads EXCEPT ![i] = Pinned(u)] /\ UNCHANGED <<receiving, previews>>
    BY <1>3, <1>6
  <2>9. Pinned(u).pins = uploads[i].pins + (JobPins(i)' - JobPins(i))
    BY <1>1, <2>1, <2>4, <2>5
  <2>10. JobPins(i) \in Int /\ JobPins(i)' \in Int /\ \A j \in Uploads \ {i} : JobPins(j)' = JobPins(j)
    BY <2>4, <2>5
  <2> QED
    BY <1>4, <2>1, <2>6, <2>7, <2>8, <2>9, <2>10, JobCounts
<1> QED
  BY <1>5, <1>6

\* The job opens the upload with a pin of its own.
LEMMA OpenCounts ==
  ASSUME UploadInv, RestoreOpens
  PROVE  UploadInv'
<1>1. /\ restoreJob.pc = "queued" /\ restoreJob' = [restoreJob EXCEPT !.pc = "open"]
      /\ UNCHANGED <<receiving, previews, uploadBudget>>
      /\ restoreJob \in [pc : {"idle", "queued", "open", "closing"}, id : Uploads \cup {NoUpload}, wrong : BOOLEAN]
      /\ uploads \in [Uploads -> Upload]
  BY DEF RestoreOpens, UploadInv, UploadShape
<1>2. PICK i \in Uploads : i = restoreJob.id
  BY <1>1, JobHolds
<1>3. uploads[i].file = "whole" /\ uploads[i].pins \in Nat /\ Good(uploads[i])
  BY <1>1, <1>2, JobHolds DEF UploadInv
<1>4. restoreJob'.pc = "open" /\ restoreJob'.id = i
  BY <1>1, <1>2
<1>5. JobPins(i) = 1 /\ JobPins(i)' = 2 /\ \A j \in Uploads \ {i} : JobPins(j)' = JobPins(j)
  BY <1>1, <1>2, <1>4 DEF JobPins
<1>6. uploads' = [uploads EXCEPT ![i] = Pinned(uploads[i])]
  BY <1>1, <1>2 DEF RestoreOpens
<1>7. Good(Pinned(uploads[i])) /\ Pinned(uploads[i]).pins = uploads[i].pins + 1 /\ Kept(uploads[i], Pinned(uploads[i]))
  BY <1>3, PinnedIsGood
<1>8. restoreJob' \in [pc : {"idle", "queued", "open", "closing"}, id : Uploads \cup {NoUpload}, wrong : BOOLEAN]
  BY <1>1
<1>9. JobIsOfUpload'
  BY <1>4 DEF JobIsOfUpload
<1>10. Pinned(uploads[i]).pins = uploads[i].pins + (JobPins(i)' - JobPins(i))
  BY <1>3, <1>5, <1>7
<1>11. JobPins(i) \in Int /\ JobPins(i)' \in Int
  BY <1>5
<1>12. uploadBudget' \in 0..UploadBudget
  BY <1>1, UploadSpent
<1> QED
  BY <1>1, <1>5, <1>6, <1>7, <1>8, <1>9, <1>10, <1>11, <1>12, JobCounts

\* It closes it again, still holding the pin it was queued with.
LEMMA CloseCounts ==
  ASSUME UploadInv, NEW outcome \in {"restored", "wrong", "failed"}, NEW fails \in BOOLEAN,
         RestoreCloses(outcome, fails)
  PROVE  UploadInv'
<1>1. /\ restoreJob.pc = "open" /\ restoreJob' = [restoreJob EXCEPT !.pc = "closing", !.wrong = outcome = "wrong"]
      /\ UNCHANGED <<receiving, previews, uploadBudget>>
      /\ restoreJob \in [pc : {"idle", "queued", "open", "closing"}, id : Uploads \cup {NoUpload}, wrong : BOOLEAN]
      /\ uploads \in [Uploads -> Upload]
  BY DEF RestoreCloses, UploadInv, UploadShape
<1>2. PICK i \in Uploads : i = restoreJob.id
  BY <1>1, JobHolds
<1>3. uploads[i].file = "whole" /\ uploads[i].pins \in Nat /\ uploads[i].pins >= 2 /\ Good(uploads[i])
  BY <1>1, <1>2, JobHolds DEF UploadInv
<1>4. restoreJob'.pc = "closing" /\ restoreJob'.id = i
  BY <1>1, <1>2
<1>5. JobPins(i) = 2 /\ JobPins(i)' = 1 /\ \A j \in Uploads \ {i} : JobPins(j)' = JobPins(j)
  BY <1>1, <1>2, <1>4 DEF JobPins
<1> DEFINE u == IF outcome = "restored" THEN RemoveUpload(uploads[i]) ELSE uploads[i]
           v == Released(u, fails)
<1>6. uploads' = [uploads EXCEPT ![i] = v]
  BY <1>1, <1>2 DEF RestoreCloses
<1>7. Good(u) /\ u.pins = uploads[i].pins /\ Kept(uploads[i], u)
  BY <1>3, RemovedIsGood DEF Kept
<1> HIDE DEF u
<1>8. Good(v) /\ v.pins = u.pins - 1 /\ Kept(u, v)
  BY <1>3, <1>7, ReleasedIsGood
<1> HIDE DEF v
<1>9. Kept(uploads[i], v)
  BY <1>7, <1>8 DEF Kept
<1>10. restoreJob' \in [pc : {"idle", "queued", "open", "closing"}, id : Uploads \cup {NoUpload}, wrong : BOOLEAN]
  BY <1>1
<1>11. JobIsOfUpload'
  BY <1>4 DEF JobIsOfUpload
<1>12. v.pins = uploads[i].pins + (JobPins(i)' - JobPins(i))
  BY <1>3, <1>5, <1>7, <1>8
<1>13. JobPins(i) \in Int /\ JobPins(i)' \in Int
  BY <1>5
<1>14. uploadBudget' \in 0..UploadBudget
  BY <1>1, UploadSpent
<1> QED
  BY <1>1, <1>5, <1>6, <1>8, <1>9, <1>10, <1>11, <1>12, <1>13, <1>14, JobCounts

\* The job ends and lets go of the upload.
LEMMA EndCounts ==
  ASSUME UploadInv, NEW fails \in BOOLEAN, RestoreEnds(fails)
  PROVE  UploadInv'
<1>1. /\ restoreJob.pc = "closing" /\ restoreJob' = NoJob
      /\ UNCHANGED <<receiving, previews, uploadBudget>>
      /\ uploads \in [Uploads -> Upload]
  BY DEF RestoreEnds, UploadInv, UploadShape
<1>2. PICK i \in Uploads : i = restoreJob.id
  BY <1>1, JobHolds
<1>3. uploads[i].pins \in Nat /\ uploads[i].pins > 0 /\ Good(uploads[i])
  BY <1>1, <1>2, JobHolds DEF UploadInv
<1>4. NoUpload \notin Uploads
  BY UploadAssumption DEF NoUpload
<1>5. JobPins(i) = 1 /\ JobPins(i)' = 0 /\ \A j \in Uploads \ {i} : JobPins(j)' = JobPins(j)
  BY <1>1, <1>2, <1>4 DEF JobPins, NoJob
<1> DEFINE u == IF restoreJob.wrong THEN Guessed(uploads[i]) ELSE uploads[i]
           v == Released(u, fails)
<1>6. uploads' = [uploads EXCEPT ![i] = v]
  BY <1>1, <1>2 DEF RestoreEnds
<1>7. Good(u) /\ u.pins = uploads[i].pins /\ Kept(uploads[i], u)
  BY <1>3, GuessedIsGood DEF Kept
<1> HIDE DEF u
<1>8. Good(v) /\ v.pins = u.pins - 1 /\ Kept(u, v)
  BY <1>3, <1>7, ReleasedIsGood
<1> HIDE DEF v
<1>9. Kept(uploads[i], v)
  BY <1>7, <1>8 DEF Kept
<1>10. restoreJob' \in [pc : {"idle", "queued", "open", "closing"}, id : Uploads \cup {NoUpload}, wrong : BOOLEAN]
  BY <1>1 DEF NoJob
<1>11. JobIsOfUpload'
  BY <1>1 DEF JobIsOfUpload
<1>12. v.pins = uploads[i].pins + (JobPins(i)' - JobPins(i))
  BY <1>3, <1>5, <1>7, <1>8
<1>13. JobPins(i) \in Int /\ JobPins(i)' \in Int
  BY <1>5
<1>14. uploadBudget' \in 0..UploadBudget
  BY <1>1, UploadSpent
<1> QED
  BY <1>1, <1>5, <1>6, <1>8, <1>9, <1>10, <1>11, <1>12, <1>13, <1>14, JobCounts

\* A fresh upload, and one swept away at a start, are good and not on the disk.
LEMMA NewIsGood ==
  /\ Good(NewUpload) /\ NewUpload.pins = 0 /\ NewUpload.file = "none"
  /\ Good([NewUpload EXCEPT !.file = "gone"]) /\ [NewUpload EXCEPT !.file = "gone"].pins = 0
  /\ [NewUpload EXCEPT !.file = "gone"].file = "gone"
<1> DEFINE gone == [NewUpload EXCEPT !.file = "gone"]
<1>1. NewUpload \in Upload /\ gone \in Upload
  BY DEF NewUpload, Upload
<1>2. /\ NewUpload.pins = 0 /\ NewUpload.file = "none" /\ NewUpload.wrong = 0 /\ NewUpload.attempts = 0
      /\ gone.pins = 0 /\ gone.file = "gone"
  BY DEF NewUpload
<1> HIDE DEF gone
<1>3. MaxWrong \in Nat /\ MaxWrong > 0
  BY UploadAssumption
<1>4. Good(NewUpload)
  BY <1>1, <1>2, <1>3 DEF Good
<1>5. Good(gone)
  BY <1>1, <1>2 DEF Good, Closed
<1> QED
  BY <1>2, <1>4, <1>5 DEF gone

\* Uploads of which none is open and none on the disk.
LEMMA NothingOpen ==
  ASSUME uploads \in [Uploads -> Upload], receiving = 0, restoreJob = NoJob,
         previews = [p \in Previews |-> NoUpload],
         uploadBudget \in 0..UploadBudget,
         \A i \in Uploads : Good(uploads[i]) /\ uploads[i].pins = 0 /\ uploads[i].file \in {"none", "gone"}
  PROVE  UploadInv
<1>1. NoUpload \notin Uploads /\ MaxUploads \in Nat
  BY UploadAssumption DEF NoUpload
<1>2. \A i \in Uploads : OpenBy(previews, i) = {}
  BY <1>1 DEF OpenBy
<1>3. \A i \in Uploads : JobPins(i) = 0
  BY <1>1 DEF JobPins, NoJob
<1>4. PinsAreCounted
  BY <1>2, <1>3, FS_EmptySet DEF PinsAreCounted
<1>5. Parts(uploads) = {} /\ OnDisk(uploads) = {}
  BY DEF Parts, OnDisk
<1>6. DiskIsCounted
  BY <1>1, <1>5, FS_EmptySet DEF DiskIsCounted
<1>7. UploadShape /\ JobIsOfUpload
  BY DEF UploadShape, JobIsOfUpload, NoJob
<1> QED
  BY <1>4, <1>6, <1>7 DEF UploadInv

\* It is so at first.
LEMMA UploadStart == UploadInit => UploadInv
<1> SUFFICES ASSUME UploadInit PROVE UploadInv
  OBVIOUS
<1>1. \A i \in Uploads : uploads[i] = NewUpload
  BY DEF UploadInit
<1>2. uploads \in [Uploads -> Upload]
  BY NewIsGood DEF UploadInit, Good
<1>3. uploadBudget \in 0..UploadBudget
  BY UploadAssumption DEF UploadInit
<1> QED
  BY <1>1, <1>2, <1>3, NewIsGood, NothingOpen DEF UploadInit

\* And again when the process starts.
LEMMA RestartStart ==
  ASSUME UploadInv, RestartUploads
  PROVE  UploadInv'
<1>1. \A i \in Uploads : uploads'[i] = NewUpload \/ uploads'[i] = [NewUpload EXCEPT !.file = "gone"]
  BY DEF RestartUploads
<1>2. uploads' \in [Uploads -> Upload]
  BY NewIsGood DEF RestartUploads, Good
<1>3. /\ receiving' = 0 /\ restoreJob' = NoJob /\ previews' = [p \in Previews |-> NoUpload]
      /\ SpendUpload
  BY DEF RestartUploads
<1>4. uploadBudget' \in 0..UploadBudget
  BY <1>3, UploadSpent
<1>5. \A i \in Uploads : Good(uploads'[i]) /\ uploads'[i].pins = 0 /\ uploads'[i].file \in {"none", "gone"}
  BY <1>1, NewIsGood
<1>6. NoUpload \notin Uploads /\ MaxUploads \in Nat
  BY UploadAssumption DEF NoUpload
<1>7. \A i \in Uploads : OpenBy(previews, i)' = {}
  BY <1>3, <1>6 DEF OpenBy
<1>8. \A i \in Uploads : JobPins(i)' = 0
  BY <1>3, <1>6 DEF JobPins, NoJob
<1>9. PinsAreCounted'
  <2>1. \A i \in Uploads : uploads'[i].pins = Cardinality(OpenBy(previews, i)') + JobPins(i)'
    <3> TAKE i \in Uploads
    <3>1. Cardinality(OpenBy(previews, i)') = 0
      BY <1>7, FS_EmptySet
    <3> QED
      BY <1>5, <1>8, <3>1
  <2> QED
    BY <2>1 DEF PinsAreCounted
<1>10. Parts(uploads)' = {} /\ OnDisk(uploads)' = {}
  BY <1>5 DEF Parts, OnDisk
<1>11. DiskIsCounted'
  BY <1>3, <1>6, <1>10, FS_EmptySet DEF DiskIsCounted
<1>12. UploadShape' /\ JobIsOfUpload'
  BY <1>2, <1>3, <1>4 DEF UploadShape, JobIsOfUpload, NoJob
<1> QED
  BY <1>5, <1>9, <1>11, <1>12 DEF UploadInv

\* Every step keeps the invariant.
LEMMA UploadStep == UploadInv /\ [UploadNext]_uploadVars => UploadInv'
<1> SUFFICES ASSUME UploadInv, [UploadNext]_uploadVars PROVE UploadInv'
  OBVIOUS
<1>1. CASE UNCHANGED uploadVars
  BY <1>1 DEF uploadVars, UploadInv, UploadShape, JobIsOfUpload, PinsAreCounted, JobPins, OpenBy,
              DiskIsCounted, Parts, OnDisk
<1>2. CASE UploadNext
  BY <1>2, ReceiveCounts, HourStands, StartCounts, ReceivedCounts, PreviewCounts, PreviewEndCounts,
     CloseCounts, EndCounts, SweepStands, OpenCounts, RestartStart DEF UploadNext
<1> QED
  BY <1>1, <1>2

\* The uploads and those who have them open keep their shape.
THEOREM UploadTypeCorrect == UploadSpec => []UploadTypeOK
<1>1. UploadInv => UploadTypeOK
  <2> SUFFICES ASSUME UploadInv PROVE UploadTypeOK
    OBVIOUS
  <2>1. Parts(uploads) \in SUBSET OnDisk(uploads)
    BY DEF Parts, OnDisk
  <2>2. Cardinality(Parts(uploads)) <= Cardinality(OnDisk(uploads))
    BY <2>1, Finite, FS_Subset
  <2>3. /\ Cardinality(Parts(uploads)) \in Nat /\ Cardinality(OnDisk(uploads)) \in Nat /\ MaxUploads \in Nat
    BY Finite, UploadAssumption
  <2>4. receiving \in 0..MaxUploads
    BY <2>2, <2>3 DEF UploadInv, DiskIsCounted
  <2> QED
    BY <2>4 DEF UploadInv, UploadShape, UploadTypeOK
<1> QED
  BY <1>1, UploadStart, UploadStep, PTL DEF UploadSpec

\* A file that a preview or the restore job has open is not deleted under them.
THEOREM OpenFileStaysHolds == UploadSpec => []OpenFileStays
<1>1. UploadInv => OpenFileStays
  BY DEF UploadInv, PinsAreCounted, OpenBy, Good, OpenFileStays
<1> QED
  BY <1>1, UploadStart, UploadStep, PTL DEF UploadSpec

\* After the last allowed wrong password an upload is gone or doomed.
THEOREM WrongPasswordsCloseHolds == UploadSpec => []WrongPasswordsClose
<1>1. UploadInv => WrongPasswordsClose
  BY DEF UploadInv, Good, Closed, WrongPasswordsClose
<1> QED
  BY <1>1, UploadStart, UploadStep, PTL DEF UploadSpec

\* No more uploads than allowed are on the disk, those on their way included.
THEOREM DiskIsBoundedHolds == UploadSpec => []DiskIsBounded
<1>1. UploadInv => DiskIsBounded
  BY DEF UploadInv, DiskIsCounted, OnDisk, DiskIsBounded
<1> QED
  BY <1>1, UploadStart, UploadStep, PTL DEF UploadSpec
=============================================================================
