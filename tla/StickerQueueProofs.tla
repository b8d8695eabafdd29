-------------------------- MODULE StickerQueueProofs --------------------------
(* Proofs about the sticker queue, for every number of jobs, slots and places *)
(* in the line.                                                                *)
EXTENDS StickerQueue, FiniteSetTheorems, SequenceTheorems, TLAPS

\* The types, without the bound on the counter, which needs the other parts.
QueueShape ==
  /\ waiting \in Seq(Jobs)
  /\ active \in Int
  /\ slot \in [Jobs -> {"none", "held", "grace", "freed"}]
  /\ race \in [Jobs -> {"open", "result", "error", "timeout", "cancelled"}]
  /\ ended \subseteq Jobs /\ aborted \subseteq Jobs /\ cancelled \subseteq Jobs
  /\ answer \in [Jobs -> {"none", "pending", "resolved", "rejected"}]

\* What waits was submitted and has had no slot.
LineIsNew == \A k \in 1..Len(waiting) : slot[waiting[k]] = "none" /\ answer[waiting[k]] # "none"

\* No job waits twice.
LineIsOnce == \A k, l \in 1..Len(waiting) : waiting[k] = waiting[l] => k = l

\* Only a job that was submitted has had a slot.
SlotsAreAsked == \A j \in Jobs : answer[j] = "none" => slot[j] = "none"

Holders(slots) == {j \in Jobs : slots[j] \in {"held", "grace"}}

QueueInv ==
  /\ QueueShape
  /\ LineIsNew
  /\ LineIsOnce
  /\ SlotsAreAsked
  /\ active = Cardinality(Holders(slot))
  /\ active <= Concurrency
  /\ waiting # <<>> => active = Concurrency
  /\ Len(waiting) <= MaxQueued
-----------------------------------------------------------------------------
(* Draining                                                                   *)

\* The holders are finitely many, and as many as counted.
LEMMA HoldersFinite ==
  ASSUME NEW slots
  PROVE  IsFiniteSet(Holders(slots)) /\ Cardinality(Holders(slots)) \in Nat
<1>1. Holders(slots) \in SUBSET Jobs
  BY DEF Holders
<1>2. IsFiniteSet(Jobs)
  BY QueueAssumption
<1>3. IsFiniteSet(Holders(slots))
  BY <1>1, <1>2, FS_Subset
<1> QED
  BY <1>3, FS_CardinalityType

\* With no slot left, or no one waiting, nobody starts.
LEMMA DrainNone ==
  ASSUME NEW line \in Seq(Jobs), NEW count \in Int, NEW slots, count <= Concurrency,
         Len(line) = 0 \/ count = Concurrency, Drain(line, count, slots)
  PROVE  waiting' = line /\ active' = count /\ slot' = [j \in Jobs |-> slots[j]]
<1>1. Len(line) \in Nat /\ Concurrency \in Nat
  BY QueueAssumption
<1>2. Starting(line, count) = 0
  BY <1>1 DEF Starting
<1>3. waiting' = SubSeq(line, 1, Len(line)) /\ active' = count
  BY <1>1, <1>2 DEF Drain
<1>4. SubSeq(line, 1, Len(line)) = line
  BY <1>1, SubSeqFull
<1>5. slot' = [j \in Jobs |-> slots[j]]
  BY <1>2 DEF Drain
<1> QED
  BY <1>3, <1>4, <1>5

\* With one slot for a line, or one job for the slots, the first of the line starts.
LEMMA DrainFirst ==
  ASSUME NEW line \in Seq(Jobs), NEW count \in Int, NEW slots, Len(line) > 0, count < Concurrency,
         Len(line) = 1 \/ count = Concurrency - 1, Drain(line, count, slots)
  PROVE  /\ waiting' \in Seq(Jobs) /\ Len(waiting') = Len(line) - 1
         /\ \A k \in 1..Len(waiting') : waiting'[k] = line[k + 1]
         /\ active' = count + 1
         /\ slot' = [j \in Jobs |-> IF j = line[1] THEN "held" ELSE slots[j]]
<1>1. Len(line) \in Nat /\ Concurrency \in Nat
  BY QueueAssumption
<1>2. Starting(line, count) = 1
  BY <1>1 DEF Starting
<1>3. waiting' = SubSeq(line, 2, Len(line)) /\ active' = count + 1
  BY <1>1, <1>2 DEF Drain
<1>4. \A k \in 2..Len(line) : line[k] \in Jobs
  BY <1>1
<1>5. /\ waiting' \in Seq(Jobs)
      /\ Len(waiting') = IF 2 <= Len(line) THEN Len(line) - 2 + 1 ELSE 0
      /\ \A k \in 1..Len(line) - 2 + 1 : waiting'[k] = line[2 + k - 1]
  BY <1>1, <1>3, <1>4, SubSeqProperties
<1>6. slot' = [j \in Jobs |-> IF j = line[1] THEN "held" ELSE slots[j]]
  <2>1. \A j : (\E k \in 1..1 : line[k] = j) <=> j = line[1]
    OBVIOUS
  <2> QED
    BY <1>2, <2>1 DEF Drain
<1>7. Len(waiting') = Len(line) - 1
  <2>1. CASE 2 <= Len(line)
    BY <1>1, <1>5, <2>1
  <2>2. CASE Len(line) = 1
    BY <1>5, <2>2
  <2>3. \A n \in Nat : n > 0 => 2 <= n \/ n = 1
    OBVIOUS
  <2>4. 2 <= Len(line) \/ Len(line) = 1
    BY <1>1, <2>3
  <2> QED
    BY <2>1, <2>2, <2>4
<1>8. \A k \in 1..Len(waiting') : waiting'[k] = line[k + 1]
  <2> TAKE k \in 1..Len(waiting')
  <2>1. k \in 1..Len(line) - 2 + 1 /\ 2 + k - 1 = k + 1
    BY <1>1, <1>7
  <2> QED
    BY <1>5, <2>1
<1> QED
  BY <1>3, <1>5, <1>6, <1>7, <1>8
-----------------------------------------------------------------------------
(* The steps                                                                  *)

\* A slot that is given back goes to the first of the line, or stays free.
LEMMA SlotGivenBack ==
  ASSUME QueueInv, NEW j \in Jobs, ReleaseSlot(j), slot[j] # "none",
         UNCHANGED answer,
         ended' \subseteq Jobs, aborted' \subseteq Jobs, cancelled' \subseteq Jobs,
         race' \in [Jobs -> {"open", "result", "error", "timeout", "cancelled"}]
  PROVE  QueueInv'
<1> DEFINE freed == [slot EXCEPT ![j] = "freed"]
<1>1. CASE slot[j] = "freed"
  <2>1. UNCHANGED <<waiting, active, slot>>
    BY <1>1 DEF ReleaseSlot
  <2> QED
    BY <2>1 DEF QueueInv, QueueShape, LineIsNew, LineIsOnce, SlotsAreAsked, Holders
<1>2. CASE slot[j] \in {"held", "grace"}
  <2>1. Drain(waiting, active - 1, freed)
    BY <1>2 DEF ReleaseSlot
  <2>2. /\ waiting \in Seq(Jobs) /\ Len(waiting) \in Nat /\ active \in Int /\ active <= Concurrency
        /\ slot \in [Jobs -> {"none", "held", "grace", "freed"}]
        /\ Concurrency \in Nat /\ MaxQueued \in Nat
    BY QueueAssumption DEF QueueInv, QueueShape
  <2>3. Holders(freed) = Holders(slot) \ {j}
    BY <2>2 DEF Holders
  <2>4. j \in Holders(slot)
    BY <1>2 DEF Holders
  <2>5. Cardinality(Holders(freed)) = active - 1 /\ IsFiniteSet(Holders(freed))
    BY <2>3, <2>4, HoldersFinite, FS_RemoveElement DEF QueueInv
  <2>6. freed \in [Jobs -> {"none", "held", "grace", "freed"}]
    BY <2>2
  <2>7. \A k \in 1..Len(waiting) : waiting[k] \in Jobs /\ waiting[k] # j
    BY <1>2, <2>2 DEF QueueInv, LineIsNew
  <2>8. \A i \in Jobs \ {j} : freed[i] = slot[i]
    BY <2>2
  <2>9. answer[j] # "none"
    BY <1>2 DEF QueueInv, SlotsAreAsked
  <2>10. freed[j] = "freed"
    BY <2>2
  <2> HIDE DEF freed
  <2>11. CASE Len(waiting) = 0
    <3>1. waiting' = waiting /\ active' = active - 1 /\ slot' = [i \in Jobs |-> freed[i]]
      <4>1. active - 1 \in Int /\ active - 1 <= Concurrency
        BY <2>2
      <4> QED
        BY <2>1, <2>2, <2>11, <4>1, DrainNone
    <3>2. slot' = freed
      BY <2>6, <3>1
    <3>3. QueueShape'
      BY <2>2, <2>6, <3>1, <3>2 DEF QueueInv, QueueShape
    <3>4. LineIsNew' /\ LineIsOnce'
      BY <2>11, <3>1 DEF LineIsNew, LineIsOnce
    <3>5. SlotsAreAsked'
      BY <2>8, <2>9, <3>2 DEF QueueInv, SlotsAreAsked
    <3>6. active' = Cardinality(Holders(slot'))
      BY <2>5, <3>1, <3>2
    <3>7. waiting' = <<>>
      BY <2>2, <2>11, <3>1
    <3> QED
      BY <2>2, <2>11, <3>1, <3>3, <3>4, <3>5, <3>6, <3>7 DEF QueueInv, Holders
  <2>12. CASE Len(waiting) > 0
    <3>1. active = Concurrency
      BY <2>12 DEF QueueInv
    <3>2. /\ waiting' \in Seq(Jobs) /\ Len(waiting') = Len(waiting) - 1
          /\ \A k \in 1..Len(waiting') : waiting'[k] = waiting[k + 1]
          /\ active' = active - 1 + 1
          /\ slot' = [i \in Jobs |-> IF i = waiting[1] THEN "held" ELSE freed[i]]
      BY <2>1, <2>2, <2>12, <3>1, DrainFirst
    <3>3. 1 \in 1..Len(waiting) /\ waiting[1] \in Jobs /\ waiting[1] # j
      BY <2>2, <2>7, <2>12
    <3>4. active' = Concurrency
      BY <2>2, <3>1, <3>2
    <3>5. slot[waiting[1]] = "none" /\ answer[waiting[1]] # "none"
      BY <3>3 DEF QueueInv, LineIsNew
    <3>6. waiting[1] \notin Holders(freed)
      BY <2>8, <3>3, <3>5 DEF Holders
    <3>7. Holders(slot') = Holders(freed) \cup {waiting[1]}
      BY <3>2, <3>3 DEF Holders
    <3>8. Cardinality(Holders(slot')) = active - 1 + 1
      BY <2>5, <3>6, <3>7, FS_AddElement
    <3>9. QueueShape'
      BY <2>2, <2>6, <3>2, <3>4 DEF QueueInv, QueueShape
    <3>10. \A k \in 1..Len(waiting') : k + 1 \in 1..Len(waiting) /\ k + 1 # 1
      BY <2>2, <3>2
    <3>11. \A k \in 1..Len(waiting') : waiting'[k] # waiting[1] /\ waiting'[k] # j
      BY <2>7, <3>2, <3>3, <3>10 DEF QueueInv, LineIsOnce
    <3>12. LineIsNew'
      <4> SUFFICES ASSUME NEW k \in 1..Len(waiting')
                   PROVE  slot'[waiting'[k]] = "none" /\ answer'[waiting'[k]] # "none"
        BY DEF LineIsNew
      <4>1. slot[waiting[k + 1]] = "none" /\ answer[waiting[k + 1]] # "none" /\ waiting[k + 1] \in Jobs
        BY <2>7, <3>10 DEF QueueInv, LineIsNew
      <4> QED
        BY <2>8, <3>2, <3>11, <4>1
    <3>13. LineIsOnce'
      <4> SUFFICES ASSUME NEW k \in 1..Len(waiting'), NEW l \in 1..Len(waiting'), waiting'[k] = waiting'[l]
                   PROVE  k = l
        BY DEF LineIsOnce
      <4>1. k + 1 = l + 1
        BY <3>2, <3>10 DEF QueueInv, LineIsOnce
      <4> QED
        BY <2>2, <3>2, <4>1
    <3>14. SlotsAreAsked'
      BY <2>8, <2>9, <3>2, <3>5 DEF QueueInv, SlotsAreAsked
    <3>15. Len(waiting') <= MaxQueued
      BY <2>2, <3>2 DEF QueueInv
    <3>16. active' = Cardinality(Holders(slot'))
      BY <3>2, <3>8
    <3> QED
      BY <2>2, <3>4, <3>9, <3>12, <3>13, <3>14, <3>15, <3>16 DEF QueueInv, Holders
  <2> QED
    BY <2>2, <2>11, <2>12
<1>3. slot[j] \in {"held", "grace", "freed"}
  BY DEF QueueInv, QueueShape
<1> QED
  BY <1>1, <1>2, <1>3

\* A job that is submitted starts at once or joins the line.
LEMMA Submitted ==
  ASSUME QueueInv, NEW j \in Jobs, Submit(j)
  PROVE  QueueInv'
<1>1. /\ waiting \in Seq(Jobs) /\ Len(waiting) \in Nat /\ active \in Int /\ active <= Concurrency
      /\ slot \in [Jobs -> {"none", "held", "grace", "freed"}]
      /\ answer \in [Jobs -> {"none", "pending", "resolved", "rejected"}]
      /\ Concurrency \in Nat /\ MaxQueued \in Nat
  BY QueueAssumption DEF QueueInv, QueueShape
<1> DEFINE line == Append(waiting, j)
<1>2. /\ line \in Seq(Jobs) /\ Len(line) = Len(waiting) + 1
      /\ \A k \in 1..Len(waiting) : line[k] = waiting[k]
      /\ line[Len(waiting) + 1] = j
  BY <1>1
<1>3. /\ Drain(line, active, slot) /\ answer[j] = "none"
      /\ active < Concurrency \/ Len(waiting) < MaxQueued
      /\ answer' = [answer EXCEPT ![j] = "pending"] /\ UNCHANGED <<ended, race, aborted, cancelled>>
  BY DEF Submit
<1>4. slot[j] = "none"
  BY <1>3 DEF QueueInv, SlotsAreAsked
<1>5. answer' \in [Jobs -> {"none", "pending", "resolved", "rejected"}]
  BY <1>1, <1>3
<1>6. \A k \in 1..Len(waiting) : waiting[k] # j
  BY <1>3 DEF QueueInv, LineIsNew
<1>7. \A i \in Jobs : answer'[i] = "none" => answer[i] = "none" /\ i # j
  BY <1>1, <1>3
<1>8. \A i \in Jobs : answer[i] # "none" => answer'[i] # "none"
  BY <1>1, <1>3
<1>9. answer'[j] # "none"
  BY <1>1, <1>3
<1> HIDE DEF line
<1>10. CASE active < Concurrency
  <2>1. waiting = <<>> /\ Len(waiting) = 0
    BY <1>1, <1>10 DEF QueueInv
  <2>2. /\ waiting' \in Seq(Jobs) /\ Len(waiting') = Len(line) - 1
        /\ active' = active + 1
        /\ slot' = [i \in Jobs |-> IF i = line[1] THEN "held" ELSE slot[i]]
    <3>1. Len(line) = 1 /\ Len(line) > 0
      BY <1>2, <2>1
    <3> QED
      BY <1>1, <1>2, <1>3, <1>10, <3>1, DrainFirst
  <2>3. Len(waiting') = 0 /\ waiting' = <<>> /\ line[1] = j
    BY <1>1, <1>2, <2>1, <2>2
  <2>4. Holders(slot') = Holders(slot) \cup {j} /\ j \notin Holders(slot)
    BY <1>4, <2>2, <2>3 DEF Holders
  <2>5. active' = Cardinality(Holders(slot'))
    BY <2>2, <2>4, HoldersFinite, FS_AddElement DEF QueueInv
  <2>6. QueueShape'
    BY <1>1, <1>3, <1>5, <2>2 DEF QueueInv, QueueShape
  <2>7. LineIsNew' /\ LineIsOnce'
    BY <2>3 DEF LineIsNew, LineIsOnce
  <2>8. SlotsAreAsked'
    BY <1>7, <2>2, <2>3 DEF QueueInv, SlotsAreAsked
  <2>9. active' <= Concurrency
    BY <1>1, <1>10, <2>2
  <2> QED
    BY <1>1, <2>3, <2>5, <2>6, <2>7, <2>8, <2>9 DEF QueueInv, Holders
<1>11. CASE active = Concurrency
  <2>1. waiting' = line /\ active' = active /\ slot' = [i \in Jobs |-> slot[i]]
    BY <1>1, <1>2, <1>3, <1>11, DrainNone
  <2>2. slot' = slot
    BY <1>1, <2>1
  <2>3. QueueShape'
    BY <1>1, <1>2, <1>3, <1>5, <2>1, <2>2 DEF QueueInv, QueueShape
  <2>4. \A k \in 1..Len(waiting') : k \in 1..Len(waiting) \/ k = Len(waiting) + 1
    BY <1>1, <1>2, <2>1
  <2>5. LineIsNew'
    <3> SUFFICES ASSUME NEW k \in 1..Len(waiting')
                 PROVE  slot'[waiting'[k]] = "none" /\ answer'[waiting'[k]] # "none"
      BY DEF LineIsNew
    <3>1. CASE k \in 1..Len(waiting)
      <4>1. waiting'[k] = waiting[k] /\ waiting[k] \in Jobs
        BY <1>1, <1>2, <2>1, <3>1
      <4>2. slot[waiting[k]] = "none" /\ answer[waiting[k]] # "none"
        BY <3>1 DEF QueueInv, LineIsNew
      <4> QED
        BY <1>8, <2>2, <4>1, <4>2
    <3>2. CASE k = Len(waiting) + 1
      BY <1>2, <1>4, <1>9, <2>1, <2>2, <3>2
    <3> QED
      BY <2>4, <3>1, <3>2
  <2>6. LineIsOnce'
    <3> SUFFICES ASSUME NEW k \in 1..Len(waiting'), NEW l \in 1..Len(waiting'), waiting'[k] = waiting'[l]
                 PROVE  k = l
      BY DEF LineIsOnce
    <3> QED
      BY <1>2, <1>6, <2>1, <2>4 DEF QueueInv, LineIsOnce
  <2>7. SlotsAreAsked'
    BY <1>7, <2>2 DEF QueueInv, SlotsAreAsked
  <2>8. Len(waiting') <= MaxQueued
    BY <1>1, <1>2, <1>3, <1>11, <2>1
  <2> QED
    BY <1>1, <1>11, <2>1, <2>2, <2>3, <2>5, <2>6, <2>7, <2>8 DEF QueueInv, Holders
<1> QED
  BY <1>1, <1>10, <1>11

\* The line, the slots and who was asked for stand.
LEMMA LineStands ==
  ASSUME QueueInv, UNCHANGED <<waiting, active, slot>>,
         \A j \in Jobs : answer[j] # "none" => answer'[j] # "none",
         answer' \in [Jobs -> {"none", "pending", "resolved", "rejected"}],
         race' \in [Jobs -> {"open", "result", "error", "timeout", "cancelled"}],
         ended' \subseteq Jobs, aborted' \subseteq Jobs, cancelled' \subseteq Jobs
  PROVE  QueueInv'
<1>1. \A k \in 1..Len(waiting) : waiting[k] \in Jobs
  BY DEF QueueInv, QueueShape
<1>2. LineIsNew'
  BY <1>1 DEF QueueInv, LineIsNew
<1> QED
  BY <1>2 DEF QueueInv, QueueShape, LineIsOnce, SlotsAreAsked, Holders

\* A job that has settled leaves its slot to the grace period.
LEMMA Graced ==
  ASSUME QueueInv, NEW j \in Jobs, slot[j] = "held", slot' = [slot EXCEPT ![j] = "grace"],
         UNCHANGED <<waiting, active, ended, race, aborted, cancelled, answer>>
  PROVE  QueueInv'
<1>1. /\ slot \in [Jobs -> {"none", "held", "grace", "freed"}]
      /\ \A k \in 1..Len(waiting) : waiting[k] \in Jobs
  BY DEF QueueInv, QueueShape
<1>2. slot'[j] = "grace" /\ \A i \in Jobs \ {j} : slot'[i] = slot[i]
  BY <1>1
<1>3. slot' \in [Jobs -> {"none", "held", "grace", "freed"}]
  BY <1>1
<1>4. Holders(slot') = Holders(slot)
  BY <1>2 DEF Holders
<1>5. LineIsNew'
  BY <1>1, <1>2 DEF QueueInv, LineIsNew
<1>6. SlotsAreAsked'
  BY <1>2 DEF QueueInv, SlotsAreAsked
<1> QED
  BY <1>3, <1>4, <1>5, <1>6 DEF QueueInv, QueueShape, LineIsOnce

\* When everything is cancelled nobody waits any more.
LEMMA Cancelled ==
  ASSUME QueueInv, CancelAll
  PROVE  QueueInv'
<1>1. /\ waiting' = <<>> /\ UNCHANGED <<active, slot, ended>>
      /\ race \in [Jobs -> {"open", "result", "error", "timeout", "cancelled"}]
      /\ answer \in [Jobs -> {"none", "pending", "resolved", "rejected"}]
      /\ MaxQueued \in Nat
  BY QueueAssumption DEF CancelAll, QueueInv, QueueShape
<1>2. race' \in [Jobs -> {"open", "result", "error", "timeout", "cancelled"}]
  BY <1>1 DEF CancelAll
<1>3. /\ answer' \in [Jobs -> {"none", "pending", "resolved", "rejected"}]
      /\ \A j \in Jobs : answer'[j] = "none" => answer[j] = "none"
  BY <1>1 DEF CancelAll
<1>4. aborted' \subseteq Jobs /\ cancelled' \subseteq Jobs
  BY DEF CancelAll, QueueInv, QueueShape
<1>5. Len(waiting') = 0 /\ waiting' \in Seq(Jobs)
  BY <1>1
<1>6. LineIsNew' /\ LineIsOnce'
  BY <1>5 DEF LineIsNew, LineIsOnce
<1>7. SlotsAreAsked'
  BY <1>1, <1>3 DEF QueueInv, SlotsAreAsked
<1> QED
  BY <1>1, <1>2, <1>3, <1>4, <1>5, <1>6, <1>7 DEF QueueInv, QueueShape, Holders

\* Every step keeps the invariant.
LEMMA QueueStep == QueueInv /\ [QueueNext]_queueVars => QueueInv'
<1> SUFFICES ASSUME QueueInv, [QueueNext]_queueVars PROVE QueueInv'
  OBVIOUS
<1>1. /\ race \in [Jobs -> {"open", "result", "error", "timeout", "cancelled"}]
      /\ answer \in [Jobs -> {"none", "pending", "resolved", "rejected"}]
      /\ ended \subseteq Jobs /\ aborted \subseteq Jobs /\ cancelled \subseteq Jobs
  BY DEF QueueInv, QueueShape
<1>2. CASE UNCHANGED queueVars
  BY <1>1, <1>2, LineStands DEF queueVars
<1>3. ASSUME NEW j \in Jobs, Submit(j) PROVE QueueInv'
  BY <1>3, Submitted
<1>4. ASSUME NEW j \in Jobs, TimeOut(j) PROVE QueueInv'
  <2>1. race' \in [Jobs -> {"open", "result", "error", "timeout", "cancelled"}]
    BY <1>1, <1>4 DEF TimeOut, Decided
  <2>2. /\ UNCHANGED <<waiting, active, slot, ended, cancelled, answer>> /\ aborted' \subseteq Jobs
    BY <1>1, <1>4 DEF TimeOut
  <2> QED
    BY <1>1, <2>1, <2>2, LineStands
<1>5. ASSUME NEW j \in Jobs, Settle(j) PROVE QueueInv'
  <2>1. /\ UNCHANGED <<waiting, active, slot, ended, race, aborted, cancelled>>
        /\ answer' \in [Jobs -> {"none", "pending", "resolved", "rejected"}]
        /\ \A i \in Jobs : answer[i] # "none" => answer'[i] # "none"
    BY <1>1, <1>5 DEF Settle
  <2> QED
    BY <1>1, <2>1, LineStands
<1>6. ASSUME NEW j \in Jobs, Finally(j) PROVE QueueInv'
  <2>1. slot[j] = "held" /\ UNCHANGED <<ended, race, aborted, cancelled, answer>>
    BY <1>6 DEF Finally
  <2>2. CASE j \in aborted
    BY <1>6, <2>1, <2>2, Graced DEF Finally
  <2>3. CASE j \notin aborted
    <3>1. ReleaseSlot(j)
      BY <1>6, <2>3 DEF Finally
    <3> QED
      BY <1>1, <2>1, <3>1, SlotGivenBack
  <2> QED
    BY <2>2, <2>3
<1>7. ASSUME NEW j \in Jobs, GraceOver(j) PROVE QueueInv'
  <2>1. ReleaseSlot(j) /\ slot[j] = "grace" /\ UNCHANGED <<ended, race, aborted, cancelled, answer>>
    BY <1>7 DEF GraceOver
  <2> QED
    BY <1>1, <2>1, SlotGivenBack
<1>8. ASSUME NEW j \in Jobs, NEW outcome \in {"result", "error"}, WorkEnds(j, outcome) PROVE QueueInv'
  <2>1. /\ slot[j] # "none" /\ ended' \subseteq Jobs /\ UNCHANGED <<aborted, cancelled, answer>>
        /\ race' \in [Jobs -> {"open", "result", "error", "timeout", "cancelled"}]
    BY <1>1, <1>8 DEF WorkEnds, Decided
  <2>2. CASE slot[j] = "held"
    <3>1. UNCHANGED <<waiting, active, slot>>
      BY <1>8, <2>2 DEF WorkEnds
    <3> QED
      BY <1>1, <2>1, <3>1, LineStands
  <2>3. CASE slot[j] # "held"
    <3>1. ReleaseSlot(j)
      BY <1>8, <2>3 DEF WorkEnds
    <3> QED
      BY <1>1, <2>1, <3>1, SlotGivenBack
  <2> QED
    BY <2>2, <2>3
<1>9. CASE CancelAll
  BY <1>9, Cancelled
<1> QED
  BY <1>2, <1>3, <1>4, <1>5, <1>6, <1>7, <1>8, <1>9 DEF QueueNext

\* At first nobody waits and no slot is in use.
LEMMA QueueStart == QueueInit => QueueInv
<1> SUFFICES ASSUME QueueInit PROVE QueueInv
  OBVIOUS
<1>1. Len(waiting) = 0 /\ waiting \in Seq(Jobs)
  BY DEF QueueInit
<1>2. Holders(slot) = {}
  BY DEF QueueInit, Holders
<1>3. active = Cardinality(Holders(slot)) /\ active = 0
  BY <1>2, FS_EmptySet DEF QueueInit
<1>4. LineIsNew /\ LineIsOnce /\ SlotsAreAsked
  BY <1>1 DEF QueueInit, LineIsNew, LineIsOnce, SlotsAreAsked
<1> QED
  BY <1>1, <1>3, <1>4, QueueAssumption DEF QueueInit, QueueInv, QueueShape

\* The queue keeps its shape.
THEOREM QueueTypeCorrect == QueueSpec => []QueueTypeOK
<1>1. QueueInv => QueueTypeOK
  <2> SUFFICES ASSUME QueueInv PROVE QueueTypeOK
    OBVIOUS
  <2>1. active \in 0..Concurrency
    BY HoldersFinite, QueueAssumption DEF QueueInv
  <2> QED
    BY <2>1 DEF QueueInv, QueueShape, QueueTypeOK
<1> QED
  BY <1>1, QueueStart, QueueStep, PTL DEF QueueSpec

\* No slot is lost or given back twice, no more than there are are in use, and
\* nobody waits while one is free.
THEOREM NoSlotIsLostHolds == QueueSpec => []NoSlotIsLost
<1>1. QueueInv => NoSlotIsLost
  BY DEF QueueInv, Holders, NoSlotIsLost
<1> QED
  BY <1>1, QueueStart, QueueStep, PTL DEF QueueSpec
=============================================================================
