----------------------------- MODULE StickerQueue -----------------------------
(* The queue of sticker conversions (src/stickers/jobs.cjs): a few slots,     *)
(* a bounded line of waiting jobs, a time limit after which the worker is     *)
(* told to stop, and cancelAll, which the removal of an account calls.  A     *)
(* worker may ignore the abort: its slot is given back after a grace period,  *)
(* and its end may come later still.  The reactions of a promise (Settle,     *)
(* Finally) run after the step that enables them; others may come between.    *)
EXTENDS Integers, Sequences, FiniteSets

CONSTANTS Jobs,         \* the conversions submitted, one each
          Concurrency,  \* JOB_CONCURRENCY
          MaxQueued     \* JOB_MAX_QUEUED

ASSUME QueueAssumption ==
  /\ IsFiniteSet(Jobs)
  /\ Concurrency \in Nat \ {0}
  /\ MaxQueued \in Nat

VARIABLES
  waiting,    \* the line
  active,     \* the counter of slots in use
  slot,       \* slot[j]: none, held, grace (settled, its worker not known to have ended), freed
  ended,      \* jobs whose worker has ended
  race,       \* race[j]: what the race of worker, limit and cancel came to
  aborted,    \* jobs whose worker was told to stop
  cancelled,  \* jobs with a cancelledCode
  answer      \* answer[j]: the promise of submit(): none, pending, resolved or rejected

queueVars == <<waiting, active, slot, ended, race, aborted, cancelled, answer>>

QueueInit ==
  /\ waiting = <<>>
  /\ active = 0
  /\ slot = [j \in Jobs |-> "none"]
  /\ race = [j \in Jobs |-> "open"]
  /\ ended = {} /\ aborted = {} /\ cancelled = {}
  /\ answer = [j \in Jobs |-> "none"]

\* How many of a line find a slot when count are in use.
Starting(line, count) ==
  IF Len(line) < Concurrency - count THEN Len(line) ELSE Concurrency - count

\* drain, from a line, a count and slots: the first of the line get the slots left.
Drain(line, count, slots) ==
  LET n == Starting(line, count)
  IN /\ waiting' = SubSeq(line, n + 1, Len(line))
     /\ active' = count + n
     /\ slot' = [j \in Jobs |-> IF \E k \in 1..n : line[k] = j THEN "held" ELSE slots[j]]

Submit(j) ==
  /\ answer[j] = "none"
  /\ active < Concurrency \/ Len(waiting) < MaxQueued
  /\ Drain(Append(waiting, j), active, slot)
  /\ answer' = [answer EXCEPT ![j] = "pending"]
  /\ UNCHANGED <<ended, race, aborted, cancelled>>

\* The first of the three decides the race, the others come too late.
Decided(j, outcome) == [race EXCEPT ![j] = IF @ = "open" THEN outcome ELSE @]

\* The limit is reached: the worker is told, the job fails.
TimeOut(j) ==
  /\ slot[j] = "held" /\ race[j] = "open"
  /\ race' = Decided(j, "timeout")
  /\ aborted' = aborted \cup {j}
  /\ UNCHANGED <<waiting, active, slot, ended, cancelled, answer>>

\* What waits fails at once, what runs is told to stop.
CancelAll ==
  LET running == {j \in Jobs : slot[j] = "held"}
  IN /\ waiting' = <<>>
     /\ aborted' = aborted \cup running
     /\ cancelled' = cancelled \cup running
     /\ race' = [j \in Jobs |-> IF j \in running /\ race[j] = "open" THEN "cancelled" ELSE race[j]]
     /\ answer' = [j \in Jobs |-> IF \E k \in DOMAIN waiting : waiting[k] = j THEN "rejected" ELSE answer[j]]
     /\ UNCHANGED <<active, slot, ended>>

Settle(j) ==
  /\ answer[j] = "pending" /\ race[j] # "open"
  /\ answer' = [answer EXCEPT ![j] = IF race[j] = "result" /\ j \notin cancelled THEN "resolved" ELSE "rejected"]
  /\ UNCHANGED <<waiting, active, slot, ended, race, aborted, cancelled>>

\* Mutant: a slot is given back at the end of the grace and again when the work ends.
ReleaseEachTime(j) == Drain(waiting, active - 1, [slot EXCEPT ![j] = "freed"])

\* releaseSlot acts once.
ReleaseSlot(j) ==
  IF slot[j] = "freed" THEN UNCHANGED <<waiting, active, slot>>
  ELSE Drain(waiting, active - 1, [slot EXCEPT ![j] = "freed"])

\* After the answer: the slot goes back now, or when an aborted worker has
\* cleaned up.
Finally(j) ==
  /\ slot[j] = "held" /\ answer[j] \in {"resolved", "rejected"}
  /\ IF j \in aborted THEN slot' = [slot EXCEPT ![j] = "grace"] /\ UNCHANGED <<waiting, active>>
     ELSE ReleaseSlot(j)
  /\ UNCHANGED <<ended, race, aborted, cancelled, answer>>

\* The grace period is over, or the worker had ended before it began.
GraceOver(j) ==
  /\ slot[j] = "grace"
  /\ ReleaseSlot(j)
  /\ UNCHANGED <<ended, race, aborted, cancelled, answer>>

\* The worker ends, however late.
WorkEnds(j, outcome) ==
  /\ slot[j] # "none" /\ j \notin ended
  /\ ended' = ended \cup {j}
  /\ race' = Decided(j, outcome)
  /\ IF slot[j] = "held" THEN UNCHANGED <<waiting, active, slot>> ELSE ReleaseSlot(j)
  /\ UNCHANGED <<aborted, cancelled, answer>>

QueueNext ==
  \/ \E j \in Jobs :
       \/ Submit(j) \/ TimeOut(j) \/ Settle(j) \/ Finally(j) \/ GraceOver(j)
       \/ \E outcome \in {"result", "error"} : WorkEnds(j, outcome)
  \/ CancelAll

QueueSpec == QueueInit /\ [][QueueNext]_queueVars
-----------------------------------------------------------------------------
(* Properties                                                                 *)

QueueTypeOK ==
  /\ waiting \in Seq(Jobs)
  /\ active \in 0..Concurrency
  /\ slot \in [Jobs -> {"none", "held", "grace", "freed"}]
  /\ race \in [Jobs -> {"open", "result", "error", "timeout", "cancelled"}]
  /\ ended \subseteq Jobs /\ aborted \subseteq Jobs /\ cancelled \subseteq Jobs
  /\ answer \in [Jobs -> {"none", "pending", "resolved", "rejected"}]

\* Whatever the order in which limits, cancels, workers and grace periods end:
\* the counter is the number of jobs that hold a slot, so no slot is lost or
\* given back twice, no more than Concurrency are in use, and no job waits
\* while one is free.
NoSlotIsLost ==
  /\ active = Cardinality({j \in Jobs : slot[j] \in {"held", "grace"}})
  /\ active <= Concurrency
  /\ waiting # <<>> => active = Concurrency
  /\ Len(waiting) <= MaxQueued
=============================================================================
