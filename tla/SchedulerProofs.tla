--------------------------- MODULE SchedulerProofs ---------------------------
(* What holds of Scheduler for all jobs, creators, routes and budgets.       *)
EXTENDS Scheduler, TLAPS
-----------------------------------------------------------------------------
(* Types.                                                                    *)

\* An idle table of tasks is one.
LEMMA NoTaskType ==
  NoTask \in TaskType /\ [j \in Jobs |-> NoTask] \in [Jobs -> TaskType]
<1>1. NoTask \in TaskType
  BY DEF NoTask, TaskType, Vias
<1> QED BY <1>1

\* Recording a result leaves well-formed rows.
LEMMA RecordType ==
  ASSUME TypeOK, NEW j \in Jobs, NEW result \in {"sent", "failed"},
         Record(j, result)
  PROVE  row' \in [Jobs -> RowType]
<1>1. [status |-> IF j \in OneOff THEN result ELSE row[j].status,
       last |-> result] \in RowType
  BY DEF TypeOK, RowType, Statuses
<1> QED BY <1>1 DEF TypeOK, Record

\* So does beginning a delivery, whichever way it goes.
LEMMA BeginType ==
  ASSUME TypeOK, NEW j \in Jobs, NEW s \in Nat, NEW via \in Vias,
         NEW by \in {"timer", "cron", "retry"}, Begin(j, s, via, by)
  PROVE  /\ row' \in [Jobs -> RowType]
         /\ inFlight' \in [Jobs -> Nat]
         /\ deliveries' \subseteq DeliveryType
<1>1. CASE inFlight[j] = generation
  BY <1>1 DEF TypeOK, Begin
<1>2. CASE inFlight[j] # generation /\ j \in HasMedia \ file
  BY <1>2, RecordType DEF TypeOK, Begin
<1>3. CASE inFlight[j] # generation /\ j \notin HasMedia \ file
  <2>1. [no |-> budget, job |-> j, gen |-> generation, sock |-> s, by |-> by,
         left |-> Payloads(j), fate |-> Fate(via)] \in DeliveryType
    BY DEF TypeOK, DeliveryType, Payloads, Fate
  <2> QED BY <1>3, <2>1 DEF TypeOK, Begin
<1> QED BY <1>1, <1>2, <1>3

\* Arming leaves well-formed rows and tasks.
LEMMA RowsType ==
  ASSUME NEW r \in [Jobs -> RowType], NEW s \in Nat,
         NEW t \in [Jobs -> TaskType]
  PROVE  /\ ArmedRows(r) \in [Jobs -> RowType]
         /\ ArmedTasks(r, s, t) \in [Jobs -> TaskType]
BY DEF ArmedRows, ArmedTasks, RowType, TaskType, Statuses, Vias, TaskOn, NoTask,
       Lapsed, Waiting

\* The rows of a backup are well-formed.
LEMMA RestoredType ==
  ASSUME TypeOK, NEW K \in SUBSET Jobs, NEW last \in {"none", "failed"}
  PROVE  Restored(K, last) \in [Jobs -> RowType]
BY DEF TypeOK, Restored, RowType, Statuses, Stored

\* A send that settles ends its delivery, or leaves the rest of it to do.
LEMMA SettlesOrGoesOn ==
  ASSUME NEW d \in DeliveryType, NEW ok \in BOOLEAN, SendSettles(d, ok)
  PROVE  \/ Stale(d) /\ Return(d) /\ UNCHANGED dbVars
         \/ ~ Stale(d) /\ (ok => d.left = 1) /\ Outcome(d, ok)
         \/ /\ ~ Reaches(d, ok)
            /\ \E e \in DeliveryType :
                 /\ GoesOn(d, e)
                 /\ e.job = d.job /\ e.gen = d.gen /\ e.by = d.by
                 /\ d.fate = "target" => e.fate = "target"
<1>1. CASE EditFailed(d, ok)
  <2>1. ~ Reaches(d, ok) /\ GoesOn(d, [d EXCEPT !.fate = "target"])
    BY <1>1 DEF SendSettles, EditFailed, Reaches
  <2>2. /\ [d EXCEPT !.fate = "target"] \in DeliveryType
        /\ [d EXCEPT !.fate = "target"].job = d.job
        /\ [d EXCEPT !.fate = "target"].gen = d.gen
        /\ [d EXCEPT !.fate = "target"].by = d.by
        /\ [d EXCEPT !.fate = "target"].fate = "target"
    BY DEF DeliveryType
  <2> QED BY <2>1, <2>2
<1>2. CASE ~ EditFailed(d, ok) /\ ~ Stale(d) /\ ok /\ d.left > 1
  <2>1. ~ Reaches(d, ok)
    BY <1>2 DEF Reaches, DeliveryType
  <2>2. GoesOn(d, [d EXCEPT !.left = @ - 1])
    BY <1>2 DEF SendSettles
  <2>3. /\ [d EXCEPT !.left = @ - 1] \in DeliveryType
        /\ [d EXCEPT !.left = @ - 1].job = d.job
        /\ [d EXCEPT !.left = @ - 1].gen = d.gen
        /\ [d EXCEPT !.left = @ - 1].by = d.by
        /\ [d EXCEPT !.left = @ - 1].fate = d.fate
    BY <1>2 DEF DeliveryType
  <2> QED BY <2>1, <2>2, <2>3
<1>3. CASE ~ EditFailed(d, ok) /\ Stale(d)
  BY <1>3 DEF SendSettles
<1>4. CASE ~ EditFailed(d, ok) /\ ~ Stale(d) /\ ~ (ok /\ d.left > 1)
  <2>1. ok => d.left = 1
    BY <1>4 DEF DeliveryType
  <2> QED BY <1>4, <2>1 DEF SendSettles
<1> QED BY <1>1, <1>2, <1>3, <1>4

\* Every step keeps the types.
LEMMA TypeStep == TypeOK /\ [Next]_vars => TypeOK'
<1> SUFFICES ASSUME TypeOK, [Next]_vars PROVE TypeOK'
  OBVIOUS
<1> USE SchedulerAssumption
<1>1. ASSUME NEW j \in Jobs, PanelCreate(j) PROVE TypeOK'
  BY <1>1 DEF TypeOK, RowType, TaskType, Statuses, Vias, PanelCreate, Save,
         Lapsed, TaskOn, Spend, sockVars
<1>2. ASSUME NEW j \in Jobs, AiCreate(j) PROVE TypeOK'
  BY <1>2 DEF TypeOK, RowType, TaskType, Statuses, Vias, AiCreate, Save,
         TaskOn, Spend, sockVars
<1>3. ASSUME NEW j \in Jobs, NEW s \in 1 .. sockets,
             NEW via \in {"reply", "edit"}, CommandCreate(j, s, via)
      PROVE  TypeOK'
  BY <1>3 DEF TypeOK, RowType, TaskType, Statuses, Vias, CommandCreate, Save,
         TaskOn, Spend, sockVars
<1>4. ASSUME NEW j \in Jobs, Delete(j) PROVE TypeOK'
  BY <1>4 DEF TypeOK, RowType, TaskType, Statuses, Vias, Delete, Spend, NoTask,
         sockVars, seenVars
<1>5. ASSUME NEW j \in Jobs, TimerFires(j) PROVE TypeOK'
  <2>1. /\ row' \in [Jobs -> RowType] /\ inFlight' \in [Jobs -> Nat]
        /\ deliveries' \subseteq DeliveryType
    <3>1. task[j].sock \in Nat /\ task[j].via \in Vias
      BY DEF TypeOK, TaskType
    <3> QED BY <1>5, <3>1, BeginType DEF TimerFires
  <2>2. task' \in [Jobs -> TaskType]
    BY <1>5 DEF TypeOK, TaskType, Vias, TimerFires, NoTask
  <2> QED BY <1>5, <2>1, <2>2 DEF TypeOK, TimerFires, sockVars, seenVars
<1>6. ASSUME NEW j \in Jobs, CronTick(j) PROVE TypeOK'
  <2>1. /\ row' \in [Jobs -> RowType] /\ inFlight' \in [Jobs -> Nat]
        /\ deliveries' \subseteq DeliveryType
    <3>1. task[j].sock \in Nat /\ task[j].via \in Vias
      BY DEF TypeOK, TaskType
    <3> QED BY <1>6, <3>1, BeginType DEF CronTick
  <2>2. task' \in [Jobs -> TaskType]
    BY <1>6 DEF TypeOK, TaskType, Vias, CronTick
  <2> QED BY <1>6, <2>1, <2>2 DEF TypeOK, CronTick, Spend, sockVars, seenVars
<1>7. ASSUME NEW j \in Jobs, Retry(j) PROVE TypeOK'
  <2>1. /\ row' \in [Jobs -> RowType] /\ inFlight' \in [Jobs -> Nat]
        /\ deliveries' \subseteq DeliveryType
    <3>1. conn \in Nat /\ "raw" \in Vias
      BY DEF TypeOK, Vias
    <3> QED BY <1>7, <3>1, BeginType DEF Retry
  <2> QED BY <1>7, <2>1 DEF TypeOK, Retry, Spend, sockVars, seenVars
<1>8. ASSUME NEW j \in Jobs, Clock(j) PROVE TypeOK'
  BY <1>8 DEF TypeOK, Clock, dbVars, schedVars, sockVars, seenVars
<1>9. ASSUME NEW d \in deliveries, NEW ok \in BOOLEAN, SendSettles(d, ok)
      PROVE  TypeOK'
  <2>1. d \in DeliveryType
    BY DEF TypeOK
  <2>2. reached' \in [Jobs -> 0 .. 2]
    BY <1>9, <2>1 DEF TypeOK, DeliveryType, SendSettles
  <2>3. /\ row' \in [Jobs -> RowType] /\ file' \subseteq HasMedia
        /\ task' \in [Jobs -> TaskType] /\ inFlight' \in [Jobs -> Nat]
        /\ deliveries' \subseteq DeliveryType
    <3>1. Return(d) => /\ task' \in [Jobs -> TaskType]
                       /\ inFlight' \in [Jobs -> Nat]
                       /\ deliveries' \subseteq DeliveryType
      <4>1. d.job \in Jobs
        BY <2>1 DEF DeliveryType
      <4> QED BY <4>1, NoTaskType DEF TypeOK, Return, Settle
    <3>2. CASE Return(d) /\ UNCHANGED dbVars
      BY <3>1, <3>2 DEF TypeOK, dbVars
    <3>3. ASSUME NEW e \in DeliveryType, GoesOn(d, e)
          PROVE  /\ row' \in [Jobs -> RowType] /\ file' \subseteq HasMedia
                 /\ task' \in [Jobs -> TaskType] /\ inFlight' \in [Jobs -> Nat]
                 /\ deliveries' \subseteq DeliveryType
      BY <3>3 DEF TypeOK, GoesOn, dbVars
    <3>4. CASE Outcome(d, ok)
      <4>1. d.job \in Jobs
        BY <2>1 DEF DeliveryType
      <4>2. row' \in [Jobs -> RowType]
        BY <3>4, <4>1, RecordType DEF Outcome
      <4> QED BY <3>1, <3>4, <4>2 DEF TypeOK, Outcome
    <3> QED BY <1>9, <2>1, <3>2, <3>3, <3>4, SettlesOrGoesOn
  <2> QED BY <1>9, <2>2, <2>3 DEF TypeOK, SendSettles, sockVars
<1>10. ASSUME Connect PROVE TypeOK'
  BY <1>10 DEF TypeOK, Connect, Spend, dbVars, schedVars, seenVars
<1>11. ASSUME Opens PROVE TypeOK'
  BY <1>11, RowsType DEF TypeOK, Opens, seenVars
<1>12. ASSUME OpensAfterRollback PROVE TypeOK'
  BY <1>12, RowsType DEF TypeOK, OpensAfterRollback, Spend, seenVars
<1>13. ASSUME NEW K \in SUBSET Jobs, NEW last \in {"none", "failed"},
              OpensActivated(K, last)
       PROVE  TypeOK'
  <2>1. conn \in Nat /\ Restored(K, last) \in [Jobs -> RowType]
    BY RestoredType DEF TypeOK
  <2>2. row' \in [Jobs -> RowType] /\ task' \in [Jobs -> TaskType]
    BY <1>13, <2>1, NoTaskType, RowsType DEF OpensActivated
  <2> QED BY <1>13, <2>2 DEF TypeOK, OpensActivated, Spend
<1>14. ASSUME Closes PROVE TypeOK'
  <2>1. open' \in BOOLEAN
    BY <1>14 DEF Closes
  <2>2. task' \in [Jobs -> TaskType]
    BY <1>14, NoTaskType DEF Closes, StopAll
  <2> QED BY <1>14, <2>1, <2>2 DEF TypeOK, Closes, Spend, dbVars, seenVars
<1>15. ASSUME Unlink PROVE TypeOK'
  BY <1>15 DEF TypeOK, RowType, Statuses, Unlink, Spend, schedVars, sockVars
<1>16. ASSUME Restart PROVE TypeOK'
  <2>1. open' \in BOOLEAN
    BY <1>16 DEF Restart
  <2>2. task' \in [Jobs -> TaskType]
    BY <1>16, NoTaskType DEF Restart
  <2> QED BY <1>16, <2>1, <2>2 DEF TypeOK, Restart, Spend, dbVars, seenVars
<1>17. ASSUME NEW r \in Routes, SetRoute(r) PROVE TypeOK'
  BY <1>17 DEF TypeOK, SetRoute, Spend, dbVars, schedVars, sockVars, seenVars
<1>18. ASSUME UNCHANGED vars PROVE TypeOK'
  BY <1>18 DEF TypeOK, vars, dbVars, schedVars, sockVars, seenVars
<1> QED BY <1>1, <1>2, <1>3, <1>4, <1>5, <1>6, <1>7, <1>8, <1>9, <1>10, <1>11,
           <1>12, <1>13, <1>14, <1>15, <1>16, <1>17, <1>18 DEF Next

\* Every variable has its type, for all jobs, creators, routes and budgets.
THEOREM TypeCorrect == Spec => []TypeOK
<1>1. Init => TypeOK
  <2>1. [status |-> "unsaved", last |-> "none"] \in RowType
    BY DEF RowType, Statuses
  <2> SUFFICES ASSUME Init PROVE TypeOK
    OBVIOUS
  <2>2. row \in [Jobs -> RowType] /\ task \in [Jobs -> TaskType]
    BY <2>1, NoTaskType DEF Init
  <2>3. open \in BOOLEAN
    BY DEF Init
  <2> QED BY <2>2, <2>3, SchedulerAssumption DEF Init, TypeOK
<1> QED BY <1>1, TypeStep, PTL DEF Spec
-----------------------------------------------------------------------------
(* Deliveries.                                                               *)

\* The timer of a one-off has not fired yet.
Armed(j) == task[j].sock # 0 /\ ~ task[j].fired

Current == {d \in deliveries : d.gen = generation}

\* deliveriesInFlight knows the deliveries of the current generation.
FlightNoted ==
  /\ generation > 0
  /\ \A d \in deliveries : d.gen <= generation
  /\ \A d \in Current : inFlight[d.job] = generation

\* What a one-off went through before its timer fires, and what follows.
OneOffRows ==
  \A j \in OneOff :
    /\ Armed(j) => row[j].status \in {"active", "pending", "paused"}
    /\ row[j].status = "failed" => row[j].last # "none"
    /\ row[j].last # "none" \/ reached[j] > 0 => j \in due /\ ~ Armed(j)

\* A delivery of a one-off follows its timer.
AfterTimer ==
  \A d \in deliveries : d.job \in OneOff =>
    /\ d.job \in due /\ ~ Armed(d.job) /\ row[d.job].status # "unsaved"
    /\ d.by # "cron"

\* What the timer of a one-off begins is its first delivery, and no other
\* begins before that one ends.
TimerFirst ==
  \A d \in deliveries : d.by = "timer" =>
    /\ d.job \in OneOff /\ row[d.job].last = "none" /\ reached[d.job] = 0
    /\ \A e \in deliveries : e.job = d.job => e = d

\* While a current delivery of a one-off is under way the row is not closed
\* and keeps its file.
StillToSend ==
  \A d \in Current : d.job \in OneOff =>
    /\ row[d.job].status # "sent"
    /\ d.job \in HasMedia => d.job \in file \/ row[d.job].status = "deleted"

DeliveryInv ==
  /\ OneSendAtATime /\ FlightNoted /\ OneOffRows /\ AfterTimer /\ TimerFirst
  /\ StillToSend /\ MediaKept

\* deliverScheduledJob adds one delivery of its job or none, and none without
\* the job's file.
LEMMA BeginAdds ==
  ASSUME NEW j, NEW s, NEW via, NEW by, Begin(j, s, via, by)
  PROVE  /\ \E n : /\ n.job = j /\ n.gen = generation /\ n.by = by
                  /\ deliveries' \in {deliveries, deliveries \cup {n}}
         /\ deliveries' # deliveries => j \notin HasMedia \ file
<1> DEFINE new == [no |-> budget, job |-> j, gen |-> generation, sock |-> s,
                   by |-> by, left |-> Payloads(j), fate |-> Fate(via)]
<1>1. new.job = j /\ new.gen = generation /\ new.by = by
  OBVIOUS
<1>2. /\ deliveries' \in {deliveries, deliveries \cup {new}}
      /\ deliveries' # deliveries => j \notin HasMedia \ file
  BY DEF Begin
<1> HIDE DEF new
<1> QED BY <1>1, <1>2

\* deliverScheduledJob does not overlap a current delivery of the job.
LEMMA BeginKeepsOne ==
  ASSUME TypeOK, OneSendAtATime, FlightNoted, NEW j \in Jobs, NEW s, NEW via,
         NEW by, Begin(j, s, via, by), UNCHANGED generation
  PROVE  OneSendAtATime' /\ FlightNoted'
<1>1. CASE inFlight[j] = generation
  <2>1. UNCHANGED <<deliveries, inFlight>>
    BY <1>1 DEF Begin
  <2> QED BY <2>1 DEF OneSendAtATime, FlightNoted, Current
<1>2. CASE inFlight[j] # generation /\ j \in HasMedia \ file
  <2>1. deliveries' = deliveries /\ inFlight' = [inFlight EXCEPT ![j] = 0]
    BY <1>2 DEF Begin
  <2>2. \A d \in Current : d.job \in Jobs /\ d.job # j
    BY <1>2 DEF TypeOK, DeliveryType, FlightNoted, Current
  <2> QED BY <2>1, <2>2 DEF TypeOK, OneSendAtATime, FlightNoted, Current
<1>3. CASE inFlight[j] # generation /\ j \notin HasMedia \ file
  <2>1. PICK n : /\ n.job = j /\ n.gen = generation
                 /\ deliveries' \in {deliveries, deliveries \cup {n}}
    BY BeginAdds
  <2>2. inFlight' = [inFlight EXCEPT ![j] = generation]
    BY <1>3 DEF Begin
  <2>3. \A d \in Current : d.job \in Jobs /\ d.job # j
    BY <1>3 DEF TypeOK, DeliveryType, FlightNoted, Current
  <2>4. OneSendAtATime'
    BY <2>1, <2>3 DEF OneSendAtATime, Current
  <2>5. FlightNoted'
    BY <2>1, <2>2, <2>3 DEF TypeOK, DeliveryType, FlightNoted, Current
  <2> QED BY <2>4, <2>5
<1> QED BY <1>1, <1>2, <1>3

\* A delivery that returns frees its own place in deliveriesInFlight only.
LEMMA ReturnKeepsOne ==
  ASSUME TypeOK, OneSendAtATime, FlightNoted, NEW d \in deliveries, Return(d),
         UNCHANGED generation
  PROVE  OneSendAtATime' /\ FlightNoted'
<1>1. OneSendAtATime'
  BY DEF OneSendAtATime, Return
<1>2. \A e \in deliveries' :
        e \in deliveries /\ e.job \in Jobs /\ d.job \in Jobs
  BY DEF TypeOK, DeliveryType, Return
<1>3. \A e \in Current' : inFlight'[e.job] = generation
  <2> SUFFICES ASSUME NEW e \in Current' PROVE inFlight'[e.job] = generation
    OBVIOUS
  <2>1. e \in Current /\ e # d /\ inFlight[e.job] = generation
    BY DEF Current, Return, FlightNoted
  <2>2. e.job = d.job => d.gen # generation
    BY <2>1 DEF OneSendAtATime, Current
  <2> QED BY <1>2, <2>1, <2>2 DEF TypeOK, Return, Settle, Current
<1> QED BY <1>1, <1>2, <1>3 DEF FlightNoted

\* An activation makes every delivery under way a stale one.
LEMMA ActivationRetires ==
  ASSUME TypeOK, FlightNoted, generation' = generation + 1,
         UNCHANGED deliveries
  PROVE  Current' = {} /\ OneSendAtATime' /\ FlightNoted'
<1>1. \A d \in deliveries : d.gen # generation + 1
  BY DEF TypeOK, DeliveryType, FlightNoted
<1>2. Current' = {}
  BY <1>1 DEF Current
<1>3. FlightNoted'
  BY <1>2 DEF TypeOK, DeliveryType, FlightNoted
<1> QED BY <1>1, <1>2, <1>3 DEF OneSendAtATime

\* What an activation makes of a job: what is armed is new and in time, and
\* nothing that went through is forgotten.
LEMMA ActivatedJob ==
  ASSUME TypeOK, NEW K \in SUBSET Jobs, NEW last \in {"none", "failed"},
         OpensActivated(K, last), NEW j \in Jobs
  PROVE  /\ Armed(j)' => row'[j].status = "active" /\ ~ Lapsed(j)
         /\ row'[j].last # "none" => row[j].last # "none"
         /\ row'[j].status = "failed" => row'[j].last # "none"
         /\ row'[j].status = "unsaved" => row[j].status = "unsaved"
<1> DEFINE r == Restored(K, last)
<1>1. row[j] \in RowType
  BY DEF TypeOK
<1>2. /\ row' = ArmedRows(r) /\ task' = ArmedTasks(r, conn, [i \in Jobs |-> NoTask])
      /\ K \subseteq {i \in Jobs : row[i].status # "unsaved"}
      /\ last = "failed" => \A i \in K : row[i].last # "none"
  BY DEF OpensActivated
<1>3. CASE j \in K
  <2>1. r[j] = [status |-> IF j \in OneOff /\ last = "failed" THEN "failed" ELSE "active",
                last |-> last]
    BY <1>3 DEF Restored
  <2>2. /\ r[j].status \in {"failed", "active"} /\ r[j].last = last
        /\ r[j].status = "failed" => last = "failed"
    BY <2>1
  <2>3. row'[j] = IF r[j].status \in Waiting /\ Lapsed(j)
                  THEN [r[j] EXCEPT !.status = "expired"] ELSE r[j]
    BY <1>2 DEF ArmedRows
  <2>4. row'[j].last = last /\ row'[j].status \in {"failed", "active", "expired"}
        /\ (row'[j].status = "failed" => last = "failed")
    <3>1. [r[j] EXCEPT !.status = "expired"].last = last
          /\ [r[j] EXCEPT !.status = "expired"].status = "expired"
      BY <2>1
    <3> HIDE DEF r
    <3> QED BY <2>2, <2>3, <3>1
  <2>5. task'[j] = IF r[j].status \notin Waiting THEN NoTask
                   ELSE IF Lapsed(j) THEN NoTask ELSE TaskOn(conn, "raw")
    BY <1>2 DEF ArmedTasks
  <2>6. Armed(j)' => r[j].status = "active" /\ ~ Lapsed(j)
    <3> HIDE DEF r
    <3> QED BY <2>2, <2>5 DEF Armed, NoTask, Waiting
  <2>7. Armed(j)' => row'[j] = r[j]
    <3> HIDE DEF r
    <3> QED BY <2>3, <2>6
  <2> HIDE DEF r
  <2> QED BY <1>2, <1>3, <2>4, <2>6, <2>7
<1>4. CASE j \notin K
  <2>1. r[j] = IF Stored(row[j]) THEN [row[j] EXCEPT !.status = "deleted"] ELSE row[j]
    BY <1>4 DEF Restored
  <2>2. /\ r[j].status \in {"unsaved", "deleted"} /\ r[j].last = row[j].last
        /\ r[j].status = "unsaved" => row[j].status = "unsaved"
    <3> HIDE DEF r
    <3> QED BY <1>1, <2>1 DEF Stored, RowType
  <2> HIDE DEF r
  <2>3. row'[j] = r[j] /\ task'[j] = NoTask
    BY <1>2, <2>2 DEF ArmedRows, ArmedTasks, Waiting
  <2> QED BY <2>2, <2>3 DEF Armed, NoTask
<1> QED BY <1>3, <1>4

\* Every step keeps the invariant: one step per action, and under it what the
\* action can disturb.
LEMMA DeliveryStep == TypeOK /\ DeliveryInv /\ [Next]_vars => DeliveryInv'
<1> SUFFICES ASSUME TypeOK, DeliveryInv, [Next]_vars PROVE DeliveryInv'
  OBVIOUS
<1> USE SchedulerAssumption DEF TypeOK, DeliveryInv
<1>1. ASSUME NEW j \in Jobs, PanelCreate(j) PROVE DeliveryInv'
  <2>1. OneSendAtATime' /\ FlightNoted'
    BY <1>1 DEF OneSendAtATime, FlightNoted, Current, PanelCreate, Save,
           Lapsed, TaskOn, sockVars
  <2>2. OneOffRows'
    BY <1>1 DEF OneOffRows, Armed, PanelCreate, Save, Lapsed, TaskOn, sockVars
  <2>3. AfterTimer' /\ TimerFirst'
    BY <1>1 DEF AfterTimer, TimerFirst, Armed, PanelCreate, Save, Lapsed,
           TaskOn, sockVars
  <2>4. StillToSend' /\ MediaKept'
    BY <1>1 DEF StillToSend, MediaKept, Current, PanelCreate, Save, Lapsed,
           TaskOn, sockVars
  <2> QED BY <2>1, <2>2, <2>3, <2>4
<1>2. ASSUME NEW j \in Jobs, AiCreate(j) PROVE DeliveryInv'
  <2>1. OneSendAtATime' /\ FlightNoted'
    BY <1>2 DEF OneSendAtATime, FlightNoted, Current, AiCreate, Save, TaskOn,
           sockVars
  <2>2. OneOffRows'
    BY <1>2 DEF OneOffRows, Armed, AiCreate, Save, TaskOn, sockVars
  <2>3. AfterTimer' /\ TimerFirst'
    BY <1>2 DEF AfterTimer, TimerFirst, Armed, AiCreate, Save, TaskOn,
           sockVars
  <2>4. StillToSend' /\ MediaKept'
    BY <1>2 DEF StillToSend, MediaKept, Current, AiCreate, Save, TaskOn,
           sockVars
  <2> QED BY <2>1, <2>2, <2>3, <2>4
<1>3. ASSUME NEW j \in Jobs, NEW s \in 1 .. sockets,
             NEW via \in {"reply", "edit"}, CommandCreate(j, s, via)
      PROVE  DeliveryInv'
  <2>1. OneSendAtATime' /\ FlightNoted'
    BY <1>3 DEF OneSendAtATime, FlightNoted, Current, CommandCreate, Save,
           TaskOn, sockVars
  <2>2. OneOffRows'
    BY <1>3 DEF OneOffRows, Armed, CommandCreate, Save, TaskOn, sockVars
  <2>3. AfterTimer' /\ TimerFirst'
    BY <1>3 DEF AfterTimer, TimerFirst, Armed, CommandCreate, Save, TaskOn,
           sockVars
  <2>4. StillToSend' /\ MediaKept'
    BY <1>3 DEF StillToSend, MediaKept, Current, CommandCreate, Save, TaskOn,
           sockVars
  <2> QED BY <2>1, <2>2, <2>3, <2>4
<1>4. ASSUME NEW j \in Jobs, Delete(j) PROVE DeliveryInv'
  <2>1. OneSendAtATime' /\ FlightNoted'
    BY <1>4 DEF OneSendAtATime, FlightNoted, Current, Delete, Stored, NoTask,
           sockVars, seenVars
  <2>2. OneOffRows'
    BY <1>4 DEF OneOffRows, Armed, Delete, Stored, NoTask, sockVars, seenVars
  <2>3. AfterTimer' /\ TimerFirst'
    BY <1>4 DEF AfterTimer, TimerFirst, Armed, Delete, Stored, NoTask,
           sockVars, seenVars
  <2>4. StillToSend' /\ MediaKept'
    BY <1>4 DEF StillToSend, MediaKept, Current, Delete, Stored, NoTask,
           sockVars, seenVars
  <2> QED BY <2>1, <2>2, <2>3, <2>4
<1>5. ASSUME NEW j \in Jobs, TimerFires(j) PROVE DeliveryInv'
  <2>1. /\ j \in OneOff \cap due /\ row[j].last = "none" /\ reached[j] = 0
        /\ row[j].status \in {"active", "pending", "paused"}
        /\ \A d \in deliveries : d.job # j
    BY <1>5 DEF TimerFires, OneOffRows, AfterTimer, Armed
  <2>2. j \notin HasMedia \ file
    BY <2>1 DEF MediaKept
  <2>3. UNCHANGED <<row, file, generation, reached, due>>
    BY <1>5, <2>2 DEF TimerFires, Begin, seenVars
  <2>4. /\ task' = [task EXCEPT ![j] = task'[j]]
        /\ ~ (task'[j].sock # 0 /\ ~ task'[j].fired)
    BY <1>5 DEF TimerFires, NoTask
  <2>5. PICK n : /\ n.job = j /\ n.gen = generation /\ n.by = "timer"
                 /\ deliveries' \in {deliveries, deliveries \cup {n}}
    BY <1>5, BeginAdds DEF TimerFires
  <2>6. OneSendAtATime' /\ FlightNoted'
    BY <1>5, <2>3, BeginKeepsOne DEF TimerFires
  <2>7. OneOffRows'
    BY <2>1, <2>3, <2>4 DEF OneOffRows, Armed
  <2>8. AfterTimer'
    BY <2>1, <2>3, <2>4, <2>5 DEF AfterTimer, Armed
  <2>9. TimerFirst'
    BY <2>1, <2>3, <2>5 DEF TimerFirst
  <2>10. StillToSend'
    BY <2>1, <2>2, <2>3, <2>5 DEF StillToSend, Current
  <2>11. MediaKept'
    BY <2>3 DEF MediaKept
  <2> QED BY <2>6, <2>7, <2>8, <2>9, <2>10, <2>11
<1>6. ASSUME NEW j \in Jobs, CronTick(j) PROVE DeliveryInv'
  <2>1. OneSendAtATime' /\ FlightNoted'
    BY <1>6, BeginKeepsOne DEF CronTick
  <2>2. OneOffRows'
    BY <1>6 DEF OneOffRows, Armed, CronTick, Begin, Begins, Record, Fate,
           Payloads, Stored, sockVars, seenVars
  <2>3. AfterTimer' /\ TimerFirst'
    BY <1>6 DEF AfterTimer, TimerFirst, Armed, CronTick, Begin, Begins,
           Record, Fate, Payloads, Stored, sockVars, seenVars
  <2>4. StillToSend' /\ MediaKept'
    BY <1>6 DEF StillToSend, MediaKept, Current, CronTick, Begin, Begins,
           Record, Fate, Payloads, Stored, sockVars, seenVars
  <2> QED BY <2>1, <2>2, <2>3, <2>4
<1>7. ASSUME NEW j \in Jobs, Retry(j) PROVE DeliveryInv'
  <2>1. /\ UNCHANGED <<file, task, generation, reached, due>>
        /\ j \in OneOff => row[j].status = "failed" /\ row[j].last # "none"
    BY <1>7 DEF Retry, Retryable, OneOffRows, seenVars
  <2>2. OneSendAtATime' /\ FlightNoted'
    BY <1>7, <2>1, BeginKeepsOne DEF Retry
  <2>3. j \in OneOff => UNCHANGED row
    BY <1>7, <2>1 DEF Retry, Begin, MediaKept
  <2>4. PICK n : /\ n.job = j /\ n.gen = generation /\ n.by = "retry"
                 /\ deliveries' \in {deliveries, deliveries \cup {n}}
                 /\ deliveries' # deliveries => j \notin HasMedia \ file
    BY <1>7, BeginAdds DEF Retry
  <2>5. \A i \in OneOff : row'[i] = row[i]
    BY <1>7, <2>3 DEF Retry, Begin, Record
  <2>6. OneOffRows'
    BY <2>1, <2>5 DEF OneOffRows, Armed
  <2>7. AfterTimer'
    BY <2>1, <2>4, <2>5 DEF AfterTimer, OneOffRows, Armed
  <2>8. TimerFirst'
    BY <2>1, <2>4, <2>5 DEF TimerFirst
  <2>9. StillToSend'
    BY <2>1, <2>4, <2>5 DEF StillToSend, Current
  <2>10. MediaKept'
    BY <1>7, <2>1, <2>5 DEF MediaKept, Retry, Begin, Record
  <2> QED BY <2>2, <2>6, <2>7, <2>8, <2>9, <2>10
<1>8. ASSUME NEW j \in Jobs, Clock(j) PROVE DeliveryInv'
  <2>1. OneSendAtATime' /\ FlightNoted'
    BY <1>8 DEF OneSendAtATime, FlightNoted, Current, Clock, vars, dbVars,
           schedVars, sockVars, seenVars
  <2>2. OneOffRows'
    BY <1>8 DEF OneOffRows, Armed, Clock, vars, dbVars, schedVars, sockVars,
           seenVars
  <2>3. AfterTimer' /\ TimerFirst'
    BY <1>8 DEF AfterTimer, TimerFirst, Armed, Clock, vars, dbVars, schedVars,
           sockVars, seenVars
  <2>4. StillToSend' /\ MediaKept'
    BY <1>8 DEF StillToSend, MediaKept, Current, Clock, vars, dbVars,
           schedVars, sockVars, seenVars
  <2> QED BY <2>1, <2>2, <2>3, <2>4
<1>9. ASSUME NEW d \in deliveries, NEW ok \in BOOLEAN, SendSettles(d, ok)
      PROVE  DeliveryInv'
  <2>1. d \in DeliveryType /\ d.job \in Jobs /\ UNCHANGED <<generation, due>>
    BY <1>9 DEF DeliveryType, SendSettles
  <2>2. \A j \in Jobs : reached'[j] # reached[j] => j = d.job /\ Reaches(d, ok)
    BY <1>9, <2>1 DEF SendSettles
  <2>3. CASE Stale(d) /\ Return(d) /\ UNCHANGED dbVars
    <3> USE DEF dbVars
    <3>1. deliveries' = deliveries \ {d} /\ UNCHANGED <<row, file>>
      BY <2>3 DEF Return
    <3>2. \A j \in Jobs : Armed(j)' => Armed(j)
      BY <2>1, <2>3 DEF Armed, Return, NoTask
    <3>3. OneSendAtATime' /\ FlightNoted'
      BY <2>1, <2>3, ReturnKeepsOne
    <3>4. OneOffRows'
      BY <2>1, <2>2, <3>1, <3>2 DEF OneOffRows, AfterTimer
    <3>5. AfterTimer'
      BY <2>1, <3>1, <3>2 DEF AfterTimer, DeliveryType
    <3>6. TimerFirst'
      BY <2>1, <2>2, <3>1 DEF TimerFirst, DeliveryType
    <3>7. StillToSend' /\ MediaKept'
      BY <2>1, <3>1 DEF StillToSend, Current, MediaKept
    <3> QED BY <3>3, <3>4, <3>5, <3>6, <3>7
  <2>4. ASSUME ~ Reaches(d, ok), NEW e, GoesOn(d, e),
               e.job = d.job, e.gen = d.gen, e.by = d.by
        PROVE  DeliveryInv'
    <3>1. deliveries' = (deliveries \ {d}) \cup {e}
      BY <2>4 DEF GoesOn
    <3>2. UNCHANGED <<row, file, task, inFlight, reached, generation, due>>
      BY <1>9, <2>1, <2>4 DEF SendSettles, GoesOn, dbVars
    <3>3. OneSendAtATime' /\ FlightNoted'
      BY <2>4, <3>1, <3>2 DEF OneSendAtATime, FlightNoted, Current
    <3>4. OneOffRows' /\ AfterTimer'
      BY <2>4, <3>1, <3>2 DEF OneOffRows, AfterTimer, Armed
    <3>5. TimerFirst'
      BY <2>4, <3>1, <3>2 DEF TimerFirst
    <3>6. StillToSend' /\ MediaKept'
      BY <2>4, <3>1, <3>2 DEF StillToSend, Current, MediaKept
    <3> QED BY <3>3, <3>4, <3>5, <3>6
  <2>5. CASE ~ Stale(d) /\ Outcome(d, ok)
    <3>1. deliveries' = deliveries \ {d} /\ Return(d) /\ d \in Current
      BY <2>5 DEF Outcome, Return, Stale, Current
    <3>2. \A j \in Jobs : Armed(j)' => Armed(j)
      BY <2>1, <3>1 DEF Armed, Return, NoTask
    <3>3. /\ \A j \in Jobs \ {d.job} :
               row'[j] = row[j] /\ (j \in file' <=> j \in file)
          /\ \A j \in Jobs : /\ row[j].status # "unsaved"
                                  => row'[j].status # "unsaved"
                             /\ row[j].status = "deleted" => row'[j] = row[j]
          /\ row' # row => /\ row'[d.job].last = IF ok THEN "sent" ELSE "failed"
                           /\ row'[d.job].status =
                                IF d.job \notin OneOff THEN row[d.job].status
                                ELSE IF ok THEN "sent" ELSE "failed"
          /\ file' = IF ok /\ d.job \in OneOff THEN file \ {d.job} ELSE file
      BY <2>1, <2>5 DEF Outcome, Record, Stored
    <3>4. OneSendAtATime' /\ FlightNoted'
      BY <2>1, <3>1, ReturnKeepsOne
    <3>5. OneOffRows'
      BY <2>1, <2>2, <3>2, <3>3 DEF OneOffRows, AfterTimer
    <3>6. AfterTimer'
      BY <2>1, <3>1, <3>2, <3>3 DEF AfterTimer, DeliveryType
    <3>7. \A e \in deliveries' :
            e.job = d.job => e \notin Current /\ e.by # "timer"
      BY <3>1 DEF OneSendAtATime, Current, TimerFirst
    <3>8. TimerFirst'
      BY <2>1, <2>2, <3>1, <3>3, <3>7 DEF TimerFirst, DeliveryType
    <3>9. StillToSend'
      BY <2>1, <3>1, <3>3, <3>7 DEF StillToSend, Current, DeliveryType
    <3>10. MediaKept'
      BY <2>1, <2>5, <3>1, <3>3 DEF MediaKept, StillToSend, Outcome,
                                       Record, Stored
    <3> QED BY <3>4, <3>5, <3>6, <3>8, <3>9, <3>10
  <2> QED BY <1>9, <2>1, <2>3, <2>4, <2>5, SettlesOrGoesOn
<1>10. ASSUME Connect PROVE DeliveryInv'
  BY <1>10 DEF OneSendAtATime, FlightNoted, Current, OneOffRows, Armed,
         AfterTimer, TimerFirst, StillToSend, MediaKept, Connect, dbVars,
         schedVars, seenVars
<1>11. ASSUME Opens PROVE DeliveryInv'
  <2>1. OneSendAtATime' /\ FlightNoted'
    BY <1>11 DEF OneSendAtATime, FlightNoted, Current, Opens, ArmedRows,
           ArmedTasks, Lapsed, TaskOn, NoTask, Waiting, seenVars
  <2>2. OneOffRows'
    BY <1>11 DEF OneOffRows, Armed, Opens, ArmedRows, ArmedTasks, Lapsed,
           TaskOn, NoTask, Waiting, seenVars
  <2>3. AfterTimer' /\ TimerFirst'
    BY <1>11 DEF AfterTimer, TimerFirst, Armed, Opens, ArmedRows, ArmedTasks,
           Lapsed, TaskOn, NoTask, Waiting, seenVars
  <2>4. StillToSend' /\ MediaKept'
    BY <1>11 DEF StillToSend, MediaKept, Current, Opens, ArmedRows,
           ArmedTasks, Lapsed, TaskOn, NoTask, Waiting, seenVars
  <2> QED BY <2>1, <2>2, <2>3, <2>4
<1>12. ASSUME OpensAfterRollback PROVE DeliveryInv'
  <2>1. OneSendAtATime' /\ FlightNoted' /\ StillToSend'
    BY <1>12, ActivationRetires DEF OpensAfterRollback, StillToSend
  <2>2. OneOffRows'
    BY <1>12 DEF OneOffRows, Armed, OpensAfterRollback, ArmedRows, ArmedTasks,
           Lapsed, TaskOn, NoTask, Waiting, seenVars
  <2>3. AfterTimer' /\ TimerFirst'
    BY <1>12 DEF AfterTimer, TimerFirst, Armed, OpensAfterRollback, ArmedRows,
           ArmedTasks, Lapsed, TaskOn, NoTask, Waiting, seenVars
  <2>4. MediaKept'
    BY <1>12 DEF MediaKept, OpensAfterRollback, ArmedRows, ArmedTasks, Lapsed,
           TaskOn, NoTask, Waiting, seenVars
  <2> QED BY <2>1, <2>2, <2>3, <2>4
<1>13. ASSUME NEW K \in SUBSET Jobs, NEW last \in {"none", "failed"},
              OpensActivated(K, last)
       PROVE  DeliveryInv'
  <2>1. OneSendAtATime' /\ FlightNoted' /\ StillToSend'
    BY <1>13, ActivationRetires DEF OpensActivated, StillToSend
  <2>2. UNCHANGED <<due, reached, deliveries>>
    BY <1>13 DEF OpensActivated
  <2>3. \A j \in Jobs :
          /\ Armed(j)' => row'[j].status = "active" /\ ~ Lapsed(j)
          /\ row'[j].last # "none" => row[j].last # "none"
          /\ row'[j].status = "failed" => row'[j].last # "none"
          /\ row'[j].status = "unsaved" => row[j].status = "unsaved"
    BY <1>13, ActivatedJob
  <2>4. OneOffRows' /\ AfterTimer' /\ TimerFirst'
    <3>1. OneOff \subseteq Jobs /\ \A j \in OneOff : Armed(j)' => j \notin due
      BY <2>3, SchedulerAssumption DEF Lapsed
    <3>2. OneOffRows'
      BY <2>2, <2>3, <3>1 DEF OneOffRows
    <3>3. AfterTimer'
      BY <2>2, <2>3, <3>1 DEF AfterTimer
    <3>4. TimerFirst'
      BY <2>2, <2>3, <3>1 DEF TimerFirst
    <3> QED BY <3>2, <3>3, <3>4
  <2>5. MediaKept'
    BY <1>13 DEF MediaKept, OpensActivated, ArmedRows, ArmedTasks, Restored,
           Stored, Lapsed, TaskOn, NoTask, Waiting
  <2> QED BY <2>1, <2>4, <2>5
<1>14. ASSUME Closes PROVE DeliveryInv'
  <2>1. OneSendAtATime' /\ FlightNoted'
    BY <1>14 DEF OneSendAtATime, FlightNoted, Current, Closes, StopAll,
           NoTask, dbVars, seenVars
  <2>2. OneOffRows'
    BY <1>14 DEF OneOffRows, Armed, Closes, StopAll, NoTask, dbVars, seenVars
  <2>3. AfterTimer' /\ TimerFirst'
    BY <1>14 DEF AfterTimer, TimerFirst, Armed, Closes, StopAll, NoTask,
           dbVars, seenVars
  <2>4. StillToSend' /\ MediaKept'
    BY <1>14 DEF StillToSend, MediaKept, Current, Closes, StopAll, NoTask,
           dbVars, seenVars
  <2> QED BY <2>1, <2>2, <2>3, <2>4
<1>15. ASSUME Unlink PROVE DeliveryInv'
  <2>1. OneSendAtATime' /\ FlightNoted'
    BY <1>15 DEF OneSendAtATime, FlightNoted, Current, Unlink, Paused,
           schedVars, sockVars
  <2>2. OneOffRows'
    BY <1>15 DEF OneOffRows, Armed, Unlink, Paused, schedVars, sockVars
  <2>3. AfterTimer' /\ TimerFirst'
    BY <1>15 DEF AfterTimer, TimerFirst, Armed, Unlink, Paused, schedVars,
           sockVars
  <2>4. StillToSend' /\ MediaKept'
    BY <1>15 DEF StillToSend, MediaKept, Current, Unlink, Paused, schedVars,
           sockVars
  <2> QED BY <2>1, <2>2, <2>3, <2>4
<1>16. ASSUME Restart PROVE DeliveryInv'
  <2>1. OneSendAtATime' /\ FlightNoted'
    BY <1>16 DEF OneSendAtATime, FlightNoted, Current, Restart, NoTask,
           dbVars, seenVars
  <2>2. OneOffRows'
    BY <1>16 DEF OneOffRows, Armed, Restart, NoTask, dbVars, seenVars
  <2>3. AfterTimer' /\ TimerFirst'
    BY <1>16 DEF AfterTimer, TimerFirst, Armed, Restart, NoTask, dbVars,
           seenVars
  <2>4. StillToSend' /\ MediaKept'
    BY <1>16 DEF StillToSend, MediaKept, Current, Restart, NoTask, dbVars,
           seenVars
  <2> QED BY <2>1, <2>2, <2>3, <2>4
<1>17. ASSUME NEW r \in Routes, SetRoute(r) PROVE DeliveryInv'
  BY <1>17 DEF OneSendAtATime, FlightNoted, Current, OneOffRows, Armed,
         AfterTimer, TimerFirst, StillToSend, MediaKept, SetRoute, dbVars,
         schedVars, sockVars, seenVars
<1>18. ASSUME UNCHANGED vars PROVE DeliveryInv'
  BY <1>18 DEF OneSendAtATime, FlightNoted, Current, OneOffRows, Armed,
         AfterTimer, TimerFirst, StillToSend, MediaKept, vars, dbVars,
         schedVars, sockVars, seenVars
<1> QED BY <1>1, <1>2, <1>3, <1>4, <1>5, <1>6, <1>7, <1>8, <1>9, <1>10, <1>11,
           <1>12, <1>13, <1>14, <1>15, <1>16, <1>17, <1>18 DEF Next

\* The inductive invariant of deliveries holds in every reachable state.
THEOREM DeliveryInvHolds == Spec => [](TypeOK /\ DeliveryInv)
<1>1. Init => DeliveryInv
  BY SchedulerAssumption
  DEF Init, DeliveryInv, OneSendAtATime, FlightNoted, Current, OneOffRows,
      Armed, AfterTimer, TimerFirst, StillToSend, MediaKept, NoTask
<1>2. TypeOK /\ DeliveryInv /\ [Next]_vars => DeliveryInv'
  BY DeliveryStep
<1> QED BY <1>1, <1>2, TypeCorrect, PTL DEF Spec

\* However timers, cron ticks, retries, reconnects and activations interleave,
\* a job has at most one current delivery under way.
THEOREM OneSendAtATimeHolds == Spec => []OneSendAtATime
<1>1. DeliveryInv => OneSendAtATime
  BY DEF DeliveryInv
<1> QED BY <1>1, DeliveryInvHolds, PTL

\* A job whose file may still have to be sent has its file.
THEOREM MediaKeptHolds == Spec => []MediaKept
<1>1. DeliveryInv => MediaKept
  BY DEF DeliveryInv
<1> QED BY <1>1, DeliveryInvHolds, PTL

\* A delivery ends when its send settles or the process dies.
LEMMA DeliveriesLeave ==
  ASSUME [Next]_vars, NEW d \in deliveries, d \notin deliveries'
  PROVE  Restart \/ \E ok \in BOOLEAN : SendSettles(d, ok)
<1>1. ASSUME NEW j \in Jobs, NEW s, NEW via, NEW by, Begin(j, s, via, by)
      PROVE  FALSE
  BY <1>1, BeginAdds
<1>2. ASSUME NEW e \in deliveries, NEW ok \in BOOLEAN, SendSettles(e, ok)
      PROVE  e = d
  BY <1>2 DEF SendSettles, GoesOn, Return, Outcome
<1>3. ASSUME NEW j \in Jobs,
             \/ PanelCreate(j) \/ AiCreate(j) \/ Delete(j) \/ TimerFires(j)
             \/ CronTick(j) \/ Retry(j) \/ Clock(j)
             \/ \E s \in 1 .. sockets, via \in {"reply", "edit"} :
                  CommandCreate(j, s, via)
      PROVE  FALSE
  BY <1>1, <1>3 DEF PanelCreate, AiCreate, Delete, TimerFires, CronTick, Retry,
                    Clock, CommandCreate, schedVars
<1>4. ASSUME \/ Connect \/ Opens \/ OpensAfterRollback \/ Closes \/ Unlink
             \/ \E K \in SUBSET Jobs, last \in {"none", "failed"} :
                  OpensActivated(K, last)
             \/ \E r \in Routes : SetRoute(r)
             \/ UNCHANGED vars
      PROVE  FALSE
  BY <1>4 DEF Connect, Opens, OpensAfterRollback, OpensActivated, Closes,
              Unlink, SetRoute, schedVars, vars
<1> QED BY <1>2, <1>3, <1>4 DEF Next

\* A delivery that began before an activation changes nothing of the activated
\* account.
THEOREM StaleIsSilentHolds == Spec => StaleIsSilent
<1>1. [Next]_vars =>
        [\A d \in deliveries :
           d.gen # generation /\ d \notin deliveries' => UNCHANGED dbVars]_vars
  <2> SUFFICES ASSUME [Next]_vars, NEW d \in deliveries, d.gen # generation,
                      d \notin deliveries'
               PROVE  UNCHANGED dbVars
    OBVIOUS
  <2>1. CASE Restart
    BY <2>1 DEF Restart
  <2>2. ASSUME NEW ok \in BOOLEAN, SendSettles(d, ok) PROVE UNCHANGED dbVars
    BY <2>2 DEF SendSettles, GoesOn, Stale
  <2> QED BY <2>1, <2>2, DeliveriesLeave
<1> QED BY <1>1, PTL DEF Spec, StaleIsSilent

\* A message reaches its chat with the last payload of a delivery.
LEMMA SendsReach ==
  ASSUME TypeOK, [Next]_vars, NEW j \in Jobs, reached'[j] # reached[j]
  PROVE  \E d \in deliveries \ deliveries' : d.job = j
<1>1. ASSUME NEW i \in Jobs,
             \/ PanelCreate(i) \/ AiCreate(i) \/ Delete(i) \/ TimerFires(i)
             \/ CronTick(i) \/ Retry(i) \/ Clock(i)
             \/ \E s \in 1 .. sockets, via \in {"reply", "edit"} :
                  CommandCreate(i, s, via)
      PROVE  UNCHANGED reached
  BY <1>1 DEF PanelCreate, AiCreate, Delete, TimerFires, CronTick, Retry, Clock,
              CommandCreate, seenVars
<1>2. ASSUME \/ Connect \/ Opens \/ OpensAfterRollback \/ Closes \/ Unlink
             \/ \E K \in SUBSET Jobs, last \in {"none", "failed"} :
                  OpensActivated(K, last)
             \/ Restart \/ \E r \in Routes : SetRoute(r)
             \/ UNCHANGED vars
      PROVE  UNCHANGED reached
  BY <1>2 DEF Connect, Opens, OpensAfterRollback, OpensActivated, Closes,
              Unlink, Restart, SetRoute, seenVars, vars
<1>3. PICK d \in deliveries, ok \in BOOLEAN : SendSettles(d, ok)
  BY <1>1, <1>2 DEF Next
<1>4. d \in DeliveryType
  BY DEF TypeOK
<1>5. d.job = j /\ Reaches(d, ok)
  BY <1>3, <1>4 DEF SendSettles, TypeOK, DeliveryType
<1>6. d \notin deliveries'
  <2>1. ~ EditFailed(d, ok) /\ ~ d.left > 1
    BY <1>4, <1>5 DEF EditFailed, Reaches, DeliveryType
  <2> QED BY <1>3, <2>1 DEF SendSettles, Return, Outcome
<1> QED BY <1>5, <1>6

\* No timer, reconnect, restart or restore sends a one-off a second time.
THEOREM ResentByHandOnlyHolds == Spec => ResentByHandOnly
<1>1. TypeOK /\ DeliveryInv /\ [Next]_vars =>
        [\A j \in OneOff : reached[j] > 0 /\ reached'[j] # reached[j]
           => \E d \in deliveries \ deliveries' :
                d.job = j /\ d.by = "retry"]_vars
  <2> SUFFICES ASSUME TypeOK, DeliveryInv, [Next]_vars, NEW j \in OneOff,
                      reached[j] > 0, reached'[j] # reached[j]
               PROVE  \E d \in deliveries \ deliveries' :
                        d.job = j /\ d.by = "retry"
    OBVIOUS
  <2>1. PICK d \in deliveries \ deliveries' : d.job = j
    BY SchedulerAssumption, SendsReach
  <2>2. d.by # "cron" /\ d.by # "timer"
    BY <2>1 DEF DeliveryInv, AfterTimer, TimerFirst
  <2> QED BY <2>1, <2>2 DEF TypeOK, DeliveryType
<1> QED BY <1>1, DeliveryInvHolds, PTL DEF Spec, ResentByHandOnly

\* A one-off that was sent is sent for good.
THEOREM SentIsFinalHolds == Spec => SentIsFinal
<1>1. TypeOK /\ DeliveryInv /\ [Next]_vars =>
        [\A j \in OneOff : row[j].status = "sent" /\ generation' = generation
           => row'[j].status \in {"sent", "deleted"}]_vars
  <2> SUFFICES ASSUME TypeOK, DeliveryInv, [Next]_vars, NEW j \in OneOff,
                      row[j].status = "sent", generation' = generation
               PROVE  row'[j].status \in {"sent", "deleted"}
    OBVIOUS
  <2> USE SchedulerAssumption
  <2>1. ASSUME NEW i \in Jobs, NEW result, Record(i, result), i # j
        PROVE  row'[j] = row[j]
    BY <2>1 DEF Record
  <2>2. ASSUME NEW i \in Jobs, TimerFires(i) \/ CronTick(i) \/ Retry(i)
        PROVE  row'[j] = row[j]
    <3>1. i # j
      BY <2>2 DEF TimerFires, CronTick, Retry, Retryable, DeliveryInv,
                  OneOffRows, Armed
    <3> QED BY <2>1, <2>2, <3>1 DEF TimerFires, CronTick, Retry, Begin
  <2>3. ASSUME NEW d \in deliveries, NEW ok \in BOOLEAN, SendSettles(d, ok)
        PROVE  row'[j] = row[j]
    <3>1. CASE UNCHANGED row
      BY <3>1
    <3>2. CASE Outcome(d, ok) /\ ~ Stale(d)
      <4>1. d.job \in Jobs /\ d.job # j
        BY <3>2 DEF DeliveryInv, StillToSend, Current, Stale, TypeOK,
                    DeliveryType
      <4> QED BY <2>1, <3>2, <4>1 DEF Outcome
    <3> QED BY <2>3, <3>1, <3>2 DEF SendSettles, GoesOn, dbVars
  <2>4. ASSUME NEW i \in Jobs,
               \/ PanelCreate(i) \/ AiCreate(i) \/ Delete(i) \/ Clock(i)
               \/ \E s \in 1 .. sockets, via \in {"reply", "edit"} :
                    CommandCreate(i, s, via)
        PROVE  row'[j].status \in {"sent", "deleted"}
    BY <2>4 DEF PanelCreate, AiCreate, Delete, Clock, CommandCreate, Save,
                dbVars, TypeOK, RowType
  <2>5. ASSUME OpensAfterRollback \/ \E K \in SUBSET Jobs,
                 last \in {"none", "failed"} : OpensActivated(K, last)
        PROVE  FALSE
    BY <2>5 DEF OpensAfterRollback, OpensActivated, TypeOK
  <2>6. ASSUME Connect \/ Opens \/ Closes \/ Unlink \/ Restart
               \/ (\E r \in Routes : SetRoute(r)) \/ UNCHANGED vars
        PROVE  row'[j] = row[j]
    BY <2>6 DEF Connect, Opens, ArmedRows, Waiting, Closes, Unlink, Paused,
                Restart, SetRoute, dbVars, vars
  <2> QED BY <2>2, <2>3, <2>4, <2>5, <2>6 DEF Next
<1> QED BY <1>1, DeliveryInvHolds, PTL DEF Spec, SentIsFinal
-----------------------------------------------------------------------------
(* Accounts.                                                                 *)

\* No job is made by a chat command.
NoCommands == "command" \notin Creators

\* Then no command is late, and none comes from the linked phone.
THEOREM NoCommandsIsSteady ==
  ASSUME NoCommands
  PROVE  Spec => SteadySpec
<1>1. [Next]_vars => [Next /\ CommandsInTime /\ CommandsReply]_vars
  BY DEF NoCommands, CommandsInTime, CommandsReply, CommandCreate
<1> QED BY <1>1, PTL DEF Spec, SteadySpec

\* The environment assumptions only leave behaviours out.
LEMMA SteadyIsPromptAndReplies ==
  /\ SteadySpec => PromptSpec
  /\ SteadySpec => ReplySpec
  /\ PromptSpec => Spec
  /\ ReplySpec => Spec
<1>1. [Next /\ CommandsInTime /\ CommandsReply]_vars
        => [Next /\ CommandsInTime]_vars /\ [Next /\ CommandsReply]_vars
  OBVIOUS
<1>2. [Next /\ CommandsInTime]_vars \/ [Next /\ CommandsReply]_vars
        => [Next]_vars
  OBVIOUS
<1> QED BY <1>1, <1>2, PTL DEF SteadySpec, PromptSpec, ReplySpec, Spec

\* The rows and tasks in use are of the account that is linked, if one is.
AccountInv ==
  /\ conn <= sockets /\ since <= sockets
  /\ conn # 0 => conn > since
  /\ open => conn # 0
  /\ TasksFollowSocket
  /\ \A j \in Jobs : /\ row[j].status \in Waiting => from[j] > since
                     /\ task[j].sock # 0 => from[j] > since

\* Every step keeps the rows and tasks to the account that is linked.
LEMMA AccountStep ==
  ASSUME TypeOK, AccountInv, [Next /\ CommandsInTime]_vars
  PROVE  AccountInv'
<1> USE SchedulerAssumption
    DEF TypeOK, AccountInv, TasksFollowSocket, Waiting
<1>1. ASSUME NEW j \in Jobs, PanelCreate(j) PROVE AccountInv'
  BY <1>1 DEF PanelCreate, Save, Lapsed, TaskOn, Spend, sockVars
<1>2. ASSUME NEW j \in Jobs, AiCreate(j) PROVE AccountInv'
  BY <1>2 DEF AiCreate, Save, TaskOn, Spend, sockVars
<1>3. ASSUME NEW j \in Jobs, Delete(j) PROVE AccountInv'
  BY <1>3 DEF Delete, NoTask, sockVars, seenVars
<1>4. ASSUME NEW j \in Jobs, NEW result \in {"sent", "failed"},
             Record(j, result)
      PROVE  \A i \in Jobs : row'[i].status \in Waiting
                               => row[i].status \in Waiting
  BY <1>4 DEF Record
<1>5. ASSUME NEW j \in Jobs, TimerFires(j) \/ CronTick(j) \/ Retry(j)
      PROVE  AccountInv'
  <2>1. \A i \in Jobs : /\ row'[i].status \in Waiting
                             => row[i].status \in Waiting
                        /\ task'[i].sock \in {0, task[i].sock}
    <3>1. \A i \in Jobs : row'[i].status \in Waiting
                            => row[i].status \in Waiting
      BY <1>4, <1>5 DEF TimerFires, CronTick, Retry, Begin
    <3>2. \A i \in Jobs : task'[i].sock \in {0, task[i].sock}
      BY <1>5 DEF TimerFires, CronTick, Retry, NoTask, TaskType
    <3> QED BY <3>1, <3>2
  <2>2. UNCHANGED <<conn, open, sockets, since, from>>
    BY <1>5 DEF TimerFires, CronTick, Retry, sockVars, seenVars
  <2> QED BY <2>1, <2>2
<1>6. ASSUME NEW d \in deliveries, NEW ok \in BOOLEAN, SendSettles(d, ok)
      PROVE  AccountInv'
  <2>1. d.job \in Jobs
    BY DEF DeliveryType
  <2>2. \A i \in Jobs : row'[i].status \in Waiting => row[i].status \in Waiting
    BY <1>4, <1>6, <2>1 DEF SendSettles, GoesOn, Outcome, dbVars
  <2>3. \A i \in Jobs : task'[i].sock \in {0, task[i].sock}
    BY <1>6, <2>1 DEF SendSettles, GoesOn, Outcome, Return, NoTask
  <2>4. UNCHANGED <<conn, open, sockets, since, from>>
    BY <1>6 DEF SendSettles, sockVars
  <2> QED BY <2>2, <2>3, <2>4
<1>7. ASSUME Connect PROVE AccountInv'
  BY <1>7 DEF Connect, dbVars, schedVars, seenVars
<1>8. ASSUME Opens \/ OpensAfterRollback PROVE AccountInv'
  BY <1>8 DEF Opens, OpensAfterRollback, ArmedRows, ArmedTasks, TaskOn, NoTask,
              seenVars
<1>9. ASSUME NEW K \in SUBSET Jobs, NEW last \in {"none", "failed"},
             OpensActivated(K, last)
      PROVE  AccountInv'
  BY <1>9 DEF OpensActivated, ArmedRows, ArmedTasks, Restored, Stored, TaskOn,
              NoTask
<1>10. ASSUME Closes \/ Restart PROVE AccountInv'
  BY <1>10 DEF Closes, Restart, StopAll, NoTask, dbVars, seenVars
<1>11. ASSUME Unlink PROVE AccountInv'
  BY <1>11 DEF Unlink, Paused, schedVars, sockVars
<1>12. ASSUME \/ \E j \in Jobs : Clock(j)
              \/ \E r \in Routes : SetRoute(r)
              \/ UNCHANGED vars
       PROVE  AccountInv'
  BY <1>12 DEF Clock, SetRoute, dbVars, schedVars, sockVars, seenVars, vars
<1>13. ASSUME NEW j \in Jobs, NEW s \in 1 .. sockets,
              NEW via \in {"reply", "edit"},
              CommandCreate(j, s, via), CommandsInTime
       PROVE  AccountInv'
  <2>1. s = conn
    BY <1>13 DEF CommandsInTime
  <2> QED BY <1>13, <2>1 DEF CommandCreate, Save, TaskOn, Spend, sockVars
<1> QED BY <1>1, <1>2, <1>3, <1>5, <1>6, <1>7, <1>8, <1>9, <1>10, <1>11, <1>12,
           <1>13 DEF Next

\* The inductive invariant of accounts holds in every reachable state.
THEOREM AccountInvHolds == PromptSpec => []AccountInv
<1>1. Init => AccountInv
  BY SchedulerAssumption
  DEF Init, AccountInv, TasksFollowSocket, NoTask, Waiting
<1>2. TypeOK /\ AccountInv /\ [Next /\ CommandsInTime]_vars => AccountInv'
  BY AccountStep
<1> QED BY <1>1, <1>2, SteadyIsPromptAndReplies, TypeCorrect, PTL
        DEF PromptSpec

\* Unless a chat command outlives the socket its message came in on, every
\* armed task holds the session's socket.
THEOREM TasksFollowSocketHolds == PromptSpec => []TasksFollowSocket
<1>1. AccountInv => TasksFollowSocket
  BY DEF AccountInv
<1> QED BY <1>1, AccountInvHolds, PTL

\* Unless one does, no job of an unlinked account is armed for the next one.
THEOREM NeverForNewAccountHolds == PromptSpec => []NeverForNewAccount
<1>1. TypeOK /\ AccountInv => NeverForNewAccount
  BY DEF TypeOK, TaskType, AccountInv, NeverForNewAccount
<1> QED BY <1>1, SteadyIsPromptAndReplies, TypeCorrect, AccountInvHolds, PTL
-----------------------------------------------------------------------------
(* What is sent.                                                             *)

\* No job answers outside the chat of its command: no command makes jobs, or
\* the operator leaves the reply route in that chat.
AnswersInChat == NoCommands \/ Routes = {"same_chat"}

\* How a task may send for its message to get to the chat it names.
SafeVias == IF NoCommands THEN {"raw"} ELSE {"raw", "reply"}

\* Every task and every delivery sends to the chat of the job, and what the
\* table calls sent did get there.
SentInv ==
  /\ \A j \in Jobs : task[j].via \in SafeVias
  /\ \A d \in deliveries : d.fate = "target"
  /\ SentWasDelivered

\* What is sent so is for the chat of the job.
LEMMA SafeIsForChat ==
  ASSUME AnswersInChat, TypeOK, NEW via \in SafeVias
  PROVE  Fate(via) = "target"
BY DEF AnswersInChat, SafeVias, TypeOK, Fate

\* Beginning a delivery that sends so keeps all three.
LEMMA BeginIsSafe ==
  ASSUME AnswersInChat, TypeOK, SentInv, NEW j \in Jobs, NEW s, NEW by,
         NEW via \in SafeVias, Begin(j, s, via, by), UNCHANGED reached
  PROVE  /\ \A d \in deliveries' : d.fate = "target"
         /\ SentWasDelivered'
<1>1. \A d \in deliveries' : d.fate = "target"
  BY SafeIsForChat DEF Begin, SentInv
<1>2. row' = row \/ Record(j, "failed")
  BY DEF Begin
<1>3. SentWasDelivered'
  BY <1>2, SchedulerAssumption DEF Record, TypeOK, SentInv, SentWasDelivered
<1> QED BY <1>1, <1>3

\* No row becomes sent without its message, and none that reached is unreached.
LEMMA SentCarries ==
  ASSUME TypeOK, SentWasDelivered,
         \A i \in Jobs : reached'[i] = reached[i] \/ reached'[i] > 0,
         \A i \in Jobs : row'[i].status = "sent"
                           => row[i].status = "sent" \/ reached'[i] > 0
  PROVE  SentWasDelivered'
<1> SUFFICES ASSUME NEW i \in OneOff, row'[i].status = "sent"
             PROVE  reached'[i] > 0
  BY DEF SentWasDelivered
<1>1. i \in Jobs
  BY SchedulerAssumption
<1> QED BY <1>1 DEF SentWasDelivered

\* Every step keeps what is sent to what was delivered.
LEMMA SentStep ==
  ASSUME AnswersInChat, TypeOK, SentInv, [Next /\ CommandsReply]_vars
  PROVE  SentInv'
<1> USE SchedulerAssumption
<1>0. "raw" \in SafeVias
  BY DEF SafeVias
<1>1. ASSUME NEW j \in Jobs,
             PanelCreate(j) \/ AiCreate(j) \/ Delete(j) \/ Clock(j)
      PROVE  SentInv'
  <2>1. deliveries' = deliveries /\ reached' = reached
    BY <1>1 DEF PanelCreate, AiCreate, Delete, Clock, schedVars, seenVars
  <2>2. \A i \in Jobs : task'[i].via \in SafeVias
    BY <1>0, <1>1 DEF PanelCreate, AiCreate, Delete, Clock, schedVars, SentInv,
                TypeOK, TaskOn, NoTask
  <2>3. \A i \in Jobs : row'[i].status = "sent" => row[i].status = "sent"
    BY <1>1 DEF PanelCreate, AiCreate, Delete, Clock, dbVars, Save, TypeOK,
                RowType
  <2> QED BY <2>1, <2>2, <2>3, SentCarries DEF SentInv
<1>2. ASSUME NEW j \in Jobs, TimerFires(j) PROVE SentInv'
  <2>1. /\ \A d \in deliveries' : d.fate = "target"
        /\ SentWasDelivered'
    BY <1>2, BeginIsSafe DEF TimerFires, SentInv, seenVars
  <2>2. \A i \in Jobs : task'[i].via \in SafeVias
    BY <1>0, <1>2 DEF TimerFires, SentInv, NoTask, TypeOK, TaskType
  <2> QED BY <2>1, <2>2 DEF SentInv
<1>3. ASSUME NEW j \in Jobs, CronTick(j) PROVE SentInv'
  <2>1. /\ \A d \in deliveries' : d.fate = "target"
        /\ SentWasDelivered'
    BY <1>3, BeginIsSafe DEF CronTick, SentInv, seenVars
  <2>2. task' = task
    <3>1. Fate(task[j].via) = "target"
      BY SafeIsForChat DEF SentInv
    <3> QED BY <1>3, <3>1 DEF CronTick
  <2> QED BY <2>1, <2>2 DEF SentInv
<1>4. ASSUME NEW j \in Jobs, Retry(j) PROVE SentInv'
  BY <1>0, <1>4, BeginIsSafe DEF Retry, SentInv, seenVars
<1>5. ASSUME NEW d \in deliveries, NEW ok \in BOOLEAN, SendSettles(d, ok)
      PROVE  SentInv'
  <2>1. d \in DeliveryType /\ d.job \in Jobs /\ d.fate = "target"
    BY DEF TypeOK, DeliveryType, SentInv
  <2>2. \A i \in Jobs : task'[i].via \in SafeVias
    BY <1>0, <1>5 DEF SendSettles, GoesOn, Outcome, Return, NoTask, SentInv,
                      TypeOK, TaskType
  <2>3. \A e \in deliveries' : e.fate = "target"
    BY <1>5, <2>1, SettlesOrGoesOn DEF GoesOn, Outcome, Return, SentInv
  <2>4. /\ \A i \in Jobs : reached'[i] = reached[i] \/ reached'[i] > 0
        /\ Reaches(d, ok) => reached'[d.job] > 0
    BY <1>5, <2>1 DEF SendSettles, TypeOK
  <2>5. UNCHANGED row \/ (Outcome(d, ok) /\ (ok => d.left = 1))
    BY <1>5, <2>1, SettlesOrGoesOn DEF GoesOn, dbVars
  <2>6. \A i \in Jobs : row'[i].status = "sent"
                          => row[i].status = "sent" \/ reached'[i] > 0
    <3>1. CASE UNCHANGED row
      BY <3>1
    <3>2. CASE Outcome(d, ok) /\ (ok => d.left = 1)
      <4>1. ok => reached'[d.job] > 0
        BY <2>1, <2>4, <3>2 DEF Reaches
      <4>2. \A i \in Jobs : row'[i].status = "sent"
                              => row[i].status = "sent" \/ (i = d.job /\ ok)
        BY <2>1, <3>2 DEF Outcome, Record, TypeOK
      <4> QED BY <4>1, <4>2
    <3> QED BY <2>5, <3>1, <3>2
  <2>7. SentWasDelivered'
    BY <2>4, <2>6, SentCarries DEF SentInv
  <2> QED BY <2>2, <2>3, <2>7 DEF SentInv
<1>6. ASSUME Opens \/ OpensAfterRollback PROVE SentInv'
  <2>1. deliveries' = deliveries /\ reached' = reached
    BY <1>6 DEF Opens, OpensAfterRollback, seenVars
  <2>2. \A i \in Jobs : task'[i].via \in SafeVias
    BY <1>0, <1>6 DEF Opens, OpensAfterRollback, ArmedTasks, TaskOn, NoTask, SentInv
  <2>3. \A i \in Jobs : row'[i].status = "sent" => row[i].status = "sent"
    BY <1>6 DEF Opens, OpensAfterRollback, ArmedRows, TypeOK, RowType
  <2> QED BY <2>1, <2>2, <2>3, SentCarries DEF SentInv
<1>7. ASSUME NEW K \in SUBSET Jobs, NEW last \in {"none", "failed"},
             OpensActivated(K, last)
      PROVE  SentInv'
  <2>1. deliveries' = deliveries /\ reached' = reached
    BY <1>7 DEF OpensActivated
  <2>2. \A i \in Jobs : task'[i].via \in SafeVias
    BY <1>0, <1>7 DEF OpensActivated, ArmedTasks, TaskOn, NoTask
  <2>3. \A i \in Jobs : row'[i].status = "sent" => row[i].status = "sent"
    BY <1>7 DEF OpensActivated, ArmedRows, Restored, Stored, TypeOK, RowType
  <2> QED BY <2>1, <2>2, <2>3, SentCarries DEF SentInv
<1>8. ASSUME Closes \/ Restart PROVE SentInv'
  BY <1>0, <1>8
  DEF Closes, Restart, StopAll, NoTask, SentInv, SentWasDelivered, dbVars,
      seenVars
<1>9. ASSUME Unlink PROVE SentInv'
  BY <1>9 DEF Unlink, SentInv, SentWasDelivered, TypeOK, schedVars
<1>10. ASSUME Connect \/ (\E r \in Routes : SetRoute(r)) \/ UNCHANGED vars
       PROVE  SentInv'
  BY <1>10 DEF Connect, SetRoute, SentInv, SentWasDelivered, dbVars, schedVars,
               seenVars, vars
<1>11. ASSUME NEW j \in Jobs, NEW s \in 1 .. sockets,
              NEW via \in {"reply", "edit"},
              CommandCreate(j, s, via), CommandsReply
       PROVE  SentInv'
  <2>1. via \in SafeVias
    BY <1>11 DEF CommandsReply, CommandCreate, SafeVias, NoCommands
  <2>2. \A i \in Jobs : task'[i].via \in SafeVias
    BY <1>11, <2>1 DEF CommandCreate, TaskOn, SentInv, TypeOK
  <2>3. deliveries' = deliveries /\ reached' = reached
    BY <1>11 DEF CommandCreate
  <2>4. \A i \in Jobs : row'[i].status = "sent" => row[i].status = "sent"
    BY <1>11 DEF CommandCreate, Save, TypeOK, RowType
  <2> QED BY <2>2, <2>3, <2>4, SentCarries DEF SentInv
<1> QED BY <1>1, <1>2, <1>3, <1>4, <1>5, <1>6, <1>7, <1>8, <1>9, <1>10, <1>11
        DEF Next

\* Where jobs answer in the chat of their command and no command comes from
\* the linked phone, a one-off reported as sent did get to its chat, whatever
\* was restored, retried or restarted meanwhile.
THEOREM SentWasDeliveredHolds ==
  ASSUME AnswersInChat
  PROVE  ReplySpec => []SentWasDelivered
<1>1. Init => SentInv
  BY SchedulerAssumption
  DEF Init, SentInv, SafeVias, SentWasDelivered, NoTask
<1>2. TypeOK /\ SentInv /\ [Next /\ CommandsReply]_vars => SentInv'
  BY SentStep
<1>3. SentInv => SentWasDelivered
  BY DEF SentInv
<1> QED BY <1>1, <1>2, <1>3, SteadyIsPromptAndReplies, TypeCorrect, PTL
        DEF ReplySpec
=============================================================================
