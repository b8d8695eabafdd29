------------------------------ MODULE Scheduler ------------------------------
(***************************************************************************)
(* The scheduled messages of scheduler.cjs: rows of the schedules table,   *)
(* the running tasks armed from them, and the deliveries in flight.  An    *)
(* action is one turn of the event loop; a delivery waits for the socket   *)
(* between two payloads.                                                   *)
(*                                                                         *)
(* A task closes over the socket it was armed with.  A job made in the     *)
(* panel or by the AI agent is armed with the session's own socket, one    *)
(* made by !schedule or !autoschedule with the wrapper command.handler.js  *)
(* puts around it, which routes and quotes replies.                        *)
(***************************************************************************)
EXTENDS Naturals, FiniteSets

CONSTANTS
  Jobs,      \* job ids
  OneOff,    \* the jobs that run once; the others recur
  HasMedia,  \* the jobs that carry a file, sent as two payloads
  Creators,  \* who makes jobs: "panel", "ai", "command"
  Routes,    \* values the operator gives the reply route
  Budget     \* bound: how often the environment acts

\* planDelivery's modes, for a reply asked for in the chat of the command:
\* there, in the owner's private chat, in a chat where source text is refused.
AllRoutes == {"same_chat", "owner_private", "authorized_chat"}

ASSUME SchedulerAssumption ==
  /\ OneOff \subseteq Jobs /\ HasMedia \subseteq Jobs
  /\ Creators \subseteq {"panel", "ai", "command"}
  /\ "same_chat" \in Routes /\ Routes \subseteq AllRoutes
  /\ Budget \in Nat

Statuses == {"unsaved", "deleted", "active", "pending", "sent", "failed",
             "expired", "paused"}
Vias     == {"raw", "reply", "edit"}

VARIABLES
  \* the database and the media folder
  row,         \* [status, last] of each job; unsaved and deleted: no row
  file,        \* the jobs whose media copy exists
  \* scheduler.cjs
  task,        \* runningTasks
  inFlight,    \* deliveriesInFlight: the generation of the delivery, 0 if none
  generation,  \* scheduleGeneration, counted from 1
  deliveries,  \* the deliveries that wait for a send
  \* the rest of the process
  conn,        \* the session's socket, 0 if none
  open,        \* it is connected: the scheduler's currentSock
  sockets,     \* how many sockets there have been
  heard,       \* those that were connected, so that messages came in
  route,       \* the reply route in force
  \* the world
  due,         \* the one-off jobs whose time has come
  \* observers
  reached,     \* how often the whole message got to the job's chat
  from,        \* the socket a job's row goes back to
  since,       \* sockets up to this one were of accounts unlinked since
  budget

dbVars    == <<row, file>>
schedVars == <<task, inFlight, generation, deliveries>>
sockVars  == <<conn, open, sockets, heard>>
seenVars  == <<reached, from, since>>

vars == <<dbVars, schedVars, sockVars, seenVars, route, due, budget>>

Spend == budget > 0 /\ budget' = budget - 1

NoTask == [sock |-> 0, via |-> "raw", fired |-> FALSE]
TaskOn(s, via) == [sock |-> s, via |-> via, fired |-> FALSE]

Waiting == {"active", "pending"}
Stored(r) == r.status \notin {"unsaved", "deleted"}
-----------------------------------------------------------------------------
(* Arming.                                                                 *)

\* Mutant: the date is not compared with the clock.
NeverLapsed(j) == FALSE

\* scheduleNewJob refuses a one-off whose time has passed.
Lapsed(j) == j \in OneOff /\ j \in due

\* initializeScheduledJobs over the rows r, with socket s and the tasks t.
ArmedRows(r) ==
  [j \in Jobs |-> IF r[j].status \in Waiting /\ Lapsed(j)
                  THEN [r[j] EXCEPT !.status = "expired"] ELSE r[j]]

\* Mutant: only the jobs made in the panel are armed again.
ArmedActive(r, s, t) ==
  [j \in Jobs |-> IF r[j].status # "active" THEN t[j]
                  ELSE IF Lapsed(j) THEN NoTask ELSE TaskOn(s, "raw")]

ArmedTasks(r, s, t) ==
  [j \in Jobs |-> IF r[j].status \notin Waiting THEN t[j]
                  ELSE IF Lapsed(j) THEN NoTask ELSE TaskOn(s, "raw")]

\* Mutant: the running tasks are left alone.
ForgetConnection == UNCHANGED task

StopAll == task' = [j \in Jobs |-> NoTask]

Init ==
  /\ row = [j \in Jobs |-> [status |-> "unsaved", last |-> "none"]]
  /\ file = {}
  /\ task = [j \in Jobs |-> NoTask]
  /\ inFlight = [j \in Jobs |-> 0]
  /\ generation = 1 /\ deliveries = {}
  /\ conn = 0 /\ open = FALSE /\ sockets = 0 /\ heard = {}
  /\ route = "same_chat" /\ due = {}
  /\ reached = [j \in Jobs |-> 0]
  /\ from = [j \in Jobs |-> 0] /\ since = 0
  /\ budget = Budget
-----------------------------------------------------------------------------
(* Making and deleting jobs.                                               *)

Save(j, status, origin) ==
  /\ row' = [row EXCEPT ![j] = [status |-> status, last |-> "none"]]
  /\ from' = [from EXCEPT ![j] = origin]

\* POST /schedules: the row is saved, then armed if there is a socket.  The
\* date was compared before the upload was read, so it may have passed.
PanelCreate(j) ==
  /\ "panel" \in Creators /\ row[j].status = "unsaved" /\ Spend
  /\ Lapsed(j) => j \in HasMedia
  /\ file' = IF j \in HasMedia THEN file \cup {j} ELSE file
  /\ Save(j, IF conn # 0 /\ Lapsed(j) THEN "expired" ELSE "active",
          IF conn # 0 THEN conn ELSE sockets + 1)
  /\ task' = IF conn = 0 \/ Lapsed(j) THEN task
             ELSE [task EXCEPT ![j] = TaskOn(conn, "raw")]
  /\ UNCHANGED <<inFlight, generation, deliveries, sockVars, reached, since,
                 route, due>>

\* scheduleJobNow: the reminder tool of the AI agent arms with the socket the
\* scheduler was given, then saves.
AiCreate(j) ==
  /\ "ai" \in Creators /\ row[j].status = "unsaved" /\ Spend
  /\ j \in OneOff \ (HasMedia \cup due) /\ open
  /\ Save(j, "pending", conn)
  /\ task' = [task EXCEPT ![j] = TaskOn(conn, "raw")]
  /\ UNCHANGED <<file, inFlight, generation, deliveries, sockVars, reached,
                 since, route, due>>

\* !schedule and !autoschedule arm, then save.  The message came in on socket
\* s, which may be gone by now: the handler awaited a group query.  The
\* wrapper of a message from the linked phone edits it in place once.
CommandCreate(j, s, via) ==
  /\ "command" \in Creators /\ row[j].status = "unsaved" /\ Spend
  /\ s \in heard /\ j \notin HasMedia \cup due
  /\ Save(j, IF j \in OneOff THEN "pending" ELSE "active", s)
  /\ task' = [task EXCEPT ![j] = TaskOn(s, via)]
  /\ UNCHANGED <<file, inFlight, generation, deliveries, sockVars, reached,
                 since, route, due>>

\* deleteScheduledJob, from the panel or !deleteschedule.
Delete(j) ==
  /\ Stored(row[j]) /\ Spend
  /\ row' = [row EXCEPT ![j].status = "deleted"]
  /\ file' = file \ {j}
  /\ task' = [task EXCEPT ![j] = NoTask]
  /\ UNCHANGED <<inFlight, generation, deliveries, sockVars, seenVars, route,
                 due>>
-----------------------------------------------------------------------------
(* Delivering.                                                             *)

\* What becomes of a payload, decided when sendMessage is called.
Fate(via) ==
  IF via = "raw" THEN "target"
  ELSE IF route = "owner_private" THEN "diverted"
  ELSE IF route = "authorized_chat" THEN "refused"
  ELSE IF via = "edit" THEN "edited" ELSE "target"

\* Mutant: the caption of a file counts as a payload.
PayloadsAndCaption(j) == IF j \in HasMedia THEN 3 ELSE 1

\* The payloads a delivery has to send: audio and stickers, the files modelled
\* here, are followed by their text.
Payloads(j) == IF j \in HasMedia THEN 2 ELSE 1

\* updateJobStatus and setScheduleDelivery: neither brings a row back.
Record(j, result) ==
  row' = IF Stored(row[j])
         THEN [row EXCEPT ![j] =
                 [status |-> IF j \in OneOff THEN result ELSE @.status,
                  last |-> result]]
         ELSE row

\* Mutant: two deliveries of a job may overlap.
BeginOverlapping(j, s, via, by) ==
  /\ deliveries' = deliveries \cup
       {[no |-> budget, job |-> j, gen |-> generation, sock |-> s, by |-> by,
         left |-> Payloads(j), fate |-> Fate(via)]}
  /\ inFlight' = [inFlight EXCEPT ![j] = generation]
  /\ UNCHANGED row

\* deliverScheduledJob up to its first await.  It is refused while one of the
\* same generation is in flight, and fails at once without its file.
Begin(j, s, via, by) ==
  IF inFlight[j] = generation THEN UNCHANGED <<deliveries, inFlight, row>>
  ELSE IF j \in HasMedia \ file
  THEN Record(j, "failed") /\ UNCHANGED deliveries
       /\ inFlight' = [inFlight EXCEPT ![j] = 0]
  ELSE /\ deliveries' = deliveries \cup
            {[no |-> budget, job |-> j, gen |-> generation, sock |-> s,
              by |-> by, left |-> Payloads(j), fate |-> Fate(via)]}
       /\ inFlight' = [inFlight EXCEPT ![j] = generation]
       /\ UNCHANGED row

Begins(j) == inFlight[j] # generation /\ j \notin HasMedia \ file

\* The timer of a one-off.  Its entry in runningTasks goes when it returns.
TimerFires(j) ==
  /\ j \in OneOff \cap due /\ task[j].sock # 0 /\ ~ task[j].fired
  /\ Begin(j, task[j].sock, task[j].via, "timer")
  /\ task' = [task EXCEPT ![j] = IF Begins(j)
                                 THEN [@ EXCEPT !.fired = TRUE] ELSE NoTask]
  /\ UNCHANGED <<file, generation, sockVars, seenVars, route, due, budget>>

\* The cron task of a recurring job.  The wrapper edits only once.
CronTick(j) ==
  /\ j \notin OneOff /\ task[j].sock # 0 /\ Spend
  /\ Begin(j, task[j].sock, task[j].via, "cron")
  /\ task' = IF Begins(j) /\ Fate(task[j].via) = "edited"
             THEN [task EXCEPT ![j].via = "reply"] ELSE task
  /\ UNCHANGED <<file, generation, sockVars, seenVars, route, due>>

Retryable(j) ==
  \/ row[j].status = "failed"
  \/ j \notin OneOff /\ row[j].status = "active" /\ row[j].last = "failed"

\* POST /schedules/:id/retry.
Retry(j) ==
  /\ open /\ Retryable(j) /\ Spend
  /\ Begin(j, conn, "raw", "retry")
  /\ UNCHANGED <<file, task, generation, sockVars, seenVars, route, due>>

\* Mutant: whatever is in flight is forgotten.
SettleAny(d) == inFlight' = [inFlight EXCEPT ![d.job] = 0]

\* The finally of deliverScheduledJob.
Settle(d) ==
  inFlight' = [inFlight EXCEPT ![d.job] = IF @ = d.gen THEN 0 ELSE @]

\* What is left to do when a delivery returns.
Return(d) ==
  /\ deliveries' = deliveries \ {d}
  /\ Settle(d)
  /\ task' = IF d.by = "timer" THEN [task EXCEPT ![d.job] = NoTask] ELSE task

Reaches(d, ok) == ok /\ d.left = 1 /\ d.fate = "target"

\* Mutant: the outcome of a failed one-off does not matter to its file.
OutcomeDroppingFile(d, ok) ==
  /\ Return(d)
  /\ Record(d.job, IF ok THEN "sent" ELSE "failed")
  /\ file' = IF d.job \in OneOff THEN file \ {d.job} ELSE file

\* Mutant: a send that failed counts as sent.
OutcomeAlwaysSent(d, ok) ==
  /\ Return(d)
  /\ Record(d.job, "sent")
  /\ file' = IF d.job \in OneOff THEN file \ {d.job} ELSE file

\* The delivery is over: its result is recorded, and a one-off that was sent
\* drops its file.
Outcome(d, ok) ==
  /\ Return(d)
  /\ Record(d.job, IF ok THEN "sent" ELSE "failed")
  /\ file' = IF ok /\ d.job \in OneOff THEN file \ {d.job} ELSE file

\* Mutant: a delivery does not notice the activation.
NeverStale(d) == FALSE

\* staleDelivery.
Stale(d) == d.gen # generation

\* The wrapper could not edit the command: it sends an ordinary reply instead.
EditFailed(d, ok) == d.fate = "edited" /\ ~ ok

GoesOn(d, e) ==
  /\ deliveries' = (deliveries \ {d}) \cup {e}
  /\ UNCHANGED <<dbVars, task, inFlight>>

\* sendMessage settles.  It succeeds only on a connected socket, unless the
\* wrapper refused it: that resolves too, with nothing sent.
SendSettles(d, ok) ==
  /\ IF d.fate = "refused" THEN ok ELSE ok => open /\ d.sock = conn
  /\ reached' = IF Reaches(d, ok) /\ reached[d.job] < 2
                THEN [reached EXCEPT ![d.job] = @ + 1] ELSE reached
  /\ IF EditFailed(d, ok) THEN GoesOn(d, [d EXCEPT !.fate = "target"])
     ELSE IF Stale(d) THEN Return(d) /\ UNCHANGED dbVars
     ELSE IF ok /\ d.left > 1 THEN GoesOn(d, [d EXCEPT !.left = @ - 1])
     ELSE Outcome(d, ok)
  /\ UNCHANGED <<generation, sockVars, from, since, route, due, budget>>
-----------------------------------------------------------------------------
(* The connection, the account, the operator, the clock.                   *)

\* The session adopts a socket; it is not connected yet.
Connect ==
  /\ conn = 0 /\ Spend
  /\ sockets' = sockets + 1 /\ conn' = sockets + 1
  /\ UNCHANGED <<dbVars, schedVars, open, heard, seenVars, route, due>>

\* handleConnectionOpen with no restored account waiting.
Opens ==
  /\ conn # 0 /\ ~ open
  /\ open' = TRUE /\ heard' = heard \cup {conn}
  /\ row' = ArmedRows(row)
  /\ task' = ArmedTasks(row, conn, task)
  /\ UNCHANGED <<file, inFlight, generation, deliveries, conn, sockets,
                 seenVars, route, due, budget>>

\* The same, with an activation that fails and is rolled back.
OpensAfterRollback ==
  /\ conn # 0 /\ ~ open /\ Spend
  /\ open' = TRUE /\ heard' = heard \cup {conn}
  /\ generation' = generation + 1
  /\ row' = ArmedRows(row)
  /\ task' = ArmedTasks(row, conn, task)
  /\ UNCHANGED <<file, inFlight, deliveries, conn, sockets, seenVars, route,
                 due>>

\* The rows of a backup taken when the jobs in K were just made (last is
\* "none") or had failed.  The rows of the other jobs are gone.
Restored(K, last) ==
  [j \in Jobs |->
     IF j \in K
     THEN [status |-> IF j \in OneOff /\ last = "failed"
                      THEN "failed" ELSE "active",
           last |-> last]
     ELSE IF Stored(row[j]) THEN [row[j] EXCEPT !.status = "deleted"]
     ELSE row[j]]

\* The same, with a restored account: its rows and files replace those of the
\* table, and every task of the old ones is stopped.
OpensActivated(K, last) ==
  /\ conn # 0 /\ ~ open /\ Spend
  /\ K \subseteq {j \in Jobs : row[j].status # "unsaved"}
  /\ last = "failed" => \A j \in K : row[j].last # "none"
  /\ open' = TRUE /\ heard' = heard \cup {conn}
  /\ generation' = generation + 1
  /\ row' = ArmedRows(Restored(K, last))
  /\ task' = ArmedTasks(Restored(K, last), conn, [j \in Jobs |-> NoTask])
  /\ file' = K \cap HasMedia
  /\ from' = [j \in Jobs |-> IF j \in K THEN conn ELSE from[j]]
  /\ UNCHANGED <<inFlight, deliveries, conn, sockets, reached, since, route,
                 due>>

\* The socket is gone, for whatever reason: stopAllScheduledJobs.
Closes ==
  /\ conn # 0 /\ Spend
  /\ conn' = 0 /\ open' = FALSE
  /\ StopAll
  /\ UNCHANGED <<dbVars, inFlight, generation, deliveries, sockets, heard,
                 seenVars, route, due>>

\* Mutant: only the jobs made in a chat are paused.
PausedPending == {"pending"}

\* pauseAllSchedules.
Paused == {"active", "pending"}

\* The account is unlinked, its socket being gone.
Unlink ==
  /\ conn = 0 /\ since < sockets /\ Spend
  /\ row' = [j \in Jobs |-> IF row[j].status \in Paused
                            THEN [row[j] EXCEPT !.status = "paused"]
                            ELSE row[j]]
  /\ since' = sockets
  /\ UNCHANGED <<file, schedVars, sockVars, reached, from, route, due>>

\* The process dies and boots again.
Restart ==
  /\ Spend
  /\ task' = [j \in Jobs |-> NoTask]
  /\ inFlight' = [j \in Jobs |-> 0]
  /\ deliveries' = {}
  /\ conn' = 0 /\ open' = FALSE /\ heard' = {}
  /\ UNCHANGED <<dbVars, generation, sockets, seenVars, route, due>>

SetRoute(r) ==
  /\ r \in Routes \ {route} /\ Spend
  /\ route' = r
  /\ UNCHANGED <<dbVars, schedVars, sockVars, seenVars, due>>

\* The time of a one-off comes.
Clock(j) ==
  /\ j \in OneOff \ due
  /\ due' = due \cup {j}
  /\ UNCHANGED <<dbVars, schedVars, sockVars, seenVars, route, budget>>

Next ==
  \/ \E j \in Jobs :
       \/ PanelCreate(j)
       \/ AiCreate(j)
       \/ \E s \in 1 .. sockets, via \in {"reply", "edit"} :
            CommandCreate(j, s, via)
       \/ Delete(j)
       \/ TimerFires(j)
       \/ CronTick(j)
       \/ Retry(j)
       \/ Clock(j)
  \/ \E d \in deliveries, ok \in BOOLEAN : SendSettles(d, ok)
  \/ Connect
  \/ Opens
  \/ OpensAfterRollback
  \/ \E K \in SUBSET Jobs, last \in {"none", "failed"} :
       OpensActivated(K, last)
  \/ Closes
  \/ Unlink
  \/ Restart
  \/ \E r \in Routes : SetRoute(r)

Spec == Init /\ [][Next]_vars

\* A timer fires once its time has come, and every send settles: Baileys
\* bounds its waits.
Fairness ==
  /\ \A j \in Jobs : WF_vars(TimerFires(j))
  /\ WF_vars(\E d \in deliveries, ok \in BOOLEAN : SendSettles(d, ok))

FairSpec == Spec /\ Fairness

\* A chat command arms its job while the socket its message came in on is
\* still the session's: neither a close nor a new socket overtakes its group
\* query.
CommandsInTime ==
  \A j \in Jobs, s \in 1 .. sockets, via \in {"reply", "edit"} :
    CommandCreate(j, s, via) => s = conn

PromptSpec == Init /\ [][Next /\ CommandsInTime]_vars

\* A chat command does not come from the linked phone, whose message the
\* wrapper edits.
CommandsReply ==
  \A j \in Jobs, s \in 1 .. sockets : ~ CommandCreate(j, s, "edit")

ReplySpec == Init /\ [][Next /\ CommandsReply]_vars

\* Both.
SteadySpec == Init /\ [][Next /\ CommandsInTime /\ CommandsReply]_vars
-----------------------------------------------------------------------------
RowType  == [status : Statuses, last : {"none", "sent", "failed"}]
TaskType == [sock : Nat, via : Vias, fired : BOOLEAN]

DeliveryType ==
  [no : Nat, job : Jobs, gen : Nat, sock : Nat, by : {"timer", "cron", "retry"},
   left : 1 .. 2, fate : {"target", "diverted", "refused", "edited"}]

\* Every variable has its type.
TypeOK ==
  /\ row \in [Jobs -> RowType]
  /\ file \subseteq HasMedia
  /\ task \in [Jobs -> TaskType]
  /\ inFlight \in [Jobs -> Nat] /\ generation \in Nat
  /\ deliveries \subseteq DeliveryType
  /\ conn \in Nat /\ open \in BOOLEAN /\ sockets \in Nat /\ heard \subseteq Nat
  /\ route \in Routes /\ due \subseteq OneOff
  /\ reached \in [Jobs -> 0 .. 2] /\ from \in [Jobs -> Nat] /\ since \in Nat
  /\ budget \in Nat

\* However timers, cron ticks, retries, reconnects and activations interleave,
\* a job has at most one delivery of the current generation under way
\* (deliveriesInFlight, "skipping overlap").
OneSendAtATime ==
  \A d, e \in deliveries :
    d.job = e.job /\ d.gen = generation /\ e.gen = generation => d = e

\* A job whose file may still have to be sent has its file: it is kept until a
\* delivery of the row that owns it has succeeded (executeScheduledJob).
MediaKept ==
  \A j \in HasMedia :
    row[j].status \in {"active", "pending", "failed", "paused", "expired"}
      => j \in file

\* An armed task holds the session's socket: jobs live "exactly as long as the
\* socket they send through" (#stopJobs of session.js).
TasksFollowSocket ==
  \A j \in Jobs : task[j].sock # 0 => task[j].sock = conn

\* A one-off reported as sent did get to its chat (executeScheduledJob).
SentWasDelivered ==
  \A j \in OneOff : row[j].status = "sent" => reached[j] > 0

\* No job of an unlinked account is armed with a socket of the next one
\* (pauseAllSchedules).
NeverForNewAccount ==
  \A j \in Jobs : task[j].sock > since => from[j] > since
-----------------------------------------------------------------------------
\* A delivery that began before an activation changes nothing of the account
\* that was activated, whatever its socket answers (staleDelivery).
StaleIsSilent ==
  [][\A d \in deliveries :
       d.gen # generation /\ d \notin deliveries' => UNCHANGED dbVars]_vars

\* No timer, reconnect, restart or restore sends a one-off a second time: only
\* a retry the operator asked for does.
ResentByHandOnly ==
  [][\A j \in OneOff : reached[j] > 0 /\ reached'[j] # reached[j]
       => \E d \in deliveries \ deliveries' : d.job = j /\ d.by = "retry"]_vars

\* A one-off that was sent is sent for good: no late result of another
\* delivery, reconnect or unlink takes it back.
SentIsFinal ==
  [][\A j \in OneOff : row[j].status = "sent" /\ generation' = generation
       => row'[j].status \in {"sent", "deleted"}]_vars

\* A one-off whose time has come is settled while the bot stays connected.
DueIsSettled ==
  \A j \in OneOff :
    (row[j].status \in Waiting /\ j \in due /\ open)
      ~> (row[j].status \notin Waiting \/ ~ open)
=============================================================================
