# Levix in TLA+

Levix is a WhatsApp bot: one Node.js process (on a server, a desktop, in Docker
or inside an Android app) that keeps one linked WhatsApp account connected
through Baileys, answers commands in chats, and serves a control panel over
HTTP.  State that outlives the process is in one SQLite database and a data
directory.

This directory specifies the parts of it whose correctness depends on the
order of things: what happens between two `await`s, after a timer that should
have been cancelled, with the socket that was just replaced, or after the
account has changed.

    WhatsAppSession              the session and its socket
      SocketOwner                  what it promises, in four actions
      MCWhatsAppSession            instances for TLC
      WhatsAppSessionProofs        theorems for every instance
    Scheduler                    scheduled messages
      MCScheduler                  instances for TLC
      SchedulerProofs              theorems for every instance
    Restore                      backups restored, activated, recovered
      AccountSwap                  what it promises, in three actions
      MCRestore                    an instance for TLC
      RestoreProofs                theorems for any number of failures, and
                                   for one; the refinement
    Moderation                   warnings, flags and removals in a group
      MCModeration                 instances for TLC
      ModerationProofs             theorems for every instance
    PasswordReset                reset codes and the recovery address
      PasswordResetProofs          theorems for every instance
    StickerQueue                 the queue of sticker conversions
      StickerQueueProofs           theorems for every instance
    BackupUploads                uploaded backups
      BackupUploadsProofs          theorems for every instance
    MCServices                   an instance of the last four for TLC
      ServicesProofs               what is proved of each holds of the four


## The system

| component | state | operations | hard behaviour |
|---|---|---|---|
| Session, `src/core/session.js`, `connection.js` | state machine, current socket, generation, retry timer, pairing, consent watch | `start` `stop` `logout` `reconnect` `shutdown` `setInternetOnline`, socket events, timers | requests and events meet at every `await`; late events of old sockets |
| Socket construction, `socket.js`, `proxy.js` | proxy agent | `createSocket` | fails or ends late |
| Stored credentials, `src/auth/` | creds and keys in SQLite | load, `saveCreds`, `clearAll` | a late save after a wipe |
| Scheduled messages, `scheduler.cjs` | rows, media files, running tasks, deliveries in flight, schedule generation | arm, deliver, retry, delete, re-arm on open, stop on close | a delivery outlives its socket, its account or its row |
| Reply router, `src/messaging/`, `command.handler.js` | route settings | `planDelivery`, `wrapSockWithReply` | a wrapper kept after its command ended |
| Restore and activation, `src/backup/` | staged account, journal, marker | restore, activate, recover | crashes between renames |
| Backup uploads, `backup/uploads.cjs` | files, pins, wrong passwords | receive, preview, restore, expire | a file is deleted while it is being opened |
| Password reset, `src/panel/` | pending code, verification, recovery record, throttles | request, redeem, verify, remove | sends and answers of the relay overlap |
| Moderation, `moderationAction.cjs`, `moderationPolicy.cjs` | warnings, flags, claims of messages, anti-spam memory | count, warn, flag, kick | duplicated and overlapping messages, one member with two names |
| Sticker queue, `src/stickers/jobs.cjs` | queue, running slots | submit, run, cancel, time out | slots and timeouts |
| Instance lock, `src/config/lock.cjs` | SQLite lock, pid file | acquire, release | two processes |
| Legal consent, `src/legal/` | acceptance record, releases | accept, revoke, refresh | other processes change the record |
| AI agent, `src/services/ai*` | chat memories | turns, tools | tools act on the session later |
| Message pipeline, commands, dashboard, i18n, settings | per call | parse, query, reply | little of their own |

How they meet: Baileys calls the session back with events; the session calls
`handleConnectionOpen` (which activates a restored account, then arms the
scheduler with the socket) when a socket opens, and `stopAllScheduledJobs` when
it goes.  Panel routes and the commands `!stopbot`, `!restart` call the session.
Commands, the panel and the AI agent make jobs.  A logout pauses the jobs and
wipes what was learnt under the account.  The Android host reports
connectivity.  The removal of an account cancels the sticker queue.  Moderation,
the reset code, the sticker queue and the uploads share no state with each
other; a restore pins the upload it reads.

What makes each correct, for the components modelled:

- *Session*: one connection at most; late events change nothing; a stopped or
  unlinked session stays so; nothing connects without the Terms; an unlinked
  account leaves nothing behind unless wiping it fails; every request returns and
  every retry happens.
- *Scheduler*: no message twice by itself, none lost in silence, none through
  the socket or for the account of somebody else, no file lost early.
- *Password reset*: of several codes on their way only the newest counts; a
  failed or overtaken request takes nothing away; an emailed code dies with its
  address; an address that was removed stays so.
- *Backup and activation*: after any crash the account is the old or the new
  one as a whole.
- *Backup uploads*: what is open stays, wrong passwords close an upload for
  good, the disk holds two at most.
- *Sticker queue*: slots are neither lost nor given twice.
- *Moderation*: each message counts once, no warning is lost, a member at the
  limit is flagged or removed.


## WhatsAppSession

Node runs JavaScript one turn at a time, so an action is what a handler does
between two `await`s that really wait for something: a socket being created or
closed, WhatsApp answering.  A request that waits is an entry of `call`
(`pc` says for what, `op` for whom); an open in flight is `opening` and
`startedAt`.  An `await` whose promise is already resolved goes on in a
microtask, before the event loop takes another event: `Drained` is a guard of
every action that starts from an event.

A socket is the generation number it was adopted under.  `live` are the
sockets that are attached, `socket` the one the session points at.  Everything
the code compares generations for is a comparison here.

| in the model | in `session.js` |
|---|---|
| `Start` `CanBegin` `Begin` `Open` `HoldForConsent` | `start`, `#open` to its first await, `#consentAllows` |
| `Adopt` `Discard` `Discarded` `CreateFails` | `#open` after `createSocket`, with its check of the generation |
| `Teardown` `Proceed` `Ended` `FinishTeardown` `StartAgain` | `stop`, `reconnect`, `shutdown` |
| `Logout` `UnlinkSent` `WipeCredentials` `FinishLogout` | `logout`, its two bounded waits, its two wipes |
| `Offline` `FinishOffline` `Online` | `setInternetOnline` |
| `QrEvent` `CodeResult` `NewLogin` `OpenEvent` `OpenUnsafe` `CloseEvent` | `#onConnectionUpdate` and what it calls |
| `HandleLoggedOut` `ForgetAccount` | `#handleLoggedOut`, up to its credential wipe and from there on |
| `CredsUpdate` | the `creds.update` listener of `events.js` |
| `RetryTimer` `ConsentTick` `Recheck` | `#scheduleRetry`, `#watchConsent` |
| `AcceptTerms` `RecordChanges` | the panel, and another process, writing the acceptance record |
| `Restart` | the process dies and `bootstrap/core.js` starts again |

`Verdicts` are the four outcomes of `classifyDisconnect`.  `parked` observes that
the operator took the session down.

An unlink wipes twice: the credentials (`linked`), then everything that was
learnt under the account (`residue`).  Each wipe may fail, which the code logs
before it goes on to `logged_out`, and the process may die between them
(`BetweenWipes`).  What the code then guarantees is `NoInheritedData`: no data is
left behind a link that is gone, except while the second wipe is still to come
or if the last one failed or never ran.  `unwiped` observes the latter.  Only the
next unlink makes up for it: no start looks for data without a link.

`accepted` can be voided while a socket is being created; the session adopts it
all the same, as it checks its generation and not the record again
(session.js:667).  `admitted` observes the last socket that was there, or on its
way, when the record was last voided, and `NoSocketWithoutTerms` says that none
after it ever runs before a new acceptance.

Bounds.  `Budget` is how many disturbances (requests, closes, failures, changes
of the Terms, restarts) a behaviour has; replies to them cost nothing.
`RetryLen` is the length of the retry schedule (5 in the code); with 1 or 2 the
first retry, the last and the exhaustion all occur.  `Calls` is how many
requests may be suspended at once.  Every defect these runs are about needs at
most five disturbances: the mutants, one for each property, are all found
within the bound, most at depth 4 to 8.

Fairness (`session_android`).  Every wait in the code is bounded: `withTimeout`
(5 s) around `sock.logout()` and the end of a socket, `setTimeout` for the
retry, `setInterval` for the consent watch, Baileys' own query timeout for a
pairing code, and `createSocket`, which reads SQLite synchronously.  So the
continuations of requests and opens and the timers are weakly fair.  Nothing
is assumed of WhatsApp, the operator or the network.

| run | instance | shows |
|---|---|---|
| `session_panel` | two suspended requests that do not both take the session down (`SerialSpec`), no connectivity reports | `CodeBelongsToSocket` `StoppedStaysStopped`, and `OwnsOneConnection`: the session implements `SocketOwner` with `owner <- live`, `last <- gen` |
| `session_android` | one request at a time, with connectivity reports, wipes that fail or are cut off, and fairness | `OneLiveSocket` `JobsFollowSocket` `NoLinkComesBack` `NoInheritedData`, and that things happen: `RequestsReturn` `RetryHappens` `PausedUntilOnline` `AcceptanceIsNoticed` |
| `session_overlap` | two suspended requests, QR and pairing codes | `HeldBackIsWatched` `NoSocketWithoutTerms` `ShutdownIsFinal` (no open begins, no socket is adopted) |
| `session_second_socket` | pairing codes | the code breaks `StartIsIdempotent` |
| `session_flap` | overlapping connectivity reports | the code breaks `PausedUntilOnline` |
| `session_unlink` | overlapping requests | the code breaks `UnlinkedIsCutOff` |


## Scheduler

Rows (`row`, `file`) are durable; tasks, deliveries in flight and the schedule
generation are the module's variables.  A delivery is a record that waits for
`sendMessage` once for each payload; audio and stickers, followed by their text,
are two payloads, everything else is one.  It keeps the socket and the
generation it began with, as the closure in the code does.

A one-off's date is a place in `due`: `Clock` makes its time come, timers fire
some time after.  `conn`, `open`, `sockets` are the session as the scheduler
sees it: a number for each socket, gone before the next comes (which
`WhatsAppSession` establishes), connected or not yet.

| in the model | in the code |
|---|---|
| `PanelCreate` | `POST /schedules`: save, then arm with the session's socket |
| `AiCreate` | `scheduleJobNow`: arm with the scheduler's socket, then save |
| `CommandCreate` | `!schedule`, `!autoschedule`: arm with the reply wrapper of their message, then save |
| `TimerFires` `CronTick` `Retry` | the three ways into `executeScheduledJob` |
| `Begin` | `deliverScheduledJob` to its first await |
| `SendSettles` `GoesOn` `Outcome` `Return` `Settle` | the rest of it, `executeScheduledJob` and the `finally` of a one-off |
| `Opens` `OpensAfterRollback` `OpensActivated` | `handleConnectionOpen`: nothing restored, an activation rolled back, an activation |
| `Closes` `Unlink` `Restart` | `stopAllScheduledJobs`, `pauseAllSchedules`, a crash |
| `SetRoute` `Fate` `EditFailed` | the reply route, what it does to a message of a wrapped socket, an edit that fails and is sent again |

A backup holds a job as it was made or as it had failed; it may bring back a
row that was sent or deleted since.  `reached`, `from` and `since` observe what
got to the chat of a job, the socket under which its row was made and the
sockets of accounts unlinked since.

`schedule_panel` has three jobs (a one-off with a file, a text one-off, a
recurring one), made in the panel, by the AI agent or by chat commands, and
seven disturbances: enough for make, connect, deliver, close, reconnect,
activate, retry in any order; all seven mutants are found.  Its specification,
`SteadySpec`, leaves out the two things commands may do that the violation runs
are about: arm a job after their socket has gone (`CommandsInTime`) and answer a
message of the linked phone (`CommandsReply`).  `schedule_live` has the same jobs, without
those restrictions, every reply route and six disturbances, with the
fairness that a due timer fires and that `sendMessage` settles (Baileys ends a
query after a minute): a one-off whose time has come is settled while the bot
stays connected, even when the socket was replaced, the account activated or
the process restarted meanwhile.

| run | shows |
|---|---|
| `schedule_panel` | `OneSendAtATime` `MediaKept` `TasksFollowSocket` `SentWasDelivered` `NeverForNewAccount` `ResentByHandOnly` `StaleIsSilent` |
| `schedule_live` | `DueIsSettled` |
| `schedule_edit` | with a command of the linked phone the code breaks `SentWasDelivered` |
| `schedule_relink` | with a command that outlives its socket the code breaks `NeverForNewAccount` |


## Restore

`disk` is what survives the process: the live folders, `levix.db` as the few
facts of it that matter here, `ai-persona.md`, `restore/journal.json`,
`restore/pending`, `restore/pending.next`, and for each restore what is under
`restore/<id>`.  A folder or a table is just whose it is: `Own` at first, or a
restore's.  `mem` is the process.  From the end of an extraction on, and from the
opening of a socket on, the code is synchronous: `mem.at` names the durable
step it takes next and events come only at `"idle"`.

Each step is a `Try`: it succeeds, or fails with or without its effect, and the
code goes on at `Thrown`, which is the three catch blocks.  `Crash` happens
between any two steps.  A rename with its fsyncs, an atomically written JSON
file, a recursive removal and a transaction are one step: what is lost with the
power counts as not having happened.

| in the model | in the code |
|---|---|
| `StartRestore` `OpenFails` `Stage` `Extracted` `ExtractFails` | `startRestore`, `restorePinnedUpload` with its two awaits |
| `Apply` `Commit` `Refuse` `ToPersona` `InstallPersona` `ToPending` | the settings, one transaction, and the persona |
| `AlreadyInstalled` `InstallPart` `Replace` `Swap` `DropReplaced` `Clear` `Sweep` | `installPending`, `finish` |
| `Unstage` `Unjournal` | the catch of a restore that changed nothing |
| `SocketOpens` `Migrate` `Check` `MoveOut` `RenameOut` `MoveIn` `RenameIn` `ToDb` `ReplaceTables` `ToCleanup` | `activatePendingIfMatching` |
| `DropPrevious` `DropPending` `DropRoot` `ClearDone` | `finishActivation` |
| `Undo` `AllUndone` | `undoMoves` and what follows it |
| `Start` `GiveBack` `Forget` `Orphans` | `runRestoreRecovery`, `recover`, `cleanupOrphans` |
| `Discard` `MakeFolder` | `DELETE /backup/pending`; whoever stores a memory, a sticker, a media file |

Every backup has a persona here; recovery checks what it needs before it notes
the next step, the job just after.

The run `restore` has three restores, the second without stickers and the third
without an account, on an install without stickers, with two folders (the third
is treated as the second), two crashes anywhere and one failing operation.
`AccountIsWhole`, `NothingIsLost`, `PersonaFollows` and `WaitingIsComplete` say
what the disk is good for at every instant; `SwapsAtOnce` that it all amounts to
`AccountSwap` with `settings`, `account` and `waiting` read off the disk;
`JobsEnd` that the latch of `jobs.cjs` is released.  The fairness is that
synchronous code runs on and that the event loop gets round to the end of an
`await`.

One failure is also the bound the code keeps its promises for, `PersonaFollows`
apart.  With two, `AccountIsWhole` and `NothingIsLost` fail in two ways.  If an activation fails and its undo
fails too, the bot runs on without a folder; when it makes the folder again,
the recovery takes the new one for the old, and the orphan sweep deletes the
old one.  If this happens while a restore is opening its backup, the restore
writes its journal over the activation's, with the same end.  The same happens
to an activation that is committed and cannot clean up: what it activated seems
to wait again, against `SwapsAtOnce`.  And with one failure, at the end of a restore, the operator may discard what the journal
says is still to be installed: no later start can finish it, and its journal
refuses every restore and activation after.


## Moderation

One member of one group.  He has two names, a LID and a phone number, and rows
under either; from `Link` on the code knows that they are one person, reads the
rows of both and writes one.  A warning is the message it was given for, with
its points; a `task` is an enforcement between its transaction, its notices and
the answer of WhatsApp to a removal.  What detectors say of a message (`Hits`)
and whether the roster shows the bot as an admin are inputs; time is `Age`,
which makes a warning old enough for the policy to discount it.

| in the model | in the code |
|---|---|
| `Deliver` `Observe` | `handleGroupModeration`, `observeAntiSpam`: a message, the first time or again |
| `Claim` `Duplicate` | `enforceHits` with `commitModerationDecision`, one transaction |
| `Points` `Worth` `Effective` `Decision` | `pointsForHits`, `eventPoints`, `effectivePoints`, `decideOutcome` |
| `Aliases` `Canonical` `Events` `FlagOf` `SaveWarnings` `SaveFlag` | the statements of `store.cjs` for a member with aliases |
| `Notice` `Remove` `Removed` `NotRemoved` | the network half of `enforceHits`, `kickGroupMember`, `performKick` |
| `ManualKick` `ClearWarnings` `Dismiss` `SetPolicy` | the commands and panel routes |
| `ParticipantsUpdate` `Leave` `Rejoin` | `handleGroupParticipantsUpdate`, WhatsApp |
| `Crash` | the process dies; rows stay, tasks and the anti-spam memory go |

`waived` observes what excuses a member over the limit who is neither flagged
nor being removed: his flag was dismissed, the policy changed, the process died
over his removal, or his two names turned out to be one, and nothing he wrote
was decided on since.  Four policies cover both modes, both actions at the
limit, the three kinds of decay, the three treatments of a flagged member and
an action of each strength.


## PasswordReset

`pending` is the code that can be redeemed; a call of `requestResetCode` that
awaits its send is an entry of `resets` and keeps the generations it began
with.  `record` is the sealed row of the recovery address; a verification is a
number the relay gives, `relay` says which are open, and a call that awaits the
relay's opinion of a guess is an entry of `guesses`.  The cooldowns and quotas
only refuse requests, and any request may be refused.  `period`, `removals`,
`newest` and `closed` observe.

| in the model | in the code |
|---|---|
| `RequestWhatsApp` `RequestEmail` `SendFails` `Unverified` `Sent` | `requestResetCode`, before and after its await |
| `DropCode` `WrongCode` `Redeem` `DayPasses` | `completeReset`, `lockedFor` |
| `StartVerification` `VerificationSent` `VerificationFails` | `startVerification` |
| `Guess` `GuessTooLate` `GuessAnswered` | `confirmVerification` |
| `RemoveAddress` `SetRecord` `NoteAddress` | `remove`, the setters of `secrets.cjs`, `noteRecoveryAddress` |
| `RelayAnswers` | the relay; its answer may be lost |
| `Restart` | the process starts again with nothing but the record |


## StickerQueue

A job holds a slot from `Drain` on until it is given back: by the end of its
promise or, when its worker was told to stop, by the end of the worker or of
the grace period.  The worker, the time limit and `cancelAll` race for the
outcome (`race`); the reactions to it (`Settle`, `Finally`) come some time after.

| in the model | in `jobs.cjs` |
|---|---|
| `Submit` `Drain` `CancelAll` | `submit`, `drain`, `cancelAll` |
| `WorkEnds` `TimeOut` `Decided` | the worker, the timer and `Promise.race` |
| `Settle` `Finally` `GraceOver` `ReleaseSlot` | the reactions, the grace timer, `releaseSlot` |


## BackupUploads

`uploads[i]` is the file of an upload with what the maps of `uploads.cjs` hold
for it: its pins, whether it is to be deleted with the last of them (`doomed`),
the wrong passwords counted.  `previews` and `restoreJob` are who has one open.
`wrong` counts for the observer: `attempts` is reset by a removal, `wrong`
never is.

| in the model | in the code |
|---|---|
| `Receive` `ReceiveRefused` `ReceiveEnds` `Swept` | `receiveUpload`, `sweepUploads` |
| `HourPasses` `Expire` | the TTL and its timer |
| `Preview` `PreviewEnds` | the preview route |
| `StartRestore` `RestoreOpens` `RestoreCloses` `RestoreEnds` | `jobs.startRestore`, `restoreUpload`, with a pin each |
| `Looked` `Pinned` `Released` `RemoveUpload` `Guessed` | `getUpload`, `pinUpload`, `removeUpload`, `wrongPassword` |
| `RestartUploads` | `startPanel`, which sweeps all uploads away |


## The run `services`

These four share no state with the rest and none with each other, and
interleaving them would only multiply their states: a behaviour of
`MCServices` is one of one of them, chosen at the start, while the others rest.

| component | instance | shows |
|---|---|---|
| Moderation | two messages (one of them perhaps spam as well), two enforcements at a time, four policies, three disturbances; deliveries are disturbances, replies are not | `AtLimitIsHandled` `CountsOnce` `PointsAreKept` |
| PasswordReset | two addresses, two sends, one verification, two guesses, limits of two, six calls | `NewerCodeWins` `EmailCodeDiesWithAddress` `RemoveIsFinal` `TokenIsNotLost` |
| StickerQueue | three jobs, two slots, a line of one | `NoSlotIsLost` |
| BackupUploads | three uploads, two places, two previews beside the restore, limit of two wrong passwords, four openings or restarts | `OpenFileStays` `WrongPasswordsClose` `DiskIsBounded` |

`ServicesTypeOK` is the shape of all four.  The two enforcements are
interchangeable, and symmetric.  Three disturbances are what the mutants of
moderation need, a delivery twice and something between; `Moderation` alone was
also run with four and with five (10.8 million states) and held.  Six calls are
two requests with a removal, a new verification and its guess between them;
limits of two are the least at which one wrong answer is not the last.  A
third job waits in line, a third upload meets a full disk.  A job that finds the
line full is refused before anything changes; three jobs never fill two slots
and the line, so in the run no submission is refused, and the theorem, for any
number of jobs, is what covers it.


## What is proved

TLAPS proves the following for every value of the constants.

*For any overlap of requests* (`WhatsAppSessionProofs`): types;
`ShutdownIsFinal`; `HeldBackIsWatched`; `NoSocketWithoutTerms`, from
`TermsInv`: an open under way without an acceptance is of an admitted socket or
will be discarded.

*For requests that overlap unless two of them take the session down, pairing
by QR code* (`WhatsAppSessionProofs` as well, of `SerialSpec`): `OneLiveSocket`
`RetryWaitsAlone` `SettledIsQuiet` `JobsFollowSocket` `NoLinkComesBack`
`NoInheritedData` `StartIsIdempotent` `UnlinkedIsCutOff`, and that the session
implements `SocketOwner`; without connectivity reports also
`CodeBelongsToSocket` and `StoppedStaysStopped`.  What takes the session down is
`stop`, its own stop after an unsafe activation, `reconnect`, `logout` and the
loss of the network (`Takedowns`); starts, shutdowns, the return of the network
and the acceptance of the Terms may come in the middle of any of them, and once
a shutdown was asked for everything may overlap everything.  A host that waits
for each answer keeps to it (`OneAtATimeIsSerial`).

The assumptions are needed.  TLC tried each pair of requests: every pair is safe
except two of `stop`, the session's own stop, `reconnect` and `logout`, and one
of those with the network lost and back before it ends;
`session_unlink`, `session_second_socket` (a pairing code, with one request) and
the first remark below are what happens then.  Nothing in the code keeps an
operator from clicking twice, so this bounds what the theorems promise and is
not a fact about the program.

The inductive invariant, `SessionInv`, says of each field what makes the next
step safe: the socket is the live one and its number the current generation,
unless a logout has disowned it and is waiting (`SocketInv`, `Disowned`); an
open in flight and a pending retry exclude each other and a socket
(`OpeningInv`, `TimerInv`); and at each place where a request waits, what it
may rely on when it goes on whatever else was asked for meanwhile
(`WaitsSafely`), that a start that goes on finds nobody taking down what it
opens (`StartsAlone`), and that after a shutdown nothing is left to go on to
(`ShutdownInv`), which is the part nobody could read off the properties.

*For all jobs, creators and routes* (`SchedulerProofs`): types;
`OneSendAtATime` `MediaKept` `StaleIsSilent` `ResentByHandOnly` `SentIsFinal`.
`DeliveryInv` ties the pieces together: `deliveriesInFlight` knows every
current delivery (`FlightNoted`); a one-off is waiting until its timer has
fired and never again after (`OneOffRows`, `AfterTimer`); what a timer begins
is the first delivery of its job and alone (`TimerFirst`); and while a current
delivery runs, the row is open and has its file (`StillToSend`).

*Whoever makes jobs, unless a command outlives the socket its message came in
on* (`PromptSpec`): `TasksFollowSocket` and `NeverForNewAccount`, from
`AccountInv`: what is armed or may be armed again was made since the last
unlink.  *Unless a command comes from the linked phone* (`ReplySpec`), and with
the reply route left in the chat if commands make jobs: `SentWasDelivered`, from
`SentInv`: every task and every delivery sends to the chat of its job.
`schedule_relink` and `schedule_edit` show that the assumptions are needed;
without jobs of chat commands all three hold of `Spec` (`NoCommandsIsSteady`).

*For all restores and folders, and any number of failures and deaths*
(`RestoreProofs`): `PersonaFollows`.  `PersonaInv` says who wrote the journal and
the marker (`PersonaDisk`), that nothing runs beside a recovery (`PersonaMem`), and that the
persona lags behind the settings only between its two steps, where the journal
names the restore, or where no job is left that could write over or remove that
journal (`Together`).

*For all restores and folders, any number of deaths and one failure at most*
(`RestoreProofs` as well): the types hold for any number of failures;
`AccountIsWhole`, `NothingIsLost`, `WaitingIsComplete`, and that every step of
`Restore` is a step of `AccountSwap` or none (`SwapsAtOnce`): `Commit` is its
restore, `ReplaceTables` its activation, `Discard` its discard, everything else
stutters.  The assumption is `OneFault`, at most one operation that fails; the
section on `Restore` says what happens with two, which TLC finds.

The inductive invariant of that part, `IInv`, is what recovery relies on.
While an activation can be undone, each folder is as it was, taken out, or
taken in (`Untouched` `TakenOut` `TakenIn`), as far as the list of moves, in the
journal or ahead of it in memory, has a move for it, the way out before the way
in (`Orderly`).  That is why `undoMoves`, which looks only at which folders
exist, tells what it has to put back, wherever the process died, and again if it
dies in the undo.  `Stopped` says what a step may leave behind when it throws;
`FaultOK` that an undo with something to undo, in a process that runs on, has
the one failure behind it; `FreshOK` that an id still to be used is nowhere on
the disk.  `WaitInv` adds, for what waits, which of the stage, `pending.next` and
`pending` has each part of it, by the step of the restore (`StagedOK` `PendingOK`
`WaitMem`).

*For all messages, offences and policies and any number of enforcements*
(`ModerationProofs`): types, `CountsOnce`, `PointsAreKept` and
`AtLimitIsHandled`.  The claim of a message is what the second rests on, that a
row is only ever rewritten with all that its aliases held the third.  The last
is inductive once the types are known, that a row is finite, and that a removal
that was decided is for a message (`LedgerOK`; a removal by hand is for none,
and when it fails flags nobody).  It needs three facts about sums, which are
sizes of finite sets here and so need no induction: nothing adds up to zero
(`TotalNone`), so that a cleared member is below every limit; a sum is a number;
and it does not grow when its terms do not (`TotalMonotone`), so that the
passing of time takes nobody over the limit without a decision.

*For any number of overlapping calls, any limits and addresses*
(`PasswordResetProofs`): types and `NewerCodeWins`, from `SendsAreNumbered`:
no two sends in flight have one number, and none that of a code that has been
pending.  `EmailCodeDiesWithAddress`, from `EmailsAreCurrent`:
a send that still owns the email generation began under the present address.
`RemoveIsFinal` and `TokenIsNotLost`, from `GuessesAreHeld`: unless
its verification was given up, a guess in flight is the only one at it, and it
is the one at hand, which holds other guesses back.

*For any number of jobs and slots* (`StickerQueueProofs`): types and
`NoSlotIsLost`, from `QueueInv`, which adds that the line has no job twice and
that who waits has had no slot.

*For any number of uploads, previews and places* (`BackupUploadsProofs`): types,
`OpenFileStays`, `WrongPasswordsClose` and `DiskIsBounded`, from `UploadInv`: the
pins are those of who has the file open, the counter of uploads being received
is their number, and an upload with too many wrong passwords keeps its count.

*Of the composition* (`ServicesProofs`): a behaviour of `MCServices` is one of
each of its four components (`ModerationAlone` `ResetAlone` `QueueAlone`
`UploadsAlone`), so `ServicesTypeOK` and every other property of that run hold
of it for all values of the constants.

Only model-checked: the liveness properties `RequestsReturn` `RetryHappens`
`PausedUntilOnline` `AcceptanceIsNoticed` `DueIsSettled` `JobsEnd`, as fairness
and ENABLED are beyond the prover.  Every other property of a passing run is a
theorem.  `SettledIsQuiet`, `RetryWaitsAlone`, `SentIsFinal` and the type
invariants of the session, the scheduler and the restore are proved and take no
run.


## Where code and documentation differ

The violation runs each show one; `PROJECT.json` quotes the lines.

- A pairing code request that fails leaves its socket live in a state from
  which `start()` makes a second one (`session_second_socket`).
- Losing the network for less time than its socket takes to end leaves an
  online session paused (`session_flap`).
- A reconnect during a logout leaves an unlinked session with a socket nothing
  points at (`session_unlink`).
- `!schedule` from the linked phone sends its message as an edit of the command
  and records it as sent (`schedule_edit`).
- A command that goes on after an unlink leaves a job the next account sends
  (`schedule_relink`).

The models contain these behaviours too, which no run is spent on: a
connectivity flap starts a session the operator had stopped (`Offline` pauses
every state, `Online` starts whatever is paused), so `StoppedStaysStopped`
holds only without such reports; an answer to a pairing code request made on a
replaced socket changes the new attempt; a paused session keeps the QR code of
its dead socket; a job armed by a command that outlived its socket holds the
dead socket until the next open; a scheduled message refused by the reply
router is recorded as sent; a data wipe that fails or is cut off leaves the data
to the next phone (session.js:103 says it "must not inherit" them); a socket that
is being created while the acceptance is voided is adopted (PRIVACY.md:567 lets
only "a connection already open" remain); of two messages decided before the first removal is
answered, the second leads to a removal that is refused, and flags a member who
is gone (README.md:104 says a group removes or flags); a crash between the claim of a message and the
removal it decided leaves a member over the limit alone until WhatsApp delivers
that message again or he writes another.


## What is not modelled

- The proxy, the wording of states and errors, fields that only describe.
- Rows with an invalid cron string or date; the limit of three jobs, which only
  the panel applies; two activations in one open; an AI turn that spans an
  unlink.
- An open that finds the activation unsafe is in `WhatsAppSession` and
  `Restore`, not in `Scheduler`.
- `Unlink` of `Scheduler` pauses the jobs in one step with the unlink; a data wipe
  that fails before it gets to `pauseAllSchedules` (session.js:85-88), or is cut
  off, leaves them armable for the next account, outside `NeverForNewAccount`.
- Removing a file succeeds in `BackupUploads`: an `rmSync` that throws ends the
  sweep or the request it is part of and leaves the file to a later sweep.
- Exports, which share the latch of `jobs.cjs`; a journal damaged from outside;
  a database that cannot be read (`marker()` then says nothing was committed).
- How the throttles of `one-time-code.cjs` and `login-throttle.cjs` count time;
  they only refuse.
- The detectors of moderation, and who is exempt from them; what a failed
  deletion of a message does (it is logged); the kept records of sticker jobs;
  free disk space.
- The instance lock: it is an SQLite transaction held open, and what it
  promises is what SQLite promises.  Auto-delete: a match and a deletion,
  without state.
- The components listed as `not_modelled` in `PROJECT.json`: their code is
  sequential (a parse, a query, a reply), presentation, text, or calls to
  libraries; little of what is left keeps state that two actors change.  They
  are most of the repository's lines, so the modules cover a small share of it.


## Plan

1. Tie `SocketOpens` of `Restore` to `OpensActivated` of `Scheduler`.
2. The throttle of `one-time-code.cjs`, whose release restores what an earlier
   caller saw.
3. Pure functions checked against their definitions: `planDelivery`,
   `classifyDisconnect` and the retry schedule, `scheduleAt` with its 2^31
   stages.
