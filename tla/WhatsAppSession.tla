-------------------------- MODULE WhatsAppSession --------------------------
(***************************************************************************)
(* The WhatsApp session of src/core/session.js: one object that owns the   *)
(* connection of a Levix process.  Node runs JavaScript one turn at a      *)
(* time, so an action is what a handler does between two awaits that wait  *)
(* for something outside the process (a socket being created, a socket     *)
(* closing, WhatsApp answering).  An await of a value that is already      *)
(* there resumes before anything else can run: see Drained.                *)
(*                                                                         *)
(* A socket is named by the generation number it was adopted under, a      *)
(* number the code never reuses.  0 is "none".                             *)
(***************************************************************************)
EXTENDS Naturals, FiniteSets

CONSTANTS
  Calls,      \* requests that may be suspended at the same time
  Methods,    \* ways to pair the operator uses: "qr", "pairing"
  Requests,   \* which requests reach this process
  RetryLen,   \* length of RETRY_SCHEDULE_MS
  Budget      \* bound: how often the environment disturbs the session

States == {"idle", "starting", "waiting_for_qr", "linking", "connected",
           "reconnecting", "paused", "disconnected", "retry_exhausted",
           "logged_out", "error", "consent_required"}

\* States in which a socket already exists or is on its way.
BUSY_STATES == {"starting", "waiting_for_qr", "linking", "connected",
                "reconnecting", "paused"}

AllMethods  == {"qr", "pairing"}
AllRequests == {"start", "stop", "reconnect", "logout", "shutdown", "network"}

\* What classifyDisconnect makes of a close.
Verdicts == {"loggedOut", "terminal", "restartRequired", "recoverable"}

ASSUME SessionAssumption ==
  /\ Methods \subseteq AllMethods
  /\ Requests \subseteq AllRequests
  /\ RetryLen \in Nat
  /\ Budget \in Nat

VARIABLES
  \* the fields of WhatsAppSession
  state, gen, socket, canWipe, attempt, timer, pairing, intent, qr, code,
  codeReq, wasActive, online, consentTimer, shuttingDown,
  opening,    \* #starting: no open, one creating a socket, one discarding it
  startedAt,  \* the generation that open began under
  call,       \* the suspended requests: where each one waits
  \* the sockets
  live,       \* adopted, listening, neither closed nor told to end
  paired,     \* the live ones that hold a finished link in memory
  jobs,       \* the socket the scheduled jobs were armed with
  \* outside the process memory
  linked,     \* the stored credentials are a finished link
  residue,    \* directory, memories, stickers... of a linked account
  accepted,   \* the Terms acceptance record is valid
  wiping,     \* #handleLoggedOut is between its two wipes
  \* observers
  parked,     \* the operator took the session down and has not restarted it
  unwiped,    \* the last wipe of the account's data failed or never ran
  admitted,   \* sockets up to this one the Terms no longer hold back
  budget

sockVars    == <<gen, socket, canWipe, live, paired, jobs>>
openVars    == <<opening, startedAt>>
codeVars    == <<qr, code, codeReq>>
retryVars   == <<attempt, timer>>
netVars     == <<online, wasActive>>
recordVars  == <<accepted, admitted>>
termVars    == <<recordVars, consentTimer>>
accountVars == <<linked, residue, wiping, unwiped>>

vars == <<state, pairing, intent, shuttingDown, call, parked, budget,
          sockVars, openVars, codeVars, retryVars, netVars, termVars,
          accountVars>>

Spend == budget > 0 /\ budget' = budget - 1
-----------------------------------------------------------------------------
(* Suspended requests.                                                     *)

Ops == {"none", "stop", "halt", "reconnect", "shutdown", "logout", "offline",
        "online", "terms"}
Pcs == {"free", "waitStart", "unlinking", "ending", "wiping", "starting"}

Free == [pc |-> "free", op |-> "none", sock |-> 0]

\* A request whose await has already resolved: it resumes before the event
\* loop takes another event.
Ready(c) ==
  \/ call[c].pc = "waitStart" /\ opening = "no"
  \/ call[c].pc = "ending" /\ call[c].sock = 0
  \/ call[c].pc \in {"wiping", "starting"}

Drained == ~ wiping /\ \A c \in Calls : ~ Ready(c)

\* An unlink that has wiped the credentials and not yet the account's data.
BetweenWipes == wiping \/ \E c \in Calls : call[c].pc = "wiping"

Suspend(c, pc, op, s) ==
  call' = [call EXCEPT ![c] = [pc |-> pc, op |-> op, sock |-> s]]
-----------------------------------------------------------------------------
(* What several handlers share.                                            *)

\* #transition: every state but consent_required stops the consent watch.
Enter(s) ==
  /\ state' = s
  /\ consentTimer' = (consentTimer /\ s = "consent_required")

ClearQr == qr' = 0 /\ code' = 0

\* Mutant: the listener of creds.update is left on.
BuryConnectionOnly(s) == live' = live \ {s} /\ UNCHANGED paired
Bury(s) == live' = live \ {s} /\ paired' = paired \ {s}

\* Mutant: the socket is forgotten, not ended.
ForgetSocket ==
  IF socket = 0
  THEN UNCHANGED sockVars
  ELSE gen' = gen + 1 /\ socket' = 0 /\ canWipe' = FALSE /\ jobs' = 0
       /\ UNCHANGED <<live, paired>>

\* Mutant: the scheduled jobs are left armed.
DestroySocketOnly ==
  IF socket = 0
  THEN UNCHANGED sockVars
  ELSE gen' = gen + 1 /\ socket' = 0 /\ canWipe' = FALSE /\ UNCHANGED jobs
       /\ Bury(socket)

\* #destroySocket up to its await.
DestroySocket ==
  IF socket = 0
  THEN UNCHANGED sockVars
  ELSE /\ gen' = gen + 1
       /\ socket' = 0
       /\ canWipe' = FALSE
       /\ jobs' = 0
       /\ Bury(socket)

\* Mutant: turned away without a trace.
HoldSilently ==
  ClearQr /\ pairing' = FALSE /\ UNCHANGED <<state, consentTimer>>

\* clearDirectory, of logout() and #handleLoggedOut: a failure is only logged,
\* whatever it leaves behind.
WipeData ==
  \/ residue' = FALSE /\ unwiped' = FALSE /\ UNCHANGED budget
  \/ Spend /\ unwiped' = residue /\ UNCHANGED residue

\* Mutant: nobody watches the record.
HoldUnwatched ==
  ClearQr /\ pairing' = FALSE /\ Enter("consent_required")

\* #consentAllows said no.
HoldForConsent ==
  /\ IF state = "consent_required"
     THEN UNCHANGED <<qr, code, pairing>>
     ELSE ClearQr /\ pairing' = FALSE
  /\ state' = "consent_required"
  /\ consentTimer' = (consentTimer \/ ~ shuttingDown)

\* Mutant: no Terms gate.
OpenUngated ==
  /\ ClearQr
  /\ Enter("starting")
  /\ opening' = "creating"
  /\ startedAt' = gen
  /\ UNCHANGED <<wasActive, pairing>>

\* #open up to the await of createSocket: the Terms gate, then the network.
Open ==
  \/ /\ ~ accepted
     /\ HoldForConsent
     /\ UNCHANGED <<openVars, wasActive>>
  \/ /\ accepted /\ ~ online
     /\ wasActive' = TRUE
     /\ Enter("paused")
     /\ UNCHANGED <<openVars, qr, code, pairing>>
  \/ /\ accepted /\ online
     /\ ClearQr
     /\ Enter("starting")
     /\ opening' = "creating"
     /\ startedAt' = gen
     /\ UNCHANGED <<wasActive, pairing>>

\* Mutant: start() does not look at the state.
CanBeginInAnyState == ~ shuttingDown /\ opening = "no"

CanBegin ==
  /\ ~ shuttingDown
  /\ ~ (state = "paused" /\ ~ online)
  /\ opening = "no"
  /\ state \notin BUSY_STATES \/ state = "paused"

\* start(): m is the method asked for, "none" when the caller named none.
Begin(m) ==
  IF CanBegin
  THEN /\ intent' = IF linked THEN "qr"
                    ELSE IF m # "none" THEN m
                    ELSE IF state = "consent_required" THEN intent ELSE "qr"
       /\ timer' = FALSE
       /\ attempt' = 0
       /\ Open
  ELSE UNCHANGED <<state, intent, pairing, qr, code, wasActive, consentTimer,
                   openVars, retryVars>>

Init ==
  /\ state = "idle" /\ gen = 0 /\ socket = 0 /\ canWipe = FALSE
  /\ attempt = 0 /\ timer = FALSE /\ pairing = FALSE /\ intent = "qr"
  /\ qr = 0 /\ code = 0 /\ codeReq = 0
  /\ wasActive = FALSE /\ online = TRUE
  /\ consentTimer = FALSE /\ shuttingDown = FALSE
  /\ opening = "no" /\ startedAt = 0
  /\ call = [c \in Calls |-> Free]
  /\ live = {} /\ paired = {} /\ jobs = 0
  /\ linked \in BOOLEAN /\ residue = linked
  /\ wiping = FALSE /\ unwiped = FALSE
  /\ accepted \in BOOLEAN /\ admitted = 0
  /\ parked = FALSE /\ budget = Budget
-----------------------------------------------------------------------------
(* Requests of the operator and of the host.                               *)

Start(m) ==
  /\ "start" \in Requests /\ Drained /\ Spend
  /\ Begin(m)
  /\ parked' = (parked /\ ~ CanBegin)
  /\ UNCHANGED <<shuttingDown, call, sockVars, codeReq, online, recordVars,
                 accountVars>>

\* stop(), reconnect(), shutdown() up to the await of an open in flight.
Teardown(c, op) ==
  /\ op \in Requests \cap {"stop", "reconnect", "shutdown"}
  /\ Drained /\ call[c] = Free /\ Spend
  /\ op = "reconnect" => ~ shuttingDown
  /\ shuttingDown' = (shuttingDown \/ op = "shutdown")
  /\ timer' = FALSE
  /\ consentTimer' = FALSE
  /\ attempt' = IF op = "shutdown" THEN attempt ELSE 0
  /\ parked' = (parked /\ op # "reconnect")
  /\ Suspend(c, "waitStart", op, 0)
  /\ UNCHANGED <<state, pairing, intent, sockVars, openVars, codeVars, netVars,
                 recordVars, accountVars>>

\* logout() up to the await of an open in flight.  The route answers 409
\* once there is nothing left to unlink.
Logout(c) ==
  /\ "logout" \in Requests /\ Drained /\ call[c] = Free /\ Spend
  /\ state # "logged_out" /\ ~ shuttingDown
  /\ timer' = FALSE
  /\ consentTimer' = FALSE
  /\ Suspend(c, "waitStart", "logout", 0)
  /\ UNCHANGED <<state, pairing, intent, shuttingDown, parked, sockVars,
                 openVars, codeVars, attempt, netVars, recordVars, accountVars>>

\* Mutant: the pending retry survives.
OfflineKeepsRetry(c) ==
  /\ "network" \in Requests /\ Drained /\ call[c] = Free /\ Spend
  /\ online
  /\ online' = FALSE
  /\ wasActive' = (state \in BUSY_STATES)
  /\ DestroySocket
  /\ Suspend(c, "ending", "offline", socket)
  /\ UNCHANGED <<state, pairing, intent, shuttingDown, parked, openVars,
                 codeVars, retryVars, termVars, accountVars>>

\* setInternetOnline(false) up to the await of the socket's end.
Offline(c) ==
  /\ "network" \in Requests /\ Drained /\ call[c] = Free /\ Spend
  /\ online
  /\ online' = FALSE
  /\ wasActive' = (state \in BUSY_STATES)
  /\ timer' = FALSE
  /\ DestroySocket
  /\ Suspend(c, "ending", "offline", socket)
  /\ UNCHANGED <<state, pairing, intent, shuttingDown, parked, openVars,
                 codeVars, attempt, termVars, accountVars>>

\* Mutant: only a session that was active is restored.
OnlineRestoresActive(c) ==
  /\ "network" \in Requests /\ Drained /\ call[c] = Free /\ Spend
  /\ ~ online
  /\ online' = TRUE
  /\ IF wasActive
     THEN /\ wasActive' = FALSE
          /\ attempt' = 0
          /\ timer' = FALSE
          /\ Suspend(c, "starting", "online", 0)
     ELSE UNCHANGED <<wasActive, retryVars, call>>
  /\ UNCHANGED <<state, pairing, intent, shuttingDown, parked, sockVars,
                 openVars, codeVars, termVars, accountVars>>

\* setInternetOnline(true) up to its call of start().
Online(c) ==
  /\ "network" \in Requests /\ Drained /\ call[c] = Free /\ Spend
  /\ ~ online
  /\ online' = TRUE
  /\ IF wasActive \/ state = "paused"
     THEN /\ wasActive' = FALSE
          /\ attempt' = 0
          /\ timer' = FALSE
          /\ Suspend(c, "starting", "online", 0)
     ELSE UNCHANGED <<wasActive, retryVars, call>>
  /\ UNCHANGED <<state, pairing, intent, shuttingDown, parked, sockVars,
                 openVars, codeVars, termVars, accountVars>>

\* Mutant: no await of the open in flight.
ProceedAtOnce(c) ==
  /\ call[c].pc = "waitStart"
  /\ timer' = FALSE
  /\ IF call[c].op = "logout"
     THEN /\ gen' = gen + 1
          /\ Suspend(c, IF socket = 0 THEN "ending" ELSE "unlinking", "logout",
                     socket)
          /\ UNCHANGED <<socket, canWipe, live, paired, jobs>>
     ELSE /\ DestroySocket
          /\ Suspend(c, "ending", call[c].op, socket)
  /\ attempt' = IF call[c].op = "shutdown" THEN attempt ELSE 0
  /\ UNCHANGED <<state, pairing, intent, shuttingDown, parked, budget,
                 openVars, codeVars, netVars, termVars, accountVars>>

\* The rest of stop(), reconnect(), shutdown() and logout() after the await
\* of the open in flight, up to the await of the socket's end.
Proceed(c) ==
  /\ call[c].pc = "waitStart" /\ opening = "no"
  /\ timer' = FALSE
  /\ IF call[c].op = "logout"
     THEN /\ gen' = gen + 1
          /\ Suspend(c, IF socket = 0 THEN "ending" ELSE "unlinking", "logout",
                     socket)
          /\ UNCHANGED <<socket, canWipe, live, paired, jobs>>
     ELSE /\ DestroySocket
          /\ Suspend(c, "ending", call[c].op, socket)
  /\ attempt' = IF call[c].op = "shutdown" THEN attempt ELSE 0
  /\ UNCHANGED <<state, pairing, intent, shuttingDown, parked, budget,
                 openVars, codeVars, netVars, termVars, accountVars>>

\* Mutant: the credentials are wiped with the listeners still on.
UnlinkAttached(c) ==
  /\ Drained /\ call[c].pc = "unlinking"
  /\ Suspend(c, "ending", "logout", call[c].sock)
  /\ UNCHANGED <<state, pairing, intent, shuttingDown, parked, budget,
                 sockVars, openVars, codeVars, retryVars, netVars, termVars,
                 accountVars>>

\* Mutant: no time limit on sock.logout(), which a dead socket never answers.
UnlinkUnbounded(c) ==
  /\ Drained /\ call[c].pc = "unlinking" /\ call[c].sock \in live
  /\ Bury(call[c].sock)
  /\ Suspend(c, "ending", "logout", call[c].sock)
  /\ UNCHANGED <<state, pairing, intent, shuttingDown, parked, budget, gen,
                 socket, canWipe, jobs, openVars, codeVars, retryVars, netVars,
                 termVars, accountVars>>

\* logout(): sock.logout() answered, failed or timed out; the listeners go
\* and the socket is told to end.
UnlinkSent(c) ==
  /\ Drained /\ call[c].pc = "unlinking"
  /\ Bury(call[c].sock)
  /\ Suspend(c, "ending", "logout", call[c].sock)
  /\ UNCHANGED <<state, pairing, intent, shuttingDown, parked, budget, gen,
                 socket, canWipe, jobs, openVars, codeVars, retryVars, netVars,
                 termVars, accountVars>>

Ended(c, op) ==
  /\ call[c].pc = "ending" /\ call[c].op = op
  /\ call[c].sock = 0 \/ Drained

\* stop(), reconnect() and shutdown() once the socket has ended.  "halt" is
\* the stop() of an unsafe account activation.
FinishTeardown(c) ==
  /\ \E op \in {"stop", "halt", "reconnect", "shutdown"} :
       /\ Ended(c, op)
       /\ ClearQr
       /\ pairing' = (pairing /\ op = "shutdown")
       /\ Enter(IF op = "halt" THEN "error" ELSE "idle")
       /\ parked' = (parked \/ op = "stop")
       /\ IF op = "reconnect"
          THEN Suspend(c, "starting", op, 0)
          ELSE call' = [call EXCEPT ![c] = Free]
  /\ UNCHANGED <<intent, shuttingDown, budget, sockVars, openVars, codeReq,
                 retryVars, netVars, recordVars, accountVars>>

\* setInternetOnline(false) once the socket has ended.
FinishOffline(c) ==
  /\ Ended(c, "offline")
  /\ Enter("paused")
  /\ call' = [call EXCEPT ![c] = Free]
  /\ UNCHANGED <<pairing, intent, shuttingDown, parked, budget, sockVars,
                 openVars, codeVars, retryVars, netVars, recordVars,
                 accountVars>>

\* logout() once the socket has ended: the credentials go first, and a failure
\* to clear them is only logged.
WipeCredentials(c) ==
  /\ Ended(c, "logout")
  /\ \/ linked' = FALSE /\ UNCHANGED budget
     \/ Spend /\ UNCHANGED linked
  /\ Suspend(c, "wiping", "logout", 0)
  /\ UNCHANGED <<state, pairing, intent, shuttingDown, parked, sockVars,
                 openVars, codeVars, retryVars, netVars, termVars, residue,
                 wiping, unwiped>>

\* logout() after the await of the credential wipe: the account's data.
FinishLogout(c) ==
  /\ call[c].pc = "wiping"
  /\ socket' = 0
  /\ canWipe' = FALSE
  /\ jobs' = 0
  /\ pairing' = FALSE
  /\ ClearQr
  /\ WipeData
  /\ Enter("logged_out")
  /\ parked' = TRUE
  /\ call' = [call EXCEPT ![c] = Free]
  /\ UNCHANGED <<intent, shuttingDown, gen, live, paired, openVars, codeReq,
                 retryVars, netVars, recordVars, linked, wiping>>

\* The start() that reconnect(), setInternetOnline(true) and
\* recheckConsent() end with.
StartAgain(c) ==
  /\ call[c].pc = "starting"
  /\ Begin(IF call[c].op = "terms" THEN intent ELSE "none")
  /\ call' = [call EXCEPT ![c] = Free]
  /\ UNCHANGED <<shuttingDown, parked, budget, sockVars, codeReq, online,
                 recordVars, accountVars>>
-----------------------------------------------------------------------------
(* #open after createSocket.                                               *)

\* Mutant: shutdown() is not looked at.
OvertakenByTeardown == gen # startedAt

Overtaken == shuttingDown \/ gen # startedAt

Adopt ==
  /\ Drained /\ opening = "creating" /\ ~ Overtaken
  /\ gen' = gen + 1
  /\ socket' = gen + 1
  /\ live' = live \cup {gen + 1}
  /\ paired' = IF linked THEN paired \cup {gen + 1} ELSE paired
  /\ canWipe' = TRUE
  /\ pairing' = ~ linked
  /\ Enter(IF linked THEN "starting" ELSE "waiting_for_qr")
  /\ opening' = "no"
  /\ UNCHANGED <<intent, shuttingDown, call, parked, budget, jobs, startedAt,
                 codeVars, retryVars, netVars, recordVars, accountVars>>

\* The new socket belongs to nobody: it is ended, never adopted.
Discard ==
  /\ Drained /\ opening = "creating" /\ Overtaken
  /\ opening' = "discarding"
  /\ UNCHANGED <<state, pairing, intent, shuttingDown, call, parked, budget,
                 sockVars, startedAt, codeVars, retryVars, netVars, termVars,
                 accountVars>>

Discarded ==
  /\ Drained /\ opening = "discarding"
  /\ opening' = "no"
  /\ UNCHANGED <<state, pairing, intent, shuttingDown, call, parked, budget,
                 sockVars, startedAt, codeVars, retryVars, netVars, termVars,
                 accountVars>>

\* createSocket threw, or the proxy settings were unusable.
CreateFails ==
  /\ Drained /\ opening = "creating"
  /\ opening' = "no"
  /\ Enter("error")
  /\ UNCHANGED <<pairing, intent, shuttingDown, call, parked, budget, sockVars,
                 startedAt, codeVars, retryVars, netVars, recordVars,
                 accountVars>>
-----------------------------------------------------------------------------
(* Events of a socket.  One that is not of the current generation is       *)
(* dropped.                                                                *)

Current(s) == s = gen

\* #onQr.  In pairing-code mode the code is requested instead.
QrEvent(s) ==
  /\ Drained /\ s \in live \ paired /\ Current(s)
  /\ IF pairing /\ intent = "pairing"
     THEN /\ code = 0 /\ codeReq = 0 /\ codeReq' = socket
          /\ UNCHANGED <<state, consentTimer, qr>>
     ELSE /\ qr' = s
          /\ Enter("waiting_for_qr")
          /\ UNCHANGED codeReq
  /\ UNCHANGED <<pairing, intent, shuttingDown, call, parked, budget, sockVars,
                 openVars, code, retryVars, netVars, recordVars, accountVars>>

\* #requestPairingCode after its awaits.  A socket that has ended cannot
\* answer.
CodeResult(ok) ==
  /\ Drained /\ codeReq # 0
  /\ ok => codeReq \in live
  /\ codeReq' = 0
  /\ IF pairing /\ ~ shuttingDown
     THEN /\ code' = IF ok THEN codeReq ELSE code
          /\ Enter(IF ok THEN "waiting_for_qr" ELSE "error")
     ELSE UNCHANGED <<code, state, consentTimer>>
  /\ UNCHANGED <<pairing, intent, shuttingDown, call, parked, budget, sockVars,
                 openVars, qr, retryVars, netVars, recordVars, accountVars>>

\* The phone scanned: creds.update stores the link, isNewLogin moves on.
NewLogin(s) ==
  /\ Drained /\ s \in live \ paired
  /\ linked' = TRUE
  /\ paired' = paired \cup {s}
  /\ IF Current(s)
     THEN pairing' = FALSE /\ ClearQr /\ Enter("linking")
     ELSE UNCHANGED <<pairing, qr, code, state, consentTimer>>
  /\ UNCHANGED <<intent, shuttingDown, call, parked, budget, gen, socket,
                 canWipe, live, jobs, openVars, codeReq, retryVars, netVars,
                 recordVars, residue, wiping, unwiped>>

\* saveCreds: a socket writes the credentials it holds in memory.
CredsUpdate(s) ==
  /\ Drained /\ s \in paired
  /\ linked' = TRUE
  /\ UNCHANGED <<state, pairing, intent, shuttingDown, call, parked, budget,
                 sockVars, openVars, codeVars, retryVars, netVars, termVars,
                 residue, wiping, unwiped>>

\* #onOpen, with the post-connect setup that arms the scheduled jobs.
OpenEvent(s) ==
  /\ Drained /\ s \in paired /\ Current(s) /\ state # "connected"
  /\ attempt' = 0
  /\ pairing' = FALSE
  /\ ClearQr
  /\ Enter("connected")
  /\ jobs' = socket
  /\ residue' = TRUE
  /\ UNCHANGED <<intent, shuttingDown, call, parked, budget, gen, socket,
                 canWipe, live, paired, openVars, codeReq, timer, netVars,
                 recordVars, linked, wiping, unwiped>>

\* #onOpen when the account activation could not be rolled back: stop().
OpenUnsafe(s, c) ==
  /\ Drained /\ s \in paired /\ Current(s) /\ state # "connected"
  /\ call[c] = Free /\ Spend
  /\ attempt' = 0
  /\ timer' = FALSE
  /\ pairing' = FALSE
  /\ ClearQr
  /\ Enter("connected")
  /\ Suspend(c, "waitStart", "halt", 0)
  /\ UNCHANGED <<intent, shuttingDown, parked, sockVars, openVars, codeReq,
                 netVars, recordVars, accountVars>>
-----------------------------------------------------------------------------
(* #onClose.                                                               *)

\* #handleLoggedOut up to the await of the credential wipe, which may fail.
HandleLoggedOut ==
  /\ \/ canWipe /\ linked' = FALSE
     \/ UNCHANGED linked
  /\ canWipe' = FALSE
  /\ wiping' = TRUE
  /\ UNCHANGED <<state, consentTimer, retryVars, pairing, qr, code, wasActive,
                 residue, unwiped>>

\* Mutant: the QR code stays on offer.
GiveUpShowingQr ==
  /\ pairing' = FALSE
  /\ Enter("disconnected")
  /\ UNCHANGED <<qr, code, canWipe, accountVars, retryVars, wasActive>>

\* A close nobody retries: refused by WhatsApp, or a pairing never scanned.
GiveUp ==
  /\ pairing' = FALSE
  /\ ClearQr
  /\ Enter("disconnected")
  /\ UNCHANGED <<canWipe, accountVars, retryVars, wasActive>>

\* #scheduleRetry.
ScheduleRetry ==
  /\ IF attempt >= RetryLen
     THEN /\ ClearQr
          /\ Enter("retry_exhausted")
          /\ timer' = FALSE
          /\ UNCHANGED attempt
     ELSE /\ attempt' = attempt + 1
          /\ Enter("reconnecting")
          /\ timer' = TRUE
          /\ UNCHANGED <<qr, code>>
  /\ UNCHANGED <<canWipe, accountVars, pairing, wasActive>>

PauseOffline ==
  /\ wasActive' = TRUE
  /\ timer' = FALSE
  /\ Enter("paused")
  /\ UNCHANGED <<canWipe, accountVars, attempt, pairing, qr, code>>

OnClose(v) ==
  IF shuttingDown
  THEN UNCHANGED <<state, consentTimer, canWipe, accountVars, retryVars,
                   pairing,
                   qr, code, wasActive>>
  ELSE IF ~ online THEN PauseOffline
  ELSE IF v = "loggedOut" THEN HandleLoggedOut
  ELSE IF v = "terminal" \/ (pairing /\ v # "restartRequired") THEN GiveUp
  ELSE ScheduleRetry

CloseEvent(s, v) ==
  /\ Drained /\ s \in live /\ Spend
  /\ Bury(s)
  /\ IF Current(s)
     THEN /\ socket' = 0
          /\ gen' = gen + 1
          /\ jobs' = 0
          /\ OnClose(v)
     ELSE UNCHANGED <<socket, gen, jobs, state, consentTimer, canWipe,
                      accountVars, retryVars, pairing, qr, code, wasActive>>
  /\ UNCHANGED <<intent, shuttingDown, call, parked, openVars, codeReq, online,
                 recordVars>>

\* Mutant: the account's data outlives the link.
ForgetLinkOnly ==
  /\ wiping
  /\ wiping' = FALSE
  /\ pairing' = FALSE
  /\ ClearQr
  /\ timer' = FALSE
  /\ attempt' = 0
  /\ jobs' = 0
  /\ Enter("logged_out")
  /\ UNCHANGED <<intent, shuttingDown, call, parked, budget, gen, socket,
                 canWipe, live, paired, openVars, codeReq, netVars, recordVars,
                 linked, residue, unwiped>>

\* #handleLoggedOut after the await of the credential wipe.
ForgetAccount ==
  /\ wiping
  /\ wiping' = FALSE
  /\ pairing' = FALSE
  /\ ClearQr
  /\ timer' = FALSE
  /\ attempt' = 0
  /\ jobs' = 0
  /\ WipeData
  /\ Enter("logged_out")
  /\ UNCHANGED <<intent, shuttingDown, call, parked, gen, socket, canWipe, live,
                 paired, openVars, codeReq, netVars, recordVars, linked>>
-----------------------------------------------------------------------------
(* Timers, the Terms record, the process.                                  *)

\* The retry timer fires.
RetryTimer ==
  /\ Drained /\ timer
  /\ timer' = FALSE
  /\ IF shuttingDown \/ opening # "no"
     THEN UNCHANGED <<state, pairing, qr, code, wasActive, consentTimer,
                      openVars>>
     ELSE Open
  /\ UNCHANGED <<intent, shuttingDown, call, parked, budget, sockVars, codeReq,
                 attempt, online, recordVars, accountVars>>

\* recheckConsent() with a valid acceptance.  A session that waits for the
\* Terms has no open in flight, so its start() is never turned away.
Recheck ==
  /\ state = "consent_required" /\ ~ shuttingDown
  /\ Begin(intent)

\* Mutant: the watch looks once.
ConsentTickOnce ==
  /\ Drained /\ consentTimer
  /\ \/ /\ ~ accepted \/ state # "consent_required" \/ shuttingDown
        /\ consentTimer' = FALSE
        /\ UNCHANGED <<state, intent, pairing, qr, code, wasActive, openVars,
                       retryVars>>
     \/ accepted /\ Recheck
  /\ UNCHANGED <<shuttingDown, call, parked, budget, sockVars, codeReq, online,
                 recordVars, accountVars>>

\* The consent watch ticks: it stops once it is not needed, and goes on
\* with the start that was held back once the record is valid.
ConsentTick ==
  /\ Drained /\ consentTimer
  /\ \/ /\ state # "consent_required" \/ shuttingDown
        /\ consentTimer' = FALSE
        /\ UNCHANGED <<state, intent, pairing, qr, code, wasActive, openVars,
                       retryVars>>
     \/ accepted /\ Recheck
  /\ UNCHANGED <<shuttingDown, call, parked, budget, sockVars, codeReq, online,
                 recordVars, accountVars>>

\* The panel records the acceptance and calls recheckConsent().
AcceptTerms(c) ==
  /\ Drained /\ ~ accepted /\ call[c] = Free /\ Spend
  /\ accepted' = TRUE
  /\ IF state = "consent_required" /\ ~ shuttingDown
     THEN consentTimer' = FALSE /\ Suspend(c, "starting", "terms", 0)
     ELSE UNCHANGED <<consentTimer, call>>
  /\ UNCHANGED <<state, pairing, intent, shuttingDown, parked, sockVars,
                 openVars, codeVars, retryVars, netVars, admitted,
                 accountVars>>

\* Another process changes the record: `levix terms` accepts, newer Terms or
\* an unreadable record void it.  The Terms then hold back neither the socket
\* there is nor the one on its way, unless that one is to be discarded.
RecordChanges ==
  /\ Drained /\ Spend
  /\ accepted' = ~ accepted
  /\ admitted' = IF ~ accepted THEN admitted
                 ELSE IF opening = "creating" /\ ~ Overtaken THEN gen + 1
                 ELSE gen
  /\ UNCHANGED <<state, pairing, intent, shuttingDown, call, parked, sockVars,
                 openVars, codeVars, retryVars, netVars, consentTimer,
                 accountVars>>

\* The process dies, or exits after shutdown(), and boots again: only the
\* credentials, the account's data and the Terms record survive.  Between the
\* two wipes of an unlink that leaves the second undone.  gen goes on only
\* because it names the sockets.
Restart ==
  /\ Spend
  /\ state' = "idle" /\ socket' = 0 /\ canWipe' = FALSE
  /\ attempt' = 0 /\ timer' = FALSE /\ pairing' = FALSE /\ intent' = "qr"
  /\ qr' = 0 /\ code' = 0 /\ codeReq' = 0
  /\ wasActive' = FALSE /\ online' = TRUE
  /\ consentTimer' = FALSE /\ shuttingDown' = FALSE
  /\ opening' = "no" /\ startedAt' = 0
  /\ call' = [c \in Calls |-> Free]
  /\ live' = {} /\ paired' = {} /\ jobs' = 0
  /\ parked' = FALSE
  /\ wiping' = FALSE /\ unwiped' = (unwiped \/ BetweenWipes)
  /\ UNCHANGED <<gen, linked, residue, recordVars>>
-----------------------------------------------------------------------------
AskedFor(c) ==
  \/ \E op \in Ops : Teardown(c, op)
  \/ Logout(c)
  \/ Offline(c)
  \/ Online(c)
  \/ AcceptTerms(c)

Resume(c) ==
  \/ Proceed(c)
  \/ UnlinkSent(c)
  \/ FinishTeardown(c)
  \/ FinishOffline(c)
  \/ WipeCredentials(c)
  \/ FinishLogout(c)
  \/ StartAgain(c)

SocketEvent(s) ==
  \/ QrEvent(s)
  \/ NewLogin(s)
  \/ CredsUpdate(s)
  \/ OpenEvent(s)
  \/ \E c \in Calls : OpenUnsafe(s, c)
  \/ \E v \in Verdicts : CloseEvent(s, v)

Created == Adopt \/ Discard \/ CreateFails

Next ==
  \/ \E m \in Methods \cup {"none"} : Start(m)
  \/ \E c \in Calls : AskedFor(c) \/ Resume(c)
  \/ Created
  \/ Discarded
  \/ \E s \in live : SocketEvent(s)
  \/ ForgetAccount
  \/ \E ok \in BOOLEAN : CodeResult(ok)
  \/ RetryTimer
  \/ ConsentTick
  \/ RecordChanges
  \/ Restart

Spec == Init /\ [][Next]_vars

\* Every await below is bounded by the code (withTimeout, a timer, an
\* interval) or by createSocket, which only reads the database.
Fairness ==
  /\ \A c \in Calls : WF_vars(Resume(c))
  /\ WF_vars(Created)
  /\ WF_vars(Discarded)
  /\ WF_vars(ForgetAccount)
  /\ WF_vars(\E ok \in BOOLEAN : CodeResult(ok))
  /\ WF_vars(RetryTimer)
  /\ WF_vars(ConsentTick)

FairSpec == Spec /\ Fairness
-----------------------------------------------------------------------------
\* What the session promises about its connection.
Owner == INSTANCE SocketOwner WITH owner <- live, last <- gen

ControlType ==
  /\ state \in States /\ intent \in AllMethods
  /\ opening \in {"no", "creating", "discarding"}

NumberType ==
  /\ gen \in Nat /\ socket \in Nat /\ startedAt \in Nat /\ jobs \in Nat
  /\ attempt \in Nat /\ qr \in Nat /\ code \in Nat /\ codeReq \in Nat
  /\ admitted \in Nat /\ budget \in Nat

FlagType ==
  /\ canWipe \in BOOLEAN /\ timer \in BOOLEAN /\ pairing \in BOOLEAN
  /\ wasActive \in BOOLEAN /\ online \in BOOLEAN
  /\ consentTimer \in BOOLEAN /\ shuttingDown \in BOOLEAN
  /\ linked \in BOOLEAN /\ residue \in BOOLEAN
  /\ accepted \in BOOLEAN /\ parked \in BOOLEAN
  /\ wiping \in BOOLEAN /\ unwiped \in BOOLEAN

CallType ==
  /\ call \in [Calls -> [pc : Pcs, op : Ops, sock : Nat]]
  /\ live \subseteq Nat /\ paired \subseteq live

\* Every variable has its type.
TypeOK == ControlType /\ NumberType /\ FlagType /\ CallType

\* There is never a connection besides the one the session points at: no
\* interleaving of starts, retries, closes and teardowns leaves a socket
\* running that nothing will ever end (#open, #destroySocket).
OneLiveSocket == live \subseteq {socket}

\* A pending retry is the only thing going on: no socket is alive, none is
\* being made, and the state says so (#scheduleRetry, "Never two timers").
RetryWaitsAlone ==
  timer => state = "reconnecting" /\ live = {} /\ opening # "creating"

\* Where the session says nothing is running, nothing is: no live socket, no
\* retry and no socket on its way.
SettledIsQuiet ==
  state \in {"idle", "disconnected", "retry_exhausted", "logged_out",
             "consent_required"}
    => live = {} /\ ~ timer /\ opening # "creating"

\* An unlinked session has no connection still running: the reason logout()
\* waits for an open in flight.
UnlinkedIsCutOff == state = "logged_out" => live = {}

\* The scheduled jobs are armed with the live socket, or not at all: they live
\* "exactly as long as the socket they send through" (#stopJobs).  While an
\* unlink is under way they may still hold the socket it has just ended.
Unlinking == \E c \in Calls : call[c].op = "logout"
JobsFollowSocket == jobs # 0 => jobs = socket /\ (jobs \in live \/ Unlinking)

\* A socket that could still write the credentials it has in memory only does
\* so while they are stored: no late creds.update brings back a link that was
\* wiped (logout, #handleLoggedOut).
NoLinkComesBack == paired # {} => linked

\* Once the link is gone so is everything learnt under it, whichever path
\* removed it, unless the wipe of the data is still to come, failed, or was cut
\* off by the end of the process: nothing makes up for it after that
\* (clearDirectory in logout and #handleLoggedOut).
NoInheritedData == residue /\ ~ linked => BetweenWipes \/ unwiped

\* No request being under way, a code on offer is one of the live socket.  One
\* may linger while a retry is pending: WhatsApp asked for a restart before the
\* scan, and the next attempt drops it.
CodeBelongsToSocket ==
  ~ wiping /\ (\A c \in Calls : call[c].pc = "free")
    => {qr, code} \subseteq live \cup {0} \/ state = "reconnecting"

\* A session held back by the Terms is watching the acceptance record, unless
\* it is being taken down or restarted already (#watchConsent).
HeldBackIsWatched ==
  state = "consent_required" /\ ~ shuttingDown
    => consentTimer \/ \E c \in Calls : call[c].pc # "free"

\* Without a valid acceptance of the Terms no socket runs but those that were
\* running, or on their way, when it was last voided: "A connection already open
\* remains open until it disconnects" (PRIVACY.md), and no retry, reconnect,
\* return of the network or overlap of them opens the next.
NoSocketWithoutTerms == ~ accepted => \A s \in live : s <= admitted

\* The sockets of the session are the one connection of SocketOwner, numbered
\* by the generation: a socket is adopted under a fresh number while there is
\* no other, and is disowned by a newer number before it is told to end.
OwnsOneConnection == Owner!Spec

-----------------------------------------------------------------------------
(* The inductive invariant behind the properties above, for pairing by QR    *)
(* code and requests that do not take the socket down twice at once.         *)

OneAtATime == \A c, d \in Calls : c = d
QrPairing  == Methods \subseteq {"qr"}

\* The requests that take the socket down and end in a state of their own.
Takedowns == {"stop", "halt", "reconnect", "logout", "offline"}

\* No two of them overlap.  A shutdown, the return of the network and the
\* acceptance of the Terms may overlap any request, and once a shutdown has been
\* asked for everything may overlap everything.
SerialTakedowns ==
  \A c, d \in Calls :
    {call[c].op, call[d].op} \subseteq Takedowns => c = d \/ shuttingDown

\* The session under an operator and a host that keep to it.
SerialSpec == Init /\ [][Next /\ SerialTakedowns']_vars

\* States in which start() creates nothing.
Holding == BUSY_STATES \ {"paused"}

Dismantling(c) == call[c].pc \in {"waitStart", "unlinking", "ending", "wiping"}

\* No pairing code is ever asked for.
QrInv == intent = "qr" /\ code = 0 /\ codeReq = 0

\* The socket is live and current, unless a logout has disowned it.
SocketInv ==
  /\ live \subseteq {socket} /\ 0 \notin live
  /\ socket <= gen
  /\ socket # 0 =>
       /\ opening = "no"
       /\ state \in Holding
       /\ \/ socket = gen /\ socket \in live
          \/ \E c \in Calls : /\ call[c].op = "logout"
                              /\ call[c].pc \in {"unlinking", "ending",
                                                "wiping"}

\* An open in flight shows in the state, and is only overtaken by shutdown().
OpeningInv ==
  /\ opening = "creating" => state \in {"starting", "paused"}
  /\ opening # "no" => ~ timer

\* A retry waits in a state of its own.
TimerInv == timer => state = "reconnecting" /\ socket = 0

\* The socket a request has disowned is the session's still, unless shutdown()
\* has come in between and destroyed it.
Disowned(s) ==
  \/ s = socket /\ (socket # 0 => socket < gen)
  \/ shuttingDown /\ socket = 0

\* What is known where a request waits.
WaitsSafely(c) ==
  /\ call[c].pc # "free" => ~ timer /\ call[c].op # "none"
  /\ call[c].pc = "unlinking" =>
       /\ call[c].op = "logout" /\ opening = "no"
       /\ call[c].sock # 0 /\ Disowned(call[c].sock)
  /\ call[c].pc = "ending" =>
       /\ live = {}
       /\ call[c].sock # 0 => state \in Holding \/ shuttingDown
       /\ IF call[c].op = "logout" THEN Disowned(call[c].sock)
          ELSE socket = 0
       /\ opening # "no" => call[c].op = "offline" /\ call[c].sock = 0
  /\ call[c].pc = "wiping" =>
       /\ call[c].op = "logout" /\ opening = "no"
       /\ live = {} /\ Disowned(socket)
  /\ call[c].pc = "starting" => call[c].op \in {"reconnect", "online", "terms"}
  /\ call[c].op \in {"online", "terms"} => call[c].pc = "starting"
  /\ call[c].op = "offline" => call[c].pc = "ending"
  /\ call[c].op = "shutdown" => shuttingDown

CallInv == \A c \in Calls : WaitsSafely(c)

\* A request about to call start() is the only one that can go on, unless the
\* process shuts down.
StartsAlone ==
  \A c, d \in Calls :
    call[c].pc = "starting" /\ Ready(d) => c = d \/ shuttingDown

\* shutdown() leaves no socket behind: the one there is, it is about to destroy.
ShutdownInv ==
  shuttingDown /\ socket # 0 =>
    \E c \in Calls : call[c].pc = "waitStart" /\ call[c].op = "shutdown"

\* What a live or disowned socket leaves behind.
LinkInv ==
  /\ JobsFollowSocket
  /\ NoLinkComesBack
  /\ NoInheritedData

\* Nothing else goes on between the two wipes of #handleLoggedOut.
WipingInv ==
  wiping => /\ socket = 0 /\ opening = "no" /\ ~ shuttingDown
            /\ \A c \in Calls : call[c].pc = "free"

SessionInv ==
  /\ TypeOK /\ QrInv /\ SocketInv /\ OpeningInv /\ TimerInv /\ CallInv
  /\ StartsAlone /\ ShutdownInv /\ LinkInv /\ WipingInv

\* Without a host that reports connectivity: a code outlives its socket only
\* until the teardown or the retry that follows, and a session the operator took
\* down has nothing to come back with.
PanelInv ==
  /\ online
  /\ qr # 0 => \/ qr \in live
               \/ state = "reconnecting"
               \/ wiping \/ \E c \in Calls : Dismantling(c)
  /\ opening # "no" => qr = 0
  /\ parked /\ ~ shuttingDown =>
       /\ state \in {"idle", "logged_out"}
       /\ socket = 0 /\ opening = "no"
       /\ \A c \in Calls : call[c].pc # "starting"
                           /\ call[c].op \notin {"reconnect", "halt"}
  /\ \A c \in Calls : call[c].op \notin {"offline", "online"}
-----------------------------------------------------------------------------
\* Once the operator has stopped or unlinked the session nothing but the
\* operator opens it again.
StoppedStaysStopped ==
  [][opening' = "creating" /\ opening = "no" => ~ parked']_vars

\* start() creates nothing while a socket exists or is being made.
StartIsIdempotent ==
  [][opening' = "creating" /\ opening = "no" => live = {}]_vars

\* After shutdown() has been asked for no open begins and none that was under
\* way adopts its socket, until the process is restarted.
ShutdownIsFinal ==
  [][shuttingDown => /\ live' \subseteq live
                     /\ opening' = "creating" => opening = "creating"]_vars

\* A request that was suspended comes back to its caller.
RequestsReturn ==
  \A c \in Calls : call[c].pc # "free" ~> call[c].pc = "free"

\* A scheduled retry is made or called off.
RetryHappens == state = "reconnecting" ~> state # "reconnecting"

\* A paused session is restored once the device is online again.
PausedUntilOnline ==
  (state = "paused" /\ online)
    ~> (state # "paused" \/ ~ online \/ shuttingDown)

\* A session held back by the Terms goes on once they are accepted.
AcceptanceIsNoticed ==
  (state = "consent_required" /\ accepted)
    ~> (state # "consent_required" \/ ~ accepted \/ shuttingDown)
=============================================================================
