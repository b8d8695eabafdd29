----------------------- MODULE WhatsAppSessionProofs -----------------------
(* Theorems about WhatsAppSession, for every set of calls, every length of   *)
(* the retry schedule and every budget.                                      *)
EXTENDS WhatsAppSession, TLAPS

USE DEF sockVars, openVars, codeVars, retryVars, netVars, recordVars, termVars,
        accountVars

\* #transition keeps the flag of the consent watch a flag.
LEMMA EnterFlag ==
  ASSUME FlagType, NEW s, Enter(s)
  PROVE  consentTimer' \in BOOLEAN
BY DEF FlagType, Enter

\* What #open does to the flags.
LEMMA OpenFlags ==
  ASSUME FlagType, Open
  PROVE  (wasActive \in BOOLEAN /\ pairing \in BOOLEAN
           /\ consentTimer \in BOOLEAN)'
<1>1. CASE HoldForConsent /\ UNCHANGED wasActive
  <2>1. consentTimer' \in BOOLEAN
    BY <1>1 DEF FlagType, HoldForConsent
  <2>2. pairing' \in BOOLEAN
    BY <1>1 DEF FlagType, HoldForConsent
  <2> QED BY <1>1, <2>1, <2>2 DEF FlagType
<1>2. CASE wasActive' = TRUE /\ Enter("paused") /\ UNCHANGED pairing
  BY <1>2, EnterFlag DEF FlagType
<1>3. CASE Enter("starting") /\ UNCHANGED <<wasActive, pairing>>
  BY <1>3, EnterFlag DEF FlagType
<1> QED BY <1>1, <1>2, <1>3 DEF Open

\* What start() does to the flags.
LEMMA BeginFlags ==
  ASSUME FlagType, NEW m, Begin(m)
  PROVE  (wasActive \in BOOLEAN /\ pairing \in BOOLEAN
           /\ consentTimer \in BOOLEAN /\ timer \in BOOLEAN)'
<1>1. CASE CanBegin
  <2>1. Open /\ timer' = FALSE
    BY <1>1 DEF Begin
  <2> QED BY <2>1, OpenFlags
<1>2. CASE ~ CanBegin
  BY <1>2 DEF Begin, FlagType
<1> QED BY <1>1, <1>2

\* What a close of the current socket does to the flags.
LEMMA CloseFlags ==
  ASSUME FlagType, NEW v, OnClose(v)
  PROVE  /\ (canWipe \in BOOLEAN /\ timer \in BOOLEAN /\ pairing \in BOOLEAN)'
         /\ (wasActive \in BOOLEAN /\ consentTimer \in BOOLEAN)'
         /\ (linked \in BOOLEAN /\ residue \in BOOLEAN)'
         /\ (wiping \in BOOLEAN /\ unwiped \in BOOLEAN)'
<1>1. CASE UNCHANGED <<state, consentTimer, canWipe, accountVars, retryVars,
                       pairing, qr, code, wasActive>>
  BY <1>1 DEF FlagType
<1>2. CASE PauseOffline
  BY <1>2, EnterFlag DEF FlagType, PauseOffline
<1>3. CASE HandleLoggedOut
  <2>1. linked' = FALSE \/ linked' = linked
    BY <1>3 DEF HandleLoggedOut
  <2>2. linked' \in BOOLEAN
    BY <2>1 DEF FlagType
  <2> QED BY <1>3, <2>2 DEF FlagType, HandleLoggedOut
<1>4. CASE GiveUp
  BY <1>4, EnterFlag DEF FlagType, GiveUp
<1>5. CASE ScheduleRetry
  <2>1. timer' \in BOOLEAN
    BY <1>5 DEF ScheduleRetry
  <2>2. consentTimer' \in BOOLEAN
    BY <1>5, EnterFlag DEF ScheduleRetry
  <2> QED BY <1>5, <2>1, <2>2 DEF FlagType, ScheduleRetry
<1> QED BY <1>1, <1>2, <1>3, <1>4, <1>5 DEF OnClose

\* Every variable has its type, whatever the operator, the host and the
\* sockets do.
THEOREM TypeCorrect == Spec => []TypeOK
<1>1. Init => TypeOK
  <2> SUFFICES ASSUME Init PROVE TypeOK
    OBVIOUS
  <2>1. ControlType /\ NumberType
    BY SessionAssumption DEF Init, ControlType, NumberType, States, AllMethods
  <2>2. FlagType
    BY DEF Init, FlagType
  <2>3. CallType
    BY DEF Init, CallType, Free, Pcs, Ops
  <2> QED BY <2>1, <2>2, <2>3 DEF TypeOK
<1>2. TypeOK /\ [Next]_vars => TypeOK'
  <2> SUFFICES ASSUME TypeOK, [Next]_vars PROVE TypeOK'
    OBVIOUS
  <2> USE SessionAssumption DEF TypeOK, Spend, Suspend, Enter, ClearQr, Bury,
          States, AllMethods
  <2>1. ASSUME NEW m \in Methods \cup {"none"}, Start(m) PROVE TypeOK'
    <3>1. ControlType'
      BY <2>1 DEF ControlType, Start, Begin, Open, HoldForConsent
    <3>2. NumberType'
      BY <2>1 DEF NumberType, Start, Begin, Open, HoldForConsent
    <3>3. FlagType'
      <4>1. UNCHANGED <<shuttingDown, canWipe, online, accepted, accountVars>>
            /\ parked' = (parked /\ ~ CanBegin)
        BY <2>1 DEF Start
      <4>2. Begin(m)
        BY <2>1 DEF Start
      <4> QED BY <4>1, <4>2, BeginFlags DEF FlagType
    <3>4. CallType'
      BY <2>1 DEF CallType, NumberType, Free, Pcs, Ops, Start, Begin, Open,
             HoldForConsent
    <3> QED BY <3>1, <3>2, <3>3, <3>4
  <2>2. ASSUME NEW c \in Calls, AskedFor(c) PROVE TypeOK'
    <3>1. ControlType'
      BY <2>2 DEF ControlType, AskedFor, Teardown, Logout, Offline, Online,
             AcceptTerms, DestroySocket
    <3>2. NumberType'
      BY <2>2 DEF NumberType, CallType, AskedFor, Teardown, Logout, Offline,
             Online, AcceptTerms, DestroySocket
    <3>3. FlagType'
      <4>1. ASSUME NEW op \in Ops, Teardown(c, op) PROVE FlagType'
        BY <4>1 DEF FlagType, Teardown
      <4>2. ASSUME Logout(c) PROVE FlagType'
        BY <4>2 DEF FlagType, Logout
      <4>3. ASSUME Offline(c) PROVE FlagType'
        <5>1. canWipe' \in BOOLEAN
          BY <4>3 DEF FlagType, Offline, DestroySocket
        <5>2. wasActive' \in BOOLEAN
          <6>1. wasActive' = (state \in BUSY_STATES)
            BY <4>3 DEF Offline
          <6> QED BY <6>1
        <5> QED BY <4>3, <5>1, <5>2 DEF FlagType, Offline
      <4>4. ASSUME Online(c) PROVE FlagType'
        BY <4>4, ZenonT(60) DEF FlagType, Online
      <4>5. ASSUME AcceptTerms(c) PROVE FlagType'
        BY <4>5, ZenonT(60) DEF FlagType, AcceptTerms
      <4> QED BY <2>2, <4>1, <4>2, <4>3, <4>4, <4>5 DEF AskedFor
    <3>4. CallType'
      <4>1. ASSUME NEW op \in Ops, Teardown(c, op) PROVE CallType'
        BY <4>1 DEF CallType, NumberType, Free, Pcs, Ops, Teardown
      <4>2. ASSUME Logout(c) PROVE CallType'
        BY <4>2 DEF CallType, NumberType, Free, Pcs, Ops, Logout
      <4>3. ASSUME Offline(c) PROVE CallType'
        BY <4>3 DEF CallType, NumberType, Free, Pcs, Ops, Offline,
               DestroySocket
      <4>4. ASSUME Online(c) PROVE CallType'
        BY <4>4 DEF CallType, NumberType, Free, Pcs, Ops, Online
      <4>5. ASSUME AcceptTerms(c) PROVE CallType'
        BY <4>5 DEF CallType, NumberType, Free, Pcs, Ops, AcceptTerms
      <4> QED BY <2>2, <4>1, <4>2, <4>3, <4>4, <4>5 DEF AskedFor
    <3> QED BY <3>1, <3>2, <3>3, <3>4
  <2>3. ASSUME NEW c \in Calls, Resume(c) PROVE TypeOK'
    <3>1. ControlType'
      BY <2>3 DEF ControlType, Resume, Proceed, UnlinkSent, FinishTeardown,
             FinishOffline, WipeCredentials, FinishLogout, StartAgain,
             DestroySocket, Begin, Open, HoldForConsent
    <3>2. NumberType'
      BY <2>3 DEF NumberType, CallType, Resume, Proceed, UnlinkSent,
             FinishTeardown, FinishOffline, WipeCredentials, FinishLogout,
             WipeData, StartAgain, DestroySocket, Begin, Open, HoldForConsent
    <3>3. FlagType'
      <4>1. ASSUME Proceed(c) PROVE FlagType'
        BY <4>1, ZenonT(60) DEF FlagType, Proceed, DestroySocket
      <4>2. ASSUME UnlinkSent(c) PROVE FlagType'
        BY <4>2 DEF FlagType, UnlinkSent
      <4>3. ASSUME FinishTeardown(c) PROVE FlagType'
        BY <4>3 DEF FlagType, FinishTeardown
      <4>4. ASSUME FinishOffline(c) PROVE FlagType'
        BY <4>4 DEF FlagType, FinishOffline
      <4>5. ASSUME FinishLogout(c) PROVE FlagType'
        BY <4>5 DEF FlagType, FinishLogout, WipeData
      <4>6. ASSUME StartAgain(c) PROVE FlagType'
        <5>1. UNCHANGED <<shuttingDown, canWipe, online, accepted, parked,
                          accountVars>>
          BY <4>6 DEF StartAgain
        <5>2. \E m : Begin(m)
          BY <4>6 DEF StartAgain
        <5> QED BY <5>1, <5>2, BeginFlags DEF FlagType
      <4>7. ASSUME WipeCredentials(c) PROVE FlagType'
        <5>1. linked' = FALSE \/ linked' = linked
          BY <4>7 DEF WipeCredentials
        <5>2. linked' \in BOOLEAN
          BY <5>1 DEF FlagType
        <5> QED BY <4>7, <5>2 DEF FlagType, WipeCredentials
      <4> QED BY <2>3, <4>1, <4>2, <4>3, <4>4, <4>5, <4>6, <4>7 DEF Resume
    <3>4. CallType'
      <4>1. ASSUME Proceed(c) PROVE CallType'
        <5>1. live' \subseteq Nat /\ paired' \subseteq live'
          BY <4>1 DEF CallType, Proceed, DestroySocket
        <5>2. call[c].op \in Ops /\ socket \in Nat
          BY DEF CallType, NumberType
        <5>3. \E pc \in Pcs, op \in Ops :
                call' = [call EXCEPT ![c] = [pc |-> pc, op |-> op,
                                             sock |-> socket]]
          BY <4>1, <5>2 DEF Proceed, Pcs, Ops
        <5> QED BY <5>1, <5>2, <5>3 DEF CallType
      <4>2. ASSUME UnlinkSent(c) PROVE CallType'
        BY <4>2 DEF CallType, NumberType, Free, Pcs, Ops, UnlinkSent
      <4>3. ASSUME FinishTeardown(c) PROVE CallType'
        BY <4>3 DEF CallType, NumberType, Free, Pcs, Ops, FinishTeardown
      <4>4. ASSUME FinishOffline(c) PROVE CallType'
        BY <4>4 DEF CallType, NumberType, Free, Pcs, Ops, FinishOffline
      <4>5. ASSUME FinishLogout(c) PROVE CallType'
        BY <4>5 DEF CallType, NumberType, Free, Pcs, Ops, FinishLogout
      <4>6. ASSUME StartAgain(c) PROVE CallType'
        BY <4>6 DEF CallType, NumberType, Free, Pcs, Ops, StartAgain, Begin,
               Open, HoldForConsent
      <4>7. ASSUME WipeCredentials(c) PROVE CallType'
        BY <4>7 DEF CallType, NumberType, Free, Pcs, Ops, WipeCredentials
      <4> QED BY <2>3, <4>1, <4>2, <4>3, <4>4, <4>5, <4>6, <4>7 DEF Resume
    <3> QED BY <3>1, <3>2, <3>3, <3>4
  <2>4. ASSUME Created PROVE TypeOK'
    <3>1. ControlType'
      BY <2>4 DEF ControlType, Created, Adopt, Discard, CreateFails
    <3>2. NumberType'
      BY <2>4 DEF NumberType, CallType, Created, Adopt, Discard, CreateFails
    <3>3. FlagType'
      <4>1. ASSUME Adopt PROVE FlagType'
        BY <4>1 DEF FlagType, Adopt
      <4>2. ASSUME Discard PROVE FlagType'
        BY <4>2 DEF FlagType, Discard
      <4>3. ASSUME CreateFails PROVE FlagType'
        BY <4>3 DEF FlagType, CreateFails
      <4> QED BY <2>4, <4>1, <4>2, <4>3 DEF Created
    <3>4. CallType'
      <4>1. ASSUME Adopt PROVE CallType'
        BY <4>1 DEF CallType, NumberType, Free, Pcs, Ops, Adopt
      <4>2. ASSUME Discard PROVE CallType'
        BY <4>2 DEF CallType, NumberType, Free, Pcs, Ops, Discard
      <4>3. ASSUME CreateFails PROVE CallType'
        BY <4>3 DEF CallType, NumberType, Free, Pcs, Ops, CreateFails
      <4> QED BY <2>4, <4>1, <4>2, <4>3 DEF Created
    <3> QED BY <3>1, <3>2, <3>3, <3>4
  <2>5. ASSUME Discarded PROVE TypeOK'
    <3>1. ControlType'
      BY <2>5 DEF ControlType, Discarded
    <3>2. NumberType'
      BY <2>5 DEF NumberType, Discarded
    <3>3. FlagType'
      BY <2>5 DEF FlagType, Discarded
    <3>4. CallType'
      BY <2>5 DEF CallType, NumberType, Free, Pcs, Ops, Discarded
    <3> QED BY <3>1, <3>2, <3>3, <3>4
  <2>6. ASSUME NEW s \in live, SocketEvent(s) PROVE TypeOK'
    <3>1. ControlType'
      BY <2>6 DEF ControlType, SocketEvent, QrEvent, NewLogin, CredsUpdate,
             OpenEvent, OpenUnsafe, CloseEvent, OnClose, HandleLoggedOut,
             GiveUp, ScheduleRetry, PauseOffline
    <3>2. NumberType'
      BY <2>6 DEF NumberType, CallType, SocketEvent, QrEvent, NewLogin,
             CredsUpdate, OpenEvent, OpenUnsafe, CloseEvent, OnClose,
             HandleLoggedOut, GiveUp, ScheduleRetry, PauseOffline
    <3>3. FlagType'
      <4>1. ASSUME QrEvent(s) PROVE FlagType'
        <5>1. UNCHANGED <<canWipe, timer, pairing, netVars, shuttingDown,
                          accepted, parked, accountVars>>
          BY <4>1 DEF QrEvent
        <5>2. Enter("waiting_for_qr") \/ UNCHANGED consentTimer
          BY <4>1 DEF QrEvent
        <5> QED BY <5>1, <5>2, EnterFlag DEF FlagType
      <4>2. ASSUME NewLogin(s) PROVE FlagType'
        <5>1. UNCHANGED <<canWipe, timer, netVars, shuttingDown, accepted,
                          parked, residue, wiping, unwiped>> /\ linked' = TRUE
          BY <4>2 DEF NewLogin
        <5>2. \/ pairing' = FALSE /\ Enter("linking")
              \/ UNCHANGED <<pairing, consentTimer>>
          BY <4>2 DEF NewLogin
        <5> QED BY <5>1, <5>2, EnterFlag, ZenonT(60) DEF FlagType
      <4>3. ASSUME CredsUpdate(s) PROVE FlagType'
        BY <4>3 DEF FlagType, CredsUpdate
      <4>4. ASSUME OpenEvent(s) PROVE FlagType'
        BY <4>4 DEF FlagType, OpenEvent
      <4>5. ASSUME NEW c \in Calls, OpenUnsafe(s, c) PROVE FlagType'
        BY <4>5 DEF FlagType, OpenUnsafe
      <4>6. ASSUME NEW v \in Verdicts, CloseEvent(s, v) PROVE FlagType'
        <5>1. UNCHANGED <<online, shuttingDown, accepted, parked>>
          BY <4>6 DEF CloseEvent
        <5>2. \/ OnClose(v)
              \/ UNCHANGED <<canWipe, timer, pairing, wasActive, consentTimer,
                            accountVars>>
          BY <4>6 DEF CloseEvent
        <5> QED BY <5>1, <5>2, CloseFlags DEF FlagType
      <4> QED BY <2>6, <4>1, <4>2, <4>3, <4>4, <4>5, <4>6 DEF SocketEvent
    <3>4. CallType'
      <4>1. ASSUME QrEvent(s) PROVE CallType'
        BY <4>1 DEF CallType, NumberType, Free, Pcs, Ops, QrEvent
      <4>2. ASSUME NewLogin(s) PROVE CallType'
        BY <4>2 DEF CallType, NumberType, Free, Pcs, Ops, NewLogin
      <4>3. ASSUME CredsUpdate(s) PROVE CallType'
        BY <4>3 DEF CallType, NumberType, Free, Pcs, Ops, CredsUpdate
      <4>4. ASSUME OpenEvent(s) PROVE CallType'
        BY <4>4 DEF CallType, NumberType, Free, Pcs, Ops, OpenEvent
      <4>5. ASSUME NEW c \in Calls, OpenUnsafe(s, c) PROVE CallType'
        BY <4>5 DEF CallType, NumberType, Free, Pcs, Ops, OpenUnsafe
      <4>6. ASSUME NEW v \in Verdicts, CloseEvent(s, v) PROVE CallType'
        BY <4>6 DEF CallType, NumberType, Free, Pcs, Ops, CloseEvent, OnClose,
               HandleLoggedOut, GiveUp, ScheduleRetry, PauseOffline
      <4> QED BY <2>6, <4>1, <4>2, <4>3, <4>4, <4>5, <4>6 DEF SocketEvent
    <3> QED BY <3>1, <3>2, <3>3, <3>4
  <2>7. ASSUME NEW ok \in BOOLEAN, CodeResult(ok) PROVE TypeOK'
    <3>1. ControlType'
      BY <2>7 DEF ControlType, CodeResult
    <3>2. NumberType'
      BY <2>7 DEF NumberType, CallType, CodeResult
    <3>3. FlagType'
      BY <2>7 DEF FlagType, CodeResult
    <3>4. CallType'
      BY <2>7 DEF CallType, NumberType, Free, Pcs, Ops, CodeResult
    <3> QED BY <3>1, <3>2, <3>3, <3>4
  <2>8. ASSUME RetryTimer PROVE TypeOK'
    <3>1. ControlType'
      BY <2>8 DEF ControlType, RetryTimer, Open, HoldForConsent
    <3>2. NumberType'
      BY <2>8 DEF NumberType, RetryTimer, Open, HoldForConsent
    <3>3. FlagType'
      <4>1. UNCHANGED <<canWipe, online, shuttingDown, accepted, parked,
                        accountVars>> /\ timer' = FALSE
        BY <2>8 DEF RetryTimer
      <4>2. Open \/ UNCHANGED <<wasActive, pairing, consentTimer>>
        BY <2>8 DEF RetryTimer
      <4> QED BY <4>1, <4>2, OpenFlags, ZenonT(60) DEF FlagType
    <3>4. CallType'
      BY <2>8 DEF CallType, NumberType, Free, Pcs, Ops, RetryTimer, Open,
             HoldForConsent
    <3> QED BY <3>1, <3>2, <3>3, <3>4
  <2>9. ASSUME ConsentTick PROVE TypeOK'
    <3>1. ControlType'
      BY <2>9 DEF ControlType, ConsentTick, Recheck, Begin, Open,
             HoldForConsent
    <3>2. NumberType'
      <4>1. CASE UNCHANGED <<qr, code, openVars, attempt>>
        BY <2>9, <4>1 DEF NumberType, ConsentTick, CallType
      <4>2. CASE Begin(intent)
        <5>1. UNCHANGED <<sockVars, codeReq, budget, admitted>>
          BY <2>9 DEF ConsentTick
        <5>2. (qr \in Nat /\ code \in Nat /\ startedAt \in Nat
                /\ attempt \in Nat)'
          BY <4>2 DEF NumberType, Begin, Open, HoldForConsent
        <5> QED BY <5>1, <5>2 DEF NumberType
      <4> QED BY <2>9, <4>1, <4>2 DEF ConsentTick, Recheck
    <3>3. FlagType'
      <4>1. UNCHANGED <<canWipe, online, shuttingDown, accepted, parked,
                        accountVars>>
        BY <2>9 DEF ConsentTick
      <4>2. \/ Begin(intent)
            \/ consentTimer' = FALSE /\ UNCHANGED <<wasActive, pairing, timer>>
        BY <2>9 DEF ConsentTick, Recheck
      <4> QED BY <4>1, <4>2, BeginFlags, ZenonT(60) DEF FlagType
    <3>4. CallType'
      BY <2>9 DEF CallType, NumberType, Free, Pcs, Ops, ConsentTick, Recheck,
             Begin, Open, HoldForConsent
    <3> QED BY <3>1, <3>2, <3>3, <3>4
  <2>10. ASSUME RecordChanges PROVE TypeOK'
    <3>1. ControlType'
      BY <2>10 DEF ControlType, RecordChanges
    <3>2. NumberType'
      BY <2>10 DEF NumberType, RecordChanges, Overtaken
    <3>3. FlagType'
      BY <2>10 DEF FlagType, RecordChanges
    <3>4. CallType'
      BY <2>10 DEF CallType, NumberType, Free, Pcs, Ops, RecordChanges
    <3> QED BY <3>1, <3>2, <3>3, <3>4
  <2>11. ASSUME Restart PROVE TypeOK'
    <3>1. ControlType'
      BY <2>11 DEF ControlType, Restart
    <3>2. NumberType'
      BY <2>11 DEF NumberType, Restart
    <3>3. FlagType'
      BY <2>11 DEF FlagType, Restart
    <3>4. CallType'
      BY <2>11 DEF CallType, NumberType, Free, Pcs, Ops, Restart
    <3> QED BY <3>1, <3>2, <3>3, <3>4
  <2>12. ASSUME UNCHANGED vars PROVE TypeOK'
    <3>1. ControlType'
      BY <2>12 DEF ControlType, vars
    <3>2. NumberType'
      BY <2>12 DEF NumberType, vars
    <3>3. FlagType'
      BY <2>12 DEF FlagType, vars
    <3>4. CallType'
      BY <2>12 DEF CallType, NumberType, Free, Pcs, Ops, vars
    <3> QED BY <3>1, <3>2, <3>3, <3>4
  <2>13. ASSUME ForgetAccount PROVE TypeOK'
    <3>1. ControlType'
      BY <2>13 DEF ControlType, ForgetAccount
    <3>2. NumberType'
      BY <2>13 DEF NumberType, ForgetAccount, WipeData
    <3>3. FlagType'
      BY <2>13 DEF FlagType, ForgetAccount, WipeData
    <3>4. CallType'
      BY <2>13 DEF CallType, ForgetAccount
    <3> QED BY <3>1, <3>2, <3>3, <3>4
  <2> QED BY <2>1, <2>2, <2>3, <2>4, <2>5, <2>6, <2>7, <2>8, <2>9, <2>10,
             <2>11, <2>12, <2>13 DEF Next
<1> QED BY <1>1, <1>2, PTL DEF Spec

\* Only #open takes a socket on; every other step leaves the live sockets
\* alone or buries one.
LEMMA OnlyAdoptTakesOn ==
  ASSUME [Next]_vars, ~ Adopt
  PROVE  live' \subseteq live
<1> USE DEF Bury
<1>1. ASSUME NEW m \in Methods \cup {"none"}, Start(m)
      PROVE  live' \subseteq live
  BY <1>1 DEF Start
<1>2. ASSUME NEW c \in Calls, AskedFor(c) PROVE live' \subseteq live
  BY <1>2 DEF AskedFor, Teardown, Logout, Offline, Online, AcceptTerms,
              DestroySocket
<1>3. ASSUME NEW c \in Calls, Resume(c) PROVE live' \subseteq live
  BY <1>3 DEF Resume, Proceed, UnlinkSent, FinishTeardown, FinishOffline,
              WipeCredentials, FinishLogout, StartAgain, DestroySocket
<1>4. ASSUME Created PROVE live' \subseteq live
  BY <1>4 DEF Created, Discard, CreateFails
<1>5. ASSUME NEW s \in live, SocketEvent(s) PROVE live' \subseteq live
  BY <1>5 DEF SocketEvent, QrEvent, NewLogin, CredsUpdate, OpenEvent,
              OpenUnsafe, CloseEvent
<1>6. ASSUME \/ Discarded \/ RetryTimer \/ ConsentTick \/ RecordChanges
             \/ Restart \/ ForgetAccount \/ \E ok \in BOOLEAN : CodeResult(ok)
             \/ UNCHANGED vars
      PROVE  live' \subseteq live
  BY <1>6 DEF Discarded, RetryTimer, ConsentTick, RecordChanges, Restart,
              ForgetAccount, CodeResult, vars
<1> QED BY <1>1, <1>2, <1>3, <1>4, <1>5, <1>6 DEF Next

\* An open is begun by #open alone, which asks for the Terms first, and every
\* path to it looks at #shuttingDown.
LEMMA OpensUnderTerms ==
  ASSUME [Next]_vars, opening # "creating", opening' = "creating"
  PROVE  /\ accepted /\ ~ shuttingDown
         /\ startedAt' = gen
         /\ UNCHANGED <<gen, live, recordVars, shuttingDown>>
<1> DEFINE Begun == /\ accepted /\ ~ shuttingDown
                    /\ startedAt' = gen
                    /\ UNCHANGED <<gen, live, recordVars, shuttingDown>>
<1>1. ASSUME Open PROVE accepted /\ startedAt' = gen
  BY <1>1 DEF Open
<1>2. ASSUME NEW m, Begin(m)
      PROVE  accepted /\ startedAt' = gen /\ ~ shuttingDown
  BY <1>1, <1>2 DEF Begin, CanBegin
<1>3. ASSUME NEW m \in Methods \cup {"none"}, Start(m) PROVE Begun
  BY <1>2, <1>3 DEF Start
<1>4. ASSUME NEW c \in Calls, StartAgain(c) PROVE Begun
  BY <1>2, <1>4 DEF StartAgain
<1>5. ASSUME RetryTimer PROVE Begun
  BY <1>1, <1>5 DEF RetryTimer
<1>6. ASSUME ConsentTick PROVE Begun
  BY <1>2, <1>6 DEF ConsentTick, Recheck
<1>7. ASSUME NEW c \in Calls, AskedFor(c) PROVE FALSE
  BY <1>7 DEF AskedFor, Teardown, Logout, Offline, Online, AcceptTerms
<1>8. ASSUME NEW c \in Calls,
             \/ Proceed(c) \/ UnlinkSent(c) \/ FinishTeardown(c)
             \/ FinishOffline(c) \/ WipeCredentials(c) \/ FinishLogout(c)
      PROVE  FALSE
  BY <1>8 DEF Proceed, UnlinkSent, FinishTeardown, FinishOffline,
              WipeCredentials, FinishLogout
<1>9. ASSUME NEW s \in live, SocketEvent(s) PROVE FALSE
  BY <1>9 DEF SocketEvent, QrEvent, NewLogin, CredsUpdate, OpenEvent,
              OpenUnsafe, CloseEvent
<1>10. ASSUME \/ Created \/ Discarded \/ RecordChanges \/ Restart
              \/ ForgetAccount \/ \E ok \in BOOLEAN : CodeResult(ok)
              \/ UNCHANGED vars
       PROVE  FALSE
  BY <1>10 DEF Created, Adopt, Discard, CreateFails, Discarded, RecordChanges,
               Restart, ForgetAccount, CodeResult, vars
<1> QED BY <1>3, <1>4, <1>5, <1>6, <1>7, <1>8, <1>9, <1>10 DEF Next, Resume

\* Once shutdown() has been asked for no open begins and no socket is adopted,
\* whatever else is suspended or in flight.
THEOREM ShutdownHolds == Spec => ShutdownIsFinal
<1>1. [Next]_vars =>
        [shuttingDown => /\ live' \subseteq live
                         /\ opening' = "creating" => opening = "creating"]_vars
  <2>1. Adopt => ~ shuttingDown
    BY DEF Adopt, Overtaken
  <2> QED BY <2>1, OnlyAdoptTakesOn, OpensUnderTerms
<1> QED BY <1>1, PTL DEF Spec, ShutdownIsFinal

\* What keeps the Terms true of the sockets: an open in flight that nothing has
\* overtaken was let through by an acceptance, or was on its way when that was
\* voided.
TermsInv ==
  /\ startedAt <= gen
  /\ \A s \in live : s <= gen
  /\ ~ accepted /\ opening = "creating" /\ ~ Overtaken => gen + 1 <= admitted
  /\ NoSocketWithoutTerms

\* The other steps give out at most one number, and leave the open in flight
\* and the record of the acceptance as they are, or accept.
LEMMA TermsFrame ==
  ASSUME TypeOK, [Next]_vars, ~ Adopt, ~ RecordChanges, ~ Restart,
         opening' = "creating" => opening = "creating"
  PROVE  /\ gen' \in {gen, gen + 1}
         /\ admitted' = admitted
         /\ ~ accepted' => ~ accepted
         /\ shuttingDown => shuttingDown'
         /\ startedAt' = startedAt
<1> DEFINE Framed == /\ gen' \in {gen, gen + 1}
                     /\ admitted' = admitted
                     /\ ~ accepted' => ~ accepted
                     /\ shuttingDown => shuttingDown'
                     /\ startedAt' = startedAt
<1>1. ASSUME opening = "no", Open PROVE startedAt' = startedAt
  BY <1>1 DEF Open
<1>2. ASSUME NEW m, Begin(m) PROVE startedAt' = startedAt
  BY <1>1, <1>2 DEF Begin, CanBegin
<1>3. ASSUME NEW m \in Methods \cup {"none"}, Start(m) PROVE Framed
  <2>1. startedAt' = startedAt
    BY <1>2, <1>3 DEF Start
  <2> QED BY <1>3, <2>1 DEF Start
<1>4. ASSUME NEW c \in Calls, AskedFor(c) PROVE Framed
  <2>1. CASE Offline(c)
    <3>1. DestroySocket /\ UNCHANGED <<recordVars, shuttingDown, startedAt>>
      BY <2>1 DEF Offline
    <3> QED BY <3>1 DEF DestroySocket
  <2>2. CASE Logout(c) \/ Online(c) \/ AcceptTerms(c)
    BY <2>2 DEF Logout, Online, AcceptTerms
  <2>3. ASSUME NEW op \in Ops, Teardown(c, op) PROVE Framed
    BY <2>3 DEF Teardown
  <2> QED BY <1>4, <2>1, <2>2, <2>3 DEF AskedFor
<1>5. ASSUME NEW c \in Calls, Resume(c) PROVE Framed
  <2>1. CASE StartAgain(c)
    BY <1>2, <2>1 DEF StartAgain
  <2>2. CASE Proceed(c)
    BY <2>2 DEF Proceed, DestroySocket
  <2>3. CASE UnlinkSent(c) \/ FinishTeardown(c) \/ FinishOffline(c)
    BY <2>3 DEF UnlinkSent, FinishTeardown, FinishOffline
  <2>4. CASE WipeCredentials(c) \/ FinishLogout(c)
    BY <2>4 DEF WipeCredentials, FinishLogout
  <2> QED BY <1>5, <2>1, <2>2, <2>3, <2>4 DEF Resume
<1>6. ASSUME NEW s \in live, SocketEvent(s) PROVE Framed
  BY <1>6 DEF SocketEvent, QrEvent, NewLogin, CredsUpdate, OpenEvent,
              OpenUnsafe, CloseEvent
<1>7. ASSUME RetryTimer PROVE Framed
  BY <1>1, <1>7 DEF RetryTimer
<1>8. ASSUME ConsentTick PROVE Framed
  BY <1>2, <1>8 DEF ConsentTick, Recheck
<1>9. ASSUME \/ Discard \/ CreateFails \/ Discarded \/ ForgetAccount
             \/ \E ok \in BOOLEAN : CodeResult(ok) \/ UNCHANGED vars
      PROVE  Framed
  BY <1>9 DEF Discard, CreateFails, Discarded, ForgetAccount, CodeResult, vars
<1> QED BY <1>3, <1>4, <1>5, <1>6, <1>7, <1>8, <1>9 DEF Next, Created

\* Every step keeps the Terms true of the sockets.
LEMMA TermsStep ==
  ASSUME TypeOK, TypeOK', TermsInv, [Next]_vars
  PROVE  TermsInv'
<1> USE DEF TypeOK, NumberType, CallType
<1>1. CASE Adopt
  BY <1>1 DEF TermsInv, NoSocketWithoutTerms, Adopt, Overtaken
<1>2. CASE RecordChanges
  BY <1>2 DEF TermsInv, NoSocketWithoutTerms, RecordChanges, Overtaken
<1>3. CASE Restart
  BY <1>3 DEF TermsInv, NoSocketWithoutTerms, Restart
<1>4. CASE opening # "creating" /\ opening' = "creating"
  <2>1. accepted' /\ startedAt' = gen' /\ UNCHANGED <<gen, live>>
    BY <1>4, OpensUnderTerms
  <2> QED BY <2>1 DEF TermsInv, NoSocketWithoutTerms
<1>5. CASE /\ ~ Adopt /\ ~ RecordChanges /\ ~ Restart
           /\ opening' = "creating" => opening = "creating"
  <2>1. live' \subseteq live
    BY <1>5, OnlyAdoptTakesOn
  <2>2. /\ gen' \in {gen, gen + 1}
        /\ admitted' = admitted
        /\ ~ accepted' => ~ accepted
        /\ shuttingDown => shuttingDown'
        /\ startedAt' = startedAt
    BY <1>5, TermsFrame
  <2>3. startedAt' <= gen' /\ \A s \in live' : s <= gen'
    BY <2>1, <2>2 DEF TermsInv
  <2>4. NoSocketWithoutTerms'
    BY <2>1, <2>2 DEF TermsInv, NoSocketWithoutTerms
  <2>5. ASSUME ~ accepted', opening' = "creating", ~ Overtaken'
        PROVE  gen' + 1 <= admitted'
    <3>1. gen' = startedAt /\ ~ shuttingDown
      BY <2>2, <2>5 DEF Overtaken
    <3>2. gen' = gen
      BY <2>2, <3>1 DEF TermsInv
    <3> QED BY <1>5, <2>2, <2>5, <3>1, <3>2 DEF TermsInv, Overtaken
  <2> QED BY <2>3, <2>4, <2>5 DEF TermsInv
<1> QED BY <1>1, <1>2, <1>3, <1>4, <1>5

\* Without a valid acceptance no socket runs but those that were running or on
\* their way when it was voided, whatever overlaps.
THEOREM TermsHold == Spec => []NoSocketWithoutTerms
<1>1. Init => TermsInv
  BY DEF Init, TermsInv, NoSocketWithoutTerms
<1>2. TypeOK /\ TypeOK' /\ TermsInv /\ [Next]_vars => TermsInv'
  BY TermsStep
<1>3. TermsInv => NoSocketWithoutTerms
  BY DEF TermsInv
<1> QED BY <1>1, <1>2, <1>3, TypeCorrect, PTL DEF Spec

\* A session held back by the Terms has no open in flight, so that the start()
\* that ends its wait is never turned away.
HeldInv ==
  /\ state = "consent_required" => opening = "no"
  /\ HeldBackIsWatched

\* A session held back by the Terms never loses its watch of the acceptance
\* record, whichever requests overlap.
THEOREM HeldBackHolds == Spec => []HeldBackIsWatched
<1> USE DEF HeldInv, HeldBackIsWatched, Enter
<1>1. Init => HeldInv
  BY DEF Init
<1>2. TypeOK /\ HeldInv /\ [Next]_vars => HeldInv'
  <2> SUFFICES ASSUME TypeOK, HeldInv, [Next]_vars PROVE HeldInv'
    OBVIOUS
  <2> USE DEF TypeOK, Suspend, Free
  <2>1. ASSUME opening = "no", Open, UNCHANGED shuttingDown PROVE HeldInv'
    BY <2>1 DEF Open, HoldForConsent
  <2>2. ASSUME NEW m, Begin(m), UNCHANGED <<shuttingDown, call>> PROVE HeldInv'
    <3>1. CASE CanBegin
      BY <2>1, <2>2, <3>1 DEF Begin, CanBegin
    <3>2. CASE ~ CanBegin
      BY <2>2, <3>2 DEF Begin
    <3> QED BY <3>1, <3>2
  <2>3. ASSUME NEW m \in Methods \cup {"none"}, Start(m) PROVE HeldInv'
    BY <2>2, <2>3 DEF Start
  <2>4. ASSUME NEW c \in Calls, AskedFor(c) PROVE HeldInv'
    <3>1. CASE \E op \in Ops : Teardown(c, op)
      BY <3>1 DEF Teardown, CallType
    <3>2. CASE Logout(c)
      BY <3>2 DEF Logout, CallType
    <3>3. CASE Offline(c)
      BY <3>3 DEF Offline, CallType
    <3>4. CASE Online(c)
      BY <3>4 DEF Online, CallType
    <3>5. CASE AcceptTerms(c)
      BY <3>5 DEF AcceptTerms, CallType
    <3> QED BY <2>4, <3>1, <3>2, <3>3, <3>4, <3>5 DEF AskedFor
  <2>5. ASSUME NEW c \in Calls, Resume(c) PROVE HeldInv'
    <3>1. CASE Proceed(c)
      BY <3>1 DEF Proceed, CallType
    <3>2. CASE UnlinkSent(c)
      BY <3>2 DEF UnlinkSent, CallType
    <3>3. CASE FinishTeardown(c)
      BY <3>3 DEF FinishTeardown
    <3>4. CASE FinishOffline(c)
      BY <3>4 DEF FinishOffline
    <3>5. CASE FinishLogout(c)
      BY <3>5 DEF FinishLogout
    <3>6. CASE StartAgain(c)
      <4>1. CASE CanBegin
        BY <2>1, <3>6, <4>1 DEF StartAgain, Begin, CanBegin
      <4>2. CASE ~ CanBegin
        \* A waiting session can begin, so this one is not waiting.
        BY <3>6, <4>2 DEF StartAgain, Begin, CanBegin, BUSY_STATES
      <4> QED BY <4>1, <4>2
    <3>7. CASE WipeCredentials(c)
      BY <3>7 DEF WipeCredentials, CallType
    <3> QED BY <2>5, <3>1, <3>2, <3>3, <3>4, <3>5, <3>6, <3>7 DEF Resume
  <2>6. ASSUME Created \/ Discarded PROVE HeldInv'
    BY <2>6 DEF Created, Adopt, Discard, CreateFails, Discarded
  <2>7. ASSUME NEW s \in live, SocketEvent(s) PROVE HeldInv'
    <3>1. ASSUME QrEvent(s) \/ NewLogin(s) \/ CredsUpdate(s) \/ OpenEvent(s)
          PROVE  HeldInv'
      BY <3>1 DEF QrEvent, NewLogin, CredsUpdate, OpenEvent
    <3>2. ASSUME NEW c \in Calls, OpenUnsafe(s, c) PROVE HeldInv'
      BY <3>2 DEF OpenUnsafe
    <3>3. ASSUME NEW v \in Verdicts, CloseEvent(s, v) PROVE HeldInv'
      BY <3>3 DEF CloseEvent, OnClose, HandleLoggedOut, GiveUp, ScheduleRetry,
                  PauseOffline
    <3> QED BY <2>7, <3>1, <3>2, <3>3 DEF SocketEvent
  <2>8. ASSUME RetryTimer PROVE HeldInv'
    BY <2>1, <2>8 DEF RetryTimer
  <2>9. ASSUME ConsentTick PROVE HeldInv'
    BY <2>2, <2>9 DEF ConsentTick, Recheck
  <2>10. ASSUME \/ RecordChanges \/ Restart \/ ForgetAccount
                \/ \E ok \in BOOLEAN : CodeResult(ok) \/ UNCHANGED vars
         PROVE  HeldInv'
    <3>1. ASSUME RecordChanges \/ Restart \/ ForgetAccount PROVE HeldInv'
      BY <3>1 DEF RecordChanges, Restart, ForgetAccount
    <3>2. ASSUME NEW ok \in BOOLEAN, CodeResult(ok) PROVE HeldInv'
      BY <3>2 DEF CodeResult
    <3>3. ASSUME UNCHANGED vars PROVE HeldInv'
      BY <3>3, ZenonT(60) DEF vars
    <3> QED BY <2>10, <3>1, <3>2, <3>3
  <2> QED BY <2>3, <2>4, <2>5, <2>6, <2>7, <2>8, <2>9, <2>10 DEF Next
<1> QED BY <1>1, <1>2, TypeCorrect, PTL DEF Spec

(* ------------------- takedowns one at a time, pairing by QR ----------------- *)

(* What holds when no two requests take the socket down at once and accounts *)
(* are paired by QR code, for every length of the retry schedule and every   *)
(* number of requests and disturbances.  Two takedowns at once and pairing   *)
(* codes do break these properties: see the runs that expect it.             *)

\* Every step keeps the account's data with its link: what removes the link
\* goes on to remove the data, and is excused if that fails or never comes.
LEMMA DataStep ==
  ASSUME NoLinkComesBack, NoInheritedData, TypeOK, [Next]_vars
  PROVE  NoInheritedData'
<1> USE DEF NoInheritedData, BetweenWipes, NoLinkComesBack, TypeOK, CallType,
        FlagType, Suspend, Free
<1>0. ASSUME WipeData PROVE NoInheritedData'
  <2>1. CASE residue' = FALSE
    BY <2>1
  <2>2. CASE UNCHANGED residue /\ unwiped' = residue
    <3>1. residue' => unwiped'
      BY <2>2
    <3> QED BY <3>1
  <2> QED BY <1>0, <2>1, <2>2 DEF WipeData
<1>1. ASSUME UNCHANGED <<accountVars, call>> PROVE NoInheritedData'
  BY <1>1
<1>2. ASSUME NEW m \in Methods \cup {"none"}, Start(m) PROVE NoInheritedData'
  BY <1>1, <1>2 DEF Start
<1>3. ASSUME NEW c \in Calls, AskedFor(c) PROVE NoInheritedData'
  <2>1. UNCHANGED accountVars /\ call[c].pc # "wiping"
        /\ \A d \in Calls \ {c} : call'[d] = call[d]
    BY <1>3 DEF AskedFor, Teardown, Logout, Offline, Online, AcceptTerms
  <2> QED BY <2>1
<1>4. ASSUME NEW c \in Calls, Resume(c) PROVE NoInheritedData'
  <2>1. CASE WipeCredentials(c)
    BY <2>1 DEF WipeCredentials
  <2>2. CASE FinishLogout(c)
    BY <1>0, <2>2 DEF FinishLogout
  <2>3. CASE ~ WipeCredentials(c) /\ ~ FinishLogout(c)
    <3>1. UNCHANGED accountVars /\ call[c].pc # "wiping"
          /\ \A d \in Calls \ {c} : call'[d] = call[d]
      BY <1>4, <2>3 DEF Resume, Proceed, UnlinkSent, FinishTeardown,
                        FinishOffline, StartAgain, Ended
    <3> QED BY <3>1
  <2> QED BY <2>1, <2>2, <2>3
<1>5. ASSUME NEW s \in live, SocketEvent(s) PROVE NoInheritedData'
  <2>1. ASSUME NEW c \in Calls, OpenUnsafe(s, c) PROVE NoInheritedData'
    BY <2>1 DEF OpenUnsafe
  <2>2. ASSUME NEW v \in Verdicts, CloseEvent(s, v) PROVE NoInheritedData'
    <3>1. call' = call
      BY <2>2 DEF CloseEvent
    <3>2. UNCHANGED accountVars \/ HandleLoggedOut
      BY <2>2 DEF CloseEvent, OnClose, GiveUp, ScheduleRetry, PauseOffline
    <3> QED BY <1>1, <3>1, <3>2 DEF HandleLoggedOut
  <2> QED BY <1>5, <2>1, <2>2
          DEF SocketEvent, QrEvent, NewLogin, CredsUpdate, OpenEvent
<1>6. CASE ForgetAccount
  BY <1>0, <1>6 DEF ForgetAccount
<1>7. CASE Restart
  BY <1>7 DEF Restart
<1>8. CASE \/ Created \/ Discarded \/ RetryTimer \/ ConsentTick
           \/ RecordChanges \/ \E ok \in BOOLEAN : CodeResult(ok)
           \/ UNCHANGED vars
  BY <1>1, <1>8 DEF Created, Adopt, Discard, CreateFails, Discarded,
                    RetryTimer, ConsentTick, RecordChanges, CodeResult, vars
<1> QED BY <1>2, <1>3, <1>4, <1>5, <1>6, <1>7, <1>8 DEF Next

\* One step, for each action: first what it does to the fields, then what it
\* leaves the suspended request waiting for.
LEMMA SessionStep ==
  ASSUME QrPairing, SessionInv, SerialTakedowns, SerialTakedowns', TypeOK',
         [Next]_vars
  PROVE  SessionInv'
<1> USE DEF QrPairing, SessionInv, QrInv, SocketInv, OpeningInv, TimerInv,
        ShutdownInv, Disowned, LinkInv, JobsFollowSocket, Unlinking,
        NoLinkComesBack, TypeOK, NumberType, CallType,
        Holding, BUSY_STATES, Free, Drained, Ready, Suspend, Enter, ClearQr,
        Bury, WipingInv
<1>0. NoInheritedData'
  BY DataStep DEF LinkInv
<1> DEFINE LocalInv == QrInv /\ OpeningInv /\ TimerInv /\ NoLinkComesBack
                       /\ WipingInv
           Sockets == SocketInv /\ ShutdownInv /\ JobsFollowSocket
<1>1. ASSUME NEW m \in Methods \cup {"none"}, Start(m) PROVE SessionInv'
  <2>1. LocalInv'
    BY <1>1 DEF CallInv, WaitsSafely, Start, Begin, CanBegin, Open,
       HoldForConsent
  <2>2. Sockets'
    BY <1>1 DEF CallInv, WaitsSafely, Start, Begin, CanBegin, Open,
       HoldForConsent
  <2>3. ASSUME NEW d \in Calls PROVE WaitsSafely(d)'
    <3>1. WaitsSafely(d)
      BY DEF CallInv
    <3> QED BY <1>1, <3>1 DEF WaitsSafely, Start, Begin, CanBegin, Open,
               HoldForConsent
  <2>4. StartsAlone'
    BY <1>1 DEF StartsAlone, Start, Begin, CanBegin, Open, HoldForConsent
  <2> QED BY <1>0, <2>1, <2>2, <2>3, <2>4 DEF CallInv
<1>2. ASSUME NEW c \in Calls, NEW op \in Ops, Teardown(c, op) PROVE SessionInv'
  <2>1. LocalInv'
    BY <1>2 DEF CallInv, WaitsSafely, Teardown
  <2>2. Sockets'
    <3>1. SocketInv'
      BY <1>2 DEF CallInv, WaitsSafely, Teardown
    <3>2. JobsFollowSocket'
      BY <1>2 DEF CallInv, WaitsSafely, Teardown
    <3>3. CASE op = "shutdown"
      BY <1>2, <3>1, <3>2, <3>3 DEF Teardown
    <3>4. CASE op # "shutdown"
      <4>1. (shuttingDown' => shuttingDown) /\ socket' = socket
        BY <1>2, <3>4 DEF Teardown
      <4>2. ASSUME NEW e \in Calls, call[e].pc = "waitStart"
            PROVE  call'[e] = call[e]
        BY <1>2, <4>2 DEF Teardown
      <4> QED BY <3>1, <3>2, <4>1, <4>2
    <3> QED BY <3>3, <3>4
  <2>3. ASSUME NEW d \in Calls PROVE WaitsSafely(d)'
    <3>1. WaitsSafely(d)
      BY DEF CallInv
    <3>2. CASE d = c
      BY <1>2, <3>2 DEF WaitsSafely, Teardown
    <3>3. CASE d # c
      <4>1. UNCHANGED <<call[d], socket, gen, live, state, opening>>
            /\ ~ timer' /\ (shuttingDown => shuttingDown')
        BY <1>2, <3>3 DEF Teardown
      <4> QED BY <3>1, <4>1 DEF WaitsSafely
    <3> QED BY <3>2, <3>3
  <2>4. StartsAlone'
    BY <1>2 DEF StartsAlone, Teardown
  <2> QED BY <1>0, <2>1, <2>2, <2>3, <2>4 DEF CallInv
<1>3. ASSUME NEW c \in Calls, Logout(c) PROVE SessionInv'
  <2>1. LocalInv'
    BY <1>3 DEF CallInv, WaitsSafely, Logout
  <2>2. Sockets'
    BY <1>3 DEF CallInv, WaitsSafely, Logout
  <2>3. ASSUME NEW d \in Calls PROVE WaitsSafely(d)'
    <3>1. WaitsSafely(d)
      BY DEF CallInv
    <3> QED BY <1>3, <3>1 DEF WaitsSafely, Logout, SerialTakedowns, Takedowns
  <2>4. StartsAlone'
    BY <1>3 DEF StartsAlone, Logout
  <2> QED BY <1>0, <2>1, <2>2, <2>3, <2>4 DEF CallInv
<1>4. ASSUME NEW c \in Calls, Offline(c) PROVE SessionInv'
  <2>1. LocalInv'
    BY <1>4 DEF CallInv, WaitsSafely, Offline, DestroySocket
  <2>2. Sockets'
    BY <1>4 DEF CallInv, WaitsSafely, Offline, DestroySocket
  <2>3. ASSUME NEW d \in Calls PROVE WaitsSafely(d)'
    <3>1. WaitsSafely(d)
      BY DEF CallInv
    <3>2. socket' = 0 /\ live' = {} /\ UNCHANGED <<state, opening, shuttingDown>>
      BY <1>4 DEF Offline, DestroySocket
    <3>3. CASE d = c
      BY <1>4, <3>2, <3>3 DEF WaitsSafely, Offline, DestroySocket
    <3>4. CASE d # c
      <4>1. call'[d] = call[d] /\ call'[c].op = "offline" /\ ~ timer'
        BY <1>4, <3>4 DEF Offline
      <4>2. call[d].pc # "starting"
        BY <1>4 DEF Offline
      <4>3. call[d].op \in Takedowns \cup {"none", "shutdown"}
        BY <3>1, <4>2 DEF WaitsSafely, Takedowns, Ops
      <4>4. call[d].op = "none" \/ shuttingDown
        BY <3>1, <3>2, <3>4, <4>1, <4>3
           DEF WaitsSafely, SerialTakedowns, Takedowns
      <4> QED BY <3>1, <3>2, <4>1, <4>2, <4>4 DEF WaitsSafely
    <3> QED BY <3>3, <3>4
  <2>4. StartsAlone'
    BY <1>4 DEF StartsAlone, Offline, DestroySocket
  <2> QED BY <1>0, <2>1, <2>2, <2>3, <2>4 DEF CallInv
<1>5. ASSUME NEW c \in Calls, Online(c) PROVE SessionInv'
  <2>1. LocalInv'
    BY <1>5 DEF CallInv, WaitsSafely, Online
  <2>2. Sockets'
    BY <1>5 DEF CallInv, WaitsSafely, Online
  <2>3. ASSUME NEW d \in Calls PROVE WaitsSafely(d)'
    <3>1. WaitsSafely(d)
      BY DEF CallInv
    <3> QED BY <1>5, <3>1 DEF WaitsSafely, Online, SerialTakedowns, Takedowns
  <2>4. StartsAlone'
    BY <1>5 DEF StartsAlone, Online
  <2> QED BY <1>0, <2>1, <2>2, <2>3, <2>4 DEF CallInv
<1>6. ASSUME NEW c \in Calls, AcceptTerms(c) PROVE SessionInv'
  <2>1. LocalInv'
    BY <1>6 DEF CallInv, WaitsSafely, AcceptTerms
  <2>2. Sockets'
    BY <1>6 DEF CallInv, WaitsSafely, AcceptTerms
  <2>3. ASSUME NEW d \in Calls PROVE WaitsSafely(d)'
    <3>1. WaitsSafely(d)
      BY DEF CallInv
    <3> QED BY <1>6, <3>1 DEF WaitsSafely, AcceptTerms, SerialTakedowns, Takedowns
  <2>4. StartsAlone'
    BY <1>6 DEF StartsAlone, AcceptTerms
  <2> QED BY <1>0, <2>1, <2>2, <2>3, <2>4 DEF CallInv
<1>7. ASSUME NEW c \in Calls, Proceed(c) PROVE SessionInv'
  <2>1. LocalInv'
    BY <1>7 DEF CallInv, WaitsSafely, Proceed, DestroySocket
  <2>2. Sockets'
    BY <1>7 DEF CallInv, WaitsSafely, Proceed, DestroySocket
  <2>3. ASSUME NEW d \in Calls PROVE WaitsSafely(d)'
    <3>1. WaitsSafely(d)
      BY DEF CallInv
    <3>2. UNCHANGED <<state, opening, shuttingDown>> /\ ~ timer'
      BY <1>7 DEF Proceed
    <3>3. WaitsSafely(c) /\ call[c].pc = "waitStart" /\ opening = "no"
      BY <1>7 DEF Proceed, CallInv
    <3>4. CASE d = c
      <4>1. CASE call[c].op = "logout"
        BY <1>7, <3>2, <3>3, <3>4, <4>1 DEF WaitsSafely, Proceed
      <4>2. CASE call[c].op # "logout"
        BY <1>7, <3>2, <3>3, <3>4, <4>2 DEF WaitsSafely, Proceed, DestroySocket
      <4> QED BY <4>1, <4>2
    <3>5. CASE d # c
      <4>1. call'[d] = call[d]
        BY <1>7, <3>5 DEF Proceed
      <4>2. call[c].op \in Takedowns \cup {"shutdown"}
        BY <3>3 DEF WaitsSafely, Takedowns, Ops
      <4>3. call[d].op \notin Takedowns \/ shuttingDown
        BY <3>3, <3>5, <4>2 DEF WaitsSafely, SerialTakedowns
      <4>4. CASE call[c].op = "logout"
        <5>1. UNCHANGED <<socket, live>> /\ gen' = gen + 1
          BY <1>7, <4>4 DEF Proceed
        <5> QED BY <3>1, <3>2, <4>1, <5>1 DEF WaitsSafely
      <4>5. CASE call[c].op # "logout"
        <5>1. socket' = 0 /\ live' = {}
          BY <1>7, <4>5 DEF Proceed, DestroySocket
        <5>2. call[d].op = "logout" => shuttingDown
          BY <4>3 DEF Takedowns
        <5> QED BY <3>1, <3>2, <4>1, <5>1, <5>2 DEF WaitsSafely
      <4> QED BY <4>4, <4>5
    <3> QED BY <3>4, <3>5
  <2>4. StartsAlone'
    BY <1>7 DEF StartsAlone, Proceed, DestroySocket
  <2> QED BY <1>0, <2>1, <2>2, <2>3, <2>4 DEF CallInv
<1>8. ASSUME NEW c \in Calls, UnlinkSent(c) PROVE SessionInv'
  <2>1. LocalInv'
    BY <1>8 DEF CallInv, WaitsSafely, UnlinkSent
  <2>2. Sockets'
    BY <1>8 DEF CallInv, WaitsSafely, UnlinkSent
  <2>3. ASSUME NEW d \in Calls PROVE WaitsSafely(d)'
    <3>1. WaitsSafely(d)
      BY DEF CallInv
    <3>2. WaitsSafely(c) /\ call[c].pc = "unlinking" /\ live' = {}
      <4>1. WaitsSafely(c) /\ call[c].pc = "unlinking" /\ live' = live \ {call[c].sock}
        BY <1>8 DEF UnlinkSent, CallInv
      <4> QED BY <4>1 DEF WaitsSafely
    <3>3. UNCHANGED <<state, opening, shuttingDown, timer, socket, gen>>
      BY <1>8 DEF UnlinkSent
    <3>4. CASE d = c
      <4>1. call'[d] = [pc |-> "ending", op |-> "logout", sock |-> call[c].sock]
        BY <1>8, <3>4 DEF UnlinkSent
      <4>2. state \in Holding \/ shuttingDown
        BY <3>2 DEF WaitsSafely
      <4>3. opening = "no" /\ Disowned(call[c].sock) /\ ~ timer
        BY <3>2 DEF WaitsSafely
      <4> QED BY <3>2, <3>3, <4>1, <4>2, <4>3 DEF WaitsSafely
    <3>5. CASE d # c
      <4>1. call'[d] = call[d]
        BY <1>8, <3>5 DEF UnlinkSent
      <4> QED BY <3>1, <3>2, <3>3, <4>1 DEF WaitsSafely
    <3> QED BY <3>4, <3>5
  <2>4. StartsAlone'
    BY <1>8 DEF StartsAlone, UnlinkSent
  <2> QED BY <1>0, <2>1, <2>2, <2>3, <2>4 DEF CallInv
<1>9. ASSUME NEW c \in Calls, FinishTeardown(c) PROVE SessionInv'
  <2>1. LocalInv'
    BY <1>9 DEF CallInv, WaitsSafely, FinishTeardown, Ended
  <2>2. Sockets'
    BY <1>9 DEF CallInv, WaitsSafely, FinishTeardown, Ended
  <2>3. ASSUME NEW d \in Calls PROVE WaitsSafely(d)'
    <3>1. WaitsSafely(d)
      BY DEF CallInv
    <3>2. UNCHANGED <<opening, shuttingDown, timer, socket, gen, live>>
      BY <1>9 DEF FinishTeardown
    <3>3. PICK op \in {"stop", "halt", "reconnect", "shutdown"} :
            /\ call[c].pc = "ending" /\ call[c].op = op
            /\ call' = [call EXCEPT ![c] =
                          IF op = "reconnect"
                          THEN [pc |-> "starting", op |-> op, sock |-> 0]
                          ELSE [pc |-> "free", op |-> "none", sock |-> 0]]
      BY <1>9 DEF FinishTeardown, Ended
    <3>4. WaitsSafely(c)
      BY DEF CallInv
    <3>5. CASE d = c
      <4>1. call'[d] = IF op = "reconnect"
                       THEN [pc |-> "starting", op |-> op, sock |-> 0]
                       ELSE [pc |-> "free", op |-> "none", sock |-> 0]
        BY <3>3, <3>5
      <4> QED BY <3>2, <3>3, <3>4, <4>1 DEF WaitsSafely
    <3>6. CASE d # c
      <4>1. call'[d] = call[d]
        BY <3>3, <3>6
      \* Another takedown that waits for its socket would need the state.
      <4>2. call[d].pc = "ending" => shuttingDown
        <5>1. call[d].pc = "ending" => call[d].op \in Takedowns \cup {"shutdown"}
          BY <3>1 DEF WaitsSafely, Takedowns, Ops
        <5>2. op \in Takedowns \/ shuttingDown
          BY <3>3, <3>4 DEF WaitsSafely, Takedowns
        <5> QED BY <3>1, <3>3, <3>6, <5>1, <5>2 DEF WaitsSafely, SerialTakedowns
      <4> QED BY <3>1, <3>2, <4>1, <4>2 DEF WaitsSafely
    <3> QED BY <3>5, <3>6
  <2>4. StartsAlone'
    <3>1. opening' = opening /\ shuttingDown' = shuttingDown
      BY <1>9 DEF FinishTeardown
    <3>2. ASSUME NEW d \in Calls, d # c
          PROVE  call'[d] = call[d] /\ (Ready(d) => shuttingDown)
      <4>1. call'[d] = call[d]
        BY <1>9, <3>2 DEF FinishTeardown
      <4>2. CASE call[c].sock # 0
        BY <1>9, <4>1, <4>2 DEF FinishTeardown, Ended
      <4>3. CASE call[c].sock = 0
        <5>1. call[c].op = "shutdown" => shuttingDown
          BY DEF CallInv, WaitsSafely
        <5>2. Ready(c) /\ call[c].op \in Takedowns \cup {"shutdown"}
          BY <1>9, <4>3 DEF FinishTeardown, Ended, Takedowns
        <5>3. CASE call[d].pc = "starting"
          BY <3>2, <4>1, <5>2, <5>3 DEF StartsAlone
        <5>4. CASE call[d].pc \in {"waitStart", "ending", "wiping"}
          <6>1. call[d].op \in Takedowns \cup {"shutdown"}
            BY <5>4 DEF CallInv, WaitsSafely, Takedowns, Ops
          <6>2. call[d].op = "shutdown" => shuttingDown
            BY DEF CallInv, WaitsSafely
          <6> QED BY <3>2, <4>1, <5>1, <5>2, <6>1, <6>2 DEF SerialTakedowns
        <5> QED BY <4>1, <5>3, <5>4
      <4> QED BY <4>1, <4>2, <4>3
    <3>3. ASSUME NEW e \in Calls, NEW d \in Calls, e # d,
                 call'[e].pc = "starting", Ready(d)'
          PROVE  shuttingDown'
      <4>1. CASE d = c
        <5>1. call'[e] = call[e] /\ (Ready(e) => shuttingDown)
          BY <3>2, <3>3, <4>1
        <5> QED BY <3>1, <3>3, <5>1
      <4>2. CASE d # c
        <5>1. Ready(d) /\ (Ready(d) => shuttingDown)
          BY <3>1, <3>2, <3>3, <4>2
        <5> QED BY <3>1, <5>1
      <4> QED BY <4>1, <4>2
    <3> QED BY <3>3 DEF StartsAlone
  <2> QED BY <1>0, <2>1, <2>2, <2>3, <2>4 DEF CallInv
<1>10. ASSUME NEW c \in Calls, FinishOffline(c) PROVE SessionInv'
  <2>1. LocalInv'
    BY <1>10 DEF CallInv, WaitsSafely, FinishOffline, Ended
  <2>2. Sockets'
    BY <1>10 DEF CallInv, WaitsSafely, FinishOffline, Ended
  <2>3. ASSUME NEW d \in Calls PROVE WaitsSafely(d)'
    <3>1. WaitsSafely(d)
      BY DEF CallInv
    <3>2. UNCHANGED <<opening, shuttingDown, timer, socket, gen, live>>
      BY <1>10 DEF FinishOffline
    <3>3. CASE d = c
      BY <1>10, <3>3 DEF WaitsSafely, FinishOffline
    <3>4. CASE d # c
      <4>1. call'[d] = call[d] /\ call[c].op = "offline"
        BY <1>10, <3>4 DEF FinishOffline, Ended
      <4>2. call[d].pc = "ending" => shuttingDown
        <5>1. call[d].pc = "ending" => call[d].op \in Takedowns \cup {"shutdown"}
          BY <3>1 DEF WaitsSafely, Takedowns, Ops
        <5> QED BY <3>1, <3>4, <4>1, <5>1
                DEF WaitsSafely, SerialTakedowns, Takedowns
      <4> QED BY <3>1, <3>2, <4>1, <4>2 DEF WaitsSafely
    <3> QED BY <3>3, <3>4
  <2>4. StartsAlone'
    BY <1>10 DEF StartsAlone, FinishOffline, Ended
  <2> QED BY <1>0, <2>1, <2>2, <2>3, <2>4 DEF CallInv
<1>11. ASSUME NEW c \in Calls, FinishLogout(c) PROVE SessionInv'
  <2>1. LocalInv'
    BY <1>11 DEF CallInv, WaitsSafely, FinishLogout
  <2>2. Sockets'
    BY <1>11 DEF CallInv, WaitsSafely, FinishLogout
  <2>3. ASSUME NEW d \in Calls PROVE WaitsSafely(d)'
    <3>1. WaitsSafely(d)
      BY DEF CallInv
    <3>2. UNCHANGED <<opening, shuttingDown, timer, gen, live>> /\ socket' = 0
      BY <1>11 DEF FinishLogout
    <3>3. CASE d = c
      BY <1>11, <3>2, <3>3 DEF WaitsSafely, FinishLogout
    <3>4. CASE d # c
      <4>1. call'[d] = call[d] /\ call[c].op = "logout"
        BY <1>11, <3>4 DEF FinishLogout, CallInv, WaitsSafely
      <4>2. call[d].op \in Takedowns \cup {"shutdown"} => shuttingDown
        BY <3>1, <3>4, <4>1 DEF WaitsSafely, SerialTakedowns, Takedowns
      <4>3. call[d].pc \in {"unlinking", "ending", "wiping"}
              => call[d].op \in Takedowns \cup {"shutdown"}
        BY <3>1 DEF WaitsSafely, Takedowns, Ops
      <4> QED BY <3>1, <3>2, <4>1, <4>2, <4>3 DEF WaitsSafely
    <3> QED BY <3>3, <3>4
  <2>4. StartsAlone'
    BY <1>11 DEF StartsAlone, FinishLogout
  <2> QED BY <1>0, <2>1, <2>2, <2>3, <2>4 DEF CallInv
<1>12. ASSUME NEW c \in Calls, StartAgain(c) PROVE SessionInv'
  <2>1. LocalInv'
    BY <1>12 DEF CallInv, WaitsSafely, StartAgain, Begin, CanBegin, Open,
       HoldForConsent
  <2>2. Sockets'
    BY <1>12 DEF CallInv, WaitsSafely, StartAgain, Begin, CanBegin, Open,
       HoldForConsent
  <2>3. ASSUME NEW d \in Calls PROVE WaitsSafely(d)'
    <3>1. WaitsSafely(d)
      BY DEF CallInv
    <3>2. UNCHANGED <<shuttingDown, socket, gen, live>> /\ (timer' => timer)
      BY <1>12 DEF StartAgain, Begin
    <3>3. CASE d = c
      BY <1>12, <3>1, <3>2, <3>3 DEF WaitsSafely, StartAgain
    <3>4. CASE d # c
      <4>1. call'[d] = call[d]
        BY <1>12, <3>4 DEF StartAgain
      <4>2. CASE CanBegin
        \* Nothing that start() may begin leaves a socket to wait for.
        <5>1. ~ shuttingDown /\ state \notin Holding /\ opening = "no"
          BY <4>2 DEF CanBegin
        <5>2. ~ Ready(d)
          BY <1>12, <3>4, <5>1 DEF StartAgain, StartsAlone
        <5>3. call[d].pc = "free"
          BY <3>1, <5>1, <5>2 DEF WaitsSafely, Ready, Pcs
        <5> QED BY <3>1, <3>2, <4>1, <5>3 DEF WaitsSafely
      <4>3. CASE ~ CanBegin
        <5>1. UNCHANGED <<state, opening>>
          BY <1>12, <4>3 DEF StartAgain, Begin
        <5> QED BY <3>1, <3>2, <4>1, <5>1 DEF WaitsSafely
      <4> QED BY <4>2, <4>3
    <3> QED BY <3>3, <3>4
  <2>4. StartsAlone'
    BY <1>12 DEF StartsAlone, StartAgain, Begin, CanBegin, Open, HoldForConsent
  <2> QED BY <1>0, <2>1, <2>2, <2>3, <2>4 DEF CallInv
<1>13. ASSUME Adopt PROVE SessionInv'
  <2>1. LocalInv'
    BY <1>13 DEF CallInv, WaitsSafely, Adopt, Overtaken
  <2>2. Sockets'
    BY <1>13 DEF CallInv, WaitsSafely, Adopt, Overtaken
  <2>3. ASSUME NEW d \in Calls PROVE WaitsSafely(d)'
    <3>1. WaitsSafely(d)
      BY DEF CallInv
    <3> QED BY <1>13, <3>1 DEF WaitsSafely, Adopt, Overtaken
  <2>4. StartsAlone'
    BY <1>13 DEF StartsAlone, Adopt, Overtaken
  <2> QED BY <1>0, <2>1, <2>2, <2>3, <2>4 DEF CallInv
<1>14. ASSUME Discard PROVE SessionInv'
  <2>1. LocalInv'
    BY <1>14 DEF CallInv, WaitsSafely, Discard
  <2>2. Sockets'
    BY <1>14 DEF CallInv, WaitsSafely, Discard
  <2>3. ASSUME NEW d \in Calls PROVE WaitsSafely(d)'
    <3>1. WaitsSafely(d)
      BY DEF CallInv
    <3> QED BY <1>14, <3>1 DEF WaitsSafely, Discard
  <2>4. StartsAlone'
    BY <1>14 DEF StartsAlone, Discard
  <2> QED BY <1>0, <2>1, <2>2, <2>3, <2>4 DEF CallInv
<1>15. ASSUME CreateFails PROVE SessionInv'
  <2>1. LocalInv'
    BY <1>15 DEF CallInv, WaitsSafely, CreateFails
  <2>2. Sockets'
    BY <1>15 DEF CallInv, WaitsSafely, CreateFails
  <2>3. ASSUME NEW d \in Calls PROVE WaitsSafely(d)'
    <3>1. WaitsSafely(d)
      BY DEF CallInv
    <3> QED BY <1>15, <3>1 DEF WaitsSafely, CreateFails
  <2>4. StartsAlone'
    BY <1>15 DEF StartsAlone, CreateFails
  <2> QED BY <1>0, <2>1, <2>2, <2>3, <2>4 DEF CallInv
<1>16. ASSUME Discarded PROVE SessionInv'
  <2>1. LocalInv'
    BY <1>16 DEF CallInv, WaitsSafely, Discarded
  <2>2. Sockets'
    BY <1>16 DEF CallInv, WaitsSafely, Discarded
  <2>3. ASSUME NEW d \in Calls PROVE WaitsSafely(d)'
    <3>1. WaitsSafely(d)
      BY DEF CallInv
    <3> QED BY <1>16, <3>1 DEF WaitsSafely, Discarded
  <2>4. StartsAlone'
    BY <1>16 DEF StartsAlone, Discarded
  <2> QED BY <1>0, <2>1, <2>2, <2>3, <2>4 DEF CallInv
<1>17. ASSUME NEW s \in live, QrEvent(s) PROVE SessionInv'
  <2>1. LocalInv'
    BY <1>17 DEF CallInv, WaitsSafely, QrEvent, Current
  <2>2. Sockets'
    BY <1>17 DEF CallInv, WaitsSafely, QrEvent, Current
  <2>3. ASSUME NEW d \in Calls PROVE WaitsSafely(d)'
    <3>1. WaitsSafely(d)
      BY DEF CallInv
    <3> QED BY <1>17, <3>1 DEF WaitsSafely, QrEvent, Current
  <2>4. StartsAlone'
    BY <1>17 DEF StartsAlone, QrEvent, Current
  <2> QED BY <1>0, <2>1, <2>2, <2>3, <2>4 DEF CallInv
<1>18. ASSUME NEW s \in live, NewLogin(s) PROVE SessionInv'
  <2>1. LocalInv'
    BY <1>18 DEF CallInv, WaitsSafely, NewLogin, Current
  <2>2. Sockets'
    BY <1>18 DEF CallInv, WaitsSafely, NewLogin, Current
  <2>3. ASSUME NEW d \in Calls PROVE WaitsSafely(d)'
    <3>1. WaitsSafely(d)
      BY DEF CallInv
    <3> QED BY <1>18, <3>1 DEF WaitsSafely, NewLogin, Current
  <2>4. StartsAlone'
    BY <1>18 DEF StartsAlone, NewLogin, Current
  <2> QED BY <1>0, <2>1, <2>2, <2>3, <2>4 DEF CallInv
<1>19. ASSUME NEW s \in live, CredsUpdate(s) PROVE SessionInv'
  <2>1. LocalInv'
    BY <1>19 DEF CallInv, WaitsSafely, CredsUpdate
  <2>2. Sockets'
    BY <1>19 DEF CallInv, WaitsSafely, CredsUpdate
  <2>3. ASSUME NEW d \in Calls PROVE WaitsSafely(d)'
    <3>1. WaitsSafely(d)
      BY DEF CallInv
    <3> QED BY <1>19, <3>1 DEF WaitsSafely, CredsUpdate
  <2>4. StartsAlone'
    BY <1>19 DEF StartsAlone, CredsUpdate
  <2> QED BY <1>0, <2>1, <2>2, <2>3, <2>4 DEF CallInv
<1>20. ASSUME NEW s \in live, OpenEvent(s) PROVE SessionInv'
  <2>1. LocalInv'
    BY <1>20 DEF CallInv, WaitsSafely, OpenEvent, Current
  <2>2. Sockets'
    BY <1>20 DEF CallInv, WaitsSafely, OpenEvent, Current
  <2>3. ASSUME NEW d \in Calls PROVE WaitsSafely(d)'
    <3>1. WaitsSafely(d)
      BY DEF CallInv
    <3> QED BY <1>20, <3>1 DEF WaitsSafely, OpenEvent, Current
  <2>4. StartsAlone'
    BY <1>20 DEF StartsAlone, OpenEvent, Current
  <2> QED BY <1>0, <2>1, <2>2, <2>3, <2>4 DEF CallInv
<1>21. ASSUME NEW s \in live, NEW c \in Calls, OpenUnsafe(s, c) PROVE SessionInv'
  <2>1. LocalInv'
    BY <1>21 DEF CallInv, WaitsSafely, OpenUnsafe, Current
  <2>2. Sockets'
    BY <1>21 DEF CallInv, WaitsSafely, OpenUnsafe, Current
  <2>3. ASSUME NEW d \in Calls PROVE WaitsSafely(d)'
    <3>1. WaitsSafely(d)
      BY DEF CallInv
    <3> QED BY <1>21, <3>1 DEF WaitsSafely, OpenUnsafe, Current,
               SerialTakedowns, Takedowns
  <2>4. StartsAlone'
    BY <1>21 DEF StartsAlone, OpenUnsafe, Current
  <2> QED BY <1>0, <2>1, <2>2, <2>3, <2>4 DEF CallInv
<1>22. ASSUME NEW s \in live, NEW v \in Verdicts, CloseEvent(s, v) PROVE SessionInv'
  \* A current socket is live: nobody has begun to take it down.
  <2>0. ASSUME Current(s)
        PROVE  socket = gen /\ opening = "no"
               /\ \A d \in Calls : call[d].pc = "free"
    <3>1. socket # 0 /\ socket = gen /\ opening = "no"
      BY <2>0 DEF Current
    <3>2. ASSUME NEW d \in Calls PROVE call[d].pc = "free"
      <4>1. call[d].pc \notin {"waitStart", "starting"}
        BY <1>22, <3>1 DEF CloseEvent
      <4>2. call[d].pc \notin {"unlinking", "ending", "wiping"}
        BY <3>1 DEF CallInv, WaitsSafely
      <4> QED BY <4>1, <4>2 DEF Pcs
    <3> QED BY <3>1, <3>2
  <2>1. LocalInv'
    <3>1. (QrInv /\ OpeningInv /\ TimerInv /\ NoLinkComesBack)'
      BY <1>22 DEF CallInv, WaitsSafely, CloseEvent, Current, OnClose,
         HandleLoggedOut, GiveUp, ScheduleRetry, PauseOffline
    <3>2. CASE Current(s)
      <4>1. socket' = 0 /\ UNCHANGED <<call, opening, shuttingDown>>
            /\ (wiping' => ~ shuttingDown \/ wiping)
        BY <1>22, <3>2 DEF CloseEvent, OnClose, HandleLoggedOut, GiveUp,
                           ScheduleRetry, PauseOffline
      <4>2. ~ wiping
        BY <1>22 DEF CloseEvent
      <4> QED BY <2>0, <3>1, <3>2, <4>1, <4>2
    <3>3. CASE ~ Current(s)
      <4>1. UNCHANGED wiping /\ ~ wiping
        BY <1>22, <3>3 DEF CloseEvent
      <4> QED BY <3>1, <4>1
    <3> QED BY <3>2, <3>3
  <2>2. Sockets'
    BY <1>22 DEF CallInv, WaitsSafely, CloseEvent, Current, OnClose,
       HandleLoggedOut, GiveUp, ScheduleRetry, PauseOffline
  <2>3. ASSUME NEW d \in Calls PROVE WaitsSafely(d)'
    <3>1. WaitsSafely(d)
      BY DEF CallInv
    <3>2. call'[d] = call[d] /\ shuttingDown' = shuttingDown
          /\ live' \subseteq live
      BY <1>22 DEF CloseEvent
    <3>3. CASE Current(s)
      <4>1. call[d].pc = "free"
        BY <2>0, <3>3
      <4> QED BY <3>1, <3>2, <4>1 DEF WaitsSafely
    <3>4. CASE ~ Current(s)
      <4>1. UNCHANGED <<socket, gen, state, timer, opening>>
        BY <1>22, <3>4 DEF CloseEvent
      <4> QED BY <3>1, <3>2, <4>1 DEF WaitsSafely
    <3> QED BY <3>3, <3>4
  <2>4. StartsAlone'
    BY <1>22 DEF StartsAlone, CloseEvent, Current, OnClose, HandleLoggedOut,
       GiveUp, ScheduleRetry, PauseOffline
  <2> QED BY <1>0, <2>1, <2>2, <2>3, <2>4 DEF CallInv
<1>23. ASSUME NEW ok \in BOOLEAN, CodeResult(ok) PROVE SessionInv'
  <2>1. LocalInv'
    BY <1>23 DEF CallInv, WaitsSafely, CodeResult
  <2>2. Sockets'
    BY <1>23 DEF CallInv, WaitsSafely, CodeResult
  <2>3. ASSUME NEW d \in Calls PROVE WaitsSafely(d)'
    <3>1. WaitsSafely(d)
      BY DEF CallInv
    <3> QED BY <1>23, <3>1 DEF WaitsSafely, CodeResult
  <2>4. StartsAlone'
    BY <1>23 DEF StartsAlone, CodeResult
  <2> QED BY <1>0, <2>1, <2>2, <2>3, <2>4 DEF CallInv
<1>24. ASSUME RetryTimer PROVE SessionInv'
  <2>1. LocalInv'
    BY <1>24 DEF CallInv, WaitsSafely, RetryTimer, Open, HoldForConsent
  <2>2. Sockets'
    BY <1>24 DEF CallInv, WaitsSafely, RetryTimer, Open, HoldForConsent
  <2>3. ASSUME NEW d \in Calls PROVE WaitsSafely(d)'
    <3>1. WaitsSafely(d)
      BY DEF CallInv
    <3> QED BY <1>24, <3>1 DEF WaitsSafely, RetryTimer, Open, HoldForConsent
  <2>4. StartsAlone'
    BY <1>24 DEF StartsAlone, RetryTimer, Open, HoldForConsent
  <2> QED BY <1>0, <2>1, <2>2, <2>3, <2>4 DEF CallInv
<1>25. ASSUME ConsentTick PROVE SessionInv'
  <2>1. LocalInv'
    BY <1>25 DEF CallInv, WaitsSafely, ConsentTick, Recheck, Begin, CanBegin,
       Open, HoldForConsent
  <2>2. Sockets'
    BY <1>25 DEF CallInv, WaitsSafely, ConsentTick, Recheck, Begin, CanBegin,
       Open, HoldForConsent
  <2>3. ASSUME NEW d \in Calls PROVE WaitsSafely(d)'
    <3>1. WaitsSafely(d)
      BY DEF CallInv
    <3>2. UNCHANGED <<call, shuttingDown, socket, gen, live>>
          /\ (timer' => timer)
      BY <1>25 DEF ConsentTick, Recheck, Begin
    <3>3. CASE CanBegin
      <4>1. ~ shuttingDown /\ state \notin Holding /\ opening = "no"
        BY <3>3 DEF CanBegin
      <4>2. call[d].pc = "free"
        BY <1>25, <3>1, <4>1 DEF ConsentTick, WaitsSafely, Pcs
      <4> QED BY <3>1, <3>2, <4>2 DEF WaitsSafely
    <3>4. CASE ~ CanBegin
      <4>1. UNCHANGED <<state, opening>>
        BY <1>25, <3>4 DEF ConsentTick, Recheck, Begin
      <4> QED BY <3>1, <3>2, <4>1 DEF WaitsSafely
    <3> QED BY <3>3, <3>4
  <2>4. StartsAlone'
    BY <1>25 DEF StartsAlone, ConsentTick, Recheck, Begin, CanBegin, Open,
       HoldForConsent
  <2> QED BY <1>0, <2>1, <2>2, <2>3, <2>4 DEF CallInv
<1>26. ASSUME RecordChanges PROVE SessionInv'
  <2>1. LocalInv'
    BY <1>26 DEF CallInv, WaitsSafely, RecordChanges
  <2>2. Sockets'
    BY <1>26 DEF CallInv, WaitsSafely, RecordChanges
  <2>3. ASSUME NEW d \in Calls PROVE WaitsSafely(d)'
    <3>1. WaitsSafely(d)
      BY DEF CallInv
    <3> QED BY <1>26, <3>1 DEF WaitsSafely, RecordChanges
  <2>4. StartsAlone'
    BY <1>26 DEF StartsAlone, RecordChanges
  <2> QED BY <1>0, <2>1, <2>2, <2>3, <2>4 DEF CallInv
<1>27. ASSUME Restart PROVE SessionInv'
  <2>1. LocalInv'
    BY <1>27 DEF CallInv, WaitsSafely, Restart
  <2>2. Sockets'
    BY <1>27 DEF CallInv, WaitsSafely, Restart
  <2>3. ASSUME NEW d \in Calls PROVE WaitsSafely(d)'
    <3>1. WaitsSafely(d)
      BY DEF CallInv
    <3> QED BY <1>27, <3>1 DEF WaitsSafely, Restart
  <2>4. StartsAlone'
    BY <1>27 DEF StartsAlone, Restart
  <2> QED BY <1>0, <2>1, <2>2, <2>3, <2>4 DEF CallInv
<1>28. ASSUME UNCHANGED vars PROVE SessionInv'
  <2>1. LocalInv'
    BY <1>28 DEF CallInv, WaitsSafely, vars
  <2>2. Sockets'
    BY <1>28 DEF CallInv, WaitsSafely, vars
  <2>3. ASSUME NEW d \in Calls PROVE WaitsSafely(d)'
    <3>1. WaitsSafely(d)
      BY DEF CallInv
    <3> QED BY <1>28, <3>1 DEF WaitsSafely, vars
  <2>4. StartsAlone'
    BY <1>28 DEF StartsAlone, vars
  <2> QED BY <1>0, <2>1, <2>2, <2>3, <2>4 DEF CallInv
<1>29. ASSUME NEW c \in Calls, WipeCredentials(c) PROVE SessionInv'
  <2>0. /\ WaitsSafely(c)
        /\ call[c].pc = "ending" /\ call[c].op = "logout"
        /\ call' = [call EXCEPT ![c] = [pc |-> "wiping", op |-> "logout",
                                       sock |-> 0]]
    BY <1>29 DEF WipeCredentials, Ended, CallInv
  <2>1. LocalInv'
    BY <1>29, <2>0 DEF WaitsSafely, WipeCredentials, Ended
  <2>2. Sockets'
    BY <1>29, <2>0 DEF WaitsSafely, WipeCredentials
  <2>3. ASSUME NEW d \in Calls PROVE WaitsSafely(d)'
    <3>1. WaitsSafely(d)
      BY DEF CallInv
    <3>2. UNCHANGED <<opening, shuttingDown, timer, gen, live, socket, state>>
      BY <1>29 DEF WipeCredentials
    <3>3. CASE d = c
      BY <2>0, <3>2, <3>3 DEF WaitsSafely
    <3>4. CASE d # c
      <4>1. call'[d] = call[d]
        BY <2>0, <3>4
      <4> QED BY <3>1, <3>2, <4>1 DEF WaitsSafely
    <3> QED BY <3>3, <3>4
  <2>4. StartsAlone'
    BY <1>29, <2>0 DEF StartsAlone, WipeCredentials, Ended
  <2> QED BY <1>0, <2>1, <2>2, <2>3, <2>4 DEF CallInv
<1>30. ASSUME ForgetAccount PROVE SessionInv'
  <2>1. LocalInv'
    BY <1>30 DEF ForgetAccount
  <2>2. Sockets'
    BY <1>30 DEF ForgetAccount
  <2>3. ASSUME NEW d \in Calls PROVE WaitsSafely(d)'
    <3>1. WaitsSafely(d)
      BY DEF CallInv
    <3>2. call[d].pc = "free" /\ call' = call
      BY <1>30 DEF ForgetAccount
    <3> QED BY <1>30, <3>1, <3>2 DEF WaitsSafely, ForgetAccount
  <2>4. StartsAlone'
    BY <1>30 DEF StartsAlone, ForgetAccount
  <2> QED BY <1>0, <2>1, <2>2, <2>3, <2>4 DEF CallInv
<1> QED BY <1>1, <1>2, <1>3, <1>4, <1>5, <1>6, <1>7, <1>8, <1>9, <1>10, <1>11,
           <1>12, <1>13, <1>14, <1>15, <1>16, <1>17, <1>18, <1>19, <1>20,
           <1>21, <1>22, <1>23, <1>24, <1>25, <1>26, <1>27, <1>28, <1>29,
           <1>30 DEF Next, AskedFor, Resume, Created, SocketEvent

\* SerialSpec is Spec with SerialTakedowns throughout.
LEMMA SerialTakedownsHolds == SerialSpec => Spec /\ []SerialTakedowns
<1>1. Init => SerialTakedowns
  BY DEF Init, SerialTakedowns, Takedowns, Free
<1>2. SerialTakedowns /\ UNCHANGED vars => SerialTakedowns'
  BY DEF SerialTakedowns, vars
<1> QED BY <1>1, <1>2, PTL DEF SerialSpec, Spec

\* An operator and a host that wait for each answer keep to SerialTakedowns: what
\* is proved of SerialSpec holds for them without a further assumption.
THEOREM OneAtATimeIsSerial ==
  ASSUME OneAtATime
  PROVE  Spec => SerialSpec
<1>1. [Next]_vars => [Next /\ SerialTakedowns']_vars
  BY DEF SerialTakedowns, OneAtATime
<1> QED BY <1>1, PTL DEF Spec, SerialSpec

\* The invariant of serial use.
THEOREM SessionInvHolds ==
  ASSUME QrPairing
  PROVE  SerialSpec => []SessionInv
<1>1. Init /\ TypeOK => SessionInv
  BY DEF Init, SessionInv, QrInv, SocketInv, OpeningInv, TimerInv, CallInv,
         WaitsSafely, StartsAlone, ShutdownInv, LinkInv, JobsFollowSocket,
         NoLinkComesBack, NoInheritedData, WipingInv, Free
<1>2. SessionInv /\ SerialTakedowns /\ SerialTakedowns' /\ TypeOK' /\ [Next]_vars
        => SessionInv'
  BY SessionStep
<1> QED BY <1>1, <1>2, SerialTakedownsHolds, TypeCorrect, PTL DEF Spec
-----------------------------------------------------------------------------
\* No interleaving of closes, retries, failures and requests leaves a socket
\* running that the session does not point at, unless two of them take it down
\* at once.
THEOREM OneLiveSocketHolds ==
  ASSUME QrPairing
  PROVE  SerialSpec => []OneLiveSocket
<1>1. SessionInv => OneLiveSocket
  BY DEF SessionInv, SocketInv, OneLiveSocket
<1> QED BY <1>1, SessionInvHolds, PTL

\* A pending retry is the only thing going on.
THEOREM RetryWaitsAloneHolds ==
  ASSUME QrPairing
  PROVE  SerialSpec => []RetryWaitsAlone
<1>1. SessionInv => RetryWaitsAlone
  BY DEF SessionInv, SocketInv, OpeningInv, TimerInv, RetryWaitsAlone
<1> QED BY <1>1, SessionInvHolds, PTL

\* Where the session says nothing is running, nothing is.
THEOREM SettledIsQuietHolds ==
  ASSUME QrPairing
  PROVE  SerialSpec => []SettledIsQuiet
<1>1. SessionInv => SettledIsQuiet
  BY DEF SessionInv, SocketInv, OpeningInv, TimerInv, SettledIsQuiet, Holding,
         BUSY_STATES
<1> QED BY <1>1, SessionInvHolds, PTL

\* logout() leaves no connection running: what session_unlink shows takes a
\* second takedown that overlaps it.
THEOREM UnlinkedIsCutOffHolds ==
  ASSUME QrPairing
  PROVE  SerialSpec => []UnlinkedIsCutOff
<1>1. SettledIsQuiet => UnlinkedIsCutOff
  BY DEF SettledIsQuiet, UnlinkedIsCutOff
<1> QED BY <1>1, SettledIsQuietHolds, PTL

\* The scheduled jobs are armed with the live socket or not at all, but for
\* the moment of an unlink.
THEOREM JobsFollowSocketHolds ==
  ASSUME QrPairing
  PROVE  SerialSpec => []JobsFollowSocket
<1>1. SessionInv => JobsFollowSocket
  BY DEF SessionInv, LinkInv
<1> QED BY <1>1, SessionInvHolds, PTL

\* No late write of credentials brings back a link that was wiped.
THEOREM NoLinkComesBackHolds ==
  ASSUME QrPairing
  PROVE  SerialSpec => []NoLinkComesBack
<1>1. SessionInv => NoLinkComesBack
  BY DEF SessionInv, LinkInv
<1> QED BY <1>1, SessionInvHolds, PTL

\* No data of an account outlives its link, but what a wipe that failed or was
\* cut off left behind.
THEOREM NoInheritedDataHolds ==
  ASSUME QrPairing
  PROVE  SerialSpec => []NoInheritedData
<1>1. SessionInv => NoInheritedData
  BY DEF SessionInv, LinkInv
<1> QED BY <1>1, SessionInvHolds, PTL

\* An open begins only while there is no socket and no shutdown.
LEMMA BeginsWithoutSocket ==
  ASSUME SessionInv, [Next]_vars, opening = "no", opening' = "creating"
  PROVE  live = {} /\ ~ shuttingDown'
<1> USE DEF SessionInv, SocketInv, TimerInv, Holding, BUSY_STATES
<1>1. ASSUME NEW m, Begin(m), CanBegin PROVE live = {} /\ ~ shuttingDown
  BY <1>1 DEF CanBegin
<1>2. ASSUME NEW m \in Methods \cup {"none"}, Start(m) PROVE live = {} /\ ~ shuttingDown'
  BY <1>1, <1>2 DEF Start, Begin
<1>3. ASSUME NEW c \in Calls, StartAgain(c) PROVE live = {} /\ ~ shuttingDown'
  BY <1>1, <1>3 DEF StartAgain, Begin
<1>4. ASSUME RetryTimer PROVE live = {} /\ ~ shuttingDown'
  BY <1>4 DEF RetryTimer
<1>5. ASSUME ConsentTick PROVE live = {} /\ ~ shuttingDown'
  BY <1>1, <1>5 DEF ConsentTick, Recheck, Begin
<1>6. ASSUME NEW c \in Calls, AskedFor(c) PROVE FALSE
  BY <1>6 DEF AskedFor, Teardown, Logout, Offline, Online, AcceptTerms
<1>7. ASSUME NEW c \in Calls,
             \/ Proceed(c) \/ UnlinkSent(c) \/ FinishTeardown(c)
             \/ FinishOffline(c) \/ WipeCredentials(c) \/ FinishLogout(c)
      PROVE  FALSE
  BY <1>7 DEF Proceed, UnlinkSent, FinishTeardown, FinishOffline,
              WipeCredentials, FinishLogout
<1>8. ASSUME NEW s \in live, SocketEvent(s) PROVE FALSE
  BY <1>8 DEF SocketEvent, QrEvent, NewLogin, CredsUpdate, OpenEvent,
              OpenUnsafe, CloseEvent
<1>9. ASSUME \/ Created \/ Discarded \/ RecordChanges \/ Restart
             \/ ForgetAccount \/ \E ok \in BOOLEAN : CodeResult(ok)
             \/ UNCHANGED vars
      PROVE  FALSE
  BY <1>9 DEF Created, Adopt, Discard, CreateFails, Discarded, RecordChanges,
              Restart, ForgetAccount, CodeResult, vars
<1> QED BY <1>2, <1>3, <1>4, <1>5, <1>6, <1>7, <1>8, <1>9 DEF Next, Resume

\* start() creates nothing while a socket exists, and no retry, network or
\* Terms path does either.
THEOREM StartIsIdempotentHolds ==
  ASSUME QrPairing
  PROVE  SerialSpec => StartIsIdempotent
<1>1. SessionInv /\ [Next]_vars
        => [opening' = "creating" /\ opening = "no" => live = {}]_vars
  BY BeginsWithoutSocket
<1> QED BY <1>1, SessionInvHolds, SerialTakedownsHolds, PTL
         DEF Spec, StartIsIdempotent
-----------------------------------------------------------------------------
\* Taking the socket down disowns it, or there was nothing to take down.
LEMMA DestroyDisowns ==
  ASSUME SessionInv, DestroySocket
  PROVE  [Owner!Next]_<<live, gen>>
<1> USE DEF SessionInv, SocketInv, DestroySocket, Bury
<1>1. CASE socket = 0
  BY <1>1
<1>2. CASE socket # 0
  <2>1. gen' = gen + 1 /\ live' = {}
    BY <1>2
  <2> QED BY <2>1 DEF Owner!Next, Owner!Fence, Owner!Skip
<1> QED BY <1>1, <1>2

\* The session implements SocketOwner: every step adopts a connection under a
\* fresh number, disowns or releases the one there is, or leaves it alone.
THEOREM ImplementsSocketOwner ==
  ASSUME QrPairing
  PROVE  SerialSpec => OwnsOneConnection
<1>1. Init => Owner!Init
  BY DEF Init, Owner!Init
<1>2. ASSUME SessionInv, [Next]_vars PROVE [Owner!Next]_<<live, gen>>
  <2>1. CASE Adopt
    <3>1. socket = 0
      BY <1>2, <2>1 DEF Adopt, SessionInv, SocketInv
    <3>2. live = {}
      BY <1>2, <3>1 DEF SessionInv, SocketInv
    <3>3. gen' = gen + 1 /\ live' = {gen + 1}
      BY <2>1, <3>2 DEF Adopt
    <3> QED BY <3>2, <3>3 DEF Owner!Next, Owner!Adopt
  <2>2. ASSUME NEW c \in Calls, AskedFor(c) PROVE [Owner!Next]_<<live, gen>>
    <3>1. CASE Offline(c)
      <4>1. DestroySocket
        BY <3>1 DEF Offline
      <4> QED BY <1>2, <4>1, DestroyDisowns
    <3> QED BY <2>2, <3>1 DEF AskedFor, Teardown, Logout, Online, AcceptTerms
  <2>3. ASSUME NEW c \in Calls, Resume(c) PROVE [Owner!Next]_<<live, gen>>
    <3>1. CASE Proceed(c) /\ call[c].op = "logout"
      BY <3>1 DEF Proceed, Owner!Next, Owner!Fence, Owner!Skip
    <3>2. CASE Proceed(c) /\ call[c].op # "logout"
      <4>1. DestroySocket
        BY <3>2 DEF Proceed
      <4> QED BY <1>2, <4>1, DestroyDisowns
    <3>3. CASE UnlinkSent(c)
      <4>1. live' = {} /\ gen' = gen
        BY <1>2, <3>3 DEF UnlinkSent, Bury, SessionInv, SocketInv, CallInv,
                          WaitsSafely, Disowned
      <4> QED BY <4>1 DEF Owner!Next, Owner!Release
    <3> QED BY <2>3, <3>1, <3>2, <3>3
            DEF Resume, FinishTeardown, FinishOffline, WipeCredentials,
                FinishLogout, StartAgain
  <2>4. ASSUME NEW s \in live, SocketEvent(s)
        PROVE  [Owner!Next]_<<live, gen>>
    <3>1. ASSUME NEW v \in Verdicts, CloseEvent(s, v)
          PROVE  [Owner!Next]_<<live, gen>>
      <4>1. live' = {} /\ gen' \in {gen, gen + 1}
        <5>1. live = {s}
          BY <1>2 DEF SessionInv, SocketInv
        <5> QED BY <3>1, <5>1 DEF CloseEvent, Bury
      <4> QED BY <4>1 DEF Owner!Next, Owner!Fence, Owner!Release
    <3> QED BY <2>4, <3>1
            DEF SocketEvent, QrEvent, NewLogin, CredsUpdate, OpenEvent,
                OpenUnsafe
  <2>5. CASE Restart
    BY <2>5 DEF Restart, Owner!Next, Owner!Release
  <2>6. ASSUME NEW m \in Methods \cup {"none"}, Start(m)
        PROVE  [Owner!Next]_<<live, gen>>
    BY <2>6 DEF Start
  <2>7. CASE \/ Discard \/ CreateFails \/ Discarded \/ RetryTimer
             \/ ConsentTick \/ RecordChanges \/ ForgetAccount
             \/ \E ok \in BOOLEAN : CodeResult(ok) \/ UNCHANGED vars
    BY <2>7 DEF Discard, CreateFails, Discarded, RetryTimer, ConsentTick,
                RecordChanges, ForgetAccount, CodeResult, vars
  <2> QED BY <1>2, <2>1, <2>2, <2>3, <2>4, <2>5, <2>6, <2>7 DEF Next, Created
<1> QED BY <1>1, <1>2, SessionInvHolds, SerialTakedownsHolds, PTL
         DEF Spec, OwnsOneConnection, Owner!Spec
-----------------------------------------------------------------------------
(* An install whose host does not report connectivity.                       *)

HostSilent == "network" \notin Requests

\* Every step keeps the invariant of such an install.
LEMMA PanelStep ==
  ASSUME QrPairing, HostSilent, SessionInv, SessionInv', PanelInv,
         SerialTakedowns, SerialTakedowns', [Next]_vars
  PROVE  PanelInv'
<1> USE DEF SerialTakedowns, Takedowns, HostSilent, PanelInv, Dismantling,
        SessionInv, QrInv, SocketInv, OpeningInv, TimerInv, CallInv,
        WaitsSafely, Disowned, ShutdownInv, StartsAlone, TypeOK, NumberType,
        CallType, Holding, BUSY_STATES, Free, Drained, Ready, Suspend, Enter, ClearQr,
        Bury, WipingInv
<1>1. ASSUME NEW m \in Methods \cup {"none"}, Start(m) PROVE PanelInv'
  BY <1>1 DEF Start, Begin, CanBegin, Open, HoldForConsent
<1>2. ASSUME NEW c \in Calls, NEW op \in Ops, Teardown(c, op) PROVE PanelInv'
  BY <1>2, ZenonT(120) DEF Teardown
<1>3. ASSUME NEW c \in Calls, Logout(c) PROVE PanelInv'
  BY <1>3 DEF Logout
<1>4. ASSUME NEW c \in Calls, Offline(c) PROVE PanelInv'
  BY <1>4 DEF Offline, DestroySocket
<1>5. ASSUME NEW c \in Calls, Online(c) PROVE PanelInv'
  BY <1>5 DEF Online
<1>6. ASSUME NEW c \in Calls, AcceptTerms(c) PROVE PanelInv'
  BY <1>6 DEF AcceptTerms
<1>7. ASSUME NEW c \in Calls, Proceed(c) PROVE PanelInv'
  BY <1>7 DEF Proceed, DestroySocket
<1>8. ASSUME NEW c \in Calls, UnlinkSent(c) PROVE PanelInv'
  BY <1>8 DEF UnlinkSent
<1>9. ASSUME NEW c \in Calls, FinishTeardown(c) PROVE PanelInv'
  <2>1. PICK op \in {"stop", "halt", "reconnect", "shutdown"} :
          /\ call[c].pc = "ending" /\ call[c].op = op
          /\ qr' = 0
          /\ state' = IF op = "halt" THEN "error" ELSE "idle"
          /\ parked' = (parked \/ op = "stop")
          /\ call' = [call EXCEPT ![c] =
                        IF op = "reconnect"
                        THEN [pc |-> "starting", op |-> op, sock |-> 0]
                        ELSE [pc |-> "free", op |-> "none", sock |-> 0]]
          /\ online' = online /\ opening' = opening /\ live' = live
          /\ socket' = socket /\ shuttingDown' = shuttingDown
    BY <1>9 DEF FinishTeardown, Ended
  <2>2. socket = 0 /\ opening = "no"
    BY <2>1 DEF CallInv
  <2>3. ASSUME NEW d \in Calls, d # c
        PROVE  /\ call'[d] = call[d]
               /\ \/ shuttingDown
                  \/ call[d].pc # "starting" /\ call[d].op \notin Takedowns
    <3>1. call'[d] = call[d]
      BY <2>1, <2>3
    <3>2. call[d].op \notin Takedowns \/ shuttingDown
      BY <2>1, <2>3
    <3>3. call[d].pc # "starting" \/ shuttingDown
      <4>1. Ready(c) \/ Drained
        BY <1>9 DEF FinishTeardown, Ended
      <4> QED BY <2>3, <4>1
    <3> QED BY <3>1, <3>2, <3>3
  <2>4. /\ call'[c].pc = IF op = "reconnect" THEN "starting" ELSE "free"
        /\ call'[c].op = IF op = "reconnect" THEN op ELSE "none"
    BY <2>1
  <2>5. parked' /\ ~ shuttingDown'
          => /\ state' \in {"idle", "logged_out"}
             /\ socket' = 0 /\ opening' = "no"
             /\ \A d \in Calls : /\ call'[d].pc # "starting"
                                 /\ call'[d].op \notin {"reconnect", "halt"}
    <3> SUFFICES ASSUME parked', ~ shuttingDown'
                 PROVE  /\ op = "stop"
                        /\ \A d \in Calls :
                             /\ call'[d].pc # "starting"
                             /\ call'[d].op \notin {"reconnect", "halt"}
      BY <2>1, <2>2
    <3>1. op # "shutdown"
      BY <2>1
    <3>2. op \notin {"reconnect", "halt"}
      BY <2>1
    <3> QED BY <2>1, <2>3, <2>4, <3>1, <3>2
  <2>6. \A d \in Calls : call'[d].op \notin {"offline", "online"}
    BY <2>1, <2>3, <2>4
  <2> QED BY <2>1, <2>2, <2>5, <2>6 DEF PanelInv
<1>10. ASSUME NEW c \in Calls, FinishOffline(c) PROVE PanelInv'
  BY <1>10 DEF FinishOffline, Ended
<1>11. ASSUME NEW c \in Calls, FinishLogout(c) PROVE PanelInv'
  BY <1>11 DEF FinishLogout
<1>12. ASSUME NEW c \in Calls, StartAgain(c) PROVE PanelInv'
  BY <1>12 DEF StartAgain, Begin, CanBegin, Open, HoldForConsent
<1>13. ASSUME Adopt PROVE PanelInv'
  BY <1>13 DEF Adopt, Overtaken
<1>14. ASSUME Discard PROVE PanelInv'
  BY <1>14 DEF Discard
<1>15. ASSUME CreateFails PROVE PanelInv'
  BY <1>15 DEF CreateFails
<1>16. ASSUME Discarded PROVE PanelInv'
  BY <1>16 DEF Discarded
<1>17. ASSUME NEW s \in live, QrEvent(s) PROVE PanelInv'
  BY <1>17 DEF QrEvent, Current
<1>18. ASSUME NEW s \in live, NewLogin(s) PROVE PanelInv'
  BY <1>18 DEF NewLogin, Current
<1>19. ASSUME NEW s \in live, CredsUpdate(s) PROVE PanelInv'
  BY <1>19 DEF CredsUpdate
<1>20. ASSUME NEW s \in live, OpenEvent(s) PROVE PanelInv'
  BY <1>20 DEF OpenEvent, Current
<1>21. ASSUME NEW s \in live, NEW c \in Calls, OpenUnsafe(s, c) PROVE
       PanelInv'
  BY <1>21 DEF OpenUnsafe, Current
<1>22. ASSUME NEW s \in live, NEW v \in Verdicts, CloseEvent(s, v) PROVE
       PanelInv'
  BY <1>22 DEF CloseEvent, Current, OnClose, HandleLoggedOut, GiveUp,
         ScheduleRetry, PauseOffline
<1>23. ASSUME NEW ok \in BOOLEAN, CodeResult(ok) PROVE PanelInv'
  BY <1>23 DEF CodeResult
<1>24. ASSUME RetryTimer PROVE PanelInv'
  BY <1>24 DEF RetryTimer, Open, HoldForConsent
<1>25. ASSUME ConsentTick PROVE PanelInv'
  BY <1>25 DEF ConsentTick, Recheck, Begin, CanBegin, Open, HoldForConsent
<1>26. ASSUME RecordChanges PROVE PanelInv'
  BY <1>26 DEF RecordChanges
<1>27. ASSUME Restart PROVE PanelInv'
  BY <1>27 DEF Restart
<1>28. ASSUME UNCHANGED vars PROVE PanelInv'
  BY <1>28 DEF vars
<1>29. ASSUME NEW c \in Calls, WipeCredentials(c) PROVE PanelInv'
  BY <1>29 DEF WipeCredentials, Ended
<1>30. ASSUME ForgetAccount PROVE PanelInv'
  BY <1>30 DEF ForgetAccount
<1> QED BY <1>1, <1>2, <1>3, <1>4, <1>5, <1>6, <1>7, <1>8, <1>9, <1>10, <1>11,
           <1>12, <1>13, <1>14, <1>15, <1>16, <1>17, <1>18, <1>19, <1>20,
           <1>21, <1>22, <1>23, <1>24, <1>25, <1>26, <1>27, <1>28, <1>29,
           <1>30 DEF Next, AskedFor, Resume, Created, SocketEvent

\* What the host's silence adds to the invariant of serial use.
THEOREM PanelInvHolds ==
  ASSUME QrPairing, HostSilent
  PROVE  SerialSpec => []PanelInv
<1>1. Init => PanelInv
  BY DEF Init, PanelInv, Free
<1>2. SessionInv /\ SessionInv' /\ PanelInv /\ SerialTakedowns
      /\ SerialTakedowns' /\ [Next]_vars
        => PanelInv'
  BY PanelStep
<1> QED BY <1>1, <1>2, SessionInvHolds, SerialTakedownsHolds, PTL DEF Spec

\* A code on offer between requests is one of the live socket, or goes with
\* the retry that is pending.
THEOREM CodeBelongsToSocketHolds ==
  ASSUME QrPairing, HostSilent
  PROVE  SerialSpec => []CodeBelongsToSocket
<1>1. SessionInv /\ PanelInv => CodeBelongsToSocket
  BY DEF SessionInv, QrInv, PanelInv, Dismantling, CodeBelongsToSocket
<1> QED BY <1>1, SessionInvHolds, PanelInvHolds, PTL

\* A session the operator stopped or unlinked is opened by the operator alone:
\* whatever else fires finds no socket on its way, before or after.
THEOREM StoppedStaysStoppedHolds ==
  ASSUME QrPairing, HostSilent
  PROVE  SerialSpec => StoppedStaysStopped
<1>1. SessionInv /\ [Next]_vars /\ PanelInv'
        => [opening' = "creating" /\ opening = "no" => ~ parked']_vars
  BY BeginsWithoutSocket DEF PanelInv
<1> QED BY <1>1, SessionInvHolds, PanelInvHolds, SerialTakedownsHolds, PTL
         DEF Spec, StoppedStaysStopped
=============================================================================
