---------------------------- MODULE PasswordReset ----------------------------
(* The two ways to prove that one is the operator without the password: a     *)
(* reset code sent over WhatsApp or by email, of which one is pending at a     *)
(* time, and the recovery address those emails go to, which is verified with   *)
(* the relay. Every send is an await during which other requests run; the      *)
(* code, the verification and all counters are in memory, the address is       *)
(* stored. The throttles only refuse requests: here any request may be         *)
(* refused, and one that is has no effect.                                     *)
EXTENDS Naturals, Sequences

CONSTANTS Addresses,    \* email addresses
          ResetCalls,   \* calls of requestResetCode that can be in flight together
          VerifyCalls,  \* calls of startVerification
          GuessCalls,   \* calls of confirmVerification
          MaxAttempts,  \* MAX_CODE_ATTEMPTS
          MaxFailures,  \* MAX_FAILED_CODES_PER_DAY
          ResetBudget   \* bound on calls, restarts and days

ASSUME ResetAssumption ==
  /\ MaxAttempts \in Nat \ {0}
  /\ MaxFailures \in Nat \ {0}
  /\ ResetBudget \in Nat
  /\ "none" \notin Addresses

NoAddress == "none"

NoRecord == [email |-> NoAddress, token |-> 0, verified |-> FALSE]

NoCode == [gen |-> 0, channel |-> "none", email |-> NoAddress, attempts |-> 0, period |-> 0]

NoVerification == [id |-> 0, email |-> NoAddress, inFlight |-> FALSE]

NoReset == [pc |-> "idle", channel |-> "none", to |-> NoAddress, token |-> 0,
            gen |-> 0, emailGen |-> 0, period |-> 0]

NoVerify == [pc |-> "idle", email |-> NoAddress, gen |-> 0]

NoGuess == [pc |-> "idle", id |-> 0, email |-> NoAddress, answer |-> "none", removals |-> 0]

VARIABLES
  record,           \* the sealed row: address, relay token, may it be used
  pending,          \* the reset code that can be redeemed
  resetGeneration,
  emailGeneration,
  failures,         \* wrong codes of the last day
  resets,           \* the calls of requestResetCode awaiting their send
  pendingVerify,    \* the verification that can be confirmed
  verifyGeneration,
  verifies,         \* the calls of startVerification awaiting the relay
  guesses,          \* the calls of confirmVerification awaiting the relay
  relay,            \* relay: relay[i] says whether verification i is open
  newest,           \* history: the newest request whose code became pending
  period,           \* history: how often the usable address has changed
  removals,         \* history: how often the operator removed the address
  closed,           \* history: verifications given up on this side
  resetBudget

codes == <<pending, resetGeneration, emailGeneration, failures, resets, newest>>
checks == <<pendingVerify, verifyGeneration, verifies, guesses, relay, closed>>
address == <<record, period, removals>>
resetVars == <<codes, checks, address, resetBudget>>

SpendReset == resetBudget > 0 /\ resetBudget' = resetBudget - 1

\* getAddress: the address a code may be sent to.
Usable(r) == IF r.verified THEN r.email ELSE NoAddress

ResetInit ==
  /\ record = NoRecord
  /\ pending = NoCode
  /\ resetGeneration = 0 /\ emailGeneration = 0 /\ failures = 0
  /\ resets = [c \in ResetCalls |-> NoReset]
  /\ pendingVerify = NoVerification
  /\ verifyGeneration = 0
  /\ verifies = [c \in VerifyCalls |-> NoVerify]
  /\ guesses = [c \in GuessCalls |-> NoGuess]
  /\ relay = <<>>
  /\ newest = 0 /\ period = 0 /\ removals = 0 /\ closed = {}
  /\ resetBudget = ResetBudget
-----------------------------------------------------------------------------
(* Changing the stored address                                                *)

\* Mutant: a send in flight is not told that the address changed.
NoteCodeOnly(new) ==
  /\ pending' = IF pending.channel = "email" /\ pending.email # new THEN NoCode ELSE pending
  /\ UNCHANGED emailGeneration

\* noteRecoveryAddress: an email code of another address is dropped, and an
\* email still being sent will not become the pending code.
NoteAddress(new) ==
  /\ pending' = IF pending.channel = "email" /\ pending.email # new THEN NoCode ELSE pending
  /\ emailGeneration' = emailGeneration + 1

SetRecord(new) ==
  /\ record' = new
  /\ period' = IF Usable(new) = Usable(record) THEN period ELSE period + 1
-----------------------------------------------------------------------------
(* Reset codes                                                                *)

RequestWhatsApp(c) ==
  /\ SpendReset
  /\ resets[c].pc = "idle"
  /\ failures < MaxFailures
  /\ resetGeneration' = resetGeneration + 1
  /\ resets' = [resets EXCEPT ![c] = [NoReset EXCEPT !.pc = "sending", !.channel = "whatsapp",
                                                     !.gen = resetGeneration + 1, !.period = period]]
  /\ UNCHANGED <<pending, emailGeneration, failures, newest, checks, address>>

RequestEmail(c) ==
  /\ SpendReset
  /\ resets[c].pc = "idle"
  /\ failures < MaxFailures
  /\ record.verified
  /\ resetGeneration' = resetGeneration + 1
  /\ emailGeneration' = emailGeneration + 1
  /\ resets' = [resets EXCEPT ![c] = [pc |-> "sending", channel |-> "email", to |-> record.email,
                                      token |-> record.token, gen |-> resetGeneration + 1,
                                      emailGen |-> emailGeneration + 1, period |-> period]]
  /\ UNCHANGED <<pending, failures, newest, checks, address>>

\* A send that fails leaves the pending code alone.
SendFails(c) ==
  /\ resets[c].pc = "sending"
  /\ resets' = [resets EXCEPT ![c] = NoReset]
  /\ UNCHANGED <<pending, resetGeneration, emailGeneration, failures, newest, checks, address, resetBudget>>

\* The relay refuses the token: the record it belongs to must be verified again.
Unverified(c) ==
  /\ resets[c].pc = "sending"
  /\ resets[c].channel = "email"
  /\ resets' = [resets EXCEPT ![c] = NoReset]
  /\ IF record.email = resets[c].to /\ record.token = resets[c].token
       THEN SetRecord([record EXCEPT !.verified = FALSE]) /\ NoteAddress(NoAddress)
       ELSE UNCHANGED <<record, period, pending, emailGeneration>>
  /\ UNCHANGED <<resetGeneration, failures, newest, checks, removals, resetBudget>>

\* Mutant: whichever send ends last gives the pending code.
OwnsSlotAlways(call) ==
  call.channel = "email" => call.emailGen = emailGeneration /\ Usable(record) = call.to

\* May the code of this call become the pending one? Not after a newer
\* request, and not, for an email, after the address changed.
OwnsSlot(call) ==
  /\ call.gen = resetGeneration
  /\ call.channel = "email" => call.emailGen = emailGeneration /\ Usable(record) = call.to

Sent(c) ==
  /\ resets[c].pc = "sending"
  /\ resets' = [resets EXCEPT ![c] = NoReset]
  /\ IF OwnsSlot(resets[c])
       THEN /\ pending' = [gen |-> resets[c].gen, channel |-> resets[c].channel, email |-> resets[c].to,
                           attempts |-> 0, period |-> resets[c].period]
            /\ newest' = IF resets[c].gen > newest THEN resets[c].gen ELSE newest
       ELSE UNCHANGED <<pending, newest>>
  /\ UNCHANGED <<resetGeneration, emailGeneration, failures, checks, address, resetBudget>>

\* completeReset, when no guess is weighed: the day's budget is used up, the
\* code has expired, or its address is no longer the usable one.
DropCode ==
  /\ SpendReset
  /\ pending # NoCode
  /\ pending' = NoCode
  /\ UNCHANGED <<resetGeneration, emailGeneration, failures, resets, newest, checks, address>>

Redeemable ==
  /\ pending # NoCode
  /\ failures < MaxFailures
  /\ pending.channel = "email" => Usable(record) = pending.email

WrongCode ==
  /\ SpendReset
  /\ Redeemable
  /\ failures' = failures + 1
  /\ pending' = IF pending.attempts + 1 >= MaxAttempts THEN NoCode
                ELSE [pending EXCEPT !.attempts = @ + 1]
  /\ UNCHANGED <<resetGeneration, emailGeneration, resets, newest, checks, address>>

\* The code matches and the password is set. With a password that is refused
\* the attempt is given back and nothing has changed.
Redeem ==
  /\ SpendReset
  /\ Redeemable
  /\ pending' = NoCode
  /\ UNCHANGED <<resetGeneration, emailGeneration, failures, resets, newest, checks, address>>

DayPasses ==
  /\ SpendReset
  /\ failures > 0 /\ failures' = 0
  /\ UNCHANGED <<pending, resetGeneration, emailGeneration, resets, newest, checks, address>>
-----------------------------------------------------------------------------
(* The recovery address                                                       *)

StartVerification(c, email) ==
  /\ SpendReset
  /\ verifies[c].pc = "idle"
  /\ verifyGeneration' = verifyGeneration + 1
  /\ verifies' = [verifies EXCEPT ![c] = [pc |-> "sending", email |-> email, gen |-> verifyGeneration + 1]]
  /\ UNCHANGED <<codes, pendingVerify, guesses, relay, closed, address>>

Close == closed' = IF pendingVerify = NoVerification THEN closed ELSE closed \cup {pendingVerify.id}

\* The relay accepts: it has a new open verification, of which this side takes
\* note unless a newer request or a removal came between.
VerificationSent(c) ==
  /\ verifies[c].pc = "sending"
  /\ verifies' = [verifies EXCEPT ![c] = NoVerify]
  /\ relay' = Append(relay, "open")
  /\ IF verifies[c].gen = verifyGeneration
       THEN /\ pendingVerify' = [id |-> Len(relay) + 1, email |-> verifies[c].email, inFlight |-> FALSE]
            /\ Close
       ELSE UNCHANGED <<pendingVerify, closed>>
  /\ UNCHANGED <<codes, verifyGeneration, guesses, address, resetBudget>>

VerificationFails(c) ==
  /\ verifies[c].pc = "sending"
  /\ verifies' = [verifies EXCEPT ![c] = NoVerify]
  /\ UNCHANGED <<codes, pendingVerify, verifyGeneration, guesses, relay, closed, address, resetBudget>>

\* Mutant: guesses are not taken one at a time.
MayGuessAnyTime == pendingVerify # NoVerification

MayGuess == pendingVerify # NoVerification /\ ~pendingVerify.inFlight

Guess(c) ==
  /\ SpendReset
  /\ guesses[c].pc = "idle"
  /\ MayGuess
  /\ pendingVerify' = [pendingVerify EXCEPT !.inFlight = TRUE]
  /\ guesses' = [guesses EXCEPT ![c] = [pc |-> "sent", id |-> pendingVerify.id, email |-> pendingVerify.email,
                                        answer |-> "none", removals |-> removals]]
  /\ UNCHANGED <<codes, verifyGeneration, verifies, relay, closed, address>>

\* A guess that comes after the ten minutes only drops the verification.
GuessTooLate ==
  /\ SpendReset
  /\ pendingVerify # NoVerification
  /\ pendingVerify' = NoVerification
  /\ Close
  /\ UNCHANGED <<codes, verifyGeneration, verifies, guesses, relay, address>>

\* The relay weighs a guess: a match closes the verification and earns a token,
\* so does running out of attempts, without one; its answer may get lost.
RelayAnswers(c, answer) ==
  /\ guesses[c].pc = "sent"
  /\ \/ /\ relay[guesses[c].id] = "open"
        /\ \/ answer = "wrong_code" /\ UNCHANGED relay
           \/ /\ answer \in {"matched", "too_many_attempts", "unavailable"}
              /\ relay' = [relay EXCEPT ![guesses[c].id] = "over"]
     \/ relay[guesses[c].id] = "over" /\ answer = "no_pending" /\ UNCHANGED relay
     \/ answer = "unavailable" /\ UNCHANGED relay
  /\ guesses' = [guesses EXCEPT ![c].pc = "answered", ![c].answer = answer]
  /\ UNCHANGED <<codes, pendingVerify, verifyGeneration, verifies, closed, address, resetBudget>>

\* Mutant: the answer is taken for the verification at hand, whichever it is.
AnsweredAny(guess) == pendingVerify # NoVerification

\* Is the verification the guess was for still the one at hand?
AnsweredCurrent(guess) == pendingVerify.id = guess.id

Dead == {"too_many_attempts", "no_pending"}

\* The relay's answer arrives; storing the address may fail.
GuessAnswered(c, stores) ==
  /\ guesses[c].pc = "answered"
  /\ guesses' = [guesses EXCEPT ![c] = NoGuess]
  /\ LET current == AnsweredCurrent(guesses[c])
         matched == guesses[c].answer = "matched"
     IN /\ CASE current /\ matched /\ stores ->
                  /\ SetRecord([email |-> guesses[c].email, token |-> guesses[c].id, verified |-> TRUE])
                  /\ NoteAddress(guesses[c].email)
             [] OTHER -> UNCHANGED <<record, period, pending, emailGeneration>>
        /\ pendingVerify' = CASE ~current -> pendingVerify
                              [] current /\ ((matched /\ stores) \/ guesses[c].answer \in Dead) -> NoVerification
                              [] OTHER -> [pendingVerify EXCEPT !.inFlight = FALSE]
  /\ UNCHANGED <<resetGeneration, failures, resets, newest, verifyGeneration, verifies, relay, closed,
                 removals, resetBudget>>

RemoveAddress ==
  /\ SpendReset
  /\ pendingVerify' = NoVerification /\ Close
  /\ verifyGeneration' = verifyGeneration + 1
  /\ SetRecord(NoRecord)
  /\ NoteAddress(NoAddress)
  /\ removals' = removals + 1
  /\ UNCHANGED <<resetGeneration, failures, resets, newest, verifies, guesses, relay>>

\* The process starts again: only the record is left.
Restart ==
  /\ SpendReset
  /\ pending' = NoCode
  /\ resetGeneration' = 0 /\ emailGeneration' = 0 /\ failures' = 0 /\ newest' = 0
  /\ resets' = [c \in ResetCalls |-> NoReset]
  /\ pendingVerify' = NoVerification /\ Close
  /\ verifyGeneration' = 0
  /\ verifies' = [c \in VerifyCalls |-> NoVerify]
  /\ guesses' = [c \in GuessCalls |-> NoGuess]
  /\ UNCHANGED <<relay, address>>

ResetNext ==
  \/ \E c \in ResetCalls :
       RequestWhatsApp(c) \/ RequestEmail(c) \/ SendFails(c) \/ Unverified(c) \/ Sent(c)
  \/ DropCode \/ WrongCode \/ Redeem \/ DayPasses
  \/ \E c \in VerifyCalls :
       \/ \E email \in Addresses : StartVerification(c, email)
       \/ VerificationSent(c) \/ VerificationFails(c)
  \/ \E c \in GuessCalls :
       \/ Guess(c)
       \/ \E answer \in {"matched", "wrong_code", "too_many_attempts", "no_pending", "unavailable"} :
            RelayAnswers(c, answer)
       \/ \E stores \in BOOLEAN : GuessAnswered(c, stores)
  \/ GuessTooLate \/ RemoveAddress \/ Restart

ResetSpec == ResetInit /\ [][ResetNext]_resetVars
-----------------------------------------------------------------------------
(* Properties                                                                 *)

Code == [gen : Nat, channel : {"none", "whatsapp", "email"}, email : Addresses \cup {NoAddress},
         attempts : 0..MaxAttempts, period : Nat]

ResetCall == [pc : {"idle", "sending"}, channel : {"none", "whatsapp", "email"},
              to : Addresses \cup {NoAddress}, token : Nat, gen : Nat, emailGen : Nat, period : Nat]

Verify == [pc : {"idle", "sending"}, email : Addresses \cup {NoAddress}, gen : Nat]

Guessing == [pc : {"idle", "sent", "answered"}, id : Nat, email : Addresses \cup {NoAddress},
             answer : {"none", "matched", "unavailable", "wrong_code"} \cup Dead, removals : Nat]

CodesTypeOK ==
  /\ pending \in Code
  /\ resetGeneration \in Nat /\ emailGeneration \in Nat
  /\ failures \in 0..MaxFailures
  /\ resets \in [ResetCalls -> ResetCall]
  /\ newest \in Nat

ChecksTypeOK ==
  /\ relay \in Seq({"open", "over"})
  /\ pendingVerify \in [id : 0..Len(relay), email : Addresses \cup {NoAddress}, inFlight : BOOLEAN]
  /\ verifyGeneration \in Nat
  /\ verifies \in [VerifyCalls -> Verify]
  /\ guesses \in [GuessCalls -> Guessing]
  /\ \A c \in GuessCalls : guesses[c].id \in 0..Len(relay)
  /\ closed \subseteq 0..Len(relay)

AddressTypeOK ==
  /\ record \in [email : Addresses \cup {NoAddress}, token : Nat, verified : BOOLEAN]
  /\ period \in Nat /\ removals \in Nat

\* The codes, the verification and the calls in flight have their shape; the
\* day's wrong codes stay within their budget; a guess is of a verification
\* the relay has.
ResetTypeOK ==
  /\ CodesTypeOK
  /\ ChecksTypeOK
  /\ AddressTypeOK
  /\ resetBudget \in 0..ResetBudget

\* Of two codes on their way, whatever the order their sends end in and
\* whichever of them fails: the pending one gives way only to a code that was
\* asked for after it and after every code that was pending before.
NewerCodeWins ==
  [][pending'.gen \notin {0, pending.gen} => pending'.gen > newest]_resetVars

\* An emailed code can be redeemed only while the address it went to has been
\* the usable one without a break since the code was asked for: not when it was
\* removed, replaced or refused by the relay while the email was being sent,
\* even if it has come back since.
EmailCodeDiesWithAddress == pending.channel = "email" => pending.period = period

\* "Removed, replaced or already confirmed while this guess was in flight"
\* (recovery-email.cjs:270): an address the operator removed does not come back
\* with the answer to a guess made before the removal, also when he has started
\* to verify another one meanwhile.
RemoveIsFinal ==
  [][record' # record /\ record'.verified
       => \E c \in GuessCalls : guesses[c].pc = "answered" /\ guesses[c].removals = removals]_resetVars

\* A token the relay gave and that arrives is stored if the storing works,
\* unless the operator gave that verification up: an answer to another guess
\* at it that comes in between does not lose it.
TokenIsNotLost ==
  [][\A c \in GuessCalls :
       GuessAnswered(c, TRUE) /\ guesses[c].answer = "matched" /\ guesses[c].id \notin closed
         => record'.token = guesses[c].id /\ record'.verified]_resetVars
=============================================================================
