-------------------------- MODULE PasswordResetProofs --------------------------
(* Proofs about the reset codes and the recovery address, for every number of *)
(* calls in flight, every limit and every budget.                              *)
EXTENDS PasswordReset, TLAPS

Emails == Addresses \cup {NoAddress}

\* The idle values have their types.
LEMMA IdleTypes ==
  /\ NoReset \in ResetCall /\ NoCode \in Code /\ NoVerify \in Verify /\ NoGuess \in Guessing
  /\ NoRecord \in [email : Emails, token : Nat, verified : BOOLEAN]
  /\ \A n \in Nat : NoVerification \in [id : 0..n, email : Emails, inFlight : BOOLEAN]
<1>1. NoReset \in ResetCall
  BY DEF ResetCall, NoReset
<1>2. NoCode \in Code
  BY ResetAssumption DEF Code, NoCode
<1>3. NoVerify \in Verify
  BY DEF Verify, NoVerify
<1>4. NoGuess \in Guessing
  BY DEF Guessing, NoGuess
<1>5. NoRecord \in [email : Emails, token : Nat, verified : BOOLEAN]
  BY DEF NoRecord, Emails
<1>6. \A n \in Nat : NoVerification \in [id : 0..n, email : Emails, inFlight : BOOLEAN]
  BY DEF NoVerification, Emails
<1> QED
  BY <1>1, <1>2, <1>3, <1>4, <1>5, <1>6

\* The types hold at first.
LEMMA ResetTypeInit == ResetInit => ResetTypeOK
<1> SUFFICES ASSUME ResetInit PROVE ResetTypeOK
  OBVIOUS
<1>1. CodesTypeOK
  BY IdleTypes, ResetAssumption DEF ResetInit, CodesTypeOK
<1>2. Len(relay) = 0 /\ relay \in Seq({"open", "over"})
  BY DEF ResetInit
<1>3. \A c \in GuessCalls : guesses[c].id = 0
  BY DEF ResetInit, NoGuess
<1>4. ChecksTypeOK
  BY <1>2, <1>3, IdleTypes DEF ResetInit, ChecksTypeOK, Emails
<1>5. AddressTypeOK
  BY IdleTypes DEF ResetInit, AddressTypeOK, Emails
<1> QED
  BY <1>1, <1>4, <1>5, ResetAssumption DEF ResetInit, ResetTypeOK

\* A group of variables that stands keeps its type.
LEMMA Standstill ==
  /\ CodesTypeOK /\ UNCHANGED codes => CodesTypeOK'
  /\ ChecksTypeOK /\ UNCHANGED checks => ChecksTypeOK'
  /\ AddressTypeOK /\ UNCHANGED address => AddressTypeOK'
<1>1. CodesTypeOK /\ UNCHANGED codes => CodesTypeOK'
  BY DEF CodesTypeOK, codes
<1>2. ChecksTypeOK /\ UNCHANGED checks => ChecksTypeOK'
  BY DEF ChecksTypeOK, checks
<1>3. AddressTypeOK /\ UNCHANGED address => AddressTypeOK'
  BY DEF AddressTypeOK, address
<1> QED
  BY <1>1, <1>2, <1>3

\* The budget only shrinks.
LEMMA Spent == ASSUME ResetTypeOK, SpendReset PROVE resetBudget' \in 0..ResetBudget
BY ResetAssumption DEF ResetTypeOK, SpendReset

\* Writing the record keeps the types, and so does dropping a code over it.
LEMMA AddressWritten ==
  ASSUME ResetTypeOK, NEW new \in [email : Emails, token : Nat, verified : BOOLEAN], SetRecord(new)
  PROVE  record' = new /\ record' \in [email : Emails, token : Nat, verified : BOOLEAN] /\ period' \in Nat
BY DEF SetRecord, ResetTypeOK, AddressTypeOK

LEMMA AddressNoted ==
  ASSUME ResetTypeOK, NEW new, NoteAddress(new)
  PROVE  pending' \in Code /\ emailGeneration' \in Nat
BY IdleTypes DEF NoteAddress, ResetTypeOK, CodesTypeOK

\* The calls of requestResetCode keep the types.
LEMMA RequestTypes ==
  ASSUME ResetTypeOK, NEW c \in ResetCalls,
         RequestWhatsApp(c) \/ RequestEmail(c) \/ SendFails(c) \/ Unverified(c) \/ Sent(c)
  PROVE  ResetTypeOK'
<1>1. /\ resetGeneration + 1 \in Nat /\ emailGeneration + 1 \in Nat /\ period \in Nat
      /\ record.email \in Emails /\ record.token \in Nat
      /\ resets \in [ResetCalls -> ResetCall]
  BY DEF ResetTypeOK, CodesTypeOK, AddressTypeOK, Emails
<1>2. CASE RequestWhatsApp(c)
  <2>1. [NoReset EXCEPT !.pc = "sending", !.channel = "whatsapp", !.gen = resetGeneration + 1, !.period = period] \in ResetCall
    BY <1>1 DEF ResetCall, NoReset
  <2>2. CodesTypeOK'
    BY <1>1, <1>2, <2>1 DEF RequestWhatsApp, ResetTypeOK, CodesTypeOK
  <2> QED
    BY <1>2, <2>2, Standstill, Spent DEF RequestWhatsApp, ResetTypeOK
<1>3. CASE RequestEmail(c)
  <2>1. [pc |-> "sending", channel |-> "email", to |-> record.email, token |-> record.token,
         gen |-> resetGeneration + 1, emailGen |-> emailGeneration + 1, period |-> period] \in ResetCall
    BY <1>1 DEF ResetCall, Emails
  <2>2. CodesTypeOK'
    BY <1>1, <1>3, <2>1 DEF RequestEmail, ResetTypeOK, CodesTypeOK
  <2> QED
    BY <1>3, <2>2, Standstill, Spent DEF RequestEmail, ResetTypeOK
<1>4. CASE SendFails(c)
  <2>1. CodesTypeOK'
    BY <1>4, IdleTypes DEF SendFails, ResetTypeOK, CodesTypeOK
  <2> QED
    BY <1>4, <2>1, Standstill DEF SendFails, ResetTypeOK
<1>5. CASE Unverified(c)
  <2>1. [record EXCEPT !.verified = FALSE] \in [email : Emails, token : Nat, verified : BOOLEAN]
    BY DEF ResetTypeOK, AddressTypeOK, Emails
  <2>2. pending' \in Code /\ emailGeneration' \in Nat
    BY <1>5, AddressNoted DEF Unverified, ResetTypeOK, CodesTypeOK
  <2>3. record' \in [email : Emails, token : Nat, verified : BOOLEAN] /\ period' \in Nat
    BY <1>5, <2>1, AddressWritten DEF Unverified, ResetTypeOK, AddressTypeOK, Emails
  <2>4. CodesTypeOK'
    BY <1>5, <2>2, IdleTypes DEF Unverified, ResetTypeOK, CodesTypeOK
  <2>5. AddressTypeOK'
    BY <1>5, <2>3 DEF Unverified, ResetTypeOK, AddressTypeOK, Emails
  <2> QED
    BY <1>5, <2>4, <2>5, Standstill DEF Unverified, ResetTypeOK
<1>6. CASE Sent(c)
  <2>1. [gen |-> resets[c].gen, channel |-> resets[c].channel, email |-> resets[c].to,
         attempts |-> 0, period |-> resets[c].period] \in Code
    BY <1>1, ResetAssumption DEF ResetCall, Code
  <2>2. resets[c].gen \in Nat
    BY <1>1 DEF ResetCall
  <2>3. CodesTypeOK'
    BY <1>6, <2>1, <2>2, IdleTypes DEF Sent, ResetTypeOK, CodesTypeOK
  <2> QED
    BY <1>6, <2>3, Standstill DEF Sent, ResetTypeOK
<1> QED
  BY <1>2, <1>3, <1>4, <1>5, <1>6

\* So do the redemptions and the day.
LEMMA RedeemTypes ==
  ASSUME ResetTypeOK, DropCode \/ WrongCode \/ Redeem \/ DayPasses
  PROVE  ResetTypeOK'
<1>1. CASE DropCode
  <2>1. CodesTypeOK'
    BY <1>1, IdleTypes DEF DropCode, ResetTypeOK, CodesTypeOK
  <2> QED
    BY <1>1, <2>1, Standstill, Spent DEF DropCode, ResetTypeOK
<1>2. CASE WrongCode
  <2>1. pending.attempts + 1 < MaxAttempts => [pending EXCEPT !.attempts = pending.attempts + 1] \in Code
    BY ResetAssumption DEF ResetTypeOK, CodesTypeOK, Code
  <2>2. pending.attempts \in Nat
    BY ResetAssumption DEF ResetTypeOK, CodesTypeOK, Code
  <2>3. pending' \in Code
    BY <1>2, <2>1, <2>2, IdleTypes, ResetAssumption DEF WrongCode
  <2>4. failures' \in 0..MaxFailures
    BY <1>2, ResetAssumption DEF WrongCode, Redeemable, ResetTypeOK, CodesTypeOK
  <2>5. CodesTypeOK'
    BY <1>2, <2>3, <2>4 DEF WrongCode, ResetTypeOK, CodesTypeOK
  <2> QED
    BY <1>2, <2>5, Standstill, Spent DEF WrongCode, ResetTypeOK
<1>3. CASE Redeem
  <2>1. CodesTypeOK'
    BY <1>3, IdleTypes DEF Redeem, ResetTypeOK, CodesTypeOK
  <2> QED
    BY <1>3, <2>1, Standstill, Spent DEF Redeem, ResetTypeOK
<1>4. CASE DayPasses
  <2>1. CodesTypeOK'
    BY <1>4, ResetAssumption DEF DayPasses, ResetTypeOK, CodesTypeOK
  <2> QED
    BY <1>4, <2>1, Standstill, Spent DEF DayPasses, ResetTypeOK
<1> QED
  BY <1>1, <1>2, <1>3, <1>4

\* So does verifying an address.
LEMMA VerifyTypes ==
  ASSUME ResetTypeOK, NEW c \in VerifyCalls,
         (\E email \in Addresses : StartVerification(c, email)) \/ VerificationSent(c) \/ VerificationFails(c)
  PROVE  ResetTypeOK'
<1>1. ASSUME NEW email \in Addresses, StartVerification(c, email)
      PROVE  ResetTypeOK'
  <2>1. [pc |-> "sending", email |-> email, gen |-> verifyGeneration + 1] \in Verify
    BY DEF ResetTypeOK, ChecksTypeOK, Verify
  <2>2. ChecksTypeOK'
    BY <1>1, <2>1 DEF StartVerification, ResetTypeOK, ChecksTypeOK
  <2> QED
    BY <1>1, <2>2, Standstill, Spent DEF StartVerification, ResetTypeOK
<1>2. CASE VerificationSent(c)
  <2>1. /\ relay' \in Seq({"open", "over"}) /\ Len(relay') = Len(relay) + 1 /\ Len(relay) \in Nat
    BY <1>2 DEF VerificationSent, ResetTypeOK, ChecksTypeOK
  <2>2. 0..Len(relay) \subseteq 0..Len(relay')
    BY <2>1
  <2>3. pendingVerify' \in [id : 0..Len(relay'), email : Emails, inFlight : BOOLEAN]
    <3>1. verifies[c].email \in Emails
      BY DEF ResetTypeOK, ChecksTypeOK, Verify, Emails
    <3>2. [id |-> Len(relay) + 1, email |-> verifies[c].email, inFlight |-> FALSE]
            \in [id : 0..Len(relay'), email : Emails, inFlight : BOOLEAN]
      BY <2>1, <3>1
    <3>3. pendingVerify \in [id : 0..Len(relay'), email : Emails, inFlight : BOOLEAN]
      BY <2>2 DEF ResetTypeOK, ChecksTypeOK, Emails
    <3> QED
      BY <1>2, <3>2, <3>3 DEF VerificationSent
  <2>4. closed' \subseteq 0..Len(relay')
    BY <1>2, <2>2 DEF VerificationSent, Close, ResetTypeOK, ChecksTypeOK
  <2>5. \A d \in GuessCalls : guesses'[d].id \in 0..Len(relay')
    BY <1>2, <2>2 DEF VerificationSent, ResetTypeOK, ChecksTypeOK
  <2>6. verifies' \in [VerifyCalls -> Verify]
    BY <1>2, IdleTypes DEF VerificationSent, ResetTypeOK, ChecksTypeOK
  <2>7. ChecksTypeOK'
    BY <1>2, <2>1, <2>3, <2>4, <2>5, <2>6 DEF VerificationSent, ResetTypeOK, ChecksTypeOK, Emails
  <2> QED
    BY <1>2, <2>7, Standstill DEF VerificationSent, ResetTypeOK
<1>3. CASE VerificationFails(c)
  <2>1. ChecksTypeOK'
    BY <1>3, IdleTypes DEF VerificationFails, ResetTypeOK, ChecksTypeOK
  <2> QED
    BY <1>3, <2>1, Standstill DEF VerificationFails, ResetTypeOK
<1> QED
  BY <1>1, <1>2, <1>3

\* So do the guesses.
LEMMA GuessTypes ==
  ASSUME ResetTypeOK, NEW c \in GuessCalls, Guess(c)
  PROVE  ResetTypeOK'
<1>1. /\ pendingVerify \in [id : 0..Len(relay), email : Emails, inFlight : BOOLEAN]
      /\ removals \in Nat /\ Len(relay) \in Nat
      /\ guesses \in [GuessCalls -> Guessing]
  BY DEF ResetTypeOK, ChecksTypeOK, AddressTypeOK, Emails
<1>2. pendingVerify' \in [id : 0..Len(relay), email : Emails, inFlight : BOOLEAN]
  BY <1>1 DEF Guess
<1>3. [pc |-> "sent", id |-> pendingVerify.id, email |-> pendingVerify.email,
       answer |-> "none", removals |-> removals] \in Guessing
  BY <1>1 DEF Guessing, Emails
<1>4. guesses' \in [GuessCalls -> Guessing]
  BY <1>1, <1>3 DEF Guess
<1>5. \A d \in GuessCalls : guesses'[d].id \in 0..Len(relay)
  BY <1>1 DEF Guess, ResetTypeOK, ChecksTypeOK
<1>6. ChecksTypeOK'
  BY <1>2, <1>4, <1>5 DEF Guess, ResetTypeOK, ChecksTypeOK, Emails
<1> QED
  BY <1>6, Standstill, Spent DEF Guess, ResetTypeOK

\* An open verification stays one of the relay's when the relay answers.
LEMMA AnswerTypes ==
  ASSUME ResetTypeOK, NEW c \in GuessCalls,
         NEW answer \in {"matched", "wrong_code", "too_many_attempts", "no_pending", "unavailable"},
         RelayAnswers(c, answer)
  PROVE  ResetTypeOK'
<1>1. relay \in Seq({"open", "over"}) /\ Len(relay) \in Nat /\ guesses \in [GuessCalls -> Guessing]
  BY DEF ResetTypeOK, ChecksTypeOK
<1>2. relay' = relay \/ relay' = [relay EXCEPT ![guesses[c].id] = "over"]
  BY DEF RelayAnswers
<1>3. relay' \in Seq({"open", "over"}) /\ Len(relay') = Len(relay)
  BY <1>1, <1>2
<1>4. guesses' = [guesses EXCEPT ![c].pc = "answered", ![c].answer = answer]
  BY DEF RelayAnswers
<1>5. guesses' \in [GuessCalls -> Guessing]
  BY <1>1, <1>4, ZenonT(60) DEF Guessing, Dead
<1>6. \A d \in GuessCalls : guesses'[d].id = guesses[d].id
  BY <1>1, <1>4 DEF Guessing
<1>7. UNCHANGED <<pendingVerify, verifyGeneration, verifies, closed>>
  BY DEF RelayAnswers
<1>8. ChecksTypeOK'
  BY <1>3, <1>5, <1>6, <1>7 DEF ResetTypeOK, ChecksTypeOK
<1> QED
  BY <1>8, Standstill DEF RelayAnswers, ResetTypeOK

\* An answer is filed.
LEMMA FiledTypes ==
  ASSUME ResetTypeOK, NEW c \in GuessCalls, NEW stores \in BOOLEAN, GuessAnswered(c, stores)
  PROVE  ResetTypeOK'
<1>1. /\ guesses \in [GuessCalls -> Guessing] /\ Len(relay) \in Nat
      /\ pendingVerify \in [id : 0..Len(relay), email : Emails, inFlight : BOOLEAN]
  BY DEF ResetTypeOK, ChecksTypeOK, Emails
<1>2. [email |-> guesses[c].email, token |-> guesses[c].id, verified |-> TRUE]
        \in [email : Emails, token : Nat, verified : BOOLEAN]
  BY <1>1 DEF Guessing, Emails
<1>3. \/ /\ SetRecord([email |-> guesses[c].email, token |-> guesses[c].id, verified |-> TRUE])
         /\ NoteAddress(guesses[c].email)
      \/ UNCHANGED <<record, period, pending, emailGeneration>>
  BY DEF GuessAnswered
<1>4. \/ pendingVerify' = pendingVerify \/ pendingVerify' = NoVerification
      \/ pendingVerify' = [pendingVerify EXCEPT !.inFlight = FALSE]
  BY DEF GuessAnswered
<1>5. /\ guesses' = [guesses EXCEPT ![c] = NoGuess]
      /\ UNCHANGED <<resetGeneration, failures, resets, newest, verifyGeneration, verifies, relay, closed,
                     removals, resetBudget>>
  BY DEF GuessAnswered
<1>6. pending' \in Code /\ emailGeneration' \in Nat
  BY <1>3, AddressNoted DEF ResetTypeOK, CodesTypeOK
<1>7. CodesTypeOK'
  BY <1>5, <1>6 DEF ResetTypeOK, CodesTypeOK
<1>8. record' \in [email : Emails, token : Nat, verified : BOOLEAN] /\ period' \in Nat
  BY <1>2, <1>3, AddressWritten DEF ResetTypeOK, AddressTypeOK, Emails
<1>9. AddressTypeOK'
  BY <1>5, <1>8 DEF ResetTypeOK, AddressTypeOK, Emails
<1>10. pendingVerify' \in [id : 0..Len(relay), email : Emails, inFlight : BOOLEAN]
  BY <1>1, <1>4, IdleTypes
<1>11. guesses' \in [GuessCalls -> Guessing]
  BY <1>1, <1>5, IdleTypes
<1>12. \A d \in GuessCalls : guesses'[d].id \in 0..Len(relay)
  BY <1>1, <1>5 DEF NoGuess, ResetTypeOK, ChecksTypeOK
<1>13. ChecksTypeOK'
  BY <1>5, <1>10, <1>11, <1>12 DEF ResetTypeOK, ChecksTypeOK, Emails
<1> QED
  BY <1>5, <1>7, <1>9, <1>13 DEF ResetTypeOK

\* So do giving up a verification, removing the address and starting again.
LEMMA GiveUpTypes ==
  ASSUME ResetTypeOK, GuessTooLate \/ RemoveAddress \/ Restart
  PROVE  ResetTypeOK'
<1>1. /\ Len(relay) \in Nat /\ pendingVerify.id \in 0..Len(relay) /\ closed \subseteq 0..Len(relay)
      /\ verifyGeneration \in Nat
  BY DEF ResetTypeOK, ChecksTypeOK
<1>2. Close => closed' \subseteq 0..Len(relay)
  BY <1>1 DEF Close
<1>3. NoVerification \in [id : 0..Len(relay), email : Emails, inFlight : BOOLEAN]
  BY <1>1, IdleTypes
<1>4. CASE GuessTooLate
  <2>1. ChecksTypeOK'
    BY <1>2, <1>3, <1>4 DEF GuessTooLate, ResetTypeOK, ChecksTypeOK, Emails
  <2> QED
    BY <1>4, <2>1, Standstill, Spent DEF GuessTooLate, ResetTypeOK
<1>5. CASE RemoveAddress
  <2>1. SetRecord(NoRecord) /\ NoteAddress(NoAddress)
    BY <1>5 DEF RemoveAddress
  <2>2. pending' \in Code /\ emailGeneration' \in Nat
    BY <2>1, AddressNoted
  <2>3. record' \in [email : Emails, token : Nat, verified : BOOLEAN] /\ period' \in Nat
    BY <2>1, AddressWritten, IdleTypes
  <2>4. CodesTypeOK'
    BY <1>5, <2>2 DEF RemoveAddress, ResetTypeOK, CodesTypeOK
  <2>5. AddressTypeOK'
    BY <1>5, <2>3 DEF RemoveAddress, ResetTypeOK, AddressTypeOK, Emails
  <2>6. ChecksTypeOK'
    BY <1>1, <1>2, <1>3, <1>5 DEF RemoveAddress, ResetTypeOK, ChecksTypeOK, Emails
  <2> QED
    BY <1>5, <2>4, <2>5, <2>6, Spent DEF RemoveAddress, ResetTypeOK
<1>6. CASE Restart
  <2>1. CodesTypeOK'
    BY <1>6, IdleTypes, ResetAssumption DEF Restart, CodesTypeOK
  <2>2. \A c \in GuessCalls : guesses'[c].id \in 0..Len(relay)
    BY <1>1, <1>6 DEF Restart, NoGuess
  <2>3. ChecksTypeOK'
    BY <1>2, <1>3, <1>6, <2>2, IdleTypes DEF Restart, ResetTypeOK, ChecksTypeOK, Emails
  <2> QED
    BY <1>6, <2>1, <2>3, Standstill, Spent DEF Restart, ResetTypeOK
<1> QED
  BY <1>4, <1>5, <1>6

\* A step of the specification keeps the types.
LEMMA ResetTypeStep == ResetTypeOK /\ [ResetNext]_resetVars => ResetTypeOK'
<1> SUFFICES ASSUME ResetTypeOK, [ResetNext]_resetVars PROVE ResetTypeOK'
  OBVIOUS
<1>1. CASE UNCHANGED resetVars
  BY <1>1, Standstill DEF resetVars, ResetTypeOK
<1>2. CASE ResetNext
  BY <1>2, RequestTypes, RedeemTypes, VerifyTypes, GuessTypes, AnswerTypes, FiledTypes, GiveUpTypes
  DEF ResetNext
<1> QED
  BY <1>1, <1>2

\* The codes and the verification keep their shape, the day's wrong codes stay
\* within their budget and a guess is of a verification the relay has.
THEOREM ResetTypeCorrect == ResetSpec => []ResetTypeOK
<1>1. ResetInit => ResetTypeOK
  BY ResetTypeInit
<1>2. ResetTypeOK /\ [ResetNext]_resetVars => ResetTypeOK'
  BY ResetTypeStep
<1> QED
  BY <1>1, <1>2, PTL DEF ResetSpec
-----------------------------------------------------------------------------
(* The newest reset code                                                      *)

\* Every send in flight has a number of its own, none later than the last one
\* given out and none that of a code that became pending.
SendsAreNumbered ==
  /\ newest <= resetGeneration
  /\ \A c \in ResetCalls : resets[c].pc = "sending" =>
       resets[c].gen > 0 /\ resets[c].gen <= resetGeneration /\ resets[c].gen # newest
  /\ \A c, d \in ResetCalls :
       resets[c].pc = "sending" /\ resets[d].pc = "sending" /\ resets[c].gen = resets[d].gen => c = d

\* The numbers at hand.
LEMMA NumberTypes ==
  ASSUME ResetTypeOK
  PROVE  /\ resetGeneration \in Nat /\ newest \in Nat
         /\ \A c \in ResetCalls : resets[c].gen \in Nat
         /\ resets \in [ResetCalls -> ResetCall]
BY DEF ResetTypeOK, CodesTypeOK, ResetCall

\* A new request takes the next number.
LEMMA RequestNumbered ==
  ASSUME ResetTypeOK, SendsAreNumbered, NEW c \in ResetCalls, NEW call,
         call.pc = "sending", call.gen = resetGeneration + 1,
         resets' = [resets EXCEPT ![c] = call], resetGeneration' = resetGeneration + 1, newest' = newest
  PROVE  SendsAreNumbered'
BY NumberTypes DEF SendsAreNumbered

\* A send that ends takes its number with it.
LEMMA EndNumbered ==
  ASSUME ResetTypeOK, SendsAreNumbered, NEW c \in ResetCalls,
         resets[c].pc = "sending",
         resets' = [resets EXCEPT ![c] = NoReset], resetGeneration' = resetGeneration,
         newest' = newest \/ newest' = resets[c].gen
  PROVE  SendsAreNumbered'
BY NumberTypes DEF SendsAreNumbered, NoReset

\* Nothing else touches the numbers.
LEMMA NumbersStand ==
  SendsAreNumbered /\ UNCHANGED <<resets, resetGeneration, newest>> => SendsAreNumbered'
BY DEF SendsAreNumbered

\* The sends of the requests keep their numbers.
LEMMA RequestsNumbered ==
  ASSUME ResetTypeOK, SendsAreNumbered, NEW c \in ResetCalls,
         RequestWhatsApp(c) \/ RequestEmail(c) \/ SendFails(c) \/ Unverified(c) \/ Sent(c)
  PROVE  SendsAreNumbered'
<1>1. CASE RequestWhatsApp(c)
  BY <1>1, RequestNumbered DEF RequestWhatsApp, NoReset
<1>2. CASE RequestEmail(c)
  BY <1>2, RequestNumbered DEF RequestEmail
<1>3. CASE SendFails(c)
  BY <1>3, EndNumbered DEF SendFails
<1>4. CASE Unverified(c)
  BY <1>4, EndNumbered DEF Unverified
<1>5. CASE Sent(c)
  BY <1>5, EndNumbered DEF Sent
<1> QED
  BY <1>1, <1>2, <1>3, <1>4, <1>5

\* All that a step can do to the sends and their numbers.
LEMMA NumberedStep ==
  ASSUME ResetTypeOK, SendsAreNumbered, [ResetNext]_resetVars
  PROVE  SendsAreNumbered'
<1>1. CASE UNCHANGED resetVars
  BY <1>1, NumbersStand DEF resetVars, codes
<1>2. CASE \E c \in ResetCalls :
             RequestWhatsApp(c) \/ RequestEmail(c) \/ SendFails(c) \/ Unverified(c) \/ Sent(c)
  BY <1>2, RequestsNumbered
<1>3. CASE DropCode \/ WrongCode \/ Redeem \/ DayPasses
  BY <1>3, NumbersStand DEF DropCode, WrongCode, Redeem, DayPasses
<1>4. CASE \E c \in VerifyCalls :
             \/ \E email \in Addresses : StartVerification(c, email)
             \/ VerificationSent(c) \/ VerificationFails(c)
  BY <1>4, NumbersStand DEF StartVerification, VerificationSent, VerificationFails, codes
<1>5. CASE \E c \in GuessCalls :
             \/ Guess(c)
             \/ \E answer \in {"matched", "wrong_code", "too_many_attempts", "no_pending", "unavailable"} :
                  RelayAnswers(c, answer)
             \/ \E stores \in BOOLEAN : GuessAnswered(c, stores)
  BY <1>5, NumbersStand DEF Guess, RelayAnswers, GuessAnswered, codes
<1>6. CASE GuessTooLate \/ RemoveAddress
  BY <1>6, NumbersStand DEF GuessTooLate, RemoveAddress, codes
<1>7. CASE Restart
  BY <1>7, NumberTypes DEF Restart, SendsAreNumbered, NoReset
<1> QED
  BY <1>1, <1>2, <1>3, <1>4, <1>5, <1>6, <1>7 DEF ResetNext

\* Of two codes on their way the later request wins, whichever send ends last.
THEOREM NewerCodeWinsHolds == ResetSpec => NewerCodeWins
<1> DEFINE Newer == pending'.gen \notin {0, pending.gen} => pending'.gen > newest
<1>1. ResetInit => SendsAreNumbered
  BY DEF ResetInit, SendsAreNumbered, NoReset
<1>2. ResetTypeOK /\ SendsAreNumbered /\ [ResetNext]_resetVars => SendsAreNumbered'
  BY NumberedStep
<1>3. ResetTypeOK /\ SendsAreNumbered /\ [ResetNext]_resetVars => [Newer]_resetVars
  <2> SUFFICES ASSUME ResetTypeOK, SendsAreNumbered, ResetNext PROVE Newer
    OBVIOUS
  <2>1. ASSUME NEW c \in ResetCalls, Sent(c) PROVE Newer
    <3>1. CASE OwnsSlot(resets[c])
      <4>1. pending'.gen = resets[c].gen /\ resets[c].gen = resetGeneration
        BY <2>1, <3>1 DEF Sent, OwnsSlot
      <4>2. resets[c].gen # newest /\ newest <= resetGeneration
        BY <2>1 DEF Sent, SendsAreNumbered
      <4> QED
        BY <4>1, <4>2, NumberTypes
    <3>2. CASE ~OwnsSlot(resets[c])
      BY <2>1, <3>2 DEF Sent
    <3> QED
      BY <3>1, <3>2
  <2>2. ASSUME UNCHANGED pending \/ pending' = NoCode PROVE Newer
    BY <2>2 DEF NoCode
  <2>3. ASSUME NEW new, NoteAddress(new) PROVE Newer
    BY <2>2, <2>3 DEF NoteAddress
  <2>4. ASSUME NEW c \in ResetCalls, RequestWhatsApp(c) \/ RequestEmail(c) \/ SendFails(c) \/ Unverified(c)
        PROVE  Newer
    BY <2>2, <2>3, <2>4 DEF RequestWhatsApp, RequestEmail, SendFails, Unverified
  <2>5. CASE WrongCode
    <3>1. pending' = NoCode \/ pending' = [pending EXCEPT !.attempts = @ + 1]
      BY <2>5 DEF WrongCode
    <3>2. pending \in Code
      BY DEF ResetTypeOK, CodesTypeOK
    <3> QED
      BY <2>2, <3>1, <3>2 DEF Code
  <2>6. CASE DropCode \/ Redeem \/ DayPasses \/ GuessTooLate \/ Restart
    BY <2>2, <2>6 DEF DropCode, Redeem, DayPasses, GuessTooLate, Restart, codes
  <2>7. CASE \E c \in VerifyCalls :
               \/ \E email \in Addresses : StartVerification(c, email)
               \/ VerificationSent(c) \/ VerificationFails(c)
    BY <2>2, <2>7 DEF StartVerification, VerificationSent, VerificationFails, codes
  <2>8. ASSUME NEW c \in GuessCalls, Guess(c)
               \/ \E answer \in {"matched", "wrong_code", "too_many_attempts", "no_pending", "unavailable"} :
                    RelayAnswers(c, answer)
        PROVE  Newer
    BY <2>2, <2>8 DEF Guess, RelayAnswers, codes
  <2>9. ASSUME NEW c \in GuessCalls, NEW stores \in BOOLEAN, GuessAnswered(c, stores) PROVE Newer
    <3>1. NoteAddress(guesses[c].email) \/ UNCHANGED pending
      BY <2>9 DEF GuessAnswered
    <3> QED
      BY <2>2, <2>3, <3>1
  <2>10. CASE RemoveAddress
    BY <2>3, <2>10 DEF RemoveAddress
  <2> HIDE DEF Newer
  <2> QED
    BY <2>1, <2>4, <2>5, <2>6, <2>7, <2>8, <2>9, <2>10 DEF ResetNext
<1> HIDE DEF Newer
<1>4. ResetSpec => [][Newer]_resetVars
  BY <1>1, <1>2, <1>3, ResetTypeCorrect, PTL DEF ResetSpec
<1> QED
  BY <1>4 DEF NewerCodeWins, Newer
-----------------------------------------------------------------------------
(* Emailed codes and the address they went to                                 *)

\* An emailed code, pending or still to become so, goes to the usable address,
\* which has not changed since the code was asked for.
EmailsAreCurrent ==
  /\ pending.channel = "email" => pending.period = period /\ pending.email = Usable(record)
  /\ \A c \in ResetCalls : resets[c].pc = "sending" /\ resets[c].channel = "email" =>
       /\ resets[c].emailGen <= emailGeneration
       /\ resets[c].emailGen = emailGeneration =>
            resets[c].period = period /\ resets[c].to = Usable(record)

\* Writing the record and dropping the codes over it leaves no code of an
\* address that is no longer the usable one.
LEMMA WrittenIsCurrent ==
  ASSUME ResetTypeOK, EmailsAreCurrent, NEW new, SetRecord(new), NoteAddress(Usable(new)),
         resets' = resets \/ \E c \in ResetCalls : resets' = [resets EXCEPT ![c] = NoReset]
  PROVE  EmailsAreCurrent'
<1>1. emailGeneration \in Nat /\ resets \in [ResetCalls -> ResetCall]
  BY DEF ResetTypeOK, CodesTypeOK
<1>2. \A c \in ResetCalls : resets[c].emailGen \in Nat
  BY <1>1 DEF ResetCall
<1>3. pending'.channel = "email" => pending'.period = period' /\ pending'.email = Usable(record')
  <2>1. CASE pending.channel = "email" /\ pending.email # Usable(new)
    BY <2>1 DEF NoteAddress, NoCode
  <2>2. CASE ~(pending.channel = "email" /\ pending.email # Usable(new))
    <3>1. pending' = pending /\ record' = new
      BY <2>2 DEF NoteAddress, SetRecord
    <3>2. pending.channel = "email" => Usable(new) = Usable(record) /\ pending.email = Usable(new)
      BY <2>2 DEF EmailsAreCurrent
    <3>3. pending.channel = "email" => period' = period
      BY <3>2 DEF SetRecord
    <3> QED
      BY <3>1, <3>2, <3>3 DEF EmailsAreCurrent
  <2> QED
    BY <2>1, <2>2
<1>4. emailGeneration' = emailGeneration + 1
  BY DEF NoteAddress
<1>5. ASSUME NEW c \in ResetCalls, resets'[c].pc = "sending", resets'[c].channel = "email"
      PROVE  resets'[c].emailGen < emailGeneration'
  <2>1. resets'[c] = resets[c]
    BY <1>1, <1>5 DEF NoReset
  <2> QED
    BY <1>2, <1>4, <1>5, <1>1, <2>1 DEF EmailsAreCurrent
<1>6. \A c \in ResetCalls : resets'[c].pc = "sending" /\ resets'[c].channel = "email" =>
         resets'[c].emailGen <= emailGeneration' /\ resets'[c].emailGen # emailGeneration'
  <2>1. \A c \in ResetCalls : resets'[c].pc = "sending" => resets'[c] = resets[c]
    BY <1>1 DEF NoReset
  <2> QED
    BY <1>1, <1>2, <1>4, <1>5, <2>1
<1> QED
  BY <1>3, <1>6 DEF EmailsAreCurrent

\* Calls that only end, with the address and the codes as they are.
LEMMA CurrentStands ==
  ASSUME ResetTypeOK, EmailsAreCurrent, UNCHANGED <<record, period, emailGeneration>>,
         pending' = pending \/ pending' = NoCode,
         resets' = resets \/ \E c \in ResetCalls : resets' = [resets EXCEPT ![c] = NoReset]
  PROVE  EmailsAreCurrent'
<1>1. resets \in [ResetCalls -> ResetCall]
  BY DEF ResetTypeOK, CodesTypeOK
<1>2. \A c \in ResetCalls : resets'[c].pc = "sending" => resets'[c] = resets[c]
  BY <1>1 DEF NoReset
<1> QED
  BY <1>2 DEF EmailsAreCurrent, NoCode

\* The sends of the requests.
LEMMA RequestsCurrent ==
  ASSUME ResetTypeOK, EmailsAreCurrent, NEW c \in ResetCalls,
         RequestWhatsApp(c) \/ RequestEmail(c) \/ SendFails(c) \/ Unverified(c) \/ Sent(c)
  PROVE  EmailsAreCurrent'
<1>1. resets \in [ResetCalls -> ResetCall] /\ emailGeneration \in Nat
  BY DEF ResetTypeOK, CodesTypeOK
<1>2. CASE RequestWhatsApp(c)
  <2>1. UNCHANGED <<pending, emailGeneration, record, period>>
    BY <1>2 DEF RequestWhatsApp, address
  <2>2. resets'[c].channel = "whatsapp" /\ \A d \in ResetCalls \ {c} : resets'[d] = resets[d]
    BY <1>1, <1>2 DEF RequestWhatsApp, NoReset
  <2> QED
    BY <2>1, <2>2 DEF EmailsAreCurrent
<1>3. CASE RequestEmail(c)
  <2>1. /\ UNCHANGED <<pending, record, period>>
        /\ emailGeneration' = emailGeneration + 1
        /\ record.verified
    BY <1>3 DEF RequestEmail, address
  <2>2. /\ resets'[c].emailGen = emailGeneration + 1
        /\ resets'[c].period = period
        /\ resets'[c].to = record.email
        /\ \A d \in ResetCalls \ {c} : resets'[d] = resets[d]
    BY <1>1, <1>3 DEF RequestEmail
  <2>3. \A d \in ResetCalls : resets[d].emailGen \in Nat
    BY <1>1 DEF ResetCall
  <2>4. \A d \in ResetCalls \ {c} : resets'[d].pc = "sending" /\ resets'[d].channel = "email" =>
          resets'[d].emailGen <= emailGeneration' /\ resets'[d].emailGen # emailGeneration'
    BY <1>1, <2>1, <2>2, <2>3 DEF EmailsAreCurrent
  <2>5. resets'[c].emailGen = emailGeneration' /\ resets'[c].to = Usable(record')
    BY <2>1, <2>2 DEF Usable
  <2>6. pending'.channel = "email" => pending'.period = period' /\ pending'.email = Usable(record')
    BY <2>1 DEF EmailsAreCurrent
  <2>7. resets'[c].emailGen <= emailGeneration'
    BY <1>1, <2>1, <2>5
  <2>8. resets'[c].period = period'
    BY <2>1, <2>2
  <2> QED
    BY <2>4, <2>5, <2>6, <2>7, <2>8 DEF EmailsAreCurrent
<1>4. CASE SendFails(c)
  BY <1>4, CurrentStands DEF SendFails, address
<1>5. CASE Unverified(c)
  <2>1. CASE record.email = resets[c].to /\ record.token = resets[c].token
    <3>1. Usable([record EXCEPT !.verified = FALSE]) = NoAddress
      BY DEF Usable, ResetTypeOK, AddressTypeOK
    <3> QED
      BY <1>5, <2>1, <3>1, WrittenIsCurrent DEF Unverified
  <2>2. CASE ~(record.email = resets[c].to /\ record.token = resets[c].token)
    BY <1>5, <2>2, CurrentStands DEF Unverified
  <2> QED
    BY <2>1, <2>2
<1>6. CASE Sent(c)
  <2>1. CASE OwnsSlot(resets[c])
    <3>1. pending' = [gen |-> resets[c].gen, channel |-> resets[c].channel, email |-> resets[c].to,
                      attempts |-> 0, period |-> resets[c].period]
      BY <1>6, <2>1 DEF Sent
    <3>2. UNCHANGED <<emailGeneration, record, period>> /\ resets' = [resets EXCEPT ![c] = NoReset]
      BY <1>6 DEF Sent, address
    <3>3. \A d \in ResetCalls : resets'[d].pc = "sending" => resets'[d] = resets[d]
      BY <1>1, <3>2 DEF NoReset
    <3>4. resets[c].channel = "email" => resets[c].period = period /\ resets[c].to = Usable(record)
      BY <1>6, <2>1 DEF Sent, OwnsSlot, EmailsAreCurrent
    <3> QED
      BY <3>1, <3>2, <3>3, <3>4 DEF EmailsAreCurrent
  <2>2. CASE ~OwnsSlot(resets[c])
    BY <1>6, <2>2, CurrentStands DEF Sent, address
  <2> QED
    BY <2>1, <2>2
<1> QED
  BY <1>2, <1>3, <1>4, <1>5, <1>6

\* An address that has been verified or removed.
LEMMA AddressCurrent ==
  ASSUME ResetTypeOK, EmailsAreCurrent,
         \/ RemoveAddress
         \/ \E c \in GuessCalls, stores \in BOOLEAN : GuessAnswered(c, stores)
  PROVE  EmailsAreCurrent'
<1>1. CASE RemoveAddress
  <2>1. Usable(NoRecord) = NoAddress
    BY DEF Usable, NoRecord
  <2> QED
    BY <1>1, <2>1, WrittenIsCurrent DEF RemoveAddress
<1>2. ASSUME NEW c \in GuessCalls, NEW stores \in BOOLEAN, GuessAnswered(c, stores)
      PROVE  EmailsAreCurrent'
  <2> DEFINE found == [email |-> guesses[c].email, token |-> guesses[c].id, verified |-> TRUE]
  <2>1. \/ SetRecord(found) /\ NoteAddress(guesses[c].email)
        \/ UNCHANGED <<record, period, pending, emailGeneration>>
    BY <1>2 DEF GuessAnswered
  <2>2. UNCHANGED resets
    BY <1>2 DEF GuessAnswered
  <2>3. Usable(found) = guesses[c].email
    BY DEF Usable
  <2> HIDE DEF found
  <2>4. CASE SetRecord(found) /\ NoteAddress(guesses[c].email)
    BY <2>2, <2>3, <2>4, WrittenIsCurrent
  <2> QED
    BY <2>1, <2>2, <2>4, CurrentStands
<1> QED
  BY <1>1, <1>2

\* No step leaves an emailed code behind that its address has left.
LEMMA CurrentStep ==
  ASSUME ResetTypeOK, EmailsAreCurrent, [ResetNext]_resetVars
  PROVE  EmailsAreCurrent'
<1>1. CASE UNCHANGED resetVars
  BY <1>1, CurrentStands DEF resetVars, codes, address
<1>2. CASE \E c \in ResetCalls :
             RequestWhatsApp(c) \/ RequestEmail(c) \/ SendFails(c) \/ Unverified(c) \/ Sent(c)
  BY <1>2, RequestsCurrent
<1>3. CASE DropCode \/ Redeem \/ DayPasses
  BY <1>3, CurrentStands DEF DropCode, Redeem, DayPasses, address
<1>4. CASE WrongCode
  <2>1. UNCHANGED <<record, period, emailGeneration, resets>>
    BY <1>4 DEF WrongCode, address
  <2>2. pending' = NoCode \/ pending' = [pending EXCEPT !.attempts = @ + 1]
    BY <1>4 DEF WrongCode
  <2>3. CASE pending' = [pending EXCEPT !.attempts = @ + 1]
    <3>1. pending \in Code
      BY DEF ResetTypeOK, CodesTypeOK
    <3>2. pending'.channel = pending.channel /\ pending'.email = pending.email /\ pending'.period = pending.period
      BY <2>3, <3>1 DEF Code
    <3> QED
      BY <2>1, <3>2 DEF EmailsAreCurrent
  <2> QED
    BY <2>1, <2>2, <2>3, CurrentStands
<1>5. CASE \E c \in VerifyCalls :
             \/ \E email \in Addresses : StartVerification(c, email)
             \/ VerificationSent(c) \/ VerificationFails(c)
  BY <1>5, CurrentStands DEF StartVerification, VerificationSent, VerificationFails, codes, address
<1>6. CASE \E c \in GuessCalls :
             \/ Guess(c)
             \/ \E answer \in {"matched", "wrong_code", "too_many_attempts", "no_pending", "unavailable"} :
                  RelayAnswers(c, answer)
  BY <1>6, CurrentStands DEF Guess, RelayAnswers, codes, address
<1>7. CASE RemoveAddress \/ \E c \in GuessCalls, stores \in BOOLEAN : GuessAnswered(c, stores)
  BY <1>7, AddressCurrent
<1>8. CASE GuessTooLate
  BY <1>8, CurrentStands DEF GuessTooLate, codes, address
<1>9. CASE Restart
  BY <1>9 DEF Restart, EmailsAreCurrent, NoReset, NoCode
<1> QED
  BY <1>1, <1>2, <1>3, <1>4, <1>5, <1>6, <1>7, <1>8, <1>9 DEF ResetNext

\* An emailed code dies with the address it went to, and does not come to
\* life when the address changed while the email was being sent.
THEOREM EmailCodeDiesHolds == ResetSpec => []EmailCodeDiesWithAddress
<1>1. ResetInit => EmailsAreCurrent
  BY DEF ResetInit, EmailsAreCurrent, NoCode, NoReset
<1>2. ResetTypeOK /\ EmailsAreCurrent /\ [ResetNext]_resetVars => EmailsAreCurrent'
  BY CurrentStep
<1>3. EmailsAreCurrent => EmailCodeDiesWithAddress
  BY DEF EmailsAreCurrent, EmailCodeDiesWithAddress
<1> QED
  BY <1>1, <1>2, <1>3, ResetTypeCorrect, PTL DEF ResetSpec
-----------------------------------------------------------------------------
(* Verifying the recovery address                                             *)

\* A guess in flight is of a verification of the relay. While it is the one at
\* hand nothing has been removed since the guess was made; and unless it was
\* given up it is the one at hand, it holds the next guess back and no other
\* guess at it is in flight.
GuessesAreHeld ==
  /\ pendingVerify # NoVerification => pendingVerify.id > 0
  /\ \A c \in GuessCalls : guesses[c].pc # "idle" =>
       /\ guesses[c].id > 0
       /\ guesses[c].id = pendingVerify.id => guesses[c].removals = removals
       /\ guesses[c].id \notin closed => guesses[c].id = pendingVerify.id /\ pendingVerify.inFlight
  /\ \A c, d \in GuessCalls :
       /\ guesses[c].pc # "idle" /\ guesses[c].id \notin closed
       /\ guesses[d].pc # "idle" /\ guesses[d].id \notin closed
       => c = d

\* The types at hand.
LEMMA HeldTypes ==
  ASSUME ResetTypeOK
  PROVE  /\ guesses \in [GuessCalls -> Guessing]
         /\ Len(relay) \in Nat
         /\ \A c \in GuessCalls : guesses[c].id \in 0..Len(relay)
         /\ pendingVerify \in [id : 0..Len(relay), email : Emails, inFlight : BOOLEAN]
BY DEF ResetTypeOK, ChecksTypeOK, Emails

\* Nothing that concerns guesses changes.
LEMMA HeldStands ==
  GuessesAreHeld /\ UNCHANGED <<pendingVerify, guesses, closed, removals>> => GuessesAreHeld'
BY DEF GuessesAreHeld

\* A verification that is given up takes its guesses with it.
LEMMA HeldGivenUp ==
  ASSUME ResetTypeOK, GuessesAreHeld, Close, UNCHANGED guesses,
         pendingVerify' = NoVerification \/ pendingVerify'.id = Len(relay) + 1
  PROVE  GuessesAreHeld'
<1>1. \A c \in GuessCalls : guesses[c].pc # "idle" => guesses[c].id \in closed'
  <2>1. CASE pendingVerify = NoVerification
    BY <2>1 DEF GuessesAreHeld, NoVerification, Close
  <2>2. CASE pendingVerify # NoVerification
    BY <2>2 DEF GuessesAreHeld, Close
  <2> QED
    BY <2>1, <2>2
<1>2. \A c \in GuessCalls : guesses[c].pc # "idle" => guesses[c].id # pendingVerify'.id
  BY HeldTypes DEF GuessesAreHeld, NoVerification
<1>3. pendingVerify' # NoVerification => pendingVerify'.id > 0
  BY HeldTypes
<1> QED
  BY <1>1, <1>2, <1>3 DEF GuessesAreHeld

\* A guess starts only when none is in flight at a verification not given up.
LEMMA GuessHeld ==
  ASSUME ResetTypeOK, GuessesAreHeld, NEW c \in GuessCalls, Guess(c)
  PROVE  GuessesAreHeld'
<1>1. /\ pendingVerify # NoVerification /\ ~pendingVerify.inFlight
      /\ pendingVerify' = [pendingVerify EXCEPT !.inFlight = TRUE]
      /\ UNCHANGED <<closed, removals>>
  BY DEF Guess, MayGuess, address
<1>2. pendingVerify'.id = pendingVerify.id /\ pendingVerify'.inFlight
  BY <1>1, HeldTypes
<1>3. /\ guesses'[c].id = pendingVerify.id /\ guesses'[c].removals = removals
      /\ \A d \in GuessCalls \ {c} : guesses'[d] = guesses[d]
  BY HeldTypes DEF Guess
<1>4. \A d \in GuessCalls : guesses[d].pc # "idle" => guesses[d].id \in closed
  BY <1>1 DEF GuessesAreHeld
<1>5. pendingVerify'.id > 0
  BY <1>1, <1>2 DEF GuessesAreHeld
<1>6. \A d \in GuessCalls : guesses'[d].pc # "idle" =>
        /\ guesses'[d].id > 0
        /\ guesses'[d].id = pendingVerify'.id => guesses'[d].removals = removals'
        /\ guesses'[d].id \notin closed' => guesses'[d].id = pendingVerify'.id /\ pendingVerify'.inFlight
  <2> TAKE d \in GuessCalls
  <2>1. CASE d = c
    BY <1>1, <1>2, <1>3, <1>5, <2>1
  <2>2. CASE d # c
    BY <1>1, <1>2, <1>3, <1>4, <2>2 DEF GuessesAreHeld
  <2> QED
    BY <2>1, <2>2
<1>7. \A d, e \in GuessCalls :
        /\ guesses'[d].pc # "idle" /\ guesses'[d].id \notin closed'
        /\ guesses'[e].pc # "idle" /\ guesses'[e].id \notin closed'
        => d = e
  BY <1>1, <1>3, <1>4
<1> QED
  BY <1>5, <1>6, <1>7 DEF GuessesAreHeld

\* The relay's answer changes no guess but its step.
LEMMA AnswerHeld ==
  ASSUME ResetTypeOK, GuessesAreHeld, NEW c \in GuessCalls, NEW answer, RelayAnswers(c, answer)
  PROVE  GuessesAreHeld'
<1>1. UNCHANGED <<pendingVerify, closed, removals>>
  BY DEF RelayAnswers, address
<1>2. \A d \in GuessCalls :
        /\ guesses'[d].id = guesses[d].id /\ guesses'[d].removals = guesses[d].removals
        /\ guesses'[d].pc # "idle" => guesses[d].pc # "idle"
  BY HeldTypes DEF RelayAnswers, Guessing
<1>3. \A d \in GuessCalls : guesses'[d].pc # "idle" =>
        /\ guesses'[d].id > 0
        /\ guesses'[d].id = pendingVerify'.id => guesses'[d].removals = removals'
        /\ guesses'[d].id \notin closed' => guesses'[d].id = pendingVerify'.id /\ pendingVerify'.inFlight
  BY <1>1, <1>2 DEF GuessesAreHeld
<1>4. \A d, e \in GuessCalls :
        /\ guesses'[d].pc # "idle" /\ guesses'[d].id \notin closed'
        /\ guesses'[e].pc # "idle" /\ guesses'[e].id \notin closed'
        => d = e
  BY <1>1, <1>2 DEF GuessesAreHeld
<1>5. pendingVerify' # NoVerification => pendingVerify'.id > 0
  BY <1>1 DEF GuessesAreHeld
<1> QED
  BY <1>3, <1>4, <1>5 DEF GuessesAreHeld

\* The guess whose answer is filed was the only one at its verification.
LEMMA FiledHeld ==
  ASSUME ResetTypeOK, GuessesAreHeld, NEW c \in GuessCalls, NEW stores \in BOOLEAN, GuessAnswered(c, stores)
  PROVE  GuessesAreHeld'
<1>1. /\ guesses[c].pc = "answered" /\ guesses' = [guesses EXCEPT ![c] = NoGuess]
      /\ UNCHANGED <<closed, removals>>
  BY DEF GuessAnswered
<1>2. \A d \in GuessCalls : guesses'[d].pc # "idle" => d # c /\ guesses'[d] = guesses[d]
  BY <1>1, HeldTypes DEF NoGuess
<1>3. CASE guesses[c].id = pendingVerify.id
  <2>1. pendingVerify' = NoVerification \/ pendingVerify' = [pendingVerify EXCEPT !.inFlight = FALSE]
    BY <1>3 DEF GuessAnswered, AnsweredCurrent
  <2>2. \A d \in GuessCalls : guesses'[d].pc # "idle" => guesses'[d].id \in closed'
    BY <1>1, <1>2, <1>3 DEF GuessesAreHeld
  <2>3. CASE pendingVerify' = NoVerification
    <3>1. pendingVerify'.id = 0
      BY <2>3 DEF NoVerification
    <3> QED
      BY <1>2, <2>2, <2>3, <3>1, HeldTypes DEF GuessesAreHeld
  <2>4. CASE pendingVerify' = [pendingVerify EXCEPT !.inFlight = FALSE]
    <3>1. pendingVerify'.id = pendingVerify.id
      BY <2>4, HeldTypes
    <3>2. pendingVerify.id > 0
      BY <1>1, <1>3 DEF GuessesAreHeld
    <3> QED
      BY <1>1, <1>2, <2>2, <3>1, <3>2 DEF GuessesAreHeld
  <2> QED
    BY <2>1, <2>3, <2>4
<1>4. CASE guesses[c].id # pendingVerify.id
  <2>1. UNCHANGED pendingVerify
    BY <1>4 DEF GuessAnswered, AnsweredCurrent
  <2> QED
    BY <1>1, <1>2, <2>1 DEF GuessesAreHeld
<1> QED
  BY <1>3, <1>4

\* No step parts a guess from the verification it is at.
LEMMA HeldStep ==
  ASSUME ResetTypeOK, GuessesAreHeld, [ResetNext]_resetVars
  PROVE  GuessesAreHeld'
<1>1. CASE UNCHANGED resetVars
  BY <1>1, HeldStands DEF resetVars, checks, address
<1>2. CASE \E c \in ResetCalls :
             RequestWhatsApp(c) \/ RequestEmail(c) \/ SendFails(c) \/ Unverified(c) \/ Sent(c)
  BY <1>2, HeldStands DEF RequestWhatsApp, RequestEmail, SendFails, Unverified, Sent, checks, address
<1>3. CASE DropCode \/ WrongCode \/ Redeem \/ DayPasses
  BY <1>3, HeldStands DEF DropCode, WrongCode, Redeem, DayPasses, checks, address
<1>4. ASSUME NEW c \in VerifyCalls, VerificationSent(c)
      PROVE  GuessesAreHeld'
  <2>1. UNCHANGED <<guesses, removals>>
    BY <1>4 DEF VerificationSent, address
  <2>2. CASE verifies[c].gen = verifyGeneration
    <3>1. pendingVerify'.id = Len(relay) + 1 /\ Close
      BY <1>4, <2>2 DEF VerificationSent
    <3> QED
      BY <2>1, <3>1, HeldGivenUp
  <2>3. CASE verifies[c].gen # verifyGeneration
    BY <1>4, <2>1, <2>3, HeldStands DEF VerificationSent
  <2> QED
    BY <2>2, <2>3
<1>5. CASE \E c \in VerifyCalls :
             VerificationFails(c) \/ \E email \in Addresses : StartVerification(c, email)
  BY <1>5, HeldStands DEF VerificationFails, StartVerification, address
<1>6. CASE \E c \in GuessCalls : Guess(c)
  BY <1>6, GuessHeld
<1>7. CASE \E c \in GuessCalls :
             \E answer \in {"matched", "wrong_code", "too_many_attempts", "no_pending", "unavailable"} :
               RelayAnswers(c, answer)
  BY <1>7, AnswerHeld
<1>8. CASE \E c \in GuessCalls : \E stores \in BOOLEAN : GuessAnswered(c, stores)
  BY <1>8, FiledHeld
<1>9. CASE GuessTooLate \/ RemoveAddress
  BY <1>9, HeldGivenUp DEF GuessTooLate, RemoveAddress
<1>10. CASE Restart
  BY <1>10 DEF Restart, GuessesAreHeld, NoGuess
<1> QED
  BY <1>1, <1>2, <1>3, <1>4, <1>5, <1>6, <1>7, <1>8, <1>9, <1>10 DEF ResetNext

\* The guesses are held from the start.
LEMMA HeldAlways == ResetSpec => [](ResetTypeOK /\ GuessesAreHeld)
<1>1. ResetInit => GuessesAreHeld
  BY DEF ResetInit, GuessesAreHeld, NoGuess
<1>2. ResetTypeOK /\ GuessesAreHeld /\ [ResetNext]_resetVars => GuessesAreHeld'
  BY HeldStep
<1> QED
  BY <1>1, <1>2, ResetTypeCorrect, PTL DEF ResetSpec

\* An address comes into use only with an answer to a guess that was made
\* after the last removal.
THEOREM RemoveIsFinalHolds == ResetSpec => RemoveIsFinal
<1> DEFINE Earned == record' # record /\ record'.verified
                       => \E c \in GuessCalls : guesses[c].pc = "answered" /\ guesses[c].removals = removals
<1>1. ResetTypeOK /\ GuessesAreHeld /\ ResetNext => Earned
  <2> SUFFICES ASSUME ResetTypeOK, GuessesAreHeld, ResetNext PROVE Earned
    OBVIOUS
  <2>1. ASSUME UNCHANGED record \/ ~record'.verified PROVE Earned
    BY <2>1
  <2>2. ASSUME NEW c \in ResetCalls, Unverified(c) PROVE Earned
    <3>1. UNCHANGED record \/ record' = [record EXCEPT !.verified = FALSE]
      BY <2>2 DEF Unverified, SetRecord
    <3> QED
      BY <2>1, <3>1 DEF ResetTypeOK, AddressTypeOK
  <2>3. CASE RemoveAddress
    BY <2>1, <2>3 DEF RemoveAddress, SetRecord, NoRecord
  <2>4. ASSUME NEW c \in GuessCalls, NEW stores \in BOOLEAN, GuessAnswered(c, stores) PROVE Earned
    <3>1. guesses[c].pc = "answered" /\ (guesses[c].id = pendingVerify.id \/ UNCHANGED record)
      BY <2>4 DEF GuessAnswered, AnsweredCurrent
    <3> QED
      BY <3>1 DEF GuessesAreHeld
  <2>5. CASE \E c \in ResetCalls : RequestWhatsApp(c) \/ RequestEmail(c) \/ SendFails(c) \/ Sent(c)
    BY <2>1, <2>5 DEF RequestWhatsApp, RequestEmail, SendFails, Sent, address
  <2>6. CASE DropCode \/ WrongCode \/ Redeem \/ DayPasses \/ GuessTooLate \/ Restart
    BY <2>1, <2>6 DEF DropCode, WrongCode, Redeem, DayPasses, GuessTooLate, Restart, address
  <2>7. CASE \E c \in VerifyCalls :
               \/ \E email \in Addresses : StartVerification(c, email)
               \/ VerificationSent(c) \/ VerificationFails(c)
    BY <2>1, <2>7 DEF StartVerification, VerificationSent, VerificationFails, address
  <2>8. CASE \E c \in GuessCalls :
               \/ Guess(c)
               \/ \E answer \in {"matched", "wrong_code", "too_many_attempts", "no_pending", "unavailable"} :
                    RelayAnswers(c, answer)
    BY <2>1, <2>8 DEF Guess, RelayAnswers, address
  <2> HIDE DEF Earned
  <2> QED
    BY <2>2, <2>3, <2>4, <2>5, <2>6, <2>7, <2>8 DEF ResetNext
<1> HIDE DEF Earned
<1>2. ResetSpec => [][Earned]_resetVars
  BY <1>1, HeldAlways, PTL DEF ResetSpec
<1> QED
  BY <1>2 DEF RemoveIsFinal, Earned

\* A token that arrives for a verification nobody gave up is stored.
THEOREM TokenIsNotLostHolds == ResetSpec => TokenIsNotLost
<1> DEFINE Kept == \A c \in GuessCalls :
                     GuessAnswered(c, TRUE) /\ guesses[c].answer = "matched" /\ guesses[c].id \notin closed
                       => record'.token = guesses[c].id /\ record'.verified
<1>1. ResetTypeOK /\ GuessesAreHeld => Kept
  <2> SUFFICES ASSUME ResetTypeOK, GuessesAreHeld, NEW c \in GuessCalls, GuessAnswered(c, TRUE),
                      guesses[c].answer = "matched", guesses[c].id \notin closed
               PROVE  record'.token = guesses[c].id /\ record'.verified
    OBVIOUS
  <2>1. guesses[c].pc = "answered"
    BY DEF GuessAnswered
  <2>2. AnsweredCurrent(guesses[c])
    BY <2>1 DEF GuessesAreHeld, AnsweredCurrent
  <2>3. record' = [email |-> guesses[c].email, token |-> guesses[c].id, verified |-> TRUE]
    BY <2>2 DEF GuessAnswered, SetRecord
  <2> QED
    BY <2>3
<1> HIDE DEF Kept
<1>2. ResetSpec => [][Kept]_resetVars
  BY <1>1, HeldAlways, PTL DEF ResetSpec
<1> QED
  BY <1>2 DEF TokenIsNotLost, Kept
=============================================================================
