----------------------------- MODULE AccountSwap -----------------------------
(* What restoring a backup promises: the settings change at once, the        *)
(* account's data waits and later takes the place of the data there was, as  *)
(* one step, or is discarded.                                                *)
CONSTANTS Restores,   \* restores, each of one backup
          Accounts,   \* those whose backup has the data of an account
          Own,        \* what the install had before any of them
          None

VARIABLES settings,   \* whose settings are in force
          account,    \* whose data the bot works with
          waiting,    \* whose data waits for its account to connect
          discarded   \* whose data the operator discarded

vars == <<settings, account, waiting, discarded>>

Init == settings = Own /\ account = Own /\ waiting = None /\ discarded = {}

\* A later restore replaces what waits.
Restore(r) == /\ settings' = r
              /\ waiting' = IF r \in Accounts THEN r ELSE waiting
              /\ UNCHANGED <<account, discarded>>

Activate == /\ waiting # None
            /\ account' = waiting
            /\ waiting' = None
            /\ UNCHANGED <<settings, discarded>>

Discard == /\ waiting # None
           /\ waiting' = None
           /\ discarded' = discarded \cup {waiting}
           /\ UNCHANGED <<settings, account>>

Next == (\E r \in Restores : Restore(r)) \/ Activate \/ Discard

Spec == Init /\ [][Next]_vars
=============================================================================
