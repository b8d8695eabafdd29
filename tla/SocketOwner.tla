---------------------------- MODULE SocketOwner ----------------------------
(***************************************************************************)
(* What the session promises about the connection: there is at most one,   *)
(* it is known by a number no earlier one had, and whatever invalidates it *)
(* issues a newer number, so that what an old connection still has to say  *)
(* can be told from what the present one says.                             *)
(***************************************************************************)
EXTENDS Naturals

VARIABLES
  owner,  \* the connection, if there is one
  last    \* the last number issued

Init == owner = {} /\ last = 0

\* A connection is taken on, under a number of its own.
Adopt ==
  /\ owner = {}
  /\ last' = last + 1
  /\ owner' = {last'}

\* The connection is disowned: it may take a while to end, and what it says
\* until then is stale.
Fence ==
  /\ owner # {}
  /\ last' = last + 1
  /\ owner' \in {owner, {}}

\* The connection ends without a new number: a disowned one, or the process.
Release ==
  /\ owner # {}
  /\ owner' = {}
  /\ last' = last

\* A number is given up without a connection: an unlink with nothing to cut.
Skip ==
  /\ owner = {}
  /\ last' = last + 1
  /\ owner' = owner

Next == Adopt \/ Fence \/ Release \/ Skip

Spec == Init /\ [][Next]_<<owner, last>>

\* At most one connection, and never one that was not numbered.
AtMostOne == \A s, t \in owner : s = t /\ s <= last
=============================================================================
