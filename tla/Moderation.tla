------------------------------ MODULE Moderation ------------------------------
(* One member of one group under the group's moderation: the ledger of        *)
(* warnings and the flag for review (database), the claim of each moderated    *)
(* message (database), the enforcements in flight, which delete, announce and  *)
(* remove over the network, the anti-spam memory, and WhatsApp, which may      *)
(* deliver a message again and answers a removal late, badly or not at all.    *)
(* The member has two names, a LID and a phone number; the bot learns at some  *)
(* point that they are the same person.                                        *)
EXTENDS Integers, FiniteSets, FiniteSetsExt

CONSTANTS Messages,  \* messages of the member, or of an admin who warns him
          Hits,      \* Hits[m]: the features message m offends, "manual" for a warning
          Policies,  \* the policies the panel can set
          Tasks,     \* enforcements that can be in flight together
          Lid, Pn,   \* the two names of the member
          Budget     \* bound on deliveries, operator actions, crashes and departures

Features == {"antilink", "media", "forbidden", "antispam", "manual"}

Ids == {Lid, Pn}

NoMessage == "none"

Actions == {"DELETE", "WARN", "KICK"}

Policy == [mode : {"simple", "severity"}, limit : Nat \ {0}, limitAction : {"KICK", "FLAG"},
           features : [Features -> Actions], hitMerge : {"max", "sum"}, weights : [Features -> Nat \ {0}],
           flagAt : Nat \ {0}, kickAt : Nat \ {0}, decay : {"off", "expire", "step"},
           membership : {"keep", "clear"}, notify : {"group", "silent"}, cooldown : BOOLEAN,
           whileFlagged : {"record", "hold", "escalate"}, escalateAfter : Nat \ {0}]

ASSUME ModerationAssumption ==
  /\ Lid # Pn
  /\ NoMessage \notin Messages
  /\ Hits \in [Messages -> SUBSET Features]
  /\ Policies \subseteq Policy
  /\ Budget \in Nat

Unclaimed == [outcome |-> "unclaimed", kicked |-> FALSE, notified |-> FALSE]

NoFlag == [open |-> FALSE, repeat |-> 0, told |-> FALSE]

Idle == [pc |-> "idle", msg |-> NoMessage, id |-> Pn, kick |-> FALSE,
         announce |-> FALSE, repeat |-> 0, answer |-> "none"]

VARIABLES
  policy,    \* the group's settings, read afresh for every message
  linked,    \* lid_mapping knows that the two names are one member
  warnings,  \* warnings[i]: the row of name i, a set of counted messages
  flags,     \* flags[i]: the row of name i in moderation_flags
  applied,   \* applied[m]: the row of m in moderation_applied
  old,       \* messages whose warning is older than the policy's days
  seen,      \* anti-spam, in memory: observed message ids
  spamHits,  \* anti-spam, in memory: ids that were a hit
  tasks,     \* the enforcements in flight
  member,    \* WhatsApp: the member is in the group
  leaving,   \* WhatsApp: a participants update that says he left is on its way
  waived,    \* history: names whose limit needs no reaction, see AtLimitIsHandled
  budget

store == <<linked, warnings, flags, applied>>
memory == <<seen, spamHits>>
group == <<member, leaving>>
vars == <<policy, store, old, memory, tasks, group, waived, budget>>

Spend == budget > 0 /\ budget' = budget - 1
-----------------------------------------------------------------------------
(* The names of a member and his rows                                         *)

Aliases(id) == IF linked THEN Ids ELSE {id}

Canonical(id) == IF Pn \in Aliases(id) THEN Pn ELSE id

\* Mutant: only the row of the name at hand is read.
EventsOfName(id) == warnings[id]

Events(id) == UNION {warnings[i] : i \in Aliases(id)}

\* The row found under the name itself comes first, then one of an alias.
FlagOf(id) ==
  IF flags[id].open \/ \A i \in Aliases(id) : ~flags[i].open
    THEN flags[id]
    ELSE flags[CHOOSE i \in Aliases(id) : flags[i].open]

SaveWarnings(id, events) ==
  warnings' = [i \in Ids |-> CASE i = Canonical(id) -> events
                               [] i # Canonical(id) /\ i \in Aliases(id) -> {}
                               [] OTHER -> warnings[i]]

SaveFlag(id, repeat) ==
  flags' = [i \in Ids |->
              CASE i = Canonical(id) -> [open |-> TRUE, repeat |-> repeat, told |-> FlagOf(id).told]
                [] i # Canonical(id) /\ i \in Aliases(id) -> NoFlag
                [] OTHER -> flags[i]]

ClearFlags(names) == flags' = [i \in Ids |-> IF i \in names THEN NoFlag ELSE flags[i]]

ClearMember(names) ==
  /\ warnings' = [i \in Ids |-> IF i \in names THEN {} ELSE warnings[i]]
  /\ ClearFlags(names)
-----------------------------------------------------------------------------
(* The policy: what a message is worth and what follows from it               *)

MaxPointsPerMessage == 50

Counting(hits, p) == {f \in hits : p.features[f] \in {"WARN", "KICK"}}

\* The action of the strongest hit.
Immediate(hits, p) ==
  CASE \E f \in hits : p.features[f] = "KICK" -> "KICK"
    [] \A f \in hits : p.features[f] = "DELETE" -> "DELETE"
    [] OTHER -> "WARN"

\* The sum of the values of f, counted unit by unit.
Total(f) == Cardinality(UNION {{x} \X (1..f[x]) : x \in DOMAIN f})

Points(hits, p) ==
  CASE Counting(hits, p) = {} -> 0
    [] Counting(hits, p) # {} /\ p.mode = "simple" -> 1
    [] Counting(hits, p) # {} /\ p.mode = "severity" /\ p.hitMerge = "max" ->
         Max({p.weights[f] : f \in Counting(hits, p)})
    [] OTHER -> LET total == Total([f \in Counting(hits, p) |-> p.weights[f]])
                IN IF total > MaxPointsPerMessage THEN MaxPointsPerMessage ELSE total

Worth(event, p) ==
  CASE event.msg \notin old \/ p.decay = "off" -> event.points
    [] event.msg \in old /\ p.decay = "expire" -> 0
    [] OTHER -> event.points - 1

Effective(events, p) == Total([e \in events |-> Worth(e, p)])

Decision(immediate, effective, flagged, repeat, p) ==
  LET kick == \/ immediate = "KICK"
              \/ /\ p.mode = "simple"
                 /\ \/ effective >= p.limit /\ p.limitAction = "KICK"
                    \/ flagged /\ p.whileFlagged = "escalate" /\ repeat >= p.escalateAfter
              \/ p.mode = "severity" /\ effective >= p.kickAt
      flag == \/ p.mode = "simple" /\ effective >= p.limit /\ p.limitAction = "FLAG"
              \/ p.mode = "severity" /\ effective >= p.flagAt
  IN CASE kick -> "kick"
       [] ~kick /\ flag -> "flag"
       [] OTHER -> IF immediate = "DELETE" THEN "delete" ELSE "warn"
-----------------------------------------------------------------------------
Init ==
  /\ policy \in Policies
  /\ linked \in BOOLEAN
  /\ warnings = [i \in Ids |-> {}]
  /\ flags = [i \in Ids |-> NoFlag]
  /\ applied = [m \in Messages |-> Unclaimed]
  /\ old = {}
  /\ seen = {} /\ spamHits = {}
  /\ tasks = [t \in Tasks |-> Idle]
  /\ member = TRUE /\ leaving = FALSE
  /\ waived = {}
  /\ budget = Budget

\* The anti-spam observer: it looks at a message once, remembers a hit and
\* reports it again; whether the window is full depends on other traffic.
Observe(m, hit) ==
  \/ "antispam" \notin Hits[m] /\ ~hit /\ UNCHANGED memory
  \/ "antispam" \in Hits[m] /\ m \in seen /\ hit = (m \in spamHits) /\ UNCHANGED memory
  \/ /\ "antispam" \in Hits[m] /\ m \notin seen
     /\ seen' = seen \cup {m}
     /\ spamHits' = IF hit THEN spamHits \cup {m} ELSE spamHits

\* Mutant: without the claims a message counts as new once its warning is cleared.
FreshByLedger(m) == \A i \in Ids : \A e \in warnings[i] : e.msg # m

Fresh(m) == applied[m] = Unclaimed

\* Mutant: the row is inserted without its last column.
ClaimRowShort(decision) == [outcome |-> decision, kicked |-> FALSE]

ClaimRow(decision) == [outcome |-> decision, kicked |-> FALSE, notified |-> FALSE]

\* A message found claimed: only a removal that was decided and is not noted
\* is tried again, with what the flag remembers.
Duplicate(t, m, id) ==
  /\ ~Fresh(m)
  /\ tasks' = IF applied[m].outcome = "kick" /\ ~applied[m].kicked
                THEN [tasks EXCEPT ![t] = [Idle EXCEPT !.pc = "kick", !.msg = m, !.id = id,
                                                       !.kick = TRUE, !.repeat = FlagOf(id).repeat]]
                ELSE tasks
  /\ UNCHANGED <<store, waived>>

\* The transaction that claims the message: points, flag and decision.
Claim(t, m, id, hits, admin) ==
  /\ Fresh(m)
  /\ LET flag      == FlagOf(id)
         immediate == Immediate(hits, policy)
         held      == flag.open /\ policy.whileFlagged = "hold" /\ immediate # "KICK"
         known     == \E e \in Events(id) : e.msg = m
         added     == IF held \/ known THEN 0 ELSE Points(hits, policy)
         events    == IF added > 0 THEN Events(id) \cup {[msg |-> m, points |-> added]} ELSE Events(id)
         repeat    == IF flag.open /\ policy.whileFlagged # "hold" THEN flag.repeat + added ELSE flag.repeat
         effective == Effective(events, policy)
         decision  == Decision(immediate, effective, flag.open, repeat, policy)
         kick      == decision = "kick" /\ admin
         converted == decision = "kick" /\ ~admin
     IN /\ IF added > 0 THEN SaveWarnings(id, events) ELSE UNCHANGED warnings
        /\ IF decision = "flag" \/ converted \/ (flag.open /\ decision # "kick")
             THEN SaveFlag(id, repeat)
             ELSE UNCHANGED flags
        /\ applied' = [applied EXCEPT ![m] = ClaimRow(decision)]
        /\ waived' = waived \ Aliases(id)
        /\ \E due \in BOOLEAN :
             LET tell == /\ policy.notify = "group"
                         /\ due
                         /\ \/ decision = "flag"
                            \/ converted /\ policy.mode = "simple" /\ effective >= policy.limit
             IN /\ due \/ (flag.told /\ policy.cooldown)
                /\ tasks' = IF decision = "flag" /\ ~tell THEN tasks
                            ELSE [tasks EXCEPT ![t] = [pc |-> "notice", msg |-> m, id |-> id, kick |-> kick,
                                                       announce |-> tell, repeat |-> repeat, answer |-> "none"]]
  /\ UNCHANGED linked

\* A delivery, the first or a later one, under one of the names. What the
\* roster says of the bot's own rights may be stale, so it may say anything.
Deliver(t, m, id) ==
  /\ Spend
  /\ tasks[t] = Idle
  /\ \E hit, admin \in BOOLEAN :
       /\ Observe(m, hit)
       /\ LET hits == IF hit THEN Hits[m] ELSE Hits[m] \ {"antispam"}
          IN \/ hits = {} /\ UNCHANGED <<tasks, store, waived>>
             \/ hits # {} /\ (Duplicate(t, m, id) \/ Claim(t, m, id, hits, admin))
  /\ UNCHANGED <<policy, old, group>>

Over(t) == [tasks EXCEPT ![t] = Idle]

\* Deleting the message and announcing the rule, then the removal if one was decided.
Notice(t, sent) ==
  /\ tasks[t].pc = "notice"
  /\ IF sent
       THEN /\ applied' = [applied EXCEPT ![tasks[t].msg].notified = TRUE]
            /\ flags' = IF tasks[t].announce /\ flags[Canonical(tasks[t].id)].open
                          THEN [flags EXCEPT ![Canonical(tasks[t].id)].told = TRUE]
                          ELSE flags
       ELSE UNCHANGED <<applied, flags>>
  /\ tasks' = IF tasks[t].kick THEN [tasks EXCEPT ![t].pc = "kick"] ELSE Over(t)
  /\ UNCHANGED <<policy, linked, warnings, old, memory, group, waived, budget>>

\* The request reaches WhatsApp, which removes a member who is there, or refuses;
\* the call may also throw, with or without its effect.
Remove(t, answer) ==
  /\ tasks[t].pc = "kick"
  /\ tasks' = [tasks EXCEPT ![t].pc = "answer", ![t].answer = answer]
  /\ \/ answer \in {"removed", "thrown"} /\ member /\ member' = FALSE /\ leaving' = TRUE
     \/ answer \in {"refused", "thrown"} /\ UNCHANGED group
  /\ UNCHANGED <<policy, store, old, memory, waived, budget>>

\* Removed: the member's rows go and the claim notes it. Otherwise he is flagged.
Removed(t) ==
  /\ tasks[t].pc = "answer"
  /\ tasks[t].answer = "removed"
  /\ ClearMember(Aliases(tasks[t].id))
  /\ applied' = IF tasks[t].msg = NoMessage THEN applied
                ELSE [applied EXCEPT ![tasks[t].msg].kicked = TRUE]
  /\ tasks' = Over(t)
  /\ UNCHANGED <<policy, linked, old, memory, group, waived, budget>>

\* Mutant: a removal that throws is only logged.
NotRemovedLogged(t) ==
  /\ tasks[t].pc = "answer"
  /\ tasks[t].answer # "removed"
  /\ IF tasks[t].msg = NoMessage \/ tasks[t].answer = "thrown" THEN UNCHANGED flags
     ELSE SaveFlag(tasks[t].id, tasks[t].repeat)
  /\ tasks' = Over(t)
  /\ UNCHANGED <<policy, linked, warnings, applied, old, memory, group, waived, budget>>

NotRemoved(t) ==
  /\ tasks[t].pc = "answer"
  /\ tasks[t].answer # "removed"
  /\ IF tasks[t].msg = NoMessage THEN UNCHANGED flags
     ELSE SaveFlag(tasks[t].id, tasks[t].repeat)
  /\ tasks' = Over(t)
  /\ UNCHANGED <<policy, linked, warnings, applied, old, memory, group, waived, budget>>
-----------------------------------------------------------------------------
(* The operator                                                               *)

\* !kick, and the panel's button beside a flagged member.
ManualKick(t, id) ==
  /\ Spend
  /\ tasks[t] = Idle
  /\ tasks' = [tasks EXCEPT ![t] = [Idle EXCEPT !.pc = "kick", !.id = id]]
  /\ UNCHANGED <<policy, store, old, memory, group, waived>>

\* !clearwarns, and the panel's clear.
ClearWarnings(id) ==
  /\ Spend
  /\ ClearMember(Aliases(id))
  /\ UNCHANGED <<policy, linked, applied, old, memory, tasks, group, waived>>

Dismiss(id) ==
  /\ Spend
  /\ ClearFlags(Aliases(id))
  /\ waived' = waived \cup Aliases(id)
  /\ UNCHANGED <<policy, linked, warnings, applied, old, memory, tasks, group>>

SetPolicy(p) ==
  /\ Spend
  /\ policy' = p
  /\ waived' = Ids
  /\ UNCHANGED <<store, old, memory, tasks, group>>
-----------------------------------------------------------------------------
(* WhatsApp, time and the process                                             *)

Leave ==
  /\ Spend
  /\ member /\ member' = FALSE /\ leaving' = TRUE
  /\ UNCHANGED <<policy, store, old, memory, tasks, waived>>

Rejoin ==
  /\ Spend
  /\ ~member /\ member' = TRUE
  /\ UNCHANGED <<policy, store, old, memory, tasks, leaving, waived>>

\* The participants update names the member by one of his names or by both.
ParticipantsUpdate(names) ==
  /\ leaving /\ leaving' = FALSE
  /\ IF policy.membership = "clear"
       THEN ClearMember(UNION {Aliases(id) : id \in names})
       ELSE UNCHANGED <<warnings, flags>>
  /\ UNCHANGED <<policy, linked, applied, old, memory, tasks, member, waived, budget>>

\* A message or a sync reveals that both names are the same member.
Link ==
  /\ Spend
  /\ ~linked /\ linked' = TRUE
  /\ waived' = Ids
  /\ UNCHANGED <<policy, warnings, flags, applied, old, memory, tasks, group>>

Age(m) ==
  /\ Spend
  /\ \E id \in Ids : \E e \in warnings[id] : e.msg = m
  /\ m \notin old /\ old' = old \cup {m}
  /\ UNCHANGED <<policy, store, memory, tasks, group, waived>>

\* The process dies and starts again; an update on its way may be lost with it.
Crash ==
  /\ Spend
  /\ tasks' = [t \in Tasks |-> Idle]
  /\ seen' = {} /\ spamHits' = {}
  /\ leaving' \in {leaving, FALSE}
  /\ waived' = waived \cup UNION {Aliases(tasks[t].id) : t \in {u \in Tasks : tasks[u].kick}}
  /\ UNCHANGED <<policy, store, old, member>>

Next ==
  \/ \E t \in Tasks :
       \/ \E m \in Messages, id \in Ids : Deliver(t, m, id)
       \/ \E sent \in BOOLEAN : Notice(t, sent)
       \/ \E answer \in {"removed", "refused", "thrown"} : Remove(t, answer)
       \/ Removed(t)
       \/ NotRemoved(t)
       \/ \E id \in Ids : ManualKick(t, id)
  \/ \E id \in Ids : ClearWarnings(id) \/ Dismiss(id)
  \/ \E p \in Policies : SetPolicy(p)
  \/ \E names \in {{Lid}, {Pn}, Ids} : ParticipantsUpdate(names)
  \/ \E m \in Messages : Age(m)
  \/ Leave \/ Rejoin \/ Link \/ Crash

Spec == Init /\ [][Next]_vars
-----------------------------------------------------------------------------
(* Properties                                                                 *)

Event == [msg : Messages, points : Nat \ {0}]

Flag == [open : BOOLEAN, repeat : Nat, told : BOOLEAN]

Claimed == [outcome : {"unclaimed", "warn", "delete", "flag", "kick"}, kicked : BOOLEAN, notified : BOOLEAN]

Task == [pc : {"idle", "notice", "kick", "answer"}, msg : Messages \cup {NoMessage}, id : Ids, kick : BOOLEAN,
         announce : BOOLEAN, repeat : Nat, answer : {"none", "removed", "refused", "thrown"}]

\* The ledger, the flags, the claims and the enforcements have their shape.
TypeOK ==
  /\ policy \in Policies /\ linked \in BOOLEAN
  /\ warnings \in [Ids -> SUBSET Event]
  /\ flags \in [Ids -> Flag]
  /\ applied \in [Messages -> Claimed]
  /\ old \subseteq Messages /\ seen \subseteq Messages /\ spamHits \subseteq Messages
  /\ tasks \in [Tasks -> Task]
  /\ member \in BOOLEAN /\ leaving \in BOOLEAN
  /\ waived \subseteq Ids
  /\ budget \in 0..Budget

Standing == UNION {warnings[i] : i \in Ids}

CountedMessages == {e.msg : e \in Standing}

\* However often WhatsApp delivers a message, under whichever name, before or
\* after a crash or after its warning was cleared: it adds points only in the
\* step that claims it, and the decision on it never changes.
CountsOnce ==
  [][/\ \A m \in CountedMessages' \ CountedMessages : applied[m] = Unclaimed
     /\ \A m \in Messages : applied[m] # Unclaimed => applied'[m].outcome = applied[m].outcome]_vars

\* No warning is lost when rows of two names become one, or when two
\* enforcements write the ledger: a warning goes only with everything else
\* that stands against the name, the flag included.
PointsAreKept ==
  [][\A e \in Standing \ Standing' :
       \E i \in Ids : /\ e \in warnings[i]
                      /\ \A j \in Aliases(i) : warnings'[j] = {} /\ ~flags'[j].open]_vars

Limit(p) == IF p.mode = "simple" THEN p.limit ELSE p.flagAt

Pending(id) == \E t \in Tasks : tasks[t].kick /\ tasks[t].id \in Aliases(id)

\* A member whose warnings reach the limit is flagged, or his removal is on
\* its way, whatever the other enforcements and the removals that fail do:
\* unless the operator dismissed his flag or changed the policy, the process
\* died over the removal, or the two names turned out to be one, and no
\* message was decided on since.
AtLimitIsHandled ==
  \A id \in Ids : Effective(Events(id), policy) >= Limit(policy)
                    => FlagOf(id).open \/ Pending(id) \/ id \in waived
=============================================================================
