--------------------------- MODULE ModerationProofs ---------------------------
(* Proofs, for every set of messages, offences, policies and enforcements:    *)
(* that the types hold, that a message counts once, that no warning is lost,   *)
(* and that a member at the limit is flagged or being removed. What his        *)
(* warnings add up to is the size of a finite set, which is all that the last  *)
(* needs: nothing adds up to zero, and a warning that ages is worth no more.   *)
EXTENDS Moderation, FiniteSetTheorems, TLAPS

\* What the rows are functions of; what a claim is a record of.
Shape ==
  /\ warnings = [i \in Ids |-> warnings[i]]
  /\ flags = [i \in Ids |-> flags[i]]
  /\ applied = [m \in Messages |-> applied[m]]
  /\ linked \in BOOLEAN
  /\ \A m \in Messages : DOMAIN applied[m] = {"outcome", "kicked", "notified"}

\* The names a name stands for are closed: whatever is done to the rows of a
\* member is done to all of them.
LEMMA AliasesClosed ==
  ASSUME NEW id \in Ids, NEW i \in Aliases(id)
  PROVE  i \in Ids /\ id \in Aliases(id) /\ Aliases(i) = Aliases(id) /\ Canonical(id) \in Aliases(id)
BY DEF Aliases, Canonical, Ids

LEMMA ClearingIsWhole ==
  ASSUME NEW names, ClearMember(names), \A i \in names : Aliases(i) \subseteq names
  PROVE  \A e \in Standing \ Standing' :
           \E i \in Ids : e \in warnings[i] /\ \A j \in Aliases(i) : warnings'[j] = {} /\ ~flags'[j].open
<1>1. \A i \in Ids : warnings'[i] = IF i \in names THEN {} ELSE warnings[i]
  BY DEF ClearMember
<1>2. \A i \in names \cap Ids : ~flags'[i].open
  BY DEF ClearMember, ClearFlags, NoFlag
<1> SUFFICES ASSUME NEW e \in Standing \ Standing'
             PROVE  \E i \in Ids : e \in warnings[i] /\ \A j \in Aliases(i) : warnings'[j] = {} /\ ~flags'[j].open
  OBVIOUS
<1>3. PICK i \in Ids : e \in warnings[i]
  BY DEF Standing
<1>4. i \in names
  BY <1>1, <1>3 DEF Standing
<1> QED
  <2>1. \A j \in Aliases(i) : j \in names \cap Ids
    BY <1>3, <1>4 DEF Aliases, Ids
  <2> QED
    BY <1>1, <1>2, <1>3, <2>1
-----------------------------------------------------------------------------
\* Saving the ledger keeps every warning, whichever rows become one.
LEMMA SavingKeeps ==
  ASSUME Shape, NEW id \in Ids, NEW events, Events(id) \subseteq events, SaveWarnings(id, events)
  PROVE  Standing \subseteq Standing'
<1>1. \A i \in Ids : warnings'[i] = CASE i = Canonical(id) -> events
                                      [] i # Canonical(id) /\ i \in Aliases(id) -> {}
                                      [] OTHER -> warnings[i]
  BY DEF SaveWarnings
<1>2. Canonical(id) \in Ids /\ warnings'[Canonical(id)] = events
  BY <1>1 DEF Canonical, Aliases, Ids
<1>3. ASSUME NEW e \in Standing
      PROVE  e \in Standing'
  <2>1. PICK i \in Ids : e \in warnings[i]
    BY <1>3 DEF Standing
  <2>2. CASE i \in Aliases(id)
    BY <2>1, <2>2, <1>2 DEF Events, Standing
  <2>3. CASE i \notin Aliases(id)
    <3>1. i # Canonical(id)
      BY <2>3 DEF Aliases, Canonical
    <3>2. warnings'[i] = warnings[i]
      BY <1>1, <2>3, <3>1
    <3> QED
      BY <2>1, <3>2 DEF Standing
  <2> QED
    BY <2>2, <2>3
<1> QED
  BY <1>3

\* Saving the ledger adds no warning that was not handed in.
LEMMA SavingAdds ==
  ASSUME NEW id \in Ids, NEW events, SaveWarnings(id, events)
  PROVE  Standing' \subseteq Standing \cup events
<1>1. \A i \in Ids : warnings'[i] \subseteq Standing \cup events
  BY DEF SaveWarnings, Standing
<1> QED
  BY <1>1 DEF Standing

\* What the claim of a message does to the ledger and to the claims.
LEMMA ClaimEffect ==
  ASSUME Shape, NEW t \in Tasks, NEW m \in Messages, NEW id \in Ids, NEW hits, NEW admin \in BOOLEAN,
         Claim(t, m, id, hits, admin)
  PROVE  /\ Standing \subseteq Standing'
         /\ CountedMessages' \ CountedMessages \subseteq {m}
         /\ applied[m] = Unclaimed
         /\ \E decision : applied' = [applied EXCEPT ![m] = ClaimRow(decision)]
<1>1. applied[m] = Unclaimed /\ \E decision : applied' = [applied EXCEPT ![m] = ClaimRow(decision)]
  BY Zenon DEF Claim, Fresh
<1>2. \/ UNCHANGED warnings
      \/ \E points : SaveWarnings(id, Events(id) \cup {[msg |-> m, points |-> points]})
  BY DEF Claim
<1>3. CASE UNCHANGED warnings
  <2>1. Standing' = Standing
    BY <1>3 DEF Standing
  <2>2. CountedMessages' = CountedMessages
    BY <2>1 DEF CountedMessages
  <2> QED
    BY <1>1, <2>1, <2>2
<1>4. ASSUME NEW points, SaveWarnings(id, Events(id) \cup {[msg |-> m, points |-> points]})
      PROVE  Standing \subseteq Standing' /\ CountedMessages' \ CountedMessages \subseteq {m}
  <2>1. Standing \subseteq Standing'
    BY <1>4, SavingKeeps
  <2>2. Standing' \subseteq Standing \cup {[msg |-> m, points |-> points]}
    BY <1>4, SavingAdds DEF Events, Standing, Aliases
  <2> QED
    BY <2>1, <2>2 DEF CountedMessages
<1> QED
  BY <1>1, <1>2, <1>3, <1>4

\* A mark on a claim leaves its decision, and the rows their shape.
LEMMA Marked ==
  ASSUME Shape, NEW m,
         \/ applied' = [applied EXCEPT ![m].notified = TRUE]
         \/ applied' = [applied EXCEPT ![m].kicked = TRUE]
  PROVE  /\ applied' = [k \in Messages |-> applied'[k]]
         /\ \A k \in Messages : /\ applied'[k].outcome = applied[k].outcome
                                /\ DOMAIN applied'[k] = {"outcome", "kicked", "notified"}
<1>1. ASSUME NEW k \in Messages
      PROVE  \/ applied'[k] = applied[k]
             \/ applied'[k] = [applied[k] EXCEPT !.notified = TRUE]
             \/ applied'[k] = [applied[k] EXCEPT !.kicked = TRUE]
  <2>1. applied = [i \in Messages |-> applied[i]]
    BY DEF Shape
  <2> QED
    BY <2>1
<1>2. ASSUME NEW k \in Messages
      PROVE  /\ applied'[k].outcome = applied[k].outcome
             /\ DOMAIN applied'[k] = {"outcome", "kicked", "notified"}
  <2>1. DOMAIN applied[k] = {"outcome", "kicked", "notified"}
    BY DEF Shape
  <2> QED
    BY <1>1, <2>1
<1>3. applied' = [k \in Messages |-> applied'[k]]
  BY DEF Shape
<1> QED
  BY <1>2, <1>3
-----------------------------------------------------------------------------
(* Every step                                                                 *)

\* The ledger stands and no decision is touched.
Harmless == Standing' = Standing /\ \A m \in Messages : applied'[m].outcome = applied[m].outcome

\* The rows of whole members go.
Clearing == /\ \E names : ClearMember(names) /\ \A i \in names : Aliases(i) \subseteq names
            /\ \A m \in Messages : applied'[m].outcome = applied[m].outcome

Claiming == \E t \in Tasks, m \in Messages, id \in Ids, admin \in BOOLEAN : \E hits : Claim(t, m, id, hits, admin)

\* The names of a name, and those of several, are names of whole members.
LEMMA WholeMembers ==
  /\ \A id : \A i \in Aliases(id) : Aliases(i) \subseteq Aliases(id)
  /\ \A names : \A i \in UNION {Aliases(id) : id \in names} : Aliases(i) \subseteq UNION {Aliases(id) : id \in names}
<1>1. ASSUME NEW id, NEW i \in Aliases(id)
      PROVE  Aliases(i) \subseteq Aliases(id)
  BY DEF Aliases
<1> QED
  BY <1>1

\* Every step but a claim and a clearing leaves the ledger; only a claim makes
\* a decision.
LEMMA StepCases ==
  ASSUME Shape, [Next]_vars
  PROVE  Harmless \/ Claiming \/ Clearing
<1>1. ASSUME UNCHANGED <<warnings, applied>>
      PROVE  Harmless
  BY <1>1 DEF Harmless, Standing
<1>2. ASSUME NEW t \in Tasks, NEW m \in Messages, NEW id \in Ids, Deliver(t, m, id)
      PROVE  Harmless \/ Claiming
  <2>1. PICK hit, admin \in BOOLEAN :
          LET hits == IF hit THEN Hits[m] ELSE Hits[m] \ {"antispam"}
          IN \/ hits = {} /\ UNCHANGED <<tasks, store, waived>>
             \/ hits # {} /\ (Duplicate(t, m, id) \/ Claim(t, m, id, hits, admin))
    BY <1>2, Zenon DEF Deliver
  <2>2. UNCHANGED store \/ \E hits : Claim(t, m, id, hits, admin)
    BY <2>1, Zenon DEF Duplicate
  <2> QED
    BY <1>1, <2>2 DEF Claiming, store
<1>3. ASSUME NEW t \in Tasks, NEW sent \in BOOLEAN, Notice(t, sent)
      PROVE  Harmless
  <2>1. CASE UNCHANGED applied
    BY <1>1, <1>3, <2>1 DEF Notice
  <2>2. CASE applied' = [applied EXCEPT ![tasks[t].msg].notified = TRUE]
    BY <1>3, <2>2, Marked DEF Notice, Harmless, Standing
  <2> QED
    BY <1>3, <2>1, <2>2 DEF Notice
<1>4. ASSUME NEW t \in Tasks, Removed(t)
      PROVE  Clearing
  <2>1. \A m \in Messages : applied'[m].outcome = applied[m].outcome
    BY <1>4, Marked DEF Removed
  <2> QED
    BY <1>4, <2>1, WholeMembers DEF Removed, Clearing
<1>5. ASSUME NEW t \in Tasks, NotRemoved(t)
      PROVE  Harmless
  BY <1>1, <1>5 DEF NotRemoved
<1>6. ASSUME NEW id \in Ids, ClearWarnings(id)
      PROVE  Clearing
  BY <1>6, WholeMembers DEF ClearWarnings, Clearing
<1>7. ASSUME NEW names, ParticipantsUpdate(names)
      PROVE  Harmless \/ Clearing
  <2>1. UNCHANGED applied
    BY <1>7 DEF ParticipantsUpdate
  <2>2. CASE UNCHANGED <<warnings, flags>>
    BY <1>1, <2>1, <2>2
  <2>3. CASE ClearMember(UNION {Aliases(id) : id \in names})
    BY <2>1, <2>3, WholeMembers DEF Clearing
  <2> QED
    BY <1>7, <2>2, <2>3 DEF ParticipantsUpdate
<1>8. CASE UNCHANGED vars
  BY <1>1, <1>8 DEF vars, store
<1>9. ASSUME NEW t \in Tasks, (\E answer \in {"removed", "refused", "thrown"} : Remove(t, answer))
                              \/ (\E id \in Ids : ManualKick(t, id))
      PROVE  Harmless
  BY <1>1, <1>9 DEF Remove, ManualKick, store
<1>10. ASSUME (\E id \in Ids : Dismiss(id)) \/ (\E p \in Policies : SetPolicy(p)) \/ (\E m \in Messages : Age(m))
              \/ Leave \/ Rejoin \/ Link \/ Crash
       PROVE  Harmless
  BY <1>1, <1>10 DEF Dismiss, SetPolicy, Age, Leave, Rejoin, Link, Crash, store
<1> QED
  BY <1>2, <1>3, <1>4, <1>5, <1>6, <1>7, <1>8, <1>9, <1>10 DEF Next

\* The shape is inductive.
LEMMA ShapeInit == Init => Shape
BY DEF Init, Shape, Unclaimed

LEMMA ShapeStep ==
  ASSUME Shape, [Next]_vars
  PROVE  Shape'
<1> DEFINE Fun(f) == f = [i \in Ids |-> f[i]]
<1>1. ASSUME NEW id, NEW repeat, SaveFlag(id, repeat)
      PROVE  Fun(flags')
  BY <1>1 DEF SaveFlag
<1>2. ASSUME NEW names, ClearMember(names)
      PROVE  Fun(warnings') /\ Fun(flags')
  BY <1>2 DEF ClearMember, ClearFlags
<1>3. ASSUME NEW names, ClearFlags(names)
      PROVE  Fun(flags')
  BY <1>3 DEF ClearFlags
<1>4. ASSUME NEW id, NEW events, SaveWarnings(id, events)
      PROVE  Fun(warnings')
  BY <1>4 DEF SaveWarnings
<1>5. ASSUME UNCHANGED <<warnings, flags>>
      PROVE  Fun(warnings') /\ Fun(flags')
  BY <1>5 DEF Shape
<1>6. ASSUME UNCHANGED applied
      PROVE  /\ applied' = [m \in Messages |-> applied'[m]]
             /\ \A m \in Messages : DOMAIN applied'[m] = {"outcome", "kicked", "notified"}
  BY <1>6 DEF Shape
<1>7. ASSUME UNCHANGED store
      PROVE  Shape'
  BY <1>7 DEF Shape, store
<1> HIDE DEF Fun
<1>8. ASSUME Fun(warnings'), Fun(flags'), linked' \in BOOLEAN,
             applied' = [m \in Messages |-> applied'[m]],
             \A m \in Messages : DOMAIN applied'[m] = {"outcome", "kicked", "notified"}
      PROVE  Shape'
  BY <1>8 DEF Fun, Shape
<1>9. linked \in BOOLEAN
  BY DEF Shape
<1>10. ASSUME NEW t \in Tasks, NEW m \in Messages, NEW id \in Ids, Deliver(t, m, id)
       PROVE  Shape'
  <2>1. PICK hit, admin \in BOOLEAN :
          LET hits == IF hit THEN Hits[m] ELSE Hits[m] \ {"antispam"}
          IN \/ hits = {} /\ UNCHANGED <<tasks, store, waived>>
             \/ hits # {} /\ (Duplicate(t, m, id) \/ Claim(t, m, id, hits, admin))
    BY <1>10, Zenon DEF Deliver
  <2>2. UNCHANGED store \/ \E hits : Claim(t, m, id, hits, admin)
    BY <2>1, Zenon DEF Duplicate
  <2>3. ASSUME NEW hits, Claim(t, m, id, hits, admin)
        PROVE  Shape'
    <3>1. UNCHANGED warnings \/ \E events : SaveWarnings(id, events)
      BY <2>3, Zenon DEF Claim
    <3>2. UNCHANGED flags \/ \E repeat : SaveFlag(id, repeat)
      BY <2>3, Zenon DEF Claim
    <3>3. UNCHANGED linked
      BY <2>3, Zenon DEF Claim
    <3>4. PICK decision : applied' = [applied EXCEPT ![m] = ClaimRow(decision)]
      BY <2>3, ClaimEffect
    <3>5. /\ applied' = [k \in Messages |-> applied'[k]]
          /\ \A k \in Messages : DOMAIN applied'[k] = {"outcome", "kicked", "notified"}
      BY <3>4 DEF Shape, ClaimRow
    <3>6. Fun(warnings')
      BY <3>1, <1>4 DEF Fun, Shape
    <3>7. Fun(flags')
      BY <3>2, <1>1 DEF Fun, Shape
    <3> QED
      BY <3>3, <3>5, <3>6, <3>7, <1>8, <1>9
  <2> QED
    BY <2>2, <2>3, <1>7
<1>11. ASSUME NEW t \in Tasks, NEW sent \in BOOLEAN, Notice(t, sent)
       PROVE  Shape'
  <2>1. UNCHANGED <<warnings, linked>>
    BY <1>11 DEF Notice
  <2>2. Fun(warnings')
    BY <2>1 DEF Fun, Shape
  <2>3. UNCHANGED flags \/ \E i : flags' = [flags EXCEPT ![i].told = TRUE]
    BY <1>11, Zenon DEF Notice
  <2>4. Fun(flags')
    BY <2>3 DEF Fun, Shape
  <2>5. UNCHANGED applied \/ applied' = [applied EXCEPT ![tasks[t].msg].notified = TRUE]
    BY <1>11, Zenon DEF Notice
  <2> QED
    BY <2>1, <2>2, <2>4, <2>5, <1>6, <1>8, <1>9, Marked
<1>12. ASSUME NEW t \in Tasks, Removed(t)
       PROVE  Shape'
  <2>1. ClearMember(Aliases(tasks[t].id)) /\ UNCHANGED linked
    BY <1>12 DEF Removed
  <2>2. UNCHANGED applied \/ applied' = [applied EXCEPT ![tasks[t].msg].kicked = TRUE]
    BY <1>12, Zenon DEF Removed
  <2> QED
    BY <2>1, <2>2, <1>2, <1>6, <1>8, <1>9, Marked
<1>13. ASSUME NEW t \in Tasks, NotRemoved(t)
       PROVE  Shape'
  <2>1. UNCHANGED <<warnings, linked, applied>>
    BY <1>13 DEF NotRemoved
  <2>2. UNCHANGED flags \/ \E repeat : SaveFlag(tasks[t].id, repeat)
    BY <1>13, Zenon DEF NotRemoved
  <2>3. Fun(warnings') /\ Fun(flags')
    BY <2>1, <2>2, <1>1 DEF Fun, Shape
  <2> QED
    BY <2>1, <2>3, <1>6, <1>8, <1>9
<1>14. ASSUME NEW id \in Ids, ClearWarnings(id) \/ Dismiss(id)
       PROVE  Shape'
  <2>1. UNCHANGED <<linked, applied>>
    BY <1>14 DEF ClearWarnings, Dismiss
  <2>2. ClearMember(Aliases(id)) \/ (ClearFlags(Aliases(id)) /\ UNCHANGED warnings)
    BY <1>14 DEF ClearWarnings, Dismiss
  <2>3. Fun(warnings') /\ Fun(flags')
    BY <2>2, <1>2, <1>3 DEF Fun, Shape
  <2> QED
    BY <2>1, <2>3, <1>6, <1>8, <1>9
<1>15. ASSUME NEW names, ParticipantsUpdate(names)
       PROVE  Shape'
  <2>1. UNCHANGED <<linked, applied>>
    BY <1>15 DEF ParticipantsUpdate
  <2>2. ClearMember(UNION {Aliases(id) : id \in names}) \/ UNCHANGED <<warnings, flags>>
    BY <1>15, Zenon DEF ParticipantsUpdate
  <2>3. Fun(warnings') /\ Fun(flags')
    BY <2>2, <1>2, <1>5
  <2> QED
    BY <2>1, <2>3, <1>6, <1>8, <1>9
<1>16. CASE Link
  <2>1. linked' \in BOOLEAN /\ UNCHANGED <<warnings, flags, applied>>
    BY <1>16 DEF Link
  <2> QED
    BY <2>1, <1>5, <1>6, <1>8
<1>17. CASE UNCHANGED vars
  BY <1>7, <1>17 DEF vars
<1>18. ASSUME NEW t \in Tasks, (\E answer \in {"removed", "refused", "thrown"} : Remove(t, answer))
                               \/ (\E id \in Ids : ManualKick(t, id))
       PROVE  Shape'
  BY <1>7, <1>18 DEF Remove, ManualKick
<1>19. ASSUME (\E p \in Policies : SetPolicy(p)) \/ (\E m \in Messages : Age(m)) \/ Leave \/ Rejoin \/ Crash
       PROVE  Shape'
  BY <1>7, <1>19 DEF SetPolicy, Age, Leave, Rejoin, Crash
<1> QED
  BY <1>10, <1>11, <1>12, <1>13, <1>14, <1>15, <1>16, <1>17, <1>18, <1>19 DEF Next

THEOREM ShapeHolds == Spec => []Shape
<1>1. Shape /\ [Next]_vars => Shape'
  BY ShapeStep
<1> QED
  BY ShapeInit, <1>1, PTL DEF Spec
-----------------------------------------------------------------------------
(* The two properties                                                         *)

\* A message, however often delivered, adds to the ledger only in the step
\* that claims it, and the decision on it stands (commitModerationDecision).
THEOREM CountsOnceHolds == Spec => CountsOnce
<1> DEFINE Once == /\ \A m \in CountedMessages' \ CountedMessages : applied[m] = Unclaimed
                   /\ \A m \in Messages : applied[m] # Unclaimed => applied'[m].outcome = applied[m].outcome
<1>1. ASSUME Shape, [Next]_vars
      PROVE  Once
  <2>1. CASE Harmless
    BY <2>1 DEF Harmless, CountedMessages
  <2>2. CASE Clearing
    <3>1. Standing' \subseteq Standing
      BY <2>2 DEF Clearing, ClearMember, Standing
    <3> QED
      BY <2>2, <3>1 DEF Clearing, CountedMessages
  <2>3. CASE Claiming
    <3>1. PICK t \in Tasks, m \in Messages, id \in Ids, admin \in BOOLEAN : \E hits : Claim(t, m, id, hits, admin)
      BY <2>3 DEF Claiming
    <3>2. /\ CountedMessages' \ CountedMessages \subseteq {m}
          /\ applied[m] = Unclaimed
          /\ \E decision : applied' = [applied EXCEPT ![m] = ClaimRow(decision)]
      BY <1>1, <3>1, ClaimEffect
    <3>3. \A k \in Messages : k # m => applied'[k] = applied[k]
      BY <1>1, <3>2 DEF Shape
    <3> QED
      BY <3>2, <3>3
  <2> QED
    BY <1>1, <2>1, <2>2, <2>3, StepCases
<1> HIDE DEF Once
<1>2. Shape /\ Shape' /\ [Next]_vars => [Once]_vars
  BY <1>1
<1>3. Spec => [][Once]_vars
  BY <1>2, ShapeHolds, PTL DEF Spec
<1> QED
  BY <1>3 DEF CountsOnce, Once

\* No warning goes but with all that stands against the member, whatever rows
\* of his names become one (saveUserWarnings, clearMemberModeration).
THEOREM PointsAreKeptHolds == Spec => PointsAreKept
<1> DEFINE Kept == \A e \in Standing \ Standing' :
                     \E i \in Ids : /\ e \in warnings[i]
                                    /\ \A j \in Aliases(i) : warnings'[j] = {} /\ ~flags'[j].open
<1>1. ASSUME Shape, [Next]_vars
      PROVE  Kept
  <2>1. CASE Harmless
    BY <2>1 DEF Harmless
  <2>2. CASE Clearing
    BY <2>2, ClearingIsWhole DEF Clearing
  <2>3. CASE Claiming
    BY <1>1, <2>3, ClaimEffect DEF Claiming
  <2> QED
    BY <1>1, <2>1, <2>2, <2>3, StepCases
<1> HIDE DEF Kept
<1>2. Shape /\ Shape' /\ [Next]_vars => [Kept]_vars
  BY <1>1
<1>3. Spec => [][Kept]_vars
  BY <1>2, ShapeHolds, PTL DEF Spec
<1> QED
  BY <1>3 DEF PointsAreKept, Kept
-----------------------------------------------------------------------------
(* What a sum is: the size of a finite set                                    *)

Units(f) == UNION {{x} \X (1..f[x]) : x \in DOMAIN f}

LEMMA UnitsAreFinite ==
  ASSUME NEW f, IsFiniteSet(DOMAIN f), \A x \in DOMAIN f : f[x] \in Int
  PROVE  IsFiniteSet(Units(f))
<1> DEFINE g == [x \in DOMAIN f |-> {x} \X (1..f[x])]
           T == {{x} \X (1..f[x]) : x \in DOMAIN f}
<1>1. ASSUME NEW x \in DOMAIN f
      PROVE  IsFiniteSet({x} \X (1..f[x]))
  <2> DEFINE h == [k \in 1..f[x] |-> <<x, k>>]
  <2>1. h \in Surjection(1..f[x], {x} \X (1..f[x]))
    <3>1. h \in [1..f[x] -> {x} \X (1..f[x])]
      OBVIOUS
    <3>2. ASSUME NEW u \in {x} \X (1..f[x])
          PROVE  \E k \in 1..f[x] : h[k] = u
      <4>1. u[2] \in 1..f[x] /\ u = <<x, u[2]>>
        BY <3>2
      <4> QED
        BY <4>1
    <3> HIDE DEF h
    <3> QED
      BY <3>1, <3>2 DEF Surjection
  <2>2. IsFiniteSet(1..f[x])
    BY FS_Interval
  <2> QED
    BY <2>1, <2>2, FS_Surjection
<1>2. g \in Surjection(DOMAIN f, T)
  BY DEF Surjection
<1>3. IsFiniteSet(T)
  BY <1>2, FS_Surjection
<1>4. \A S \in T : IsFiniteSet(S)
  BY <1>1
<1> QED
  BY <1>3, <1>4, FS_UNION DEF Units

LEMMA TotalType ==
  ASSUME NEW f, IsFiniteSet(DOMAIN f), \A x \in DOMAIN f : f[x] \in Int
  PROVE  Total(f) \in Nat
BY UnitsAreFinite, FS_CardinalityType DEF Total, Units

\* What adds up nothing adds up to zero.
LEMMA TotalNone ==
  ASSUME NEW f, DOMAIN f = {}
  PROVE  Total(f) = 0
<1>1. UNION {{x} \X (1..f[x]) : x \in DOMAIN f} = {}
  OBVIOUS
<1> QED
  BY <1>1, FS_EmptySet DEF Total

\* A sum of smaller values is not larger.
LEMMA TotalMonotone ==
  ASSUME NEW f, NEW g, IsFiniteSet(DOMAIN f), DOMAIN g = DOMAIN f,
         \A x \in DOMAIN f : f[x] \in Int /\ g[x] \in Int /\ g[x] <= f[x]
  PROVE  Total(f) \in Nat /\ Total(g) \in Nat /\ Total(g) <= Total(f)
<1>1. IsFiniteSet(Units(f))
  BY UnitsAreFinite
<1>2. Units(g) \subseteq Units(f)
  <2>1. \A x \in DOMAIN f : 1..g[x] \subseteq 1..f[x]
    OBVIOUS
  <2>2. \A x \in DOMAIN f : {x} \X (1..g[x]) \subseteq {x} \X (1..f[x])
    BY <2>1
  <2> QED
    BY <2>2 DEF Units
<1>3. Cardinality(Units(g)) <= Cardinality(Units(f))
  BY <1>1, <1>2, FS_Subset
<1> QED
  BY <1>3, TotalType DEF Total, Units

\* The largest of the weights of some features is one of them.
LEMMA LargestWeight ==
  ASSUME NEW w \in [Features -> Nat], NEW S \in SUBSET Features, S # {}
  PROVE  Max({w[f] : f \in S}) \in Nat
<1> DEFINE Best(T) == T = {} \/ \E f \in T : \A g \in T : w[f] >= w[g]
<1>1. ASSUME NEW T \in SUBSET Features, Best(T), NEW x \in Features
      PROVE  Best(T \cup {x})
  <2>1. CASE T = {}
    BY <2>1
  <2>2. CASE T # {}
    <3>1. PICK f \in T : \A g \in T : w[f] >= w[g]
      BY <1>1, <2>2
    <3>2. CASE w[f] >= w[x]
      BY <3>1, <3>2
    <3>3. CASE ~(w[f] >= w[x])
      <4>1. \A g \in T \cup {x} : w[x] >= w[g]
        BY <3>1, <3>3
      <4> QED
        BY <4>1
    <3> QED
      BY <3>2, <3>3
  <2> QED
    BY <2>1, <2>2
<1>2. Best(S)
  <2> DEFINE S1 == S \cap {"antilink"}
             S2 == S \cap {"antilink", "media"}
             S3 == S \cap {"antilink", "media", "forbidden"}
             S4 == S \cap {"antilink", "media", "forbidden", "antispam"}
  <2>1. S1 = {} \/ S1 = {} \cup {"antilink"}
    OBVIOUS
  <2>2. S2 = S1 \/ S2 = S1 \cup {"media"}
    OBVIOUS
  <2>3. S3 = S2 \/ S3 = S2 \cup {"forbidden"}
    OBVIOUS
  <2>4. S4 = S3 \/ S4 = S3 \cup {"antispam"}
    OBVIOUS
  <2>5. S = S4 \/ S = S4 \cup {"manual"}
    BY DEF Features
  <2>6. /\ {} \in SUBSET Features /\ S1 \in SUBSET Features /\ S2 \in SUBSET Features
        /\ S3 \in SUBSET Features /\ S4 \in SUBSET Features
        /\ {"antilink", "media", "forbidden", "antispam", "manual"} \subseteq Features
    BY DEF Features
  <2>7. Best({})
    OBVIOUS
  <2> HIDE DEF S1, S2, S3, S4, Best
  <2>8. Best(S1)
    BY <2>1, <2>6, <2>7, <1>1
  <2>9. Best(S2)
    BY <2>2, <2>6, <2>8, <1>1
  <2>10. Best(S3)
    BY <2>3, <2>6, <2>9, <1>1
  <2>11. Best(S4)
    BY <2>4, <2>6, <2>10, <1>1
  <2> QED
    BY <2>5, <2>6, <2>11, <1>1
<1>3. \E x \in {w[f] : f \in S} : \A y \in {w[f] : f \in S} : x >= y
  BY <1>2
<1>4. Max({w[f] : f \in S}) \in {w[f] : f \in S}
  BY <1>3 DEF Max
<1> QED
  BY <1>4

\* What a message is worth is a number.
LEMMA PointsType ==
  ASSUME NEW p \in Policy, NEW hits \in SUBSET Features
  PROVE  Points(hits, p) \in Nat
<1> DEFINE C == Counting(hits, p)
           w == [f \in C |-> p.weights[f]]
<1>1. C \in SUBSET Features /\ p.weights \in [Features -> Nat] /\ p.mode \in {"simple", "severity"}
  BY DEF Counting, Policy
<1>2. Total(w) \in Nat
  <2>1. IsFiniteSet(Features)
    <3>1. IsFiniteSet({"antilink"} \cup {"media"})
      BY FS_Singleton, FS_Union
    <3>2. IsFiniteSet({"forbidden"} \cup {"antispam"})
      BY FS_Singleton, FS_Union
    <3>3. IsFiniteSet({"manual"})
      BY FS_Singleton
    <3>4. IsFiniteSet(({"antilink"} \cup {"media"}) \cup ({"forbidden"} \cup {"antispam"}))
      BY <3>1, <3>2, FS_Union
    <3>5. IsFiniteSet((({"antilink"} \cup {"media"}) \cup ({"forbidden"} \cup {"antispam"})) \cup {"manual"})
      BY <3>3, <3>4, FS_Union
    <3> QED
      BY <3>5 DEF Features
  <2>2. IsFiniteSet(C)
    BY <1>1, <2>1, FS_Subset
  <2>3. DOMAIN w = C /\ \A f \in C : w[f] \in Int
    BY <1>1
  <2> HIDE DEF w, C
  <2> QED
    BY <2>2, <2>3, TotalType
<1>3. C # {} => Max({p.weights[f] : f \in C}) \in Nat
  BY <1>1, LargestWeight
<1> QED
  BY <1>2, <1>3 DEF Points, MaxPointsPerMessage
-----------------------------------------------------------------------------
(* Types                                                                      *)

\* A row of the ledger is finite, and a removal that was decided is for a message.
LedgerOK ==
  /\ \A i \in Ids : IsFiniteSet(warnings[i])
  /\ \A t \in Tasks : tasks[t].kick => tasks[t].msg \in Messages

LEMMA PoliciesAreTyped ==
  ASSUME TypeOK
  PROVE  policy \in Policy
BY ModerationAssumption DEF TypeOK

LEMMA AliasType ==
  ASSUME NEW id \in Ids
  PROVE  Aliases(id) \subseteq Ids /\ Canonical(id) \in Ids /\ id \in Aliases(id)
BY DEF Aliases, Canonical, Ids

\* The flag of a member is open if one of his rows is.
LEMMA FlagOfMember ==
  ASSUME NEW id \in Ids
  PROVE  /\ FlagOf(id).open <=> (flags[id].open \/ \E i \in Aliases(id) : flags[i].open)
         /\ FlagOf(id)'.open <=> (flags'[id].open \/ \E i \in Aliases(id)' : flags'[i].open)
<1>1. CASE flags[id].open \/ \A i \in Aliases(id) : ~flags[i].open
  BY <1>1 DEF FlagOf
<1>2. CASE ~(flags[id].open \/ \A i \in Aliases(id) : ~flags[i].open)
  <2>1. \E i \in Aliases(id) : flags[i].open
    BY <1>2
  <2>2. flags[CHOOSE i \in Aliases(id) : flags[i].open].open
    BY <2>1
  <2> QED
    BY <1>2, <2>2 DEF FlagOf
<1>3. CASE flags'[id].open \/ \A i \in Aliases(id)' : ~flags'[i].open
  BY <1>3 DEF FlagOf
<1>4. CASE ~(flags'[id].open \/ \A i \in Aliases(id)' : ~flags'[i].open)
  <2>1. \E i \in Aliases(id)' : flags'[i].open
    BY <1>4
  <2>2. flags'[CHOOSE i \in Aliases(id)' : flags'[i].open].open
    BY <2>1
  <2> QED
    BY <1>4, <2>2 DEF FlagOf
<1> QED
  BY <1>1, <1>2, <1>3, <1>4

LEMMA FlagOfType ==
  ASSUME TypeOK, NEW id \in Ids
  PROVE  FlagOf(id) \in Flag
<1>1. Aliases(id) \subseteq Ids
  BY AliasType
<1>2. CASE flags[id].open \/ \A i \in Aliases(id) : ~flags[i].open
  BY <1>2 DEF FlagOf, TypeOK
<1>3. CASE ~(flags[id].open \/ \A i \in Aliases(id) : ~flags[i].open)
  <2>1. \E i \in Aliases(id) : flags[i].open
    BY <1>3
  <2>2. (CHOOSE i \in Aliases(id) : flags[i].open) \in Aliases(id)
    BY <2>1
  <2> QED
    BY <1>1, <1>3, <2>2 DEF FlagOf, TypeOK
<1> QED
  BY <1>2, <1>3

LEMMA NoFlagType == NoFlag \in Flag
BY DEF NoFlag, Flag

LEMMA SaveFlagType ==
  ASSUME TypeOK, NEW id \in Ids, NEW repeat \in Nat, SaveFlag(id, repeat)
  PROVE  flags' \in [Ids -> Flag] /\ flags'[Canonical(id)].open
<1>1. FlagOf(id).told \in BOOLEAN
  BY FlagOfType DEF Flag
<1>2. [open |-> TRUE, repeat |-> repeat, told |-> FlagOf(id).told] \in Flag
  BY <1>1 DEF Flag
<1>3. \A i \in Ids : flags[i] \in Flag
  BY DEF TypeOK
<1> QED
  BY <1>2, <1>3, NoFlagType, AliasType DEF SaveFlag

LEMMA ClearType ==
  ASSUME TypeOK, LedgerOK, NEW names
  PROVE  /\ ClearFlags(names) => flags' \in [Ids -> Flag]
         /\ ClearMember(names) => /\ warnings' \in [Ids -> SUBSET Event] /\ flags' \in [Ids -> Flag]
                                  /\ \A i \in Ids : IsFiniteSet(warnings'[i])
<1>1. \A i \in Ids : flags[i] \in Flag /\ warnings[i] \in SUBSET Event /\ IsFiniteSet(warnings[i])
  BY DEF TypeOK, LedgerOK
<1>2. ClearFlags(names) => flags' \in [Ids -> Flag]
  BY <1>1, NoFlagType DEF ClearFlags
<1> QED
  BY <1>1, <1>2, FS_EmptySet DEF ClearMember

LEMMA EventsType ==
  ASSUME TypeOK, LedgerOK, NEW id \in Ids
  PROVE  Events(id) \in SUBSET Event /\ IsFiniteSet(Events(id))
<1>1. \A i \in Ids : warnings[i] \in SUBSET Event /\ IsFiniteSet(warnings[i])
  BY DEF TypeOK, LedgerOK
<1>2. CASE linked
  <2>1. Events(id) = warnings[Lid] \cup warnings[Pn]
    BY <1>2 DEF Events, Aliases, Ids
  <2> QED
    BY <1>1, <2>1, FS_Union DEF Ids
<1>3. CASE ~linked
  BY <1>1, <1>3 DEF Events, Aliases
<1> QED
  BY <1>2, <1>3

LEMMA SaveWarningsType ==
  ASSUME TypeOK, LedgerOK, NEW id \in Ids, NEW events \in SUBSET Event, IsFiniteSet(events),
         SaveWarnings(id, events)
  PROVE  warnings' \in [Ids -> SUBSET Event] /\ \A i \in Ids : IsFiniteSet(warnings'[i])
<1>1. \A i \in Ids : warnings[i] \in SUBSET Event /\ IsFiniteSet(warnings[i])
  BY DEF TypeOK, LedgerOK
<1> QED
  BY <1>1, FS_EmptySet DEF SaveWarnings

\* A member at the limit is flagged, or removed.
LEMMA DecisionAtLimit ==
  ASSUME NEW immediate, NEW effective, NEW flagged, NEW repeat, NEW p \in Policy
  PROVE  /\ Decision(immediate, effective, flagged, repeat, p) \in {"kick", "flag", "delete", "warn"}
         /\ effective >= Limit(p) => Decision(immediate, effective, flagged, repeat, p) \in {"kick", "flag"}
BY DEF Decision, Limit, Policy

\* What a claim decides, and what it writes for each decision.
Writes(t, m, id, admin, events, repeat, decision) ==
  /\ IsFiniteSet(events)
  /\ SaveWarnings(id, events) \/ (UNCHANGED warnings /\ events = Events(id))
  /\ SaveFlag(id, repeat) \/ UNCHANGED flags
  /\ decision = "flag" \/ (decision = "kick" /\ ~admin) => SaveFlag(id, repeat)
  /\ Effective(events, policy) >= Limit(policy) => decision \in {"kick", "flag"}
  /\ applied' = [applied EXCEPT ![m] = ClaimRow(decision)]
  /\ \/ decision = "flag" /\ tasks' = tasks
     \/ \E tell \in BOOLEAN :
          tasks' = [tasks EXCEPT ![t] = [pc |-> "notice", msg |-> m, id |-> id,
                                         kick |-> (decision = "kick" /\ admin), announce |-> tell,
                                         repeat |-> repeat, answer |-> "none"]]
  /\ waived' = waived \ Aliases(id)
  /\ UNCHANGED linked

LEMMA ClaimWrites ==
  ASSUME TypeOK, LedgerOK, NEW t \in Tasks, NEW m \in Messages, NEW id \in Ids, NEW hits \in SUBSET Features,
         NEW admin \in BOOLEAN, Claim(t, m, id, hits, admin)
  PROVE  \E events \in SUBSET Event, repeat \in Nat, decision \in {"kick", "flag", "delete", "warn"} :
           Writes(t, m, id, admin, events, repeat, decision)
<1> DEFINE flag      == FlagOf(id)
           immediate == Immediate(hits, policy)
           held      == flag.open /\ policy.whileFlagged = "hold" /\ immediate # "KICK"
           known     == \E e \in Events(id) : e.msg = m
           added     == IF held \/ known THEN 0 ELSE Points(hits, policy)
           events    == IF added > 0 THEN Events(id) \cup {[msg |-> m, points |-> added]} ELSE Events(id)
           repeat    == IF flag.open /\ policy.whileFlagged # "hold" THEN flag.repeat + added ELSE flag.repeat
           effective == Effective(events, policy)
           decision  == Decision(immediate, effective, flag.open, repeat, policy)
<1>1. policy \in Policy
  BY PoliciesAreTyped
<1>2. added \in Nat
  BY <1>1, PointsType
<1>3. events \in SUBSET Event /\ IsFiniteSet(events)
  <2>1. Events(id) \in SUBSET Event /\ IsFiniteSet(Events(id))
    BY EventsType
  <2>2. added > 0 => [msg |-> m, points |-> added] \in Event
    BY <1>2 DEF Event
  <2>3. IsFiniteSet({[msg |-> m, points |-> added]})
    BY FS_Singleton
  <2>4. IsFiniteSet(Events(id) \cup {[msg |-> m, points |-> added]})
    BY <2>1, <2>3, FS_Union
  <2> HIDE DEF added
  <2> QED
    BY <2>1, <2>2, <2>4
<1>4. repeat \in Nat
  <2>1. flag.repeat \in Nat
    BY FlagOfType DEF Flag
  <2> HIDE DEF added, flag
  <2> QED
    BY <1>2, <2>1
<1>5. /\ decision \in {"kick", "flag", "delete", "warn"}
      /\ effective >= Limit(policy) => decision \in {"kick", "flag"}
  BY <1>1, DecisionAtLimit
<1>6. /\ IF added > 0 THEN SaveWarnings(id, events) ELSE UNCHANGED warnings
      /\ IF decision = "flag" \/ (decision = "kick" /\ ~admin) \/ (flag.open /\ decision # "kick")
           THEN SaveFlag(id, repeat)
           ELSE UNCHANGED flags
      /\ applied' = [applied EXCEPT ![m] = ClaimRow(decision)]
      /\ waived' = waived \ Aliases(id)
  BY DEF Claim
<1>7. \/ decision = "flag" /\ tasks' = tasks
      \/ \E tell \in BOOLEAN :
           tasks' = [tasks EXCEPT ![t] = [pc |-> "notice", msg |-> m, id |-> id,
                                          kick |-> (decision = "kick" /\ admin), announce |-> tell,
                                          repeat |-> repeat, answer |-> "none"]]
  <2> DEFINE tell(due) == /\ policy.notify = "group"
                          /\ due
                          /\ \/ decision = "flag"
                             \/ (decision = "kick" /\ ~admin) /\ policy.mode = "simple" /\ effective >= policy.limit
  <2>1. PICK due \in BOOLEAN :
          tasks' = IF decision = "flag" /\ ~tell(due) THEN tasks
                   ELSE [tasks EXCEPT ![t] = [pc |-> "notice", msg |-> m, id |-> id,
                                              kick |-> (decision = "kick" /\ admin), announce |-> tell(due),
                                              repeat |-> repeat, answer |-> "none"]]
    BY Zenon DEF Claim
  <2>2. tell(due) \in BOOLEAN
    OBVIOUS
  <2> HIDE DEF tell, decision, repeat
  <2> QED
    BY <2>1, <2>2
<1>8. UNCHANGED linked
  BY DEF Claim
<1>9. SaveWarnings(id, events) \/ (UNCHANGED warnings /\ events = Events(id))
  <2> HIDE DEF added, decision, flag
  <2> QED
    BY <1>6
<1>10. /\ SaveFlag(id, repeat) \/ UNCHANGED flags
       /\ decision = "flag" \/ (decision = "kick" /\ ~admin) => SaveFlag(id, repeat)
  <2> HIDE DEF added, decision, flag, repeat, events
  <2> QED
    BY <1>6
<1> HIDE DEF events, repeat, decision, effective, added, flag
<1>11. effective = Effective(events, policy)
  BY DEF effective
<1>12. Writes(t, m, id, admin, events, repeat, decision)
  BY <1>3, <1>5, <1>6, <1>7, <1>8, <1>9, <1>10, <1>11 DEF Writes
<1> QED
  BY <1>3, <1>4, <1>5, <1>12

LEMMA IdleType == Idle \in Task /\ Idle.kick = FALSE
BY DEF Idle, Task, Ids

\* The budget only falls.
LEMMA SpendType ==
  ASSUME TypeOK, Spend
  PROVE  budget' \in 0..Budget
BY ModerationAssumption DEF TypeOK, Spend

\* A mark on a claim keeps its type.
LEMMA MarkType ==
  ASSUME TypeOK, NEW m,
         \/ applied' = applied
         \/ applied' = [applied EXCEPT ![m].notified = TRUE]
         \/ applied' = [applied EXCEPT ![m].kicked = TRUE]
  PROVE  applied' \in [Messages -> Claimed]
<1>1. applied \in [Messages -> Claimed]
  BY DEF TypeOK
<1>2. \A r \in Claimed : [r EXCEPT !.notified = TRUE] \in Claimed /\ [r EXCEPT !.kicked = TRUE] \in Claimed
  BY DEF Claimed
<1>3. \A k \in Messages : applied'[k] \in Claimed
  BY <1>1, <1>2
<1> QED
  BY <1>1, <1>3

\* An enforcement is replaced by a typed one.
LEMMA TaskType ==
  ASSUME TypeOK, LedgerOK, NEW t \in Tasks, NEW r \in Task, r.kick => r.msg \in Messages,
         tasks' = [tasks EXCEPT ![t] = r]
  PROVE  tasks' \in [Tasks -> Task] /\ \A u \in Tasks : tasks'[u].kick => tasks'[u].msg \in Messages
BY DEF TypeOK, LedgerOK

LEMMA TypeInit == Init => TypeOK /\ LedgerOK
<1> SUFFICES ASSUME Init
             PROVE  TypeOK /\ LedgerOK
  OBVIOUS
<1>1. Unclaimed \in Claimed
  BY DEF Unclaimed, Claimed
<1>2. TypeOK
  <2>1. flags \in [Ids -> Flag] /\ applied \in [Messages -> Claimed] /\ tasks \in [Tasks -> Task]
    BY <1>1, IdleType, NoFlagType DEF Init
  <2>2. warnings \in [Ids -> SUBSET Event] /\ budget \in 0..Budget
    BY ModerationAssumption DEF Init
  <2> QED
    BY <2>1, <2>2 DEF Init, TypeOK
<1>3. LedgerOK
  BY IdleType, FS_EmptySet DEF Init, LedgerOK
<1> QED
  BY <1>2, <1>3

LEMMA DeliverType ==
  ASSUME TypeOK, LedgerOK, NEW t \in Tasks, NEW m \in Messages, NEW id \in Ids, Deliver(t, m, id)
  PROVE  TypeOK' /\ LedgerOK'
<1>1. /\ Spend
      /\ UNCHANGED <<policy, old, group>>
  BY DEF Deliver
<1>2. PICK hit, admin \in BOOLEAN :
        /\ Observe(m, hit)
        /\ LET hits == IF hit THEN Hits[m] ELSE Hits[m] \ {"antispam"}
           IN \/ hits = {} /\ UNCHANGED <<tasks, store, waived>>
              \/ hits # {} /\ (Duplicate(t, m, id) \/ Claim(t, m, id, hits, admin))
  BY Zenon DEF Deliver
<1>3. seen' \subseteq Messages /\ spamHits' \subseteq Messages
  BY <1>2 DEF Observe, memory, TypeOK
<1>4. budget' \in 0..Budget
  BY <1>1, SpendType
<1>5. ASSUME warnings' \in [Ids -> SUBSET Event], \A i \in Ids : IsFiniteSet(warnings'[i]),
             flags' \in [Ids -> Flag], applied' \in [Messages -> Claimed], linked' \in BOOLEAN,
             tasks' \in [Tasks -> Task], \A u \in Tasks : tasks'[u].kick => tasks'[u].msg \in Messages,
             waived' \subseteq Ids
      PROVE  TypeOK' /\ LedgerOK'
  BY <1>1, <1>3, <1>4, <1>5 DEF TypeOK, LedgerOK, group
<1>6. CASE UNCHANGED <<tasks, store, waived>>
  BY <1>5, <1>6 DEF TypeOK, LedgerOK, store
<1>7. CASE Duplicate(t, m, id)
  <2> DEFINE r == [Idle EXCEPT !.pc = "kick", !.msg = m, !.id = id, !.kick = TRUE, !.repeat = FlagOf(id).repeat]
  <2>1. r \in Task /\ r.msg \in Messages
    BY FlagOfType, IdleType DEF Flag, Task, Idle
  <2>2. tasks' = tasks \/ tasks' = [tasks EXCEPT ![t] = r]
    BY <1>7 DEF Duplicate
  <2>3. tasks' \in [Tasks -> Task] /\ \A u \in Tasks : tasks'[u].kick => tasks'[u].msg \in Messages
    <3> HIDE DEF r
    <3> QED
      BY <2>1, <2>2, TaskType DEF TypeOK, LedgerOK
  <2> QED
    BY <1>5, <1>7, <2>3 DEF Duplicate, TypeOK, LedgerOK, store
<1>8. ASSUME NEW hits \in SUBSET Features, Claim(t, m, id, hits, admin)
      PROVE  TypeOK' /\ LedgerOK'
  <2>1. PICK events \in SUBSET Event, repeat \in Nat, decision \in {"kick", "flag", "delete", "warn"} :
          Writes(t, m, id, admin, events, repeat, decision)
    BY <1>8, ClaimWrites
  <2>2. warnings' \in [Ids -> SUBSET Event] /\ \A i \in Ids : IsFiniteSet(warnings'[i])
    <3>1. CASE SaveWarnings(id, events)
      BY <2>1, <3>1, SaveWarningsType DEF Writes
    <3>2. CASE UNCHANGED warnings
      BY <3>2 DEF TypeOK, LedgerOK
    <3> QED
      BY <2>1, <3>1, <3>2 DEF Writes
  <2>3. flags' \in [Ids -> Flag]
    <3>1. CASE SaveFlag(id, repeat)
      BY <3>1, SaveFlagType
    <3>2. CASE UNCHANGED flags
      BY <3>2 DEF TypeOK
    <3> QED
      BY <2>1, <3>1, <3>2 DEF Writes
  <2>4. applied' \in [Messages -> Claimed]
    BY <2>1 DEF Writes, TypeOK, ClaimRow, Claimed
  <2>5. tasks' \in [Tasks -> Task] /\ \A u \in Tasks : tasks'[u].kick => tasks'[u].msg \in Messages
    <3>1. CASE tasks' = tasks
      BY <3>1 DEF TypeOK, LedgerOK
    <3>2. ASSUME NEW tell \in BOOLEAN,
                 tasks' = [tasks EXCEPT ![t] = [pc |-> "notice", msg |-> m, id |-> id,
                                                kick |-> (decision = "kick" /\ admin), announce |-> tell,
                                                repeat |-> repeat, answer |-> "none"]]
          PROVE  tasks' \in [Tasks -> Task] /\ \A u \in Tasks : tasks'[u].kick => tasks'[u].msg \in Messages
      <4> DEFINE r == [pc |-> "notice", msg |-> m, id |-> id, kick |-> (decision = "kick" /\ admin),
                       announce |-> tell, repeat |-> repeat, answer |-> "none"]
      <4>1. r \in Task /\ r.msg \in Messages
        BY DEF Task
      <4> HIDE DEF r
      <4>2. tasks' = [tasks EXCEPT ![t] = r]
        BY <3>2 DEF r
      <4> QED
        BY <4>1, <4>2, TaskType
    <3> QED
      BY <2>1, <3>1, <3>2 DEF Writes
  <2> QED
    BY <1>5, <2>1, <2>2, <2>3, <2>4, <2>5 DEF Writes, TypeOK
<1>9. (IF hit THEN Hits[m] ELSE Hits[m] \ {"antispam"}) \in SUBSET Features
  BY ModerationAssumption
<1> QED
  BY <1>2, <1>6, <1>7, <1>8, <1>9

LEMMA TypeStep ==
  ASSUME TypeOK, LedgerOK, [Next]_vars
  PROVE  TypeOK' /\ LedgerOK'
<1> DEFINE Rows == /\ warnings' \in [Ids -> SUBSET Event] /\ flags' \in [Ids -> Flag]
                   /\ \A i \in Ids : IsFiniteSet(warnings'[i])
           Work == /\ tasks' \in [Tasks -> Task]
                   /\ \A u \in Tasks : tasks'[u].kick => tasks'[u].msg \in Messages
<1>1. Spend \/ UNCHANGED budget => budget' \in 0..Budget
  BY SpendType DEF TypeOK
<1>2. UNCHANGED <<warnings, flags>> => Rows
  BY DEF TypeOK, LedgerOK
<1>3. UNCHANGED tasks => Work
  BY DEF TypeOK, LedgerOK
<1>4. \A t \in Tasks : tasks' = [tasks EXCEPT ![t] = Idle] => Work
  BY IdleType, TaskType
<1>5. ASSUME Rows, Work, Spend \/ UNCHANGED budget, UNCHANGED <<policy, linked, applied, old, memory, group, waived>>
      PROVE  TypeOK' /\ LedgerOK'
  BY <1>1, <1>5 DEF TypeOK, LedgerOK, memory, group
<1>6. ASSUME NEW t \in Tasks, NEW sent \in BOOLEAN, Notice(t, sent)
      PROVE  TypeOK' /\ LedgerOK'
  <2>1. applied' \in [Messages -> Claimed]
    BY <1>6, MarkType DEF Notice
  <2>2. Rows
    <3>1. flags' \in [Ids -> Flag]
      <4>1. \A f \in Flag : [f EXCEPT !.told = TRUE] \in Flag
        BY DEF Flag
      <4>2. flags' = flags \/ \E i : flags' = [flags EXCEPT ![i].told = TRUE]
        BY <1>6, Zenon DEF Notice
      <4>3. flags \in [Ids -> Flag]
        BY DEF TypeOK
      <4> QED
        BY <4>1, <4>2, <4>3
    <3> QED
      BY <1>6, <3>1 DEF Notice, TypeOK, LedgerOK
  <2>3. Work
    <3> DEFINE r == [tasks[t] EXCEPT !.pc = "kick"]
    <3>1. tasks[t] \in Task /\ (tasks[t].kick => tasks[t].msg \in Messages)
      BY DEF TypeOK, LedgerOK
    <3>2. r \in Task /\ (r.kick => r.msg \in Messages)
      BY <3>1 DEF Task
    <3>3. \/ tasks' = [tasks EXCEPT ![t] = r]
          \/ tasks' = [tasks EXCEPT ![t] = Idle]
      BY <1>6 DEF Notice, Over
    <3> HIDE DEF r
    <3> QED
      BY <3>2, <3>3, <1>4, TaskType
  <2> QED
    BY <1>1, <1>6, <2>1, <2>2, <2>3 DEF Notice, TypeOK, LedgerOK, memory, group
<1>7. ASSUME NEW t \in Tasks, NEW answer \in {"removed", "refused", "thrown"}, Remove(t, answer)
      PROVE  TypeOK' /\ LedgerOK'
  <2>1. Work
    <3> DEFINE r == [tasks[t] EXCEPT !.pc = "answer", !.answer = answer]
    <3>1. tasks[t] \in Task /\ (tasks[t].kick => tasks[t].msg \in Messages)
      BY DEF TypeOK, LedgerOK
    <3>2. r \in Task /\ (r.kick => r.msg \in Messages)
      BY <3>1 DEF Task
    <3>3. tasks' = [tasks EXCEPT ![t] = r]
      BY <1>7 DEF Remove
    <3> HIDE DEF r
    <3> QED
      BY <3>2, <3>3, TaskType
  <2>2. member' \in BOOLEAN /\ leaving' \in BOOLEAN
    BY <1>7 DEF Remove, group, TypeOK
  <2> QED
    BY <1>1, <1>2, <1>7, <2>1, <2>2 DEF Remove, TypeOK, LedgerOK, store, memory
<1>8. ASSUME NEW t \in Tasks, Removed(t)
      PROVE  TypeOK' /\ LedgerOK'
  <2>1. applied' \in [Messages -> Claimed]
    BY <1>8, MarkType DEF Removed
  <2>2. Rows
    BY <1>8, ClearType DEF Removed
  <2>3. Work
    BY <1>4, <1>8 DEF Removed, Over
  <2> QED
    BY <1>1, <1>8, <2>1, <2>2, <2>3 DEF Removed, TypeOK, LedgerOK, memory, group
<1>9. ASSUME NEW t \in Tasks, NotRemoved(t)
      PROVE  TypeOK' /\ LedgerOK'
  <2>1. tasks[t].id \in Ids /\ tasks[t].repeat \in Nat
    BY DEF TypeOK, Task
  <2>2. Rows
    <3>1. CASE UNCHANGED flags
      BY <1>2, <1>9, <3>1 DEF NotRemoved
    <3>2. CASE SaveFlag(tasks[t].id, tasks[t].repeat)
      BY <1>9, <2>1, <3>2, SaveFlagType DEF NotRemoved, TypeOK, LedgerOK
    <3> QED
      BY <1>9, <3>1, <3>2 DEF NotRemoved
  <2>3. Work
    BY <1>4, <1>9 DEF NotRemoved, Over
  <2> QED
    BY <1>5, <1>9, <2>2, <2>3 DEF NotRemoved
<1>10. ASSUME NEW t \in Tasks, NEW id \in Ids, ManualKick(t, id)
       PROVE  TypeOK' /\ LedgerOK'
  <2>1. Work
    <3> DEFINE r == [Idle EXCEPT !.pc = "kick", !.id = id]
    <3>1. r \in Task /\ ~r.kick
      BY IdleType DEF Task, Idle
    <3>2. tasks' = [tasks EXCEPT ![t] = r]
      BY <1>10 DEF ManualKick
    <3> HIDE DEF r
    <3> QED
      BY <3>1, <3>2, TaskType
  <2> QED
    BY <1>2, <1>5, <1>10, <2>1 DEF ManualKick, store
<1>11. ASSUME NEW id \in Ids, ClearWarnings(id)
       PROVE  TypeOK' /\ LedgerOK'
  BY <1>3, <1>5, <1>11, ClearType DEF ClearWarnings
<1>12. ASSUME NEW id \in Ids, Dismiss(id)
       PROVE  TypeOK' /\ LedgerOK'
  <2>1. Rows
    BY <1>12, ClearType DEF Dismiss, TypeOK, LedgerOK
  <2>2. waived' \subseteq Ids
    BY <1>12, AliasType DEF Dismiss, TypeOK
  <2> QED
    BY <1>1, <1>3, <1>12, <2>1, <2>2 DEF Dismiss, TypeOK, LedgerOK, memory, group
<1>13. ASSUME NEW p \in Policies, SetPolicy(p)
       PROVE  TypeOK' /\ LedgerOK'
  BY <1>1, <1>2, <1>3, <1>13 DEF SetPolicy, TypeOK, LedgerOK, store, memory, group
<1>14. CASE Leave \/ Rejoin
  BY <1>1, <1>2, <1>3, <1>14 DEF Leave, Rejoin, TypeOK, LedgerOK, store, memory
<1>15. ASSUME NEW names, ParticipantsUpdate(names)
       PROVE  TypeOK' /\ LedgerOK'
  <2>1. Rows
    <3>1. CASE UNCHANGED <<warnings, flags>>
      BY <1>2, <3>1
    <3>2. CASE ClearMember(UNION {Aliases(id) : id \in names})
      BY <3>2, ClearType
    <3> QED
      BY <1>15, <3>1, <3>2 DEF ParticipantsUpdate
  <2>2. leaving' \in BOOLEAN
    BY <1>15 DEF ParticipantsUpdate
  <2> QED
    BY <1>1, <1>3, <1>15, <2>1, <2>2 DEF ParticipantsUpdate, TypeOK, LedgerOK, memory
<1>16. CASE Link
  BY <1>1, <1>2, <1>3, <1>16 DEF Link, TypeOK, LedgerOK, memory, group
<1>17. ASSUME NEW m \in Messages, Age(m)
       PROVE  TypeOK' /\ LedgerOK'
  BY <1>1, <1>2, <1>3, <1>17 DEF Age, TypeOK, LedgerOK, store, memory, group
<1>18. CASE Crash
  <2>1. Work
    BY <1>18, IdleType DEF Crash
  <2>2. waived' \subseteq Ids
    <3>1. \A t \in Tasks : Aliases(tasks[t].id) \subseteq Ids
      BY AliasType DEF TypeOK, Task
    <3> QED
      BY <1>18, <3>1 DEF Crash, TypeOK
  <2>3. leaving' \in BOOLEAN /\ seen' = {} /\ spamHits' = {}
    BY <1>18 DEF Crash, TypeOK
  <2> QED
    BY <1>1, <1>2, <1>18, <2>1, <2>2, <2>3 DEF Crash, TypeOK, LedgerOK, store
<1>19. CASE UNCHANGED vars
  BY <1>2, <1>3, <1>5, <1>19 DEF vars, store
<1> QED
  BY <1>6, <1>7, <1>8, <1>9, <1>10, <1>11, <1>12, <1>13, <1>14, <1>15, <1>16, <1>17, <1>18, <1>19, DeliverType DEF Next

LEMMA TypeInvariant == Spec => [](TypeOK /\ LedgerOK)
<1>1. (TypeOK /\ LedgerOK) /\ [Next]_vars => (TypeOK /\ LedgerOK)'
  BY TypeStep
<1> QED
  BY TypeInit, <1>1, PTL DEF Spec

\* The ledger, the flags, the claims and the enforcements keep their shape, in
\* every step of enforceHits, performKick and the operator's commands.
THEOREM TypeCorrect == Spec => []TypeOK
BY TypeInvariant, PTL
-----------------------------------------------------------------------------
(* The limit                                                                  *)

Handled(id) ==
  Effective(Events(id), policy) >= Limit(policy) => FlagOf(id).open \/ Pending(id) \/ id \in waived

\* Without a warning no limit is reached: it is one at least.
LEMMA NothingStands ==
  ASSUME TypeOK, NEW id \in Ids, Events(id)' = {}, UNCHANGED policy
  PROVE  Handled(id)'
<1>1. Effective(Events(id), policy)' = 0
  <2> DEFINE w == [e \in Events(id)' |-> Worth(e, policy)']
  <2>1. DOMAIN w = {}
    OBVIOUS
  <2>2. Total(w) = 0
    <3> HIDE DEF w
    <3> QED
      BY <2>1, TotalNone
  <2>3. Effective(Events(id), policy)' = Total(w)
    BY DEF Effective, Total
  <2> QED
    BY <2>2, <2>3
<1>2. Limit(policy)' \in Nat \ {0}
  BY PoliciesAreTyped DEF Limit, Policy
<1> QED
  BY <1>1, <1>2 DEF Handled

\* A member whose rows stand stays handled while nothing that handles him goes.
LEMMA HandledStays ==
  ASSUME TypeOK, NEW id \in Ids, Handled(id), UNCHANGED <<policy, linked, old>>,
         \A i \in Aliases(id) : warnings'[i] = warnings[i] /\ (flags[i].open => flags'[i].open),
         id \in waived => id \in waived',
         Pending(id) => Pending(id)'
  PROVE  Handled(id)'
<1>1. Aliases(id)' = Aliases(id) /\ id \in Aliases(id)
  BY DEF Aliases
<1>2. Events(id)' = Events(id)
  BY <1>1 DEF Events
<1>3. Effective(Events(id), policy)' = Effective(Events(id), policy)
  BY <1>2 DEF Effective, Worth
<1>4. Limit(policy)' = Limit(policy)
  BY DEF Limit
<1>5. FlagOf(id).open => FlagOf(id)'.open
  BY <1>1, FlagOfMember
<1> QED
  BY <1>3, <1>4, <1>5 DEF Handled

\* An open flag on one of his rows, a removal on its way: he is handled.
LEMMA HandledByFlag ==
  ASSUME NEW id \in Ids, NEW i \in Aliases(id)', flags'[i].open
  PROVE  Handled(id)'
BY FlagOfMember DEF Handled

\* Removals on their way stay so: each by its own enforcement, or another.
LEMMA PendingStays ==
  ASSUME NEW id, UNCHANGED linked,
         \A t \in Tasks : tasks[t].kick /\ tasks[t].id \in Aliases(id) => tasks'[t].kick /\ tasks'[t].id = tasks[t].id
  PROVE  Pending(id) => Pending(id)'
BY DEF Pending, Aliases

\* A warning that ages is worth less.
LEMMA AgeLowers ==
  ASSUME TypeOK, LedgerOK, NEW m, old' = old \cup {m}, UNCHANGED <<policy, linked, warnings>>, NEW id \in Ids
  PROVE  /\ Effective(Events(id), policy) \in Nat
         /\ Effective(Events(id), policy)' \in Nat
         /\ Effective(Events(id), policy)' <= Effective(Events(id), policy)
<1> DEFINE f == [e \in Events(id) |-> Worth(e, policy)]
           g == [e \in Events(id) |-> Worth(e, policy)']
<1>1. Events(id)' = Events(id)
  BY DEF Events, Aliases
<1>2. Events(id) \in SUBSET Event /\ IsFiniteSet(Events(id))
  BY EventsType
<1>3. \A e \in Events(id) : Worth(e, policy) \in Int /\ Worth(e, policy)' \in Int /\ Worth(e, policy)' <= Worth(e, policy)
  <2> SUFFICES ASSUME NEW e \in Events(id)
               PROVE  Worth(e, policy) \in Int /\ Worth(e, policy)' \in Int /\ Worth(e, policy)' <= Worth(e, policy)
    OBVIOUS
  <2>1. e.points \in Nat \ {0}
    BY <1>2 DEF Event
  <2>2. policy.decay \in {"off", "expire", "step"}
    BY PoliciesAreTyped DEF Policy
  <2> QED
    BY <2>1, <2>2 DEF Worth
<1>4. /\ IsFiniteSet(DOMAIN f) /\ DOMAIN g = DOMAIN f
      /\ \A x \in DOMAIN f : f[x] \in Int /\ g[x] \in Int /\ g[x] <= f[x]
  BY <1>2, <1>3
<1>5. Effective(Events(id), policy) = Total(f)
  BY DEF Effective
<1>6. Effective(Events(id), policy)' = Total(g)
  BY <1>1 DEF Effective, Total
<1> HIDE DEF f, g
<1> QED
  BY <1>4, <1>5, <1>6, TotalMonotone

LEMMA ClearingHandles ==
  ASSUME TypeOK, AtLimitIsHandled, UNCHANGED <<policy, linked, old, waived>>,
         NEW names, ClearMember(names), \A i \in names : Aliases(i) \subseteq names,
         \A j \in Ids \ names : Pending(j) => Pending(j)'
  PROVE  AtLimitIsHandled'
<1>1. ASSUME NEW id \in Ids, id \in names
      PROVE  Handled(id)'
  <2>1. Aliases(id)' = Aliases(id) /\ Aliases(id) \subseteq names \cap Ids
    BY <1>1 DEF Aliases, Ids
  <2>2. Events(id)' = {}
    BY <2>1 DEF Events, ClearMember
  <2> QED
    BY <2>2, NothingStands
<1>2. ASSUME NEW id \in Ids, id \notin names
      PROVE  Handled(id)'
  <2>1. \A i \in Aliases(id) : i \in Ids \ names
    BY <1>2, AliasesClosed
  <2>2. \A i \in Aliases(id) : warnings'[i] = warnings[i] /\ flags'[i] = flags[i]
    BY <2>1 DEF ClearMember, ClearFlags, TypeOK
  <2>3. Handled(id)
    BY DEF AtLimitIsHandled, Handled
  <2> QED
    BY <1>2, <2>2, <2>3, HandledStays
<1> QED
  BY <1>1, <1>2 DEF AtLimitIsHandled, Handled

\* A member is handled after a step that touches no ledger and closes no flag.
LEMMA QuietHandles ==
  ASSUME TypeOK, AtLimitIsHandled, UNCHANGED <<policy, linked, warnings, old>>, waived \subseteq waived',
         \A i \in Ids : flags[i].open => flags'[i].open,
         \A id \in Ids : Pending(id) => Pending(id)'
  PROVE  AtLimitIsHandled'
<1> SUFFICES ASSUME NEW id \in Ids
             PROVE  Handled(id)'
  BY DEF AtLimitIsHandled, Handled
<1>1. Handled(id) /\ Aliases(id) \subseteq Ids
  BY AliasType DEF AtLimitIsHandled, Handled
<1> QED
  BY <1>1, HandledStays

\* Another member's rows are apart: the names are not known to be one then.
LEMMA Apart ==
  ASSUME NEW id \in Ids, NEW j \in Ids \ Aliases(id)
  PROVE  Aliases(j) = {j} /\ j # Canonical(id)
BY DEF Aliases, Canonical, Ids

\* An open flag that is saved again stays open, under the one name.
LEMMA SavedFlagCovers ==
  ASSUME TypeOK, UNCHANGED linked, NEW id \in Ids, NEW repeat \in Nat, SaveFlag(id, repeat)
  PROVE  /\ \A j \in Aliases(id) : Canonical(id) \in Aliases(j)' /\ flags'[Canonical(id)].open
         /\ \A j \in Ids \ Aliases(id) : \A i \in Aliases(j) : flags'[i] = flags[i]
<1>1. \A j \in Aliases(id) : Canonical(id) \in Aliases(j)'
  BY AliasesClosed DEF Aliases
<1>2. flags'[Canonical(id)].open
  BY SaveFlagType
<1>3. ASSUME NEW j \in Ids \ Aliases(id), NEW i \in Aliases(j)
      PROVE  flags'[i] = flags[i]
  BY <1>3, Apart DEF SaveFlag
<1> QED
  BY <1>1, <1>2, <1>3

\* The claim of a message: whoever is at the limit then is flagged or removed.
LEMMA ClaimHandles ==
  ASSUME TypeOK, LedgerOK, AtLimitIsHandled, NEW t \in Tasks, NEW m \in Messages, NEW id \in Ids,
         NEW hits \in SUBSET Features, NEW admin \in BOOLEAN, tasks[t] = Idle, UNCHANGED <<policy, old>>,
         Claim(t, m, id, hits, admin)
  PROVE  AtLimitIsHandled'
<1>1. PICK events \in SUBSET Event, repeat \in Nat, decision \in {"kick", "flag", "delete", "warn"} :
        Writes(t, m, id, admin, events, repeat, decision)
  BY ClaimWrites
<1>2. UNCHANGED linked /\ \A i : Aliases(i)' = Aliases(i)
  BY <1>1 DEF Writes, Aliases
<1>3. \A u \in Tasks : tasks[u].kick => tasks'[u] = tasks[u]
  <2>1. ~tasks[t].kick
    BY IdleType
  <2>2. \E r : tasks' = tasks \/ tasks' = [tasks EXCEPT ![t] = r]
    BY <1>1 DEF Writes
  <2> QED
    BY <2>1, <2>2 DEF TypeOK
<1>4. \A j \in Ids : Pending(j) => Pending(j)'
  BY <1>2, <1>3, PendingStays
<1>5. ASSUME NEW j \in Ids \ Aliases(id)
      PROVE  Handled(j)'
  <2>1. \A i \in Aliases(j) : i \in Ids /\ i \notin Aliases(id) /\ i # Canonical(id)
    BY <1>5, Apart
  <2>2. \A i \in Aliases(j) : warnings'[i] = warnings[i]
    BY <1>1, <2>1 DEF Writes, SaveWarnings
  <2>3. \A i \in Aliases(j) : flags'[i] = flags[i]
    BY <1>1, <2>1 DEF Writes, SaveFlag
  <2>4. j \in waived => j \in waived'
    BY <1>1, <1>5 DEF Writes
  <2>5. Handled(j)
    BY DEF AtLimitIsHandled, Handled
  <2> QED
    BY <1>2, <1>4, <2>2, <2>3, <2>4, <2>5, HandledStays
<1>6. ASSUME NEW j \in Aliases(id)
      PROVE  Handled(j)'
  <2>1. j \in Ids /\ Aliases(j)' = Aliases(id) /\ id \in Aliases(j)'
    BY <1>2, <1>6, AliasesClosed, AliasType
  <2>2. CASE decision = "flag" \/ (decision = "kick" /\ ~admin)
    <3>1. SaveFlag(id, repeat)
      BY <1>1, <2>2 DEF Writes
    <3> QED
      BY <1>2, <1>6, <2>1, <3>1, SavedFlagCovers, HandledByFlag
  <2>3. CASE decision = "kick" /\ admin
    <3>1. PICK tell \in BOOLEAN :
            tasks' = [tasks EXCEPT ![t] = [pc |-> "notice", msg |-> m, id |-> id,
                                           kick |-> (decision = "kick" /\ admin), announce |-> tell,
                                           repeat |-> repeat, answer |-> "none"]]
      <4>1. decision # "flag"
        BY <2>3
      <4> QED
        BY <1>1, <4>1, Zenon DEF Writes
    <3> DEFINE r == [pc |-> "notice", msg |-> m, id |-> id, kick |-> (decision = "kick" /\ admin),
                     announce |-> tell, repeat |-> repeat, answer |-> "none"]
    <3>2. r.kick /\ r.id = id
      BY <2>3
    <3>3. tasks'[t].kick /\ tasks'[t].id = id
      <4>1. tasks' = [tasks EXCEPT ![t] = r]
        BY <3>1
      <4> HIDE DEF r
      <4> QED
        BY <3>2, <4>1 DEF TypeOK
    <3> QED
      BY <2>1, <3>3 DEF Handled, Pending
  <2>4. CASE decision \in {"delete", "warn"}
    <3>1. Events(j)' = events
      <4>1. CASE SaveWarnings(id, events)
        <5>1. Canonical(id) \in Aliases(id) /\ Aliases(id) \subseteq Ids
          BY AliasesClosed, AliasType
        <5>2. \A i \in Aliases(id) : warnings'[i] = IF i = Canonical(id) THEN events ELSE {}
          BY <4>1, <5>1 DEF SaveWarnings
        <5> QED
          BY <2>1, <5>1, <5>2 DEF Events
      <4>2. CASE UNCHANGED warnings /\ events = Events(id)
        BY <2>1, <4>2 DEF Events
      <4> QED
        BY <1>1, <4>1, <4>2 DEF Writes
    <3>2. Effective(Events(j), policy)' = Effective(events, policy)
      BY <3>1 DEF Effective, Worth
    <3>3. ~(Effective(events, policy) >= Limit(policy))
      BY <1>1, <2>4 DEF Writes
    <3>4. Limit(policy)' = Limit(policy)
      BY DEF Limit
    <3> QED
      BY <3>2, <3>3, <3>4 DEF Handled
  <2> QED
    BY <2>2, <2>3, <2>4
<1> QED
  BY <1>5, <1>6 DEF AtLimitIsHandled, Handled

LEMMA HandledInit == Init => AtLimitIsHandled
<1> SUFFICES ASSUME Init, NEW id \in Ids
             PROVE  ~(Effective(Events(id), policy) >= Limit(policy))
  BY DEF AtLimitIsHandled
<1> DEFINE w == [e \in Events(id) |-> Worth(e, policy)]
<1>1. Events(id) = {}
  BY AliasType DEF Init, Events
<1>2. DOMAIN w = {}
  BY <1>1
<1>3. Effective(Events(id), policy) = Total(w)
  BY DEF Effective
<1> HIDE DEF w
<1>4. Effective(Events(id), policy) = 0
  BY <1>2, <1>3, TotalNone
<1>5. policy \in Policy
  BY ModerationAssumption DEF Init
<1>6. Limit(policy) \in Nat \ {0}
  BY <1>5 DEF Limit, Policy
<1> QED
  BY <1>4, <1>6

LEMMA HandledStep ==
  ASSUME TypeOK, LedgerOK, AtLimitIsHandled, [Next]_vars
  PROVE  AtLimitIsHandled'
<1>1. ASSUME UNCHANGED <<policy, warnings, flags, linked, old>>, waived \subseteq waived',
             \A u \in Tasks : tasks[u].kick => tasks'[u].kick /\ tasks'[u].id = tasks[u].id
      PROVE  AtLimitIsHandled'
  BY <1>1, QuietHandles, PendingStays
<1>2. ASSUME NEW t \in Tasks, NEW m \in Messages, NEW id \in Ids, Deliver(t, m, id)
      PROVE  AtLimitIsHandled'
  <2>1. PICK hit, admin \in BOOLEAN :
          LET hits == IF hit THEN Hits[m] ELSE Hits[m] \ {"antispam"}
          IN \/ hits = {} /\ UNCHANGED <<tasks, store, waived>>
             \/ hits # {} /\ (Duplicate(t, m, id) \/ Claim(t, m, id, hits, admin))
    BY <1>2, Zenon DEF Deliver
  <2>2. tasks[t] = Idle /\ UNCHANGED <<policy, old>>
    BY <1>2 DEF Deliver
  <2>3. (IF hit THEN Hits[m] ELSE Hits[m] \ {"antispam"}) \in SUBSET Features
    BY ModerationAssumption
  <2>4. CASE UNCHANGED <<tasks, store, waived>>
    BY <1>1, <2>2, <2>4 DEF store
  <2>5. CASE Duplicate(t, m, id)
    <3>1. \A u \in Tasks : tasks[u].kick => tasks'[u] = tasks[u]
      <4>1. \E r : tasks' = tasks \/ tasks' = [tasks EXCEPT ![t] = r]
        BY <2>5 DEF Duplicate
      <4> QED
        BY <2>2, <4>1, IdleType DEF TypeOK
    <3> QED
      BY <1>1, <2>2, <2>5, <3>1 DEF Duplicate, store
  <2> QED
    BY <2>1, <2>2, <2>3, <2>4, <2>5, ClaimHandles
<1>3. ASSUME NEW t \in Tasks, NEW sent \in BOOLEAN, Notice(t, sent)
      PROVE  AtLimitIsHandled'
  <2>1. \A i \in Ids : flags[i].open => flags'[i].open
    <3>1. \A f \in Flag : f.open => [f EXCEPT !.told = TRUE].open
      BY DEF Flag
    <3>2. flags' = flags \/ \E i : flags' = [flags EXCEPT ![i].told = TRUE]
      BY <1>3, Zenon DEF Notice
    <3>3. flags \in [Ids -> Flag]
      BY DEF TypeOK
    <3> QED
      BY <3>1, <3>2, <3>3
  <2>2. \A u \in Tasks : tasks[u].kick => tasks'[u].kick /\ tasks'[u].id = tasks[u].id
    BY <1>3 DEF Notice, Over, TypeOK, Task
  <2> QED
    BY <1>3, <2>1, <2>2, QuietHandles, PendingStays DEF Notice
<1>4. ASSUME NEW t \in Tasks, NEW answer \in {"removed", "refused", "thrown"}, Remove(t, answer)
      PROVE  AtLimitIsHandled'
  <2>1. \A u \in Tasks : tasks[u].kick => tasks'[u].kick /\ tasks'[u].id = tasks[u].id
    BY <1>4 DEF Remove, TypeOK, Task
  <2> QED
    BY <1>1, <1>4, <2>1 DEF Remove, store
<1>5. ASSUME NEW t \in Tasks, Removed(t)
      PROVE  AtLimitIsHandled'
  <2>1. tasks[t].id \in Ids
    BY DEF TypeOK, Task
  <2>2. \A j \in Ids \ Aliases(tasks[t].id) : Pending(j) => Pending(j)'
    <3>1. ASSUME NEW j \in Ids \ Aliases(tasks[t].id), Pending(j)
          PROVE  Pending(j)'
      <4>1. PICK u \in Tasks : tasks[u].kick /\ tasks[u].id \in Aliases(j)
        BY <3>1 DEF Pending
      <4>2. u # t
        BY <2>1, <3>1, <4>1, Apart, AliasType
      <4>3. tasks'[u] = tasks[u] /\ Aliases(j)' = Aliases(j)
        BY <1>5, <4>2 DEF Removed, Over, TypeOK, Aliases
      <4> QED
        BY <4>1, <4>3 DEF Pending
    <3> QED
      BY <3>1
  <2> QED
    BY <1>5, <2>2, ClearingHandles, WholeMembers DEF Removed
<1>6. ASSUME NEW t \in Tasks, NotRemoved(t)
      PROVE  AtLimitIsHandled'
  <2>1. tasks[t].id \in Ids /\ tasks[t].repeat \in Nat
    BY DEF TypeOK, Task
  <2>2. \A u \in Tasks \ {t} : tasks'[u] = tasks[u]
    BY <1>6 DEF NotRemoved, Over, TypeOK
  <2>3. CASE tasks[t].msg = NoMessage
    <3>1. ~tasks[t].kick
      BY <2>3, ModerationAssumption DEF LedgerOK
    <3>2. \A u \in Tasks : tasks[u].kick => tasks'[u].kick /\ tasks'[u].id = tasks[u].id
      BY <2>2, <3>1
    <3> QED
      BY <1>1, <1>6, <2>3, <3>2 DEF NotRemoved
  <2>4. CASE SaveFlag(tasks[t].id, tasks[t].repeat)
    <3>1. UNCHANGED <<policy, linked, warnings, old, waived>>
      BY <1>6 DEF NotRemoved
    <3>2. ASSUME NEW j \in Aliases(tasks[t].id)
          PROVE  Handled(j)'
      BY <2>1, <2>4, <3>1, SavedFlagCovers, HandledByFlag, AliasType
    <3>3. ASSUME NEW j \in Ids \ Aliases(tasks[t].id)
          PROVE  Handled(j)'
      <4>1. Pending(j) => Pending(j)'
        <5>1. ASSUME NEW u \in Tasks, tasks[u].kick, tasks[u].id \in Aliases(j)
              PROVE  Pending(j)'
          <6>1. u # t
            BY <2>1, <3>3, <5>1, Apart, AliasType
          <6>2. tasks'[u] = tasks[u] /\ Aliases(j)' = Aliases(j)
            BY <2>2, <3>1, <6>1 DEF Aliases
          <6> QED
            BY <5>1, <6>2 DEF Pending
        <5> QED
          BY <5>1 DEF Pending
      <4>2. \A i \in Aliases(j) : warnings'[i] = warnings[i] /\ flags'[i] = flags[i]
        BY <2>1, <2>4, <3>1, <3>3, SavedFlagCovers
      <4>3. Handled(j)
        BY <3>3 DEF AtLimitIsHandled, Handled
      <4> QED
        BY <3>1, <4>1, <4>2, <4>3, HandledStays
    <3> QED
      BY <3>2, <3>3 DEF AtLimitIsHandled, Handled
  <2> QED
    BY <1>6, <2>3, <2>4 DEF NotRemoved
<1>7. ASSUME NEW t \in Tasks, NEW id \in Ids, ManualKick(t, id)
      PROVE  AtLimitIsHandled'
  <2>1. \A u \in Tasks : tasks[u].kick => tasks'[u] = tasks[u]
    <3>1. tasks[t] = Idle /\ \E r : tasks' = [tasks EXCEPT ![t] = r]
      BY <1>7 DEF ManualKick
    <3> QED
      BY <3>1, IdleType DEF TypeOK
  <2> QED
    BY <1>1, <1>7, <2>1 DEF ManualKick, store
<1>8. ASSUME NEW id \in Ids, ClearWarnings(id)
      PROVE  AtLimitIsHandled'
  <2>1. \A j \in Ids : Pending(j) => Pending(j)'
    BY <1>8, PendingStays DEF ClearWarnings
  <2> QED
    BY <1>8, <2>1, ClearingHandles, WholeMembers DEF ClearWarnings
<1>9. ASSUME NEW id \in Ids, Dismiss(id)
      PROVE  AtLimitIsHandled'
  <2>1. \A j \in Ids : Pending(j) => Pending(j)'
    BY <1>9, PendingStays DEF Dismiss
  <2>2. ASSUME NEW j \in Ids, j \in Aliases(id)
        PROVE  Handled(j)'
    BY <1>9, <2>2 DEF Dismiss, Handled
  <2>3. ASSUME NEW j \in Ids, j \notin Aliases(id)
        PROVE  Handled(j)'
    <3>1. \A i \in Aliases(j) : warnings'[i] = warnings[i] /\ flags'[i] = flags[i]
      BY <1>9, <2>3, Apart DEF Dismiss, ClearFlags
    <3>2. Handled(j)
      BY DEF AtLimitIsHandled, Handled
    <3> QED
      BY <1>9, <2>1, <3>1, <3>2, HandledStays DEF Dismiss
  <2> QED
    BY <2>2, <2>3 DEF AtLimitIsHandled, Handled
<1>10. ASSUME (\E p \in Policies : SetPolicy(p)) \/ Link
       PROVE  AtLimitIsHandled'
  BY <1>10 DEF SetPolicy, Link, AtLimitIsHandled
<1>11. CASE Leave \/ Rejoin \/ UNCHANGED vars
  BY <1>1, <1>11 DEF Leave, Rejoin, vars, store
<1>12. ASSUME NEW names, ParticipantsUpdate(names)
       PROVE  AtLimitIsHandled'
  <2>1. UNCHANGED <<policy, linked, old, waived, tasks>>
    BY <1>12 DEF ParticipantsUpdate
  <2>2. CASE UNCHANGED <<warnings, flags>>
    BY <1>1, <2>1, <2>2
  <2>3. CASE ClearMember(UNION {Aliases(id) : id \in names})
    <3>1. \A j \in Ids : Pending(j) => Pending(j)'
      BY <2>1, PendingStays
    <3> QED
      BY <2>1, <2>3, <3>1, ClearingHandles, WholeMembers
  <2> QED
    BY <1>12, <2>2, <2>3 DEF ParticipantsUpdate
<1>13. ASSUME NEW m \in Messages, Age(m)
       PROVE  AtLimitIsHandled'
  <2>1. UNCHANGED <<policy, linked, warnings, flags, tasks, waived>> /\ old' = old \cup {m}
    BY <1>13 DEF Age, store
  <2> SUFFICES ASSUME NEW id \in Ids
               PROVE  Handled(id)'
    BY DEF AtLimitIsHandled, Handled
  <2>2. /\ Effective(Events(id), policy) \in Nat
        /\ Effective(Events(id), policy)' \in Nat
        /\ Effective(Events(id), policy)' <= Effective(Events(id), policy)
    BY <2>1, AgeLowers
  <2>3. Limit(policy)' = Limit(policy) /\ Limit(policy) \in Nat
    BY <2>1, PoliciesAreTyped DEF Limit, Policy
  <2>4. FlagOf(id)'.open = FlagOf(id).open /\ Pending(id)' = Pending(id)
    BY <2>1 DEF FlagOf, Pending, Aliases
  <2>5. Handled(id)
    BY DEF AtLimitIsHandled, Handled
  <2> QED
    BY <2>1, <2>2, <2>3, <2>4, <2>5 DEF Handled
<1>14. CASE Crash
  <2>1. /\ UNCHANGED <<policy, linked, warnings, flags, old>>
        /\ waived' = waived \cup UNION {Aliases(tasks[t].id) : t \in {u \in Tasks : tasks[u].kick}}
    BY <1>14 DEF Crash, store
  <2> SUFFICES ASSUME NEW id \in Ids
               PROVE  Handled(id)'
    BY DEF AtLimitIsHandled, Handled
  <2>2. CASE Pending(id)
    <3>1. PICK t \in Tasks : tasks[t].kick /\ tasks[t].id \in Aliases(id)
      BY <2>2 DEF Pending
    <3>2. id \in Aliases(tasks[t].id)
      BY <3>1 DEF Aliases, Ids
    <3>3. id \in waived'
      BY <2>1, <3>1, <3>2
    <3> QED
      BY <3>3 DEF Handled
  <2>3. CASE ~Pending(id)
    <3>1. Handled(id)
      BY DEF AtLimitIsHandled, Handled
    <3> QED
      BY <2>1, <2>3, <3>1, HandledStays
  <2> QED
    BY <2>2, <2>3
<1> QED
  BY <1>2, <1>3, <1>4, <1>5, <1>6, <1>7, <1>8, <1>9, <1>10, <1>11, <1>12, <1>13, <1>14 DEF Next

\* A member at the limit is flagged or his removal is on its way, whatever the
\* other enforcements, the removals that fail, the clearings and the time do
\* (enforceHits, performKick).
THEOREM AtLimitIsHandledHolds == Spec => []AtLimitIsHandled
<1>1. TypeOK /\ LedgerOK /\ AtLimitIsHandled /\ [Next]_vars => AtLimitIsHandled'
  BY HandledStep
<1> QED
  BY HandledInit, TypeInvariant, <1>1, PTL DEF Spec
=============================================================================
