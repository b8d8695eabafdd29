----------------------------- MODULE RestoreProofs -----------------------------
(* What restores and activations promise, for every set of restores and        *)
(* folders: settings and persona stay together, whatever fails; the folders    *)
(* and the tables stay those of one account, what a backup brought is complete *)
(* while it waits, and all that happens to either amounts to the steps of      *)
(* AccountSwap, with one failure at most.                                      *)
EXTENDS Restore, WellFoundedInduction, TLAPS

(* --------------------------- settings and persona -------------------------- *)

DiskNames == {"live", "tables", "activated", "settings", "applied", "persona", "journal",
               "staged", "previous", "replaced", "next", "pending"}
MemNames  == {"at", "for", "id", "moved", "again", "job", "jobId", "tried", "serving"}

\* The steps that a journal of a restore covers.
BeforeCommit  == {"apply", "commit"}
BeforePersona == {"toPersona", "persona"}
Covered       == BeforeCommit \cup BeforePersona \cup {"toPending"}

\* Where the marker of the settings and the steps of a journal come from.
PersonaDisk(d) ==
  /\ DOMAIN d = DiskNames
  /\ d.applied = d.settings \/ (d.applied = None /\ d.settings = Own)
  /\ d.journal.op \in {"none", "restore", "activate"}
  /\ d.journal.op = "restore" =>
       d.journal.id \in Restores /\ d.journal.step \in {"stage", "apply", "persona", "pending"}

\* Which jobs run at which steps.
PersonaMem(m) ==
  /\ DOMAIN m = MemNames
  /\ m.job # "none" => m.jobId \in Restores
  /\ m.for = "start" \/ m.at = "down" => m.job = "none"
  /\ m.at = "idle" => m.for = "none"
  /\ m.at \in Covered => m.id \in Restores /\ m.for \in {"job", "start"}

Follows(d) ==
  \/ d.persona = d.settings
  \/ d.journal.op = "restore" /\ d.journal.id = d.settings
     /\ d.journal.step \in {"apply", "persona"}

\* The persona may lag behind the settings only between the two steps, or where
\* no job is left to run over the journal.
Together(d, m) ==
  /\ Follows(d)
  /\ \/ d.persona = d.settings
     \/ m.at \in BeforePersona
     \/ m.at \in {"idle", "down"} /\ m.job = "none"
  /\ m.at = "commit" => d.journal = RestoreJournal(m.id, "apply")
  /\ m.at \in BeforePersona => d.settings = m.id /\ d.applied = m.id /\ d.journal.id = m.id
                               /\ d.journal.op = "restore" /\ d.journal.step \in {"apply", "persona"}
  /\ m.at = "persona" => d.journal.step = "persona"

PersonaInv == PersonaDisk(disk) /\ PersonaMem(mem) /\ Together(disk, mem)

(* --------------------------------- helpers -------------------------------- *)

\* Where the code goes on, by name.
LEMMA Ends ==
  ASSUME PersonaMem(mem)
  PROVE  /\ PersonaMem(Idle) /\ Idle.at = "idle" /\ Idle.job = mem.job
         /\ PersonaMem(JobOver) /\ JobOver.at = "idle" /\ JobOver.job = "none"
         /\ PersonaMem(Serve) /\ Serve.at = "idle" /\ Serve.job = mem.job
         /\ PersonaMem(Down) /\ Down.at = "down" /\ Down.job = "none"
<1>1. PersonaMem(Idle) /\ Idle.at = "idle" /\ Idle.job = mem.job
  BY DEF PersonaMem, MemNames, Idle, Covered, BeforeCommit, BeforePersona
<1>2. PersonaMem(JobOver) /\ JobOver.at = "idle" /\ JobOver.job = "none"
  BY <1>1 DEF PersonaMem, MemNames, JobOver, Covered, BeforeCommit, BeforePersona, Idle
<1>3. PersonaMem(Serve) /\ Serve.at = "idle" /\ Serve.job = mem.job
  BY <1>1 DEF PersonaMem, MemNames, Serve, Covered, BeforeCommit, BeforePersona
<1>4. PersonaMem(Down) /\ Down.at = "down" /\ Down.job = "none"
  BY <1>2 DEF PersonaMem, MemNames, Down, Covered, BeforeCommit, BeforePersona
<1> QED BY <1>1, <1>2, <1>3, <1>4

LEMMA Going ==
  ASSUME PersonaMem(mem), NEW step, step \notin Covered \cup {"idle", "down"}
  PROVE  /\ PersonaMem(Goto(step)) /\ Goto(step).at = step
         /\ PersonaMem([Goto(step) EXCEPT !.again = TRUE])
         /\ [Goto(step) EXCEPT !.again = TRUE].at = step
<1>1. PersonaMem(Goto(step)) /\ Goto(step).at = step
  BY DEF PersonaMem, MemNames, Goto
<1> QED BY <1>1 DEF PersonaMem, MemNames

\* A catch block goes on outside the covered steps and starts no job.
LEMMA ThrownPaired ==
  ASSUME PersonaMem(mem), NEW d
  PROVE  PersonaMem(Thrown(d)) /\ Thrown(d).at \notin Covered
<1> DEFINE Onward == {Goto(s) : s \in {"unstage", "orphans", "undo"}}
                     \cup {Idle, JobOver, Serve, Down, [Goto("dropPrevious") EXCEPT !.again = TRUE]}
<1>1. Thrown(d) \in Onward
  BY DEF Thrown
<1>2. \A s \in {"unstage", "orphans", "undo", "dropPrevious"} :
         s \notin Covered \cup {"idle", "down"}
  BY DEF Covered, BeforeCommit, BeforePersona
<1>3. \A s \in {"unstage", "orphans", "undo"} : PersonaMem(Goto(s)) /\ Goto(s).at \notin Covered
  BY <1>2, Going, ZenonT(60)
<1>4. /\ PersonaMem([Goto("dropPrevious") EXCEPT !.again = TRUE])
      /\ [Goto("dropPrevious") EXCEPT !.again = TRUE].at \notin Covered
  BY <1>2, Going
<1>5. \A s \in {"idle", "down"} : s \notin Covered
  BY DEF Covered, BeforeCommit, BeforePersona
<1>6. \A m \in {Idle, JobOver, Serve, Down} : PersonaMem(m) /\ m.at \notin Covered
  BY <1>5, Ends
<1> QED BY <1>1, <1>3, <1>4, <1>6

\* A restore whose settings are committed is left to the next start.
LEMMA ThrownCommitted ==
  ASSUME PersonaMem(mem), NEW d, mem.at \in {"commit", "toPersona", "persona"},
         d.applied = mem.id, d.journal.id = mem.id
  PROVE  Thrown(d).at = "idle" /\ Thrown(d).job = "none"
<1>1. Thrown(d) \in {JobOver, Idle} /\ (Thrown(d) = Idle => mem.for = "start" \/ Idle = JobOver)
  BY DEF Thrown, PersonaMem, Covered, BeforeCommit, BeforePersona,
         Installing, Activating, Finishing, Undoing
<1>2. mem.for = "start" => mem.job = "none"
  BY DEF PersonaMem
<1> QED BY <1>1, <1>2, Ends

\* The outcomes of a durable step.
LEMMA TryOutcome ==
  ASSUME NEW new, NEW after, Try(new, after)
  PROVE  \/ disk' = new /\ mem' = after
         \/ disk' = disk /\ mem' = Thrown(disk)
         \/ disk' = new /\ mem' = Thrown(new)
  BY DEF Try

\* Where settings and persona agree, whatever is outside the covered steps
\* keeps the invariant.
LEMMA Apart ==
  ASSUME NEW d, NEW m, PersonaDisk(d), PersonaMem(m), m.at \notin Covered, d.persona = d.settings
  PROVE  Together(d, m)
  BY DEF Together, Follows, Covered, BeforeCommit, BeforePersona

\* A step on a disk where the two agree, with a journal of any other kind.
Alike(d) == /\ PersonaDisk(d)
            /\ d.persona = d.settings

LEMMA TryApart ==
  ASSUME PersonaInv, Alike(disk), NEW new, NEW after, Try(new, after), Alike(new),
         PersonaMem(after), after.at \notin Covered
  PROVE  PersonaInv'
<1>1. /\ PersonaMem(Thrown(disk)) /\ Thrown(disk).at \notin Covered
      /\ PersonaMem(Thrown(new)) /\ Thrown(new).at \notin Covered
  BY ThrownPaired DEF PersonaInv
<1>2. Alike(disk') /\ PersonaMem(mem') /\ mem'.at \notin Covered
  BY <1>1, TryOutcome
<1>3. Together(disk', mem')
  BY <1>2, Apart DEF Alike
<1> QED BY <1>2, <1>3 DEF PersonaInv, Alike

\* Between events, and while a job runs, the two agree outside the persona step.
LEMMA PersonaSettled ==
  ASSUME PersonaInv, mem.at \notin BeforePersona,
         mem.at \notin {"idle", "down"} \/ mem.job # "none"
  PROVE  Alike(disk)
  BY DEF PersonaInv, Together, Alike

LEMMA Fields ==
  ASSUME PersonaInv
  PROVE  DOMAIN disk = DiskNames /\ DOMAIN mem = MemNames
  BY DEF PersonaInv, PersonaDisk, PersonaMem

Keeps(d) == /\ DOMAIN d = DiskNames
            /\ d.settings = disk.settings /\ d.applied = disk.applied
            /\ d.persona = disk.persona

\* A journal of a restore comes from one of its five writes.
Writes(j) == /\ j.op \in {"none", "restore", "activate"}
             /\ j.op = "restore" => /\ j.id \in Restores
                                    /\ j.step \in {"stage", "apply", "persona", "pending"}

LEMMA PersonaKept ==
  ASSUME Alike(disk), NEW d, Keeps(d), d.journal = disk.journal \/ Writes(d.journal)
  PROVE  Alike(d)
  BY DEF Alike, PersonaDisk, Keeps, Writes

LEMMA Written ==
  /\ Writes(NoJournal)
  /\ \A r, step, moved : Writes(ActivateJournal(r, step, moved))
  /\ \A r \in Restores : \A step \in {"stage", "apply", "persona", "pending"} :
       Writes(RestoreJournal(r, step))
  BY DEF Writes, NoJournal, ActivateJournal, RestoreJournal

\* A durable step outside the persona step that goes on to another such step.
LEMMA TryGoto ==
  ASSUME PersonaInv, Alike(disk), NEW new, NEW step, Try(new, Goto(step)),
         step \notin Covered \cup {"idle", "down"},
         Keeps(new), new.journal = disk.journal \/ Writes(new.journal)
  PROVE  PersonaInv'
<1>1. PersonaMem(Goto(step)) /\ Goto(step).at \notin Covered
  BY Going DEF PersonaInv
<1>2. Alike(new)
  BY PersonaKept
<1> QED BY <1>1, <1>2, TryApart

\* The same, for a step after which the code returns.
LEMMA TryEnd ==
  ASSUME PersonaInv, Alike(disk), NEW new, NEW after, Try(new, after),
         after \in {Idle, JobOver, Serve}, Keeps(new),
         new.journal = disk.journal \/ Writes(new.journal)
  PROVE  PersonaInv'
<1>1. PersonaMem(after) /\ after.at \notin Covered
  BY Ends DEF PersonaInv, Covered, BeforeCommit, BeforePersona
<1>2. Alike(new)
  BY PersonaKept
<1> QED BY <1>1, <1>2, TryApart

\* A step that only moves on in memory.
LEMMA MemOnly ==
  ASSUME PersonaInv, Alike(disk), disk' = disk, PersonaMem(mem'), mem'.at \notin Covered
  PROVE  PersonaInv'
  BY Apart DEF PersonaInv, Alike

LEMMA ThrowsPaired ==
  ASSUME PersonaInv, Alike(disk), Throws
  PROVE  PersonaInv'
<1>1. PersonaMem(Thrown(disk)) /\ Thrown(disk).at \notin Covered
  BY ThrownPaired DEF PersonaInv
<1> QED BY <1>1, MemOnly DEF Throws

(* ---------------------------- steps of a restore -------------------------- *)

LEMMA ApplyPaired == PersonaInv /\ Apply => PersonaInv'
<1> SUFFICES ASSUME PersonaInv, Apply PROVE PersonaInv'
  OBVIOUS
<1> DEFINE new == [disk EXCEPT !.journal = RestoreJournal(mem.id, "apply")]
<1>1. mem.at = "apply" /\ Try(new, Goto("commit")) /\ mem.id \in Restores
  BY DEF Apply, PersonaInv, PersonaMem, Covered, BeforeCommit
<1>2. Alike(disk)
  BY <1>1, PersonaSettled DEF BeforePersona
<1>3. Keeps(new) /\ Writes(new.journal) /\ new.journal = RestoreJournal(mem.id, "apply")
  BY <1>1, Fields, Written DEF Keeps, DiskNames
<1>4. Alike(new)
  BY <1>2, <1>3, PersonaKept
<1> HIDE DEF new
<1>5. CASE disk' = new /\ mem' = Goto("commit")
  <2>1. PersonaMem(mem') /\ mem'.at = "commit" /\ mem'.id = mem.id
    BY <1>1, <1>5 DEF PersonaInv, PersonaMem, MemNames, Goto, Covered, BeforeCommit
  <2> QED BY <1>3, <1>4, <1>5, <2>1 DEF PersonaInv, Alike, Together, Follows,
             BeforePersona
<1>6. CASE disk' \in {disk, new} /\ mem' \in {Thrown(disk), Thrown(new)}
  BY <1>2, <1>4, <1>6, ThrownPaired, Apart DEF PersonaInv, Alike
<1> QED BY <1>1, <1>5, <1>6, TryOutcome

\* Settings and marker are those of the restore that the journal names.
LEMMA CommitPaired == PersonaInv /\ Commit => PersonaInv'
<1> SUFFICES ASSUME PersonaInv, Commit PROVE PersonaInv'
  OBVIOUS
<1> DEFINE new == [disk EXCEPT !.settings = mem.id, !.applied = mem.id]
<1>1. /\ mem.at = "commit" /\ Try(new, Goto("toPersona")) /\ PersonaMem(mem)
      /\ mem.id \in Restores /\ mem.for \in {"job", "start"}
  BY DEF Commit, PersonaInv, PersonaMem, Covered, BeforeCommit
<1>2. Alike(disk) /\ disk.journal = RestoreJournal(mem.id, "apply")
  BY <1>1, PersonaSettled DEF BeforePersona, PersonaInv, Together
<1>3. /\ DOMAIN new = DiskNames /\ new.settings = mem.id /\ new.applied = mem.id
      /\ new.journal = RestoreJournal(mem.id, "apply")
  BY <1>2, Fields DEF DiskNames
<1> HIDE DEF new
<1>4. PersonaDisk(new) /\ Follows(new)
  BY <1>1, <1>3 DEF PersonaDisk, Follows, RestoreJournal
<1>5. CASE disk' = new /\ mem' = Goto("toPersona")
  <2>1. PersonaMem(mem') /\ mem'.at = "toPersona" /\ mem'.id = mem.id
    BY <1>1, <1>5 DEF PersonaMem, MemNames, Goto, Covered, BeforeCommit
  <2> QED BY <1>3, <1>4, <1>5, <2>1 DEF PersonaInv, Together, BeforePersona,
             RestoreJournal
<1>6. CASE disk' = disk /\ mem' = Thrown(disk)
  BY <1>1, <1>2, <1>6, ThrownPaired, Apart DEF PersonaInv, Alike
<1>7. CASE disk' = new /\ mem' = Thrown(new)
  <2>1. mem'.at = "idle" /\ mem'.job = "none"
    BY <1>1, <1>3, <1>7, ThrownCommitted DEF RestoreJournal
  <2>2. PersonaMem(mem')
    BY <1>1, <1>7, ThrownPaired
  <2> QED BY <1>4, <1>7, <2>1, <2>2 DEF PersonaInv, Together, BeforePersona
<1> QED BY <1>1, <1>5, <1>6, <1>7, TryOutcome

LEMMA RefusePaired == PersonaInv /\ Refuse => PersonaInv'
  BY PersonaSettled, ThrowsPaired DEF Refuse, BeforePersona

\* Between commit and persona a failure leaves the journal to the next start.
LEMMA LeftToStart ==
  ASSUME PersonaInv, mem.at \in BeforePersona, NEW d, PersonaDisk(d), Follows(d), d.applied = mem.id,
         d.journal.id = mem.id, disk' = d, mem' = Thrown(d)
  PROVE  PersonaInv'
<1>1. mem'.at = "idle" /\ mem'.job = "none" /\ PersonaMem(mem')
  BY ThrownPaired, ThrownCommitted DEF PersonaInv, BeforePersona
<1> QED BY <1>1 DEF PersonaInv, Together, BeforePersona

LEMMA ToPersonaPaired == PersonaInv /\ ToPersona => PersonaInv'
<1> SUFFICES ASSUME PersonaInv, ToPersona PROVE PersonaInv'
  OBVIOUS
<1> DEFINE new == [disk EXCEPT !.journal = RestoreJournal(mem.id, "persona")]
<1>1. mem.at = "toPersona" /\ (Throws \/ Try(new, Goto("persona")))
  BY DEF ToPersona
<1>2. /\ mem.id \in Restores /\ mem.for \in {"job", "start"} /\ mem.at \in BeforePersona
      /\ disk.settings = mem.id /\ disk.applied = mem.id /\ disk.journal.id = mem.id
      /\ PersonaDisk(disk) /\ PersonaMem(mem) /\ Follows(disk)
  BY <1>1 DEF PersonaInv, PersonaMem, Together, Covered, BeforePersona
<1>3. /\ DOMAIN new = DiskNames /\ new.settings = mem.id /\ new.applied = mem.id
      /\ new.journal = RestoreJournal(mem.id, "persona")
  BY <1>2, Fields DEF DiskNames
<1> HIDE DEF new
<1>4. PersonaDisk(new) /\ Follows(new)
  BY <1>2, <1>3 DEF PersonaDisk, Follows, RestoreJournal
<1>5. CASE disk' = new /\ mem' = Goto("persona")
  <2>1. PersonaMem(mem') /\ mem'.at = "persona" /\ mem'.id = mem.id
    BY <1>2, <1>5 DEF PersonaMem, MemNames, Goto, Covered, BeforePersona
  <2> QED BY <1>3, <1>4, <1>5, <2>1 DEF PersonaInv, Together, BeforePersona,
             RestoreJournal
<1>6. CASE disk' = disk /\ mem' = Thrown(disk)
  BY <1>2, <1>6, LeftToStart
<1>7. CASE disk' = new /\ mem' = Thrown(new)
  BY <1>2, <1>3, <1>4, <1>7, LeftToStart DEF RestoreJournal
<1> QED BY <1>1, <1>5, <1>6, <1>7, TryOutcome DEF Throws

LEMMA InstallPersonaPaired == PersonaInv /\ InstallPersona => PersonaInv'
<1> SUFFICES ASSUME PersonaInv, InstallPersona PROVE PersonaInv'
  OBVIOUS
<1> DEFINE new == [disk EXCEPT !.persona = mem.id]
<1>1. mem.at = "persona" /\ Try(new, Goto("toPending"))
  BY DEF InstallPersona
<1>2. /\ mem.id \in Restores /\ mem.for \in {"job", "start"} /\ mem.at \in BeforePersona
      /\ disk.settings = mem.id /\ disk.applied = mem.id /\ disk.journal.id = mem.id
      /\ PersonaDisk(disk) /\ PersonaMem(mem) /\ Follows(disk)
  BY <1>1 DEF PersonaInv, PersonaMem, Together, Covered, BeforePersona
<1>3. /\ DOMAIN new = DiskNames /\ new.settings = mem.id /\ new.applied = mem.id
      /\ new.persona = mem.id /\ new.journal = disk.journal
  BY <1>2, Fields DEF DiskNames
<1> HIDE DEF new
<1>4. PersonaDisk(new) /\ Follows(new)
  BY <1>2, <1>3 DEF PersonaDisk, Follows
<1>5. CASE disk' = new /\ mem' = Goto("toPending")
  <2>1. PersonaMem(mem') /\ mem'.at = "toPending"
    BY <1>2, <1>5 DEF PersonaMem, MemNames, Goto, Covered, BeforePersona
  <2> QED BY <1>3, <1>4, <1>5, <2>1 DEF PersonaInv, Together, BeforePersona
<1>6. CASE disk' = disk /\ mem' = Thrown(disk)
  BY <1>2, <1>6, LeftToStart
<1>7. CASE disk' = new /\ mem' = Thrown(new)
  BY <1>2, <1>3, <1>4, <1>7, LeftToStart
<1> QED BY <1>1, <1>5, <1>6, <1>7, TryOutcome

LEMMA ToPendingPaired == PersonaInv /\ ToPending => PersonaInv'
<1> SUFFICES ASSUME PersonaInv, ToPending PROVE PersonaInv'
  OBVIOUS
<1> DEFINE new == [disk EXCEPT !.journal = RestoreJournal(mem.id, "pending")]
<1>1. mem.at = "toPending" /\ Try(new, Goto("install")) /\ mem.id \in Restores
  BY DEF ToPending, PersonaInv, PersonaMem, Covered
<1>2. Alike(disk)
  BY <1>1, PersonaSettled DEF BeforePersona
<1>3. Keeps(new) /\ Writes(new.journal)
  BY <1>1, Fields, Written DEF Keeps, DiskNames
<1> HIDE DEF new
<1> QED BY <1>1, <1>2, <1>3, TryGoto DEF Covered, BeforeCommit, BeforePersona

LEMMA AlreadyInstalledPaired == PersonaInv /\ AlreadyInstalled => PersonaInv'
<1> SUFFICES ASSUME PersonaInv, AlreadyInstalled PROVE PersonaInv'
  OBVIOUS
<1>1. mem.at = "install" /\ (Throws \/ (mem' = Goto("clear") /\ disk' = disk))
  BY DEF AlreadyInstalled
<1>2. Alike(disk)
  BY <1>1, PersonaSettled DEF BeforePersona
<1>3. "clear" \notin Covered \cup {"idle", "down"} /\ PersonaMem(mem)
  BY DEF PersonaInv, Covered, BeforeCommit, BeforePersona
<1>4. PersonaMem(Goto("clear")) /\ Goto("clear").at = "clear"
  BY <1>3, Going
<1> QED BY <1>1, <1>2, <1>3, <1>4, ThrowsPaired, MemOnly

LEMMA InstallPartPaired == PersonaInv /\ InstallPart => PersonaInv'
<1> SUFFICES ASSUME PersonaInv, InstallPart PROVE PersonaInv'
  OBVIOUS
<1> DEFINE k == First(Missing)
           named == [disk EXCEPT !.next.id = mem.id]
           moved == [disk EXCEPT !.staged[mem.id] = @ \ {k}, !.next.has[k] = mem.id]
<1>1. mem.at = "install" /\ (Throws \/ Try(named, Goto("replace")) \/ Try(moved, Goto("install")))
  BY DEF InstallPart
<1>2. Alike(disk)
  BY <1>1, PersonaSettled DEF BeforePersona
<1>3. Keeps(named) /\ named.journal = disk.journal
  BY Fields DEF Keeps, DiskNames
<1>4. Keeps(moved) /\ moved.journal = disk.journal
  BY Fields DEF Keeps, DiskNames
<1> HIDE DEF k, named, moved
<1>5. CASE Throws
  BY <1>2, <1>5, ThrowsPaired
<1>6. CASE Try(named, Goto("replace"))
  BY <1>2, <1>3, <1>6, TryGoto DEF Covered, BeforeCommit, BeforePersona
<1>7. CASE Try(moved, Goto("install"))
  BY <1>2, <1>4, <1>7, TryGoto DEF Covered, BeforeCommit, BeforePersona
<1> QED BY <1>1, <1>5, <1>6, <1>7

LEMMA ReplacePaired == PersonaInv /\ Replace => PersonaInv'
<1> SUFFICES ASSUME PersonaInv, Replace PROVE PersonaInv'
  OBVIOUS
<1> DEFINE new == IF disk.pending = Absent THEN disk
                ELSE [disk EXCEPT !.replaced[mem.id] = disk.pending, !.pending = Absent]
<1>1. mem.at = "replace" /\ Try(new, Goto("swap"))
  BY DEF Replace
<1>2. Alike(disk)
  BY <1>1, PersonaSettled DEF BeforePersona
<1>3. Keeps(new) /\ (new.journal = disk.journal \/ Writes(new.journal))
  BY Fields, Written DEF Keeps, DiskNames
<1> HIDE DEF new
<1> QED BY <1>1, <1>2, <1>3, TryGoto DEF Covered, BeforeCommit, BeforePersona

LEMMA SwapPaired == PersonaInv /\ Swap => PersonaInv'
<1> SUFFICES ASSUME PersonaInv, Swap PROVE PersonaInv'
  OBVIOUS
<1> DEFINE new == [disk EXCEPT !.pending = disk.next, !.next = Absent]
<1>1. mem.at = "swap" /\ Try(new, Goto("dropReplaced"))
  BY DEF Swap
<1>2. Alike(disk)
  BY <1>1, PersonaSettled DEF BeforePersona
<1>3. Keeps(new) /\ (new.journal = disk.journal \/ Writes(new.journal))
  BY Fields, Written DEF Keeps, DiskNames
<1> HIDE DEF new
<1> QED BY <1>1, <1>2, <1>3, TryGoto DEF Covered, BeforeCommit, BeforePersona

LEMMA DropReplacedPaired == PersonaInv /\ DropReplaced => PersonaInv'
<1> SUFFICES ASSUME PersonaInv, DropReplaced PROVE PersonaInv'
  OBVIOUS
<1> DEFINE new == [disk EXCEPT !.replaced[mem.id] = Absent]
<1>1. mem.at = "dropReplaced" /\ Try(new, Goto("clear"))
  BY DEF DropReplaced
<1>2. Alike(disk)
  BY <1>1, PersonaSettled DEF BeforePersona
<1>3. Keeps(new) /\ (new.journal = disk.journal \/ Writes(new.journal))
  BY Fields, Written DEF Keeps, DiskNames
<1> HIDE DEF new
<1> QED BY <1>1, <1>2, <1>3, TryGoto DEF Covered, BeforeCommit, BeforePersona

LEMMA ClearPaired == PersonaInv /\ Clear => PersonaInv'
<1> SUFFICES ASSUME PersonaInv, Clear PROVE PersonaInv'
  OBVIOUS
<1> DEFINE new == [disk EXCEPT !.journal = NoJournal]
<1>1. mem.at = "clear" /\ Try(new, Goto("sweep"))
  BY DEF Clear
<1>2. Alike(disk)
  BY <1>1, PersonaSettled DEF BeforePersona
<1>3. Keeps(new) /\ (new.journal = disk.journal \/ Writes(new.journal))
  BY Fields, Written DEF Keeps, DiskNames
<1> HIDE DEF new
<1> QED BY <1>1, <1>2, <1>3, TryGoto DEF Covered, BeforeCommit, BeforePersona

LEMMA SweepPaired == PersonaInv /\ Sweep => PersonaInv'
<1> SUFFICES ASSUME PersonaInv, Sweep PROVE PersonaInv'
  OBVIOUS
<1> DEFINE new == RmRoot(disk, mem.id)
<1>1. mem.at = "sweep" /\ (Try(new, JobOver) \/ Try(new, Goto("orphans")))
  BY DEF Sweep
<1>2. Alike(disk)
  BY <1>1, PersonaSettled DEF BeforePersona
<1>3. Keeps(new) /\ (new.journal = disk.journal \/ Writes(new.journal))
  BY Fields, Written DEF Keeps, DiskNames, RmRoot
<1> HIDE DEF new
<1>4. CASE Try(new, JobOver)
  BY <1>2, <1>3, <1>4, TryEnd DEF Covered, BeforeCommit, BeforePersona
<1>5. CASE Try(new, Goto("orphans"))
  BY <1>2, <1>3, <1>5, TryGoto DEF Covered, BeforeCommit, BeforePersona
<1> QED BY <1>1, <1>4, <1>5

LEMMA UnstagePaired == PersonaInv /\ Unstage => PersonaInv'
<1> SUFFICES ASSUME PersonaInv, Unstage PROVE PersonaInv'
  OBVIOUS
<1> DEFINE new == RmRoot(disk, mem.id)
<1>1. mem.at = "unstage" /\ Try(new, Goto("unjournal"))
  BY DEF Unstage
<1>2. Alike(disk)
  BY <1>1, PersonaSettled DEF BeforePersona
<1>3. Keeps(new) /\ (new.journal = disk.journal \/ Writes(new.journal))
  BY Fields, Written DEF Keeps, DiskNames, RmRoot
<1> HIDE DEF new
<1> QED BY <1>1, <1>2, <1>3, TryGoto DEF Covered, BeforeCommit, BeforePersona

LEMMA UnjournalPaired == PersonaInv /\ Unjournal => PersonaInv'
<1> SUFFICES ASSUME PersonaInv, Unjournal PROVE PersonaInv'
  OBVIOUS
<1> DEFINE new == [disk EXCEPT !.journal = NoJournal]
<1>1. mem.at = "unjournal" /\ Try(new, JobOver)
  BY DEF Unjournal
<1>2. Alike(disk)
  BY <1>1, PersonaSettled DEF BeforePersona
<1>3. Keeps(new) /\ (new.journal = disk.journal \/ Writes(new.journal))
  BY Fields, Written DEF Keeps, DiskNames
<1> HIDE DEF new
<1> QED BY <1>1, <1>2, <1>3, TryEnd DEF Covered, BeforeCommit, BeforePersona

(* --------------------------- steps of an activation ------------------------ *)

LEMMA MigratePaired == PersonaInv /\ Migrate => PersonaInv'
<1> SUFFICES ASSUME PersonaInv, Migrate PROVE PersonaInv'
  OBVIOUS
<1> DEFINE new == [disk EXCEPT !.journal = ActivateJournal(mem.id, "migrate", <<>>)]
<1>1. mem.at = "migrate" /\ Try(new, Goto("check"))
  BY DEF Migrate
<1>2. Alike(disk)
  BY <1>1, PersonaSettled DEF BeforePersona
<1>3. Keeps(new) /\ (new.journal = disk.journal \/ Writes(new.journal))
  BY Fields, Written DEF Keeps, DiskNames
<1> HIDE DEF new
<1> QED BY <1>1, <1>2, <1>3, TryGoto DEF Covered, BeforeCommit, BeforePersona

LEMMA CheckPaired == PersonaInv /\ Check => PersonaInv'
<1> SUFFICES ASSUME PersonaInv, Check PROVE PersonaInv'
  OBVIOUS
<1> DEFINE new == [disk EXCEPT !.journal = ActivateJournal(mem.id, "files", <<>>)]
<1>1. mem.at = "check" /\ Try(new, Goto("out"))
  BY DEF Check
<1>2. Alike(disk)
  BY <1>1, PersonaSettled DEF BeforePersona
<1>3. Keeps(new) /\ (new.journal = disk.journal \/ Writes(new.journal))
  BY Fields, Written DEF Keeps, DiskNames
<1> HIDE DEF new
<1> QED BY <1>1, <1>2, <1>3, TryGoto DEF Covered, BeforeCommit, BeforePersona

LEMMA CheckFailsPaired == PersonaInv /\ CheckFails => PersonaInv'
  BY PersonaSettled, ThrowsPaired DEF CheckFails, BeforePersona

LEMMA IntendPaired ==
  ASSUME PersonaInv, Alike(disk), NEW way, NEW new, NEW after, Intend(way, new, after),
         Keeps(new), new.journal = disk.journal, after \notin Covered \cup {"idle", "down"}
  PROVE  PersonaInv'
<1> DEFINE moved == Append(mem.moved, [way |-> way, folder |-> Current])
           noted == [new EXCEPT !.journal = ActivateJournal(mem.id, "files", moved)]
<1>1. /\ disk' \in {disk, new, noted}
      /\ \/ mem' = [[mem EXCEPT !.moved = moved] EXCEPT !.at = after]
         \/ mem' = [[mem EXCEPT !.moved = moved] EXCEPT !.at = "undo"]
  BY DEF Intend
<1>2. Keeps(noted) /\ Writes(noted.journal)
  BY Written DEF Keeps, DiskNames
<1> HIDE DEF moved, noted
<1>3. Alike(disk')
  BY <1>1, <1>2, PersonaKept
<1>4. PersonaMem(mem') /\ mem'.at \notin Covered
  BY <1>1 DEF PersonaInv, PersonaMem, MemNames, Covered, BeforeCommit, BeforePersona
<1> QED BY <1>3, <1>4, Apart DEF PersonaInv, Alike

LEMMA MoveOutPaired == PersonaInv /\ MoveOut => PersonaInv'
<1> SUFFICES ASSUME PersonaInv, MoveOut PROVE PersonaInv'
  OBVIOUS
<1>1. mem.at = "out" /\ (Try(Sourced, Goto("in")) \/ Intend("out", Sourced, "outMove"))
  BY DEF MoveOut
<1>2. Alike(disk)
  BY <1>1, PersonaSettled DEF BeforePersona
<1>3. Keeps(Sourced) /\ Sourced.journal = disk.journal
  BY Fields DEF Keeps, DiskNames, Sourced
<1>4. CASE Try(Sourced, Goto("in"))
  BY <1>2, <1>3, <1>4, TryGoto DEF Covered, BeforeCommit, BeforePersona
<1>5. CASE Intend("out", Sourced, "outMove")
  BY <1>2, <1>3, <1>5, IntendPaired DEF Covered, BeforeCommit, BeforePersona
<1> QED BY <1>1, <1>4, <1>5

LEMMA RenameOutPaired == PersonaInv /\ RenameOut => PersonaInv'
<1> SUFFICES ASSUME PersonaInv, RenameOut PROVE PersonaInv'
  OBVIOUS
<1> DEFINE new == [disk EXCEPT !.previous[mem.id][Current] = disk.live[Current],
                             !.live[Current] = Gone]
<1>1. mem.at = "outMove" /\ Try(new, Goto("in"))
  BY DEF RenameOut
<1>2. Alike(disk)
  BY <1>1, PersonaSettled DEF BeforePersona
<1>3. Keeps(new) /\ (new.journal = disk.journal \/ Writes(new.journal))
  BY Fields, Written DEF Keeps, DiskNames
<1> HIDE DEF new
<1> QED BY <1>1, <1>2, <1>3, TryGoto DEF Covered, BeforeCommit, BeforePersona

LEMMA MoveInPaired == PersonaInv /\ MoveIn => PersonaInv'
<1> SUFFICES ASSUME PersonaInv, MoveIn PROVE PersonaInv'
  OBVIOUS
<1>1. mem.at = "in" /\ Intend("in", disk, "inMove")
  BY DEF MoveIn
<1>2. Alike(disk)
  BY <1>1, PersonaSettled DEF BeforePersona
<1>3. Keeps(disk)
  BY Fields DEF Keeps
<1> QED BY <1>1, <1>2, <1>3, IntendPaired DEF Covered, BeforeCommit, BeforePersona

LEMMA RenameInPaired == PersonaInv /\ RenameIn => PersonaInv'
<1> SUFFICES ASSUME PersonaInv, RenameIn PROVE PersonaInv'
  OBVIOUS
<1> DEFINE new == LET f == mem.moved[Len(mem.moved)].folder
                  IN [disk EXCEPT !.live[f] = disk.pending.has[f], !.pending.has[f] = Gone]
<1>1. mem.at = "inMove" /\ (Try(new, Goto("toDb")) \/ Try(new, Goto("out")))
  BY DEF RenameIn
<1>2. Alike(disk)
  BY <1>1, PersonaSettled DEF BeforePersona
<1>3. Keeps(new) /\ (new.journal = disk.journal \/ Writes(new.journal))
  BY Fields, Written DEF Keeps, DiskNames
<1> HIDE DEF new
<1>4. CASE Try(new, Goto("toDb"))
  BY <1>2, <1>3, <1>4, TryGoto DEF Covered, BeforeCommit, BeforePersona
<1>5. CASE Try(new, Goto("out"))
  BY <1>2, <1>3, <1>5, TryGoto DEF Covered, BeforeCommit, BeforePersona
<1> QED BY <1>1, <1>4, <1>5

LEMMA ToDbPaired == PersonaInv /\ ToDb => PersonaInv'
<1> SUFFICES ASSUME PersonaInv, ToDb PROVE PersonaInv'
  OBVIOUS
<1> DEFINE new == [disk EXCEPT !.journal = ActivateJournal(mem.id, "db", mem.moved)]
<1>1. mem.at = "toDb" /\ Try(new, Goto("tables"))
  BY DEF ToDb
<1>2. Alike(disk)
  BY <1>1, PersonaSettled DEF BeforePersona
<1>3. Keeps(new) /\ (new.journal = disk.journal \/ Writes(new.journal))
  BY Fields, Written DEF Keeps, DiskNames
<1> HIDE DEF new
<1> QED BY <1>1, <1>2, <1>3, TryGoto DEF Covered, BeforeCommit, BeforePersona

LEMMA ReplaceTablesPaired == PersonaInv /\ ReplaceTables => PersonaInv'
<1> SUFFICES ASSUME PersonaInv, ReplaceTables PROVE PersonaInv'
  OBVIOUS
<1> DEFINE new == [disk EXCEPT !.tables = disk.pending.has["db"], !.activated = mem.id]
<1>1. mem.at = "tables" /\ Try(new, Goto("toCleanup"))
  BY DEF ReplaceTables
<1>2. Alike(disk)
  BY <1>1, PersonaSettled DEF BeforePersona
<1>3. Keeps(new) /\ (new.journal = disk.journal \/ Writes(new.journal))
  BY Fields, Written DEF Keeps, DiskNames
<1> HIDE DEF new
<1> QED BY <1>1, <1>2, <1>3, TryGoto DEF Covered, BeforeCommit, BeforePersona

LEMMA ToCleanupPaired == PersonaInv /\ ToCleanup => PersonaInv'
<1> SUFFICES ASSUME PersonaInv, ToCleanup PROVE PersonaInv'
  OBVIOUS
<1> DEFINE new == [disk EXCEPT !.journal = ActivateJournal(mem.id, "cleanup", mem.moved)]
<1>1. mem.at = "toCleanup" /\ Try(new, Goto("dropPrevious"))
  BY DEF ToCleanup
<1>2. Alike(disk)
  BY <1>1, PersonaSettled DEF BeforePersona
<1>3. Keeps(new) /\ (new.journal = disk.journal \/ Writes(new.journal))
  BY Fields, Written DEF Keeps, DiskNames
<1> HIDE DEF new
<1> QED BY <1>1, <1>2, <1>3, TryGoto DEF Covered, BeforeCommit, BeforePersona

LEMMA DropPreviousPaired == PersonaInv /\ DropPrevious => PersonaInv'
<1> SUFFICES ASSUME PersonaInv, DropPrevious PROVE PersonaInv'
  OBVIOUS
<1> DEFINE new == [disk EXCEPT !.previous[mem.id] = NoFolders]
<1>1. mem.at = "dropPrevious" /\ Try(new, Goto("dropPending"))
  BY DEF DropPrevious
<1>2. Alike(disk)
  BY <1>1, PersonaSettled DEF BeforePersona
<1>3. Keeps(new) /\ (new.journal = disk.journal \/ Writes(new.journal))
  BY Fields, Written DEF Keeps, DiskNames
<1> HIDE DEF new
<1> QED BY <1>1, <1>2, <1>3, TryGoto DEF Covered, BeforeCommit, BeforePersona

LEMMA DropPendingPaired == PersonaInv /\ DropPending => PersonaInv'
<1> SUFFICES ASSUME PersonaInv, DropPending PROVE PersonaInv'
  OBVIOUS
<1> DEFINE new == [disk EXCEPT !.pending = Absent]
<1>1. mem.at = "dropPending" /\ Try(new, Goto("dropRoot"))
  BY DEF DropPending
<1>2. Alike(disk)
  BY <1>1, PersonaSettled DEF BeforePersona
<1>3. Keeps(new) /\ (new.journal = disk.journal \/ Writes(new.journal))
  BY Fields, Written DEF Keeps, DiskNames
<1> HIDE DEF new
<1> QED BY <1>1, <1>2, <1>3, TryGoto DEF Covered, BeforeCommit, BeforePersona

LEMMA DropRootPaired == PersonaInv /\ DropRoot => PersonaInv'
<1> SUFFICES ASSUME PersonaInv, DropRoot PROVE PersonaInv'
  OBVIOUS
<1> DEFINE new == RmRoot(disk, mem.id)
<1>1. mem.at = "dropRoot" /\ Try(new, Goto("clearDone"))
  BY DEF DropRoot
<1>2. Alike(disk)
  BY <1>1, PersonaSettled DEF BeforePersona
<1>3. Keeps(new) /\ (new.journal = disk.journal \/ Writes(new.journal))
  BY Fields, Written DEF Keeps, DiskNames, RmRoot
<1> HIDE DEF new
<1> QED BY <1>1, <1>2, <1>3, TryGoto DEF Covered, BeforeCommit, BeforePersona

LEMMA ClearDonePaired == PersonaInv /\ ClearDone => PersonaInv'
<1> SUFFICES ASSUME PersonaInv, ClearDone PROVE PersonaInv'
  OBVIOUS
<1> DEFINE new == [disk EXCEPT !.journal = NoJournal]
<1>1. mem.at = "clearDone" /\ (Try(new, Serve) \/ Try(new, Goto("orphans")))
  BY DEF ClearDone, AfterActivation
<1>2. Alike(disk)
  BY <1>1, PersonaSettled DEF BeforePersona
<1>3. Keeps(new) /\ (new.journal = disk.journal \/ Writes(new.journal))
  BY Fields, Written DEF Keeps, DiskNames
<1> HIDE DEF new
<1>4. CASE Try(new, Serve)
  BY <1>2, <1>3, <1>4, TryEnd DEF Covered, BeforeCommit, BeforePersona
<1>5. CASE Try(new, Goto("orphans"))
  BY <1>2, <1>3, <1>5, TryGoto DEF Covered, BeforeCommit, BeforePersona
<1> QED BY <1>1, <1>4, <1>5

LEMMA UndoPaired == PersonaInv /\ Undo => PersonaInv'
<1> SUFFICES ASSUME PersonaInv, Undo PROVE PersonaInv'
  OBVIOUS
<1> DEFINE n == Len(mem.moved)
           new == Undone(mem.moved[n])
           after == [mem EXCEPT !.moved = SubSeq(@, 1, n - 1)]
<1>1. mem.at = "undo" /\ Try(new, after)
  BY DEF Undo
<1>2. Alike(disk)
  BY <1>1, PersonaSettled DEF BeforePersona
<1>3. \A m : Keeps(Undone(m)) /\ Undone(m).journal = disk.journal
  BY Fields DEF Undone, Keeps, DiskNames
<1>4. PersonaMem(after) /\ after.at \notin Covered
  BY <1>1 DEF PersonaInv, PersonaMem, MemNames, Covered, BeforeCommit, BeforePersona
<1> HIDE DEF after
<1>5. Alike(new)
  BY <1>2, <1>3, PersonaKept
<1> HIDE DEF new
<1> QED BY <1>1, <1>2, <1>4, <1>5, TryApart

LEMMA AllUndonePaired == PersonaInv /\ AllUndone => PersonaInv'
<1> SUFFICES ASSUME PersonaInv, AllUndone PROVE PersonaInv'
  OBVIOUS
<1> DEFINE new == [disk EXCEPT !.journal = NoJournal]
<1>1. mem.at = "undo" /\ (Try(new, Serve) \/ Try(new, Goto("orphans")))
  BY DEF AllUndone, AfterActivation
<1>2. Alike(disk)
  BY <1>1, PersonaSettled DEF BeforePersona
<1>3. Keeps(new) /\ (new.journal = disk.journal \/ Writes(new.journal))
  BY Fields, Written DEF Keeps, DiskNames
<1> HIDE DEF new
<1>4. CASE Try(new, Serve)
  BY <1>2, <1>3, <1>4, TryEnd DEF Covered, BeforeCommit, BeforePersona
<1>5. CASE Try(new, Goto("orphans"))
  BY <1>2, <1>3, <1>5, TryGoto DEF Covered, BeforeCommit, BeforePersona
<1> QED BY <1>1, <1>4, <1>5

(* ------------------------- recovery, crashes, events ---------------------- *)

LEMMA GiveBackPaired == PersonaInv /\ GiveBack => PersonaInv'
<1> SUFFICES ASSUME PersonaInv, GiveBack PROVE PersonaInv'
  OBVIOUS
<1> DEFINE new == LET kept == IF disk.pending.id = mem.id THEN Absent ELSE disk.pending
                  IN [disk EXCEPT !.pending = IF kept = Absent THEN disk.replaced[mem.id] ELSE kept,
                                  !.replaced[mem.id] = IF kept = Absent THEN Absent ELSE @]
<1>1. mem.at = "giveBack" /\ Try(new, Goto("forget"))
  BY DEF GiveBack
<1>2. Alike(disk)
  BY <1>1, PersonaSettled DEF BeforePersona
<1>3. Keeps(new) /\ (new.journal = disk.journal \/ Writes(new.journal))
  BY Fields, Written DEF Keeps, DiskNames
<1> HIDE DEF new
<1> QED BY <1>1, <1>2, <1>3, TryGoto DEF Covered, BeforeCommit, BeforePersona

LEMMA ForgetPaired == PersonaInv /\ Forget => PersonaInv'
<1> SUFFICES ASSUME PersonaInv, Forget PROVE PersonaInv'
  OBVIOUS
<1> DEFINE new == [RmRoot(disk, mem.id) EXCEPT !.next = Absent]
<1>1. mem.at = "forget" /\ Try(new, Goto("clear"))
  BY DEF Forget
<1>2. Alike(disk)
  BY <1>1, PersonaSettled DEF BeforePersona
<1>3. Keeps(new) /\ (new.journal = disk.journal \/ Writes(new.journal))
  BY Fields, Written DEF Keeps, DiskNames, RmRoot
<1> HIDE DEF new
<1> QED BY <1>1, <1>2, <1>3, TryGoto DEF Covered, BeforeCommit, BeforePersona

LEMMA OrphansPaired == PersonaInv /\ Orphans => PersonaInv'
<1> SUFFICES ASSUME PersonaInv, Orphans PROVE PersonaInv'
  OBVIOUS
<1> DEFINE new == [disk EXCEPT !.staged   = [r \in Restores |-> {}],
                             !.previous = [r \in Restores |-> NoFolders],
                             !.replaced = [r \in Restores |-> Absent],
                             !.next     = Absent]
<1>1. mem.at = "orphans" /\ Try(new, Idle)
  BY DEF Orphans
<1>2. Alike(disk)
  BY <1>1, PersonaSettled DEF BeforePersona
<1>3. Keeps(new) /\ (new.journal = disk.journal \/ Writes(new.journal))
  BY Fields, Written DEF Keeps, DiskNames
<1> HIDE DEF new
<1> QED BY <1>1, <1>2, <1>3, TryEnd DEF Covered, BeforeCommit, BeforePersona

LEMMA CrashPaired == PersonaInv /\ Crash => PersonaInv'
<1> SUFFICES ASSUME PersonaInv, Crash PROVE PersonaInv'
  OBVIOUS
<1>1. disk' = disk /\ PersonaMem(mem') /\ mem'.at = "down" /\ mem'.job = "none"
  BY Ends DEF Crash, PersonaInv
<1> QED BY <1>1 DEF PersonaInv, Together, BeforePersona

\* The recovery goes on with the persona where the journal says so, and only
\* then; everything else it does where the two agree.
LEMMA StartPaired == PersonaInv /\ Start => PersonaInv'
<1> SUFFICES ASSUME PersonaInv, Start PROVE PersonaInv'
  OBVIOUS
<1> DEFINE j == disk.journal
<1>1. /\ mem.at = "down" /\ disk' = disk /\ PersonaDisk(disk) /\ Follows(disk)
      /\ DOMAIN mem = MemNames /\ mem.job = "none"
  BY DEF Start, PersonaInv, PersonaMem, PersonaDisk, Together
<1>2. /\ DOMAIN mem' = MemNames /\ mem'.job = "none" /\ mem'.for = "start" /\ mem'.id = j.id
      /\ mem'.at \notin {"idle", "down"}
      /\ mem'.at \in Covered => /\ mem'.at = "toPersona" /\ j.op = "restore"
                                 /\ j.step \notin {"stage", "pending"} /\ disk.applied = j.id
      /\ mem'.at \notin Covered =>
           j.op # "restore" \/ j.step \in {"stage", "pending"} \/ disk.applied # j.id
  <2>1. PICK at : /\ mem' = [mem EXCEPT !.for = "start", !.id = j.id, !.moved = j.moved, !.at = at]
                   /\ at = CASE j.op = "none" -> "orphans"
                               [] j.op = "activate" ->
                                    IF disk.activated = j.id THEN "dropPrevious" ELSE "undo"
                               [] j.op = "restore" ->
                                    IF j.step = "stage" \/ disk.applied # j.id THEN "giveBack"
                                    ELSE IF j.step = "pending" THEN "install" ELSE "toPersona"
    BY DEF Start
  <2>2. /\ DOMAIN mem' = MemNames /\ mem'.job = "none" /\ mem'.for = "start" /\ mem'.id = j.id
        /\ mem'.at = at
    BY <1>1, <2>1 DEF MemNames
  <2>3. CASE j.op = "none"
    BY <2>1, <2>2, <2>3 DEF Covered, BeforeCommit, BeforePersona
  <2>4. CASE j.op = "activate"
    BY <2>1, <2>2, <2>4 DEF Covered, BeforeCommit, BeforePersona
  <2>5. CASE j.op = "restore"
    BY <2>1, <2>2, <2>5 DEF Covered, BeforeCommit, BeforePersona
  <2> QED BY <1>1, <2>3, <2>4, <2>5 DEF PersonaDisk
<1>3. CASE mem'.at \in Covered
  <2>1. j.id \in Restores /\ j.step \in {"apply", "persona"} /\ disk.settings = j.id
    BY <1>1, <1>2, <1>3, RestoreAssumption DEF PersonaDisk
  <2> QED BY <1>1, <1>2, <1>3, <2>1 DEF PersonaInv, PersonaMem, Together,
             Covered, BeforeCommit, BeforePersona
<1>4. CASE mem'.at \notin Covered
  <2>1. disk.persona = disk.settings
    BY <1>1, <1>2, <1>4, RestoreAssumption DEF PersonaDisk, Follows
  <2>2. PersonaMem(mem')
    BY <1>1, <1>2, <1>4 DEF PersonaMem
  <2> QED BY <1>1, <1>4, <2>1, <2>2, Apart DEF PersonaInv
<1> QED BY <1>3, <1>4

\* What happens at "idle" and starts nothing: the persona may lag behind.
LEMMA IdlePaired ==
  ASSUME PersonaInv, mem.at = "idle", Keeps(disk'), disk'.journal = disk.journal,
         PersonaMem(mem'), mem'.at = "idle", mem'.job = mem.job
  PROVE  PersonaInv'
  BY DEF PersonaInv, Keeps, PersonaDisk, Together, Follows, BeforePersona

LEMMA SocketClosesPaired == PersonaInv /\ SocketCloses => PersonaInv'
<1> SUFFICES ASSUME PersonaInv, SocketCloses PROVE PersonaInv'
  OBVIOUS
<1>1. /\ mem.at = "idle" /\ disk' = disk /\ PersonaMem(mem)
      /\ mem' = [mem EXCEPT !.serving = FALSE]
  BY DEF SocketCloses, PersonaInv
<1>2. PersonaMem(mem') /\ mem'.at = "idle" /\ mem'.job = mem.job
  BY <1>1 DEF PersonaMem, MemNames
<1>3. Keeps(disk')
  BY <1>1, Fields DEF Keeps
<1> QED BY <1>1, <1>2, <1>3, IdlePaired

LEMMA DiscardPaired == PersonaInv /\ Discard => PersonaInv'
<1> SUFFICES ASSUME PersonaInv, Discard PROVE PersonaInv'
  OBVIOUS
<1>1. mem.at = "idle" /\ mem' = mem /\ PersonaMem(mem') /\ disk' = [disk EXCEPT !.pending = Absent]
  BY DEF Discard, PersonaInv
<1>2. Keeps(disk') /\ disk'.journal = disk.journal
  BY <1>1, Fields DEF Keeps, DiskNames
<1> QED BY <1>1, <1>2, IdlePaired

LEMMA MakeFolderPaired == \A f \in Folders : PersonaInv /\ MakeFolder(f) => PersonaInv'
<1> SUFFICES ASSUME NEW f \in Folders, PersonaInv, MakeFolder(f) PROVE PersonaInv'
  OBVIOUS
<1>1. mem.at = "idle" /\ mem' = mem /\ PersonaMem(mem') /\ disk' = [disk EXCEPT !.live[f] = Fresh]
  BY DEF MakeFolder, PersonaInv
<1>2. Keeps(disk') /\ disk'.journal = disk.journal
  BY <1>1, Fields DEF Keeps, DiskNames
<1> QED BY <1>1, <1>2, IdlePaired

\* An activation begins where there is no journal, so where the two agree.
LEMMA SocketOpensPaired == \A matches \in BOOLEAN : PersonaInv /\ SocketOpens(matches) => PersonaInv'
<1> SUFFICES ASSUME NEW matches \in BOOLEAN, PersonaInv, SocketOpens(matches) PROVE PersonaInv'
  OBVIOUS
<1> DEFINE begun == [mem EXCEPT !.at = "migrate", !.for = "open", !.id = disk.pending.id]
<1>1. /\ mem.at = "idle" /\ disk' = disk /\ PersonaMem(mem) /\ Together(disk, mem) /\ PersonaDisk(disk)
      /\ \/ mem' \in {mem, Serve}
         \/ mem' = begun /\ disk.journal = NoJournal
  BY DEF SocketOpens, PersonaInv
<1>2. CASE mem' \in {mem, Serve}
  <2>1. PersonaMem(mem') /\ mem'.at = "idle" /\ mem'.job = mem.job
    BY <1>1, <1>2, Ends
  <2>2. Keeps(disk')
    BY <1>1, Fields DEF Keeps
  <2> QED BY <1>1, <2>1, <2>2, IdlePaired
<1>3. CASE mem' = begun /\ disk.journal = NoJournal
  <2>1. Alike(disk)
    BY <1>1, <1>3 DEF Together, Follows, Alike, NoJournal
  <2>2. PersonaMem(begun) /\ begun.at = "migrate"
    BY <1>1 DEF PersonaMem, MemNames, Covered, BeforeCommit, BeforePersona
  <2> HIDE DEF begun
  <2> QED BY <1>1, <1>3, <2>1, <2>2, MemOnly DEF Covered, BeforeCommit, BeforePersona
<1> QED BY <1>1, <1>2, <1>3

\* So does a restore.
LEMMA StartRestorePaired == \A r \in Restores : PersonaInv /\ StartRestore(r) => PersonaInv'
<1> SUFFICES ASSUME NEW r \in Restores, PersonaInv, StartRestore(r) PROVE PersonaInv'
  OBVIOUS
<1>1. /\ mem.at = "idle" /\ disk' = disk /\ PersonaMem(mem) /\ Together(disk, mem) /\ PersonaDisk(disk)
      /\ disk.journal = NoJournal
      /\ mem' = [mem EXCEPT !.job = "opening", !.jobId = r, !.tried = @ \cup {r}]
  BY DEF StartRestore, PersonaInv
<1>2. Alike(disk)
  BY <1>1 DEF Together, Follows, Alike, NoJournal
<1>3. PersonaMem(mem') /\ mem'.at = "idle"
  BY <1>1 DEF PersonaMem, MemNames, Covered, BeforeCommit, BeforePersona
<1> QED BY <1>1, <1>2, <1>3, MemOnly DEF Covered, BeforeCommit, BeforePersona

LEMMA OpenFailsPaired == PersonaInv /\ OpenFails => PersonaInv'
<1> SUFFICES ASSUME PersonaInv, OpenFails PROVE PersonaInv'
  OBVIOUS
<1>1. mem.at = "idle" /\ mem.job # "none" /\ disk' = disk /\ mem' = JobOver
  BY DEF OpenFails
<1>2. Alike(disk)
  BY <1>1, PersonaSettled DEF BeforePersona
<1>3. PersonaMem(mem') /\ mem'.at = "idle"
  BY <1>1, Ends DEF PersonaInv
<1> QED BY <1>1, <1>2, <1>3, MemOnly DEF Covered, BeforeCommit, BeforePersona

LEMMA StagePaired == PersonaInv /\ Stage => PersonaInv'
<1> SUFFICES ASSUME PersonaInv, Stage PROVE PersonaInv'
  OBVIOUS
<1> DEFINE new == [disk EXCEPT !.staged[mem.jobId] = {"metadata"},
                               !.journal = RestoreJournal(mem.jobId, "stage")]
           after == [mem EXCEPT !.job = "staging"]
<1>1. mem.at = "idle" /\ mem.job # "none" /\ Try(new, after) /\ PersonaMem(mem) /\ mem.jobId \in Restores
  BY DEF Stage, PersonaInv, PersonaMem
<1>2. Alike(disk)
  BY <1>1, PersonaSettled DEF BeforePersona
<1>3. Keeps(new) /\ Writes(new.journal)
  BY <1>1, Fields, Written DEF Keeps, DiskNames
<1>4. PersonaMem(after) /\ after.at = "idle"
  BY <1>1 DEF PersonaMem, MemNames, Covered, BeforeCommit, BeforePersona
<1> HIDE DEF new, after
<1>5. Alike(new)
  BY <1>2, <1>3, PersonaKept
<1> QED BY <1>1, <1>2, <1>4, <1>5, TryApart DEF Covered, BeforeCommit, BeforePersona

LEMMA ExtractedPaired == PersonaInv /\ Extracted => PersonaInv'
<1> SUFFICES ASSUME PersonaInv, Extracted PROVE PersonaInv'
  OBVIOUS
<1>1. /\ mem.at = "idle" /\ mem.job # "none" /\ PersonaMem(mem) /\ mem.jobId \in Restores
      /\ disk' = [disk EXCEPT !.staged[mem.jobId] = AllStaged(mem.jobId)]
      /\ mem' = [mem EXCEPT !.at = "apply", !.for = "job", !.id = mem.jobId]
  BY DEF Extracted, PersonaInv, PersonaMem
<1>2. Alike(disk)
  BY <1>1, PersonaSettled DEF BeforePersona
<1>3. Keeps(disk') /\ disk'.journal = disk.journal
  BY <1>1, Fields DEF Keeps, DiskNames
<1>4. Alike(disk')
  BY <1>2, <1>3, PersonaKept
<1>5. PersonaMem(mem') /\ mem'.at = "apply"
  BY <1>1 DEF PersonaMem, MemNames
<1> QED BY <1>4, <1>5 DEF PersonaInv, Alike, Together, Follows, BeforePersona

LEMMA ExtractFailsPaired == PersonaInv /\ ExtractFails => PersonaInv'
<1> SUFFICES ASSUME PersonaInv, ExtractFails PROVE PersonaInv'
  OBVIOUS
<1>1. /\ mem.at = "idle" /\ mem.job # "none" /\ PersonaMem(mem) /\ disk' = disk
      /\ mem' = [mem EXCEPT !.at = "unstage", !.for = "job", !.id = mem.jobId]
  BY DEF ExtractFails, PersonaInv
<1>2. Alike(disk)
  BY <1>1, PersonaSettled DEF BeforePersona
<1>3. PersonaMem(mem') /\ mem'.at = "unstage"
  BY <1>1 DEF PersonaMem, MemNames, Covered, BeforeCommit, BeforePersona
<1> QED BY <1>1, <1>2, <1>3, MemOnly DEF Covered, BeforeCommit, BeforePersona

(* -------------------------------- the theorem ------------------------------ *)

LEMMA InitPaired == Init => PersonaInv
<1> SUFFICES ASSUME Init PROVE PersonaInv
  OBVIOUS
<1>1. PersonaDisk(disk) /\ disk.persona = disk.settings
  BY DEF Init, PersonaDisk, DiskNames, NoJournal
<1>2. PersonaMem(mem) /\ mem.at = "idle"
  BY DEF Init, PersonaMem, MemNames, Covered, BeforeCommit, BeforePersona
<1> QED BY <1>1, <1>2, Apart DEF PersonaInv, Covered, BeforeCommit, BeforePersona

LEMMA StepPaired == PersonaInv /\ [Next]_vars => PersonaInv'
<1> SUFFICES ASSUME PersonaInv, [Next]_vars PROVE PersonaInv'
  OBVIOUS
<1>1. CASE RestoreSteps
  BY <1>1, ApplyPaired, CommitPaired, RefusePaired, ToPersonaPaired,
     InstallPersonaPaired, ToPendingPaired,
     AlreadyInstalledPaired, InstallPartPaired, ReplacePaired, SwapPaired,
     DropReplacedPaired, ClearPaired, SweepPaired,
     UnstagePaired, UnjournalPaired DEF RestoreSteps
<1>2. CASE ActivationSteps
  BY <1>2, MigratePaired, CheckPaired, CheckFailsPaired, MoveOutPaired,
     RenameOutPaired, MoveInPaired, RenameInPaired,
     ToDbPaired, ReplaceTablesPaired, ToCleanupPaired, DropPreviousPaired,
     DropPendingPaired, DropRootPaired,
     ClearDonePaired, UndoPaired, AllUndonePaired DEF ActivationSteps
<1>3. CASE RecoverySteps
  BY <1>3, GiveBackPaired, ForgetPaired, OrphansPaired DEF RecoverySteps
<1>4. CASE JobEvents
  BY <1>4, OpenFailsPaired, StagePaired, ExtractedPaired, ExtractFailsPaired
     DEF JobEvents
<1>5. CASE SocketCloses \/ Crash \/ Start \/ Discard
  BY <1>5, SocketClosesPaired, CrashPaired, StartPaired, DiscardPaired
<1>6. ASSUME NEW r \in Restores, StartRestore(r) PROVE PersonaInv'
  BY <1>6, StartRestorePaired
<1>7. ASSUME NEW matches \in BOOLEAN, SocketOpens(matches) PROVE PersonaInv'
  BY <1>7, SocketOpensPaired
<1>8. ASSUME NEW f \in Folders, MakeFolder(f) PROVE PersonaInv'
  BY <1>8, MakeFolderPaired
<1>9. CASE UNCHANGED vars
  BY <1>9 DEF PersonaInv, vars
<1> QED BY <1>1, <1>2, <1>3, <1>4, <1>5, <1>6, <1>7, <1>8, <1>9 DEF Next, Steps

\* Settings and persona are those of one restore, or a journal says that its
\* persona is still to come: for any restores and folders, and any number of
\* failed operations and deaths (restorePinnedUpload, recover).
THEOREM PersonaFollowsHolds == Spec => []PersonaFollows
<1>1. PersonaInv => PersonaFollows
  BY DEF PersonaInv, Together, Follows, PersonaFollows
<1> QED BY <1>1, InitPaired, StepPaired, PTL DEF Spec

-----------------------------------------------------------------------------
(* ---------------------------------- types ---------------------------------- *)

Steppers == Installing \cup Activating \cup Finishing \cup Undoing \cup
            {"down", "idle", "sweep", "unstage", "unjournal", "giveBack", "forget", "orphans"}
JournalSteps == {"none", "stage", "apply", "persona", "pending", "migrate", "files", "db", "cleanup"}
MoveLists == Seq(Moves)
Reasons   == {"none", "job", "open", "start"}
JobStates == {"none", "opening", "staging"}
Journals == [op : {"none", "restore", "activate"}, id : Ids, step : JournalSteps, moved : MoveLists]

DiskType == [live : [Folders -> Data], tables : Data, activated : Ids,
             settings : Data, applied : Ids, persona : Data,
             journal : Journals,
             staged : [Restores -> SUBSET (Parts \cup {"metadata", "persona"})],
             previous : [Restores -> [Folders -> Data]],
             replaced : [Restores -> Packages], next : Packages, pending : Packages]
MemType  == [at : Steppers, for : Reasons, id : Ids, moved : MoveLists,
             again : BOOLEAN, job : JobStates, jobId : Ids,
             tried : SUBSET Restores, serving : BOOLEAN]

\* The folders moved in by some moves.
InOf(moved) == {moved[i].folder : i \in {j \in DOMAIN moved : moved[j].way = "in"}}

\* What the types of the values written rest on.
MemInv(m) ==
  /\ m \in MemType
  /\ m.at \notin {"idle", "down", "orphans"} => m.id \in Restores
  /\ m.job # "none" => m.jobId \in Restores
  /\ m.at \in {"idle", "down", "migrate", "check"} => m.moved = <<>>
  /\ m.at \in {"out", "outMove", "in"} => InOf(m.moved) # Folders
  /\ m.at = "inMove" => m.moved # <<>>

DiskInv(d) ==
  /\ d \in DiskType
  /\ d.journal.op # "none" => d.journal.id \in Restores

TypeInv == DiskInv(disk) /\ MemInv(mem)

\* The first of some parts is one of them.
LEMMA FirstIn ==
  ASSUME NEW S \in SUBSET Parts, S # {}
  PROVE  First(S) \in S
<1>1. CASE "db" \in S
  BY <1>1 DEF First
<1>2. CASE "db" \notin S
  <2> DEFINE I == {i \in DOMAIN Order : Order[i] \in S}
  <2>1. I \subseteq Nat /\ I # {}
    BY <1>2, RestoreAssumption DEF Parts, Folders
  <2>2. PICK i \in I : \A j \in I : <<j, i>> \notin OpToRel(<, Nat)
    BY <2>1, NatLessThanWellFounded, WFMin
  <2>3. \A j \in 1..(i - 1) : Order[j] \notin S
    <3>3. DOMAIN Order = 1..Len(Order) /\ Len(Order) \in Nat
      BY RestoreAssumption
    <3> SUFFICES ASSUME NEW j \in 1..(i - 1) PROVE j \notin I
      BY <3>3
    <3>1. j \in Nat /\ i \in Nat /\ j < i
      BY <2>1
    <3>2. <<j, i>> \in OpToRel(<, Nat)
      BY <3>1 DEF OpToRel
    <3> QED BY <2>2, <3>2
  <2> DEFINE c == CHOOSE n \in DOMAIN Order :
                    Order[n] \in S /\ \A j \in 1..(n - 1) : Order[j] \notin S
  <2>4. c \in DOMAIN Order /\ Order[c] \in S
    BY <2>2, <2>3
  <2> QED BY <1>2, <2>4 DEF First
<1> QED BY <1>1, <1>2


\* Where the code goes on keeps the types.
LEMMA EndTypes ==
  ASSUME MemInv(mem)
  PROVE  MemInv(Idle) /\ MemInv(JobOver) /\ MemInv(Serve) /\ MemInv(Down)
<1>0. /\ "idle" \in Steppers /\ "down" \in Steppers /\ "none" \in Reasons /\ "none" \in JobStates
      /\ None \in Ids /\ <<>> \in MoveLists
  BY DEF Steppers, Reasons, JobStates, Ids, MoveLists
<1>1. MemInv(Idle)
  BY <1>0 DEF MemInv, MemType, Idle
<1>2. MemInv(JobOver)
  BY <1>0, <1>1 DEF MemInv, MemType, JobOver, Idle
<1>4. MemInv(Serve)
  BY <1>0, <1>1 DEF MemInv, MemType, Serve, Idle
<1>3. MemInv(Down)
  BY <1>0, <1>2 DEF MemInv, MemType, Down, JobOver, Idle
<1> QED BY <1>1, <1>2, <1>3, <1>4

LEMMA GotoType ==
  ASSUME MemInv(mem), NEW step \in Steppers, step = "orphans" \/ mem.id \in Restores,
         step \notin {"idle", "down", "migrate", "check", "out", "outMove", "in", "inMove"}
  PROVE  MemInv(Goto(step)) /\ MemInv([Goto(step) EXCEPT !.again = TRUE])
  BY DEF MemInv, MemType, Goto

LEMMA ThrownType ==
  ASSUME MemInv(mem), NEW d
  PROVE  MemInv(Thrown(d))
<1>1. mem.at \in Installing \cup Activating \cup Finishing => mem.id \in Restores
  BY DEF MemInv, Installing, Activating, Finishing
<1>2. \A step \in {"unstage", "orphans", "undo", "dropPrevious"} :
        /\ step \in Steppers
        /\ step \notin {"idle", "down", "migrate", "check", "out", "outMove", "in", "inMove"}
  BY DEF Steppers, Undoing, Finishing
<1>3. /\ MemInv(Goto("orphans"))
      /\ mem.id \in Restores => MemInv(Goto("unstage")) /\ MemInv(Goto("undo"))
                                /\ MemInv([Goto("dropPrevious") EXCEPT !.again = TRUE])
  BY <1>2, GotoType
<1> QED BY <1>1, <1>3, EndTypes DEF Thrown

LEMMA TryType ==
  ASSUME TypeInv, NEW new, NEW after, Try(new, after), DiskInv(new), MemInv(after)
  PROVE  TypeInv'
  BY ThrownType DEF Try, TypeInv

\* What a write does to each field of the disk, field by field.
LEMMA DiskFields ==
  ASSUME NEW d \in DiskType
  PROVE  /\ d.live \in [Folders -> Data] /\ d.tables \in Data /\ d.activated \in Ids
         /\ d.settings \in Data /\ d.applied \in Ids /\ d.persona \in Data
         /\ d.journal \in Journals
         /\ d.staged \in [Restores -> SUBSET (Parts \cup {"metadata", "persona"})]
         /\ d.previous \in [Restores -> [Folders -> Data]]
         /\ d.replaced \in [Restores -> Packages]
         /\ d.next \in Packages /\ d.pending \in Packages
  BY DEF DiskType

\* The journals the code writes.
LEMMA RestoreJournalType ==
  ASSUME NEW r \in Restores, NEW step \in JournalSteps
  PROVE  LET j == RestoreJournal(r, step)
         IN j \in Journals /\ j.op = "restore" /\ j.id = r /\ j.step = step
<1>1. <<>> \in MoveLists /\ r \in Ids
  BY DEF MoveLists, Ids
<1> QED BY <1>1 DEF RestoreJournal, Journals

LEMMA ActivateJournalType ==
  ASSUME NEW r \in Restores, NEW moved \in MoveLists, NEW step \in JournalSteps
  PROVE  LET j == ActivateJournal(r, step, moved)
         IN j \in Journals /\ j.op = "activate" /\ j.id = r /\ j.step = step /\ j.moved = moved
  BY DEF ActivateJournal, Journals, Ids

LEMMA NoJournalType ==
  NoJournal \in Journals /\ NoJournal.op = "none" /\ NoJournal.id = None /\ NoJournal.moved = <<>>
<1>1. <<>> \in MoveLists /\ None \in Ids /\ "none" \in JournalSteps
  BY DEF MoveLists, Ids, JournalSteps
<1> QED BY <1>1 DEF NoJournal, Journals

LEMMA AbsentType ==
  /\ Absent \in Packages /\ NoFolders \in [Folders -> Data]
  /\ Absent.id = None /\ \A k \in Parts : Absent.has[k] = Gone
  /\ \A f \in Folders : NoFolders[f] = Gone
<1>1. Gone \in Data /\ None \in Ids
  BY DEF Data, Ids
<1>2. Absent \in Packages
  BY <1>1 DEF Absent, Packages
<1> QED BY <1>1, <1>2 DEF NoFolders, Absent

LEMMA RootType ==
  ASSUME NEW d, DiskInv(d), NEW r
  PROVE  DiskInv(RmRoot(d, r))
<1>1. RmRoot(d, r) \in DiskType
  BY AbsentType DEF DiskInv, DiskType, RmRoot
<1> QED BY <1>1 DEF DiskInv, DiskType, RmRoot

\* A step of the disk that keeps its types and goes on.
LEMMA StepType ==
  ASSUME TypeInv, NEW new, DiskInv(new), NEW step \in Steppers, mem.id \in Restores,
         step \notin {"idle", "down", "migrate", "check", "out", "outMove", "in", "inMove"},
         Try(new, Goto(step))
  PROVE  TypeInv'
  BY GotoType, TryType DEF TypeInv

\* A step that ends the synchronous code.
LEMMA LastType ==
  ASSUME TypeInv, NEW new, DiskInv(new), Try(new, Idle) \/ Try(new, JobOver) \/ Try(new, Serve)
  PROVE  TypeInv'
  BY EndTypes, TryType DEF TypeInv

\* A write of the journal.
LEMMA NoteType ==
  ASSUME NEW d, DiskInv(d), NEW j \in Journals, j.op # "none" => j.id \in Restores
  PROVE  DiskInv([d EXCEPT !.journal = j])
  BY DEF DiskInv, DiskType

LEMMA ThrowsType == TypeInv /\ Throws => TypeInv'
  BY ThrownType DEF TypeInv, Throws

\* A restore on its way.
LEMMA RestoreStepsType == TypeInv /\ RestoreSteps => TypeInv'
<1> SUFFICES ASSUME TypeInv, RestoreSteps PROVE TypeInv'
  OBVIOUS
<1> USE DEF TypeInv
<1>1. /\ Installing \cup {"sweep", "unstage", "unjournal", "giveBack", "forget", "orphans"} \subseteq Steppers
      /\ mem.at \in Installing \cup {"sweep", "unstage", "unjournal", "giveBack", "forget"} =>
           mem.id \in Restores
  BY DEF Steppers, MemInv, Installing
<1>2. ASSUME mem.id \in Restores, NEW step \in {"apply", "persona", "pending"}
      PROVE  DiskInv([disk EXCEPT !.journal = RestoreJournal(mem.id, step)])
  BY <1>2, RestoreJournalType, NoteType DEF JournalSteps
<1>3. DiskInv([disk EXCEPT !.journal = NoJournal])
  BY NoJournalType, NoteType
<1>4. mem.id \in Restores => mem.id \in Data /\ mem.id \in Ids
  BY DEF Data, Ids
<1>5. CASE Apply
  BY <1>5, <1>1, <1>2, StepType DEF Apply, Installing
<1>6. CASE Commit
  <2>1. DiskInv([disk EXCEPT !.settings = mem.id, !.applied = mem.id])
    BY <1>1, <1>4, <1>6 DEF Commit, Installing, DiskInv, DiskType
  <2> QED BY <2>1, <1>6, <1>1, StepType DEF Commit, Installing
<1>7. CASE Refuse
  BY <1>7, ThrowsType DEF Refuse
<1>8. CASE ToPersona
  BY <1>8, <1>1, <1>2, StepType, ThrowsType DEF ToPersona, Installing
<1>9. CASE InstallPersona
  <2>1. DiskInv([disk EXCEPT !.persona = mem.id])
    BY <1>1, <1>4, <1>9 DEF InstallPersona, Installing, DiskInv, DiskType
  <2> QED BY <2>1, <1>9, <1>1, StepType DEF InstallPersona, Installing
<1>10. CASE ToPending
  BY <1>10, <1>1, <1>2, StepType DEF ToPending, Installing
<1>11. CASE AlreadyInstalled
  <2>1. mem.id \in Restores /\ "clear" \in Steppers
    BY <1>1, <1>11 DEF AlreadyInstalled, Installing
  <2> QED BY <1>11, <2>1, GotoType, ThrowsType DEF AlreadyInstalled
<1>12. CASE InstallPart
  <2> DEFINE k     == First(Missing)
             named == [disk EXCEPT !.next.id = mem.id]
             moved == [disk EXCEPT !.staged[mem.id] = @ \ {k}, !.next.has[k] = mem.id]
  <2>1. mem.id \in Restores /\ "install" \in Steppers /\ "replace" \in Steppers
    BY <1>1, <1>12 DEF InstallPart, Installing
  <2>2. DiskInv(named)
    BY <2>1, <1>4 DEF DiskInv, DiskType, Packages
  <2>3. DiskInv(moved)
    BY <2>1, <1>4 DEF DiskInv, DiskType, Packages
  <2>4. Throws \/ Try(named, Goto("replace")) \/ Try(moved, Goto("install"))
    BY <1>12 DEF InstallPart
  <2> HIDE DEF named, moved
  <2> QED BY <2>1, <2>2, <2>3, <2>4, StepType, ThrowsType
<1>13. CASE Replace
  <2> DEFINE new == IF disk.pending = Absent THEN disk
                    ELSE [disk EXCEPT !.replaced[mem.id] = disk.pending, !.pending = Absent]
  <2>1. DiskInv(new)
    BY AbsentType DEF DiskInv, DiskType
  <2> QED BY <2>1, <1>13, <1>1, StepType DEF Replace, Installing
<1>14. CASE Swap
  <2>1. DiskInv([disk EXCEPT !.pending = disk.next, !.next = Absent])
    BY AbsentType DEF DiskInv, DiskType
  <2> QED BY <2>1, <1>14, <1>1, StepType DEF Swap, Installing
<1>15. CASE DropReplaced
  <2>1. DiskInv([disk EXCEPT !.replaced[mem.id] = Absent])
    BY AbsentType DEF DiskInv, DiskType
  <2> QED BY <2>1, <1>15, <1>1, StepType DEF DropReplaced, Installing
<1>16. CASE Clear
  BY <1>16, <1>1, <1>3, StepType DEF Clear, Installing
<1>17. CASE Sweep
  BY <1>17, <1>1, RootType, StepType, LastType DEF Sweep
<1>18. CASE Unstage
  BY <1>18, <1>1, RootType, StepType DEF Unstage
<1>19. CASE Unjournal
  BY <1>19, <1>3, LastType DEF Unjournal
<1> QED BY <1>5, <1>6, <1>7, <1>8, <1>9, <1>10, <1>11, <1>12, <1>13, <1>14,
           <1>15, <1>16,
           <1>17, <1>18, <1>19 DEF RestoreSteps

(* The folders an activation is at. *)

LEMMA Moving ==
  ASSUME NEW moved \in MoveLists
  PROVE  /\ InOf(moved) \subseteq Folders
         /\ \A i \in DOMAIN moved : moved[i] \in Moves /\ moved[i].folder \in Folders
         /\ moved # <<>> => Len(moved) \in DOMAIN moved
         /\ DOMAIN moved = 1..Len(moved) /\ Len(moved) \in Nat
<1>1. \A i \in DOMAIN moved : moved[i] \in Moves /\ moved[i].folder \in Folders
  <2>1. \A i \in DOMAIN moved : moved[i] \in Moves
    BY DEF MoveLists
  <2> QED BY <2>1 DEF Moves
<1>2. InOf(moved) \subseteq Folders
  BY <1>1 DEF InOf
<1> QED BY <1>1, <1>2 DEF MoveLists

LEMMA Appended ==
  ASSUME NEW moved \in MoveLists, NEW way \in {"in", "out"}, NEW f \in Folders
  PROVE  LET more == Append(moved, [way |-> way, folder |-> f])
         IN /\ more \in MoveLists /\ more # <<>>
            /\ InOf(more) = InOf(moved) \cup (IF way = "in" THEN {f} ELSE {})
<1> DEFINE m    == [way |-> way, folder |-> f]
           more == Append(moved, m)
<1>1. m \in Moves /\ m.way = way /\ m.folder = f
  BY DEF Moves
<1>2. more \in MoveLists /\ more # <<>>
  BY <1>1 DEF MoveLists
<1>3. /\ DOMAIN more = DOMAIN moved \cup {Len(moved) + 1}
      /\ \A i \in DOMAIN moved : more[i] = moved[i]
      /\ more[Len(moved) + 1] = m
  BY <1>1 DEF MoveLists
<1> HIDE DEF m, more
<1>4. InOf(more) = InOf(moved) \cup (IF way = "in" THEN {f} ELSE {})
  <2>1. ASSUME NEW g \in InOf(more) PROVE g \in InOf(moved) \cup (IF way = "in" THEN {f} ELSE {})
    BY <1>1, <1>3, <2>1 DEF InOf
  <2>2. InOf(moved) \subseteq InOf(more)
    BY <1>3 DEF InOf
  <2>3. way = "in" => f \in InOf(more)
    BY <1>1, <1>3 DEF InOf
  <2> QED BY <2>1, <2>2, <2>3
<1> QED BY <1>2, <1>4 DEF m, more

LEMMA Shortened ==
  ASSUME NEW moved \in MoveLists, moved # <<>>
  PROVE  LET less == SubSeq(moved, 1, Len(moved) - 1)
         IN /\ less \in MoveLists
            /\ DOMAIN less = DOMAIN moved \ {Len(moved)}
            /\ \A i \in DOMAIN less : less[i] = moved[i]
  BY DEF MoveLists

LEMMA CurrentIn ==
  ASSUME TypeInv, mem.at \in {"out", "outMove", "in"}
  PROVE  Current \in Folders /\ Current \notin InOf(mem.moved)
<1>1. InOf(mem.moved) # Folders /\ InOf(mem.moved) \subseteq Folders
  BY Moving DEF TypeInv, MemInv, MemType
<1>2. Folders \ InOf(mem.moved) \in SUBSET Parts /\ Folders \ InOf(mem.moved) # {}
  BY <1>1 DEF Parts
<1>3. First(Folders \ InOf(mem.moved)) \in Folders \ InOf(mem.moved)
  BY <1>2, FirstIn
<1> QED BY <1>3 DEF Current, MovedOf, InOf

LEMMA IntendType ==
  ASSUME TypeInv, mem.at \in {"out", "in"}, NEW new, DiskInv(new), NEW way \in {"in", "out"},
         Intend(way, new, IF way = "in" THEN "inMove" ELSE "outMove")
  PROVE  TypeInv'
<1> DEFINE moved == Append(mem.moved, [way |-> way, folder |-> Current])
           noted == [new EXCEPT !.journal = ActivateJournal(mem.id, "files", moved)]
           after == IF way = "in" THEN "inMove" ELSE "outMove"
<1>1. /\ mem.moved \in MoveLists /\ mem.id \in Restores /\ Current \in Folders
      /\ InOf(mem.moved) # Folders
  BY CurrentIn DEF TypeInv, MemInv, MemType
<1>2. /\ moved \in MoveLists /\ moved # <<>>
      /\ way = "out" => InOf(moved) # Folders
  BY <1>1, Appended
<1>3. disk' \in {disk, new, noted}
      /\ \E at \in {after, "undo"} : mem' = [[mem EXCEPT !.moved = moved] EXCEPT !.at = at]
  BY DEF Intend
<1> HIDE DEF moved
<1>4. DiskInv(noted)
  BY <1>1, <1>2, ActivateJournalType, NoteType DEF JournalSteps
<1> HIDE DEF noted
<1>5. after \in Steppers /\ "undo" \in Steppers
  BY DEF Steppers, Activating, Undoing
<1>6. MemInv(mem')
  <2>1. PICK at \in {after, "undo"} : mem' = [[mem EXCEPT !.moved = moved] EXCEPT !.at = at]
    BY <1>3
  <2>2. mem' \in MemType /\ mem'.at = at /\ mem'.moved = moved /\ mem'.id = mem.id
        /\ mem'.job = mem.job /\ mem'.jobId = mem.jobId
    BY <1>2, <1>5, <2>1 DEF TypeInv, MemInv, MemType
  <2>3. at \in {"inMove", "outMove", "undo"} /\ (at = "outMove" => way = "out")
    OBVIOUS
  <2> QED BY <1>1, <1>2, <2>2, <2>3 DEF TypeInv, MemInv
<1> QED BY <1>3, <1>4, <1>6 DEF TypeInv

LEMMA ActivationStepsType == TypeInv /\ ActivationSteps => TypeInv'
<1> SUFFICES ASSUME TypeInv, ActivationSteps PROVE TypeInv'
  OBVIOUS
<1> USE DEF TypeInv
<1>1. /\ Activating \cup Finishing \cup Undoing \cup {"orphans"} \subseteq Steppers
      /\ mem.at \in Activating \cup Finishing \cup Undoing => mem.id \in Restores
      /\ mem.moved \in MoveLists
  BY DEF Steppers, MemInv, MemType, Activating, Finishing, Undoing
<1>2. ASSUME mem.id \in Restores, NEW step \in {"migrate", "files", "db", "cleanup"},
             NEW moved \in MoveLists
      PROVE  DiskInv([disk EXCEPT !.journal = ActivateJournal(mem.id, step, moved)])
  BY <1>2, ActivateJournalType, NoteType DEF JournalSteps
<1>3. DiskInv([disk EXCEPT !.journal = NoJournal])
  BY NoJournalType, NoteType
<1>4. mem.id \in Restores => mem.id \in Data /\ mem.id \in Ids
  BY DEF Data, Ids
<1>20. <<>> \in MoveLists
  BY DEF MoveLists
<1>22. MemInv(AfterActivation)
  BY <1>1, EndTypes, GotoType DEF AfterActivation
<1>5. CASE Migrate
  <2>1. MemInv(Goto("check"))
    BY <1>1, <1>5 DEF Migrate, Activating, Goto, MemInv, MemType
  <2> QED BY <1>5, <1>1, <1>2, <1>20, <2>1, TryType DEF Migrate, Activating
<1>6. CASE Check
  <2>1. InOf(<<>>) # Folders
    BY RestoreAssumption DEF InOf, Folders
  <2>2. MemInv(Goto("out"))
    BY <1>1, <1>6, <2>1 DEF Check, Activating, Goto, MemInv, MemType
  <2> QED BY <1>6, <1>1, <1>2, <1>20, <2>2, TryType DEF Check, Activating
<1>7. CASE CheckFails
  BY <1>7, ThrowsType DEF CheckFails
<1>8. CASE MoveOut
  <2>1. mem.id \in Restores /\ Current \in Folders
    BY <1>8, <1>1, CurrentIn DEF MoveOut, Activating
  <2>2. DiskInv(Sourced)
    BY <2>1, <1>4 DEF Sourced, DiskInv, DiskType, Packages
  <2>3. MemInv(Goto("in"))
    BY <1>1, <1>8 DEF MoveOut, Activating, Goto, MemInv, MemType
  <2> QED BY <1>8, <2>2, <2>3, TryType, IntendType DEF MoveOut
<1>9. CASE RenameOut
  <2>1. mem.id \in Restores /\ Current \in Folders /\ Gone \in Data
    BY <1>9, <1>1, CurrentIn DEF RenameOut, Activating, Data
  <2>2. DiskInv([disk EXCEPT !.previous[mem.id][Current] = disk.live[Current],
                            !.live[Current] = Gone])
    BY <2>1 DEF DiskInv, DiskType
  <2>3. MemInv(Goto("in"))
    BY <1>1, <1>9 DEF RenameOut, Activating, Goto, MemInv, MemType
  <2> QED BY <1>9, <2>2, <2>3, TryType DEF RenameOut
<1>10. CASE MoveIn
  BY <1>10, IntendType DEF MoveIn
<1>11. CASE RenameIn
  <2> DEFINE f    == mem.moved[Len(mem.moved)].folder
             next == IF MovedOf("in") = Folders THEN "toDb" ELSE "out"
             new  == [disk EXCEPT !.live[f] = disk.pending.has[f], !.pending.has[f] = Gone]
  <2>1. mem.at = "inMove" /\ mem.moved # <<>> /\ mem.id \in Restores
    BY <1>1, <1>11 DEF RenameIn, MemInv, Activating
  <2>2. f \in Folders /\ f \in Parts /\ Gone \in Data
    <3>1. f \in Folders
      <4>1. mem.moved \in MoveLists
        BY <1>1 DEF MemInv, MemType
      <4>2. Len(mem.moved) \in DOMAIN mem.moved
            /\ \A i \in DOMAIN mem.moved : mem.moved[i].folder \in Folders
        BY <2>1, <4>1, Moving, ZenonT(60)
      <4> QED BY <4>2, Zenon
    <3> HIDE DEF f
    <3> QED BY <3>1 DEF Parts, Data
  <2>3. DiskInv(new)
    BY <2>2 DEF DiskInv, DiskType, Packages
  <2>4. next \in Steppers /\ next \in {"toDb", "out"} /\ (next = "out" => InOf(mem.moved) # Folders)
    BY DEF Steppers, Activating, MovedOf, InOf
  <2>5. Try(new, Goto(next))
    BY <1>11 DEF RenameIn
  <2> HIDE DEF next, new
  <2>6. MemInv(Goto(next))
    BY <2>1, <2>4 DEF Goto, MemInv, MemType
  <2> QED BY <2>3, <2>5, <2>6, TryType
<1>12. CASE ToDb
  BY <1>12, <1>1, <1>2, StepType DEF ToDb, Activating
<1>13. CASE ReplaceTables
  <2>1. mem.id \in Restores /\ "db" \in Parts
    BY <1>1, <1>13 DEF ReplaceTables, Activating, Parts
  <2>2. DiskInv([disk EXCEPT !.tables = disk.pending.has["db"], !.activated = mem.id])
    BY <2>1, <1>4 DEF DiskInv, DiskType, Packages
  <2> QED BY <2>1, <2>2, <1>13, <1>1, StepType DEF ReplaceTables, Activating
<1>14. CASE ToCleanup
  BY <1>14, <1>1, <1>2, StepType DEF ToCleanup, Activating, Finishing
<1>15. CASE DropPrevious
  <2>1. DiskInv([disk EXCEPT !.previous[mem.id] = NoFolders])
    BY AbsentType DEF DiskInv, DiskType
  <2> QED BY <2>1, <1>15, <1>1, StepType DEF DropPrevious, Finishing
<1>16. CASE DropPending
  <2>1. DiskInv([disk EXCEPT !.pending = Absent])
    BY AbsentType DEF DiskInv, DiskType
  <2> QED BY <2>1, <1>16, <1>1, StepType DEF DropPending, Finishing
<1>17. CASE DropRoot
  BY <1>17, <1>1, RootType, StepType DEF DropRoot, Finishing
<1>18. CASE ClearDone
  BY <1>18, <1>3, <1>22, TryType DEF ClearDone
<1>19. CASE Undo
  <2> DEFINE m    == mem.moved[Len(mem.moved)]
             less == SubSeq(mem.moved, 1, Len(mem.moved) - 1)
  <2>1. mem.at = "undo" /\ mem.moved # <<>> /\ mem.id \in Restores
    BY <1>19, <1>1 DEF Undo, Undoing
  <2>2. m \in Moves /\ m.folder \in Folders /\ m.folder \in Parts /\ Gone \in Data
    BY <1>1, <2>1, Moving DEF Parts, Data
  <2>3. Try(Undone(m), [mem EXCEPT !.moved = less])
    BY <1>19 DEF Undo
  <2>4. less \in MoveLists
    BY <1>1, <2>1, Shortened
  <2> HIDE DEF m, less
  <2>5. DiskInv(Undone(m))
    <3>1. DiskInv([disk EXCEPT !.live[m.folder] = disk.previous[mem.id][m.folder],
                               !.previous[mem.id][m.folder] = Gone])
      <4>1. disk.previous[mem.id][m.folder] \in Data
        BY <2>1, <2>2 DEF DiskInv, DiskType
      <4> DEFINE f == m.folder
                 x == disk.previous[mem.id][f]
      <4>2. f \in Folders /\ x \in Data
        BY <2>2, <4>1
      <4> HIDE DEF f, x
      <4>3. DiskInv([disk EXCEPT !.live[f] = x, !.previous[mem.id][f] = Gone])
        BY <2>1, <2>2, <4>2 DEF DiskInv, DiskType
      <4> QED BY <4>3 DEF f, x
    <3>2. DiskInv([disk EXCEPT !.pending.has[m.folder] = disk.live[m.folder],
                               !.live[m.folder] = Gone])
      BY <2>1, <2>2 DEF DiskInv, DiskType, Packages
    <3> QED BY <3>1, <3>2 DEF Undone
  <2>6. MemInv([mem EXCEPT !.moved = less])
    BY <2>1, <2>4 DEF MemInv, MemType
  <2> QED BY <2>3, <2>5, <2>6, TryType
<1>21. CASE AllUndone
  BY <1>21, <1>3, <1>22, TryType DEF AllUndone
<1> QED BY <1>5, <1>6, <1>7, <1>8, <1>9, <1>10, <1>11, <1>12, <1>13, <1>14,
           <1>15, <1>16,
           <1>17, <1>18, <1>19, <1>21 DEF ActivationSteps

LEMMA RecoveryStepsType == TypeInv /\ RecoverySteps => TypeInv'
<1> SUFFICES ASSUME TypeInv, RecoverySteps PROVE TypeInv'
  OBVIOUS
<1> USE DEF TypeInv
<1>1. /\ {"forget", "clear"} \subseteq Steppers
      /\ mem.at \in {"giveBack", "forget"} => mem.id \in Restores
  BY DEF Steppers, MemInv, Installing
<1>2. CASE GiveBack
  <2> DEFINE kept == IF disk.pending.id = mem.id THEN Absent ELSE disk.pending
             left == IF kept = Absent THEN disk.replaced[mem.id] ELSE kept
             gone == IF kept = Absent THEN Absent ELSE disk.replaced[mem.id]
             new  == [disk EXCEPT !.pending = left, !.replaced[mem.id] = gone]
  <2>1. mem.id \in Restores /\ disk.replaced[mem.id] \in Packages /\ disk.pending \in Packages
    BY <1>1, <1>2 DEF GiveBack, DiskInv, DiskType
  <2>2. left \in Packages /\ gone \in Packages
    BY <2>1, AbsentType
  <2>3. Try(new, Goto("forget"))
    BY <1>2 DEF GiveBack
  <2> HIDE DEF left, gone
  <2>4. DiskInv(new)
    BY <2>1, <2>2 DEF DiskInv, DiskType
  <2> HIDE DEF new
  <2> QED BY <1>1, <2>1, <2>3, <2>4, StepType
<1>3. CASE Forget
  <2>1. DiskInv(RmRoot(disk, mem.id))
    BY RootType
  <2>2. DiskInv([RmRoot(disk, mem.id) EXCEPT !.next = Absent])
    BY <2>1, AbsentType DEF DiskInv, DiskType
  <2> QED BY <1>1, <1>3, <2>2, StepType DEF Forget
<1>4. CASE Orphans
  <2>1. DiskInv([disk EXCEPT !.staged   = [r \in Restores |-> {}],
                            !.previous = [r \in Restores |-> NoFolders],
                            !.replaced = [r \in Restores |-> Absent],
                            !.next     = Absent])
    BY AbsentType DEF DiskInv, DiskType
  <2> QED BY <1>4, <2>1, LastType DEF Orphans
<1> QED BY <1>2, <1>3, <1>4 DEF RecoverySteps

LEMMA JobEventsType == TypeInv /\ JobEvents => TypeInv'
<1> SUFFICES ASSUME TypeInv, JobEvents PROVE TypeInv'
  OBVIOUS
<1> USE DEF TypeInv
<1>1. /\ "apply" \in Steppers /\ "unstage" \in Steppers /\ "staging" \in JobStates
      /\ "job" \in Reasons /\ "stage" \in JournalSteps
  BY DEF Steppers, Installing, JobStates, Reasons, JournalSteps
<1>2. mem.job # "none" => mem.jobId \in Restores /\ mem.jobId \in Ids
  BY DEF MemInv, Ids
<1>3. CASE OpenFails
  BY <1>3, EndTypes DEF OpenFails
<1>4. CASE Stage
  <2> DEFINE j   == RestoreJournal(mem.jobId, "stage")
             new == [disk EXCEPT !.staged[mem.jobId] = {"metadata"}, !.journal = j]
  <2>1. j \in Journals /\ j.id \in Restores
    BY <1>1, <1>2, <1>4, RestoreJournalType DEF Stage
  <2>2. Try(new, [mem EXCEPT !.job = "staging"])
    BY <1>4 DEF Stage
  <2> HIDE DEF j
  <2>3. DiskInv(new)
    BY <2>1 DEF DiskInv, DiskType
  <2>4. MemInv([mem EXCEPT !.job = "staging"])
    BY <1>1, <1>2, <1>4 DEF Stage, MemInv, MemType
  <2> QED BY <2>2, <2>3, <2>4, TryType
<1>5. CASE Extracted
  <2>1. AllStaged(mem.jobId) \subseteq Parts \cup {"metadata", "persona"}
    BY <1>2, <1>5, RestoreAssumption DEF Extracted, AllStaged, WantedParts, Parts
  <2>2. DiskInv(disk')
    BY <1>5, <2>1 DEF Extracted, DiskInv, DiskType
  <2>3. MemInv(mem')
    BY <1>1, <1>2, <1>5 DEF Extracted, MemInv, MemType
  <2> QED BY <2>2, <2>3
<1>6. CASE ExtractFails
  BY <1>1, <1>2, <1>6 DEF ExtractFails, MemInv, MemType
<1> QED BY <1>3, <1>4, <1>5, <1>6 DEF JobEvents

\* runRestoreRecovery goes on where the journal says.
LEMMA StartType == TypeInv /\ Start => TypeInv'
<1> SUFFICES ASSUME TypeInv, Start PROVE TypeInv'
  OBVIOUS
<1> DEFINE j  == disk.journal
           at == CASE j.op = "none" -> "orphans"
                   [] j.op = "activate" -> IF disk.activated = j.id THEN "dropPrevious" ELSE "undo"
                   [] j.op = "restore" ->
                        IF j.step = "stage" \/ disk.applied # j.id THEN "giveBack"
                        ELSE IF j.step = "pending" THEN "install" ELSE "toPersona"
<1>1. mem' = [mem EXCEPT !.for = "start", !.id = j.id, !.moved = j.moved, !.at = at] /\ disk' = disk
  BY DEF Start
<1>2. j \in Journals /\ (j.op # "none" => j.id \in Restores)
  BY DEF TypeInv, DiskInv, DiskType
<1>3. j.op \in {"none", "activate", "restore"} /\ j.id \in Ids /\ j.moved \in MoveLists
  BY <1>2 DEF Journals
<1>4. /\ at \in {"orphans", "dropPrevious", "undo", "giveBack", "install", "toPersona"}
      /\ at # "orphans" => j.op # "none"
  BY <1>3
<1>5. {"orphans", "dropPrevious", "undo", "giveBack", "install", "toPersona"} \subseteq Steppers
      /\ "start" \in Reasons
  BY DEF Steppers, Installing, Finishing, Undoing, Reasons
<1> HIDE DEF at, j
<1>6. MemInv(mem')
  BY <1>1, <1>2, <1>3, <1>4, <1>5 DEF TypeInv, MemInv, MemType
<1> QED BY <1>1, <1>6 DEF TypeInv

LEMMA EventsType ==
  ASSUME TypeInv,
         \/ SocketCloses \/ Crash \/ Discard
         \/ \E r \in Restores : StartRestore(r)
         \/ \E matches \in BOOLEAN : SocketOpens(matches)
         \/ \E f \in Folders : MakeFolder(f)
  PROVE  TypeInv'
<1> USE DEF TypeInv
<1>1. "opening" \in JobStates /\ "migrate" \in Steppers /\ "open" \in Reasons
  BY DEF JobStates, Steppers, Activating, Reasons
<1>2. CASE SocketCloses
  BY <1>2 DEF SocketCloses, MemInv, MemType
<1>3. CASE Crash
  BY <1>3, EndTypes DEF Crash
<1>4. CASE Discard
  BY <1>4, AbsentType DEF Discard, DiskInv, DiskType
<1>5. ASSUME NEW r \in Restores, StartRestore(r) PROVE TypeInv'
  <2>1. r \in Ids
    BY DEF Ids
  <2>2. MemInv(mem')
    BY <1>1, <1>5, <2>1 DEF StartRestore, MemInv, MemType
  <2> QED BY <1>5, <2>2 DEF StartRestore
<1>6. ASSUME NEW matches \in BOOLEAN, SocketOpens(matches) PROVE TypeInv'
  <2> DEFINE onward == [mem EXCEPT !.at = "migrate", !.for = "open", !.id = disk.pending.id]
  <2>1. \/ mem' = mem \/ mem' = Serve
        \/ disk.pending.id # None /\ mem.at = "idle" /\ mem' = onward
    BY <1>6 DEF SocketOpens
  <2>2. disk.pending.id \in Ids
    BY DEF DiskInv, DiskType, Packages
  <2>3. disk.pending.id # None /\ mem.at = "idle" => MemInv(onward)
    BY <1>1, <2>2 DEF MemInv, MemType, Ids
  <2>4. MemInv(mem') /\ disk' = disk
    BY <1>6, <2>1, <2>3, EndTypes DEF SocketOpens
  <2> QED BY <2>4
<1>7. ASSUME NEW f \in Folders, MakeFolder(f) PROVE TypeInv'
  BY <1>7 DEF MakeFolder, DiskInv, DiskType, Data
<1> QED BY <1>2, <1>3, <1>4, <1>5, <1>6, <1>7

\* The bounds of the model, and what the operator discarded.
Counters == faults \in 0..MaxFaults /\ crashes \in 0..MaxCrashes /\ dropped \subseteq Restores

\* A step counts at most one failure.
Counted == /\ UNCHANGED <<crashes, dropped>>
           /\ faults' = faults \/ (faults < MaxFaults /\ faults' = faults + 1)

LEMMA TryCounts ==
  /\ \A new, after : Try(new, after) => Counted
  /\ \A way, new, after : Intend(way, new, after) => Counted
  /\ Throws => Counted
  BY DEF Try, Intend, Throws, Counted

LEMMA StepsCount == Steps \/ JobEvents => Counted
<1>1. RestoreSteps => Counted
  <2>1. AlreadyInstalled => Counted
    BY TryCounts DEF AlreadyInstalled, Counted
  <2>2. Apply \/ Commit \/ Refuse \/ ToPersona \/ InstallPersona \/ ToPending \/ InstallPart => Counted
    BY TryCounts DEF Apply, Commit, Refuse, ToPersona, InstallPersona,
       ToPending, InstallPart
  <2>3. Replace \/ Swap \/ DropReplaced \/ Clear \/ Sweep \/ Unstage \/ Unjournal => Counted
    BY TryCounts DEF Replace, Swap, DropReplaced, Clear, Sweep, Unstage, Unjournal
  <2> QED BY <2>1, <2>2, <2>3 DEF RestoreSteps
<1>2. ActivationSteps => Counted
  <2>1. Migrate \/ Check \/ CheckFails \/ MoveOut \/ RenameOut \/ MoveIn \/ RenameIn \/ ToDb
        => Counted
    BY TryCounts DEF Migrate, Check, CheckFails, MoveOut, RenameOut, MoveIn,
       RenameIn, ToDb
  <2>2. ReplaceTables \/ ToCleanup \/ DropPrevious \/ DropPending \/ DropRoot \/ ClearDone
        \/ Undo \/ AllUndone => Counted
    BY TryCounts DEF ReplaceTables, ToCleanup, DropPrevious, DropPending,
       DropRoot, ClearDone,
                     Undo, AllUndone
  <2> QED BY <2>1, <2>2 DEF ActivationSteps
<1>3. RecoverySteps => Counted
  BY TryCounts DEF RecoverySteps, GiveBack, Forget, Orphans
<1>4. JobEvents => Counted
  BY TryCounts DEF JobEvents, OpenFails, Stage, Extracted, ExtractFails, Counted
<1> QED BY <1>1, <1>2, <1>3, <1>4 DEF Steps

LEMMA CountersKept ==
  ASSUME TypeInv, Counters, [Next]_vars
  PROVE  Counters'
<1>1. CASE Steps \/ JobEvents
  BY <1>1, StepsCount, RestoreAssumption DEF Counted, Counters
<1>2. CASE Crash
  BY <1>2, RestoreAssumption DEF Crash, Counters
<1>3. CASE Discard
  <2>1. disk.pending.id \in Ids
    BY DEF TypeInv, DiskInv, DiskType, Packages
  <2> QED BY <1>3, <2>1 DEF Discard, Counters, Ids
<1>4. CASE \/ SocketCloses \/ Start
           \/ \E r \in Restores : StartRestore(r)
           \/ \E matches \in BOOLEAN : SocketOpens(matches)
           \/ \E f \in Folders : MakeFolder(f)
           \/ UNCHANGED vars
  <2>1. UNCHANGED <<faults, crashes, dropped>>
    BY <1>4 DEF SocketCloses, Start, StartRestore, SocketOpens, MakeFolder, vars
  <2> QED BY <2>1 DEF Counters
<1> QED BY <1>1, <1>2, <1>3, <1>4 DEF Next

LEMMA InitType == Init => TypeInv /\ Counters
<1> SUFFICES ASSUME Init PROVE TypeInv /\ Counters
  OBVIOUS
<1>1. /\ Own \in Data /\ Gone \in Data /\ None \in Ids /\ "idle" \in Steppers
      /\ "none" \in Reasons /\ "none" \in JobStates /\ <<>> \in MoveLists
  BY DEF Data, Ids, Steppers, Reasons, JobStates, MoveLists
<1>2. disk \in DiskType /\ disk.journal.op = "none"
  BY <1>1, AbsentType, NoJournalType DEF Init, DiskType
<1>3. MemInv(mem)
  BY <1>1 DEF Init, MemInv, MemType
<1>4. Counters
  BY RestoreAssumption DEF Init, Counters
<1> QED BY <1>2, <1>3, <1>4 DEF TypeInv, DiskInv

\* The types, with the facts about folders on their way that they rest on.
LEMMA TypeInvariant == Spec => [](TypeInv /\ Counters)
<1>1. TypeInv /\ Counters /\ [Next]_vars => (TypeInv /\ Counters)'
  <2> SUFFICES ASSUME TypeInv, Counters, [Next]_vars PROVE (TypeInv /\ Counters)'
    OBVIOUS
  <2>1. TypeInv'
    BY RestoreStepsType, ActivationStepsType, RecoveryStepsType, JobEventsType,
       StartType, EventsType
       DEF Next, Steps, vars, TypeInv
  <2> QED BY <2>1, CountersKept
<1> QED BY InitType, <1>1, PTL DEF Spec

\* What is on the disk and what the process knows are always of the shape the
\* code expects: in particular a journal the recovery can read, however often
\* the process dies and however many operations fail.
THEOREM TypeCorrect == Spec => []TypeOK
<1>1. TypeInv /\ Counters => TypeOK
  BY DEF TypeInv, Counters, TypeOK, DiskInv, MemInv, DiskType, MemType, Journals, JournalSteps,
         MoveLists, Reasons, JobStates, Steppers
<1> QED BY <1>1, TypeInvariant, PTL

(* -------------------- the account, with one failure at most ------------------ *)

\* What follows is about runs in which one operation of the disk fails, at most.
\* A second failure can stop an undo half way while the bot runs on, and a
\* folder it makes then is taken for one that was moved.
OneFault == MaxFaults <= 1

OutOf(moved) == {moved[i].folder : i \in {j \in DOMAIN moved : moved[j].way = "out"}}

\* Of the moves of one folder, the way out comes first and the way in last.
Orderly(moved) ==
  \A i, j \in DOMAIN moved : i < j /\ moved[i].folder = moved[j].folder =>
    moved[i].way = "out" /\ moved[j].way = "in"

\* Account data of one backup, or what an activation has left of it.
Package(p) == \/ p = Absent
              \/ /\ p.id \in Accounts /\ p.has["db"] = p.id
                 /\ \A k \in Parts : p.has[k] \in {Gone, p.id}

\* A folder before an activation of r, moved away, and replaced.
Home(d, f) == IF f \in FoldersOf(d.tables) THEN d.live[f] = d.tables ELSE d.live[f] \in {Gone, Fresh}
Kept(d, r, f) == IF f \in FoldersOf(d.tables) THEN d.previous[r][f] = d.tables
                 ELSE d.previous[r][f] = Fresh
Untouched(d, r, moved, f) ==
  /\ Home(d, f) /\ d.previous[r][f] = Gone
  /\ f \in InOf(moved) => d.pending.has[f] = r
TakenOut(d, r, moved, f) ==
  /\ f \in OutOf(moved)
  /\ d.live[f] = Gone /\ Kept(d, r, f) /\ d.pending.has[f] = r
Left(d, r, moved, f) ==
  IF f \in OutOf(moved) THEN Kept(d, r, f)
  ELSE f \notin FoldersOf(d.tables) /\ d.previous[r][f] = Gone
TakenIn(d, r, moved, f) ==
  /\ f \in InOf(moved)
  /\ d.live[f] = r /\ d.pending.has[f] = Gone /\ Left(d, r, moved, f)

\* What undoMoves puts in order, whatever it has undone before.
Undoable(d, r, moved) ==
  /\ Orderly(moved)
  /\ moved # <<>> => d.pending.id = r
  /\ \A f \in Folders :
       Untouched(d, r, moved, f) \/ TakenOut(d, r, moved, f) \/ TakenIn(d, r, moved, f)

(* The disk, at any moment. *)

Replaced(d) == d.journal.op = "activate" /\ d.activated = d.journal.id

TablesOK(d) ==
  /\ d.activated \in Accounts \cup {None}
  /\ d.tables = IF d.activated = None THEN Own ELSE d.activated
  /\ Package(d.pending)
  /\ d.pending.id # None /\ d.pending.id = d.activated => Replaced(d)

JournalOK(d) ==
  LET j == d.journal
  IN /\ j.op = "none" => j = NoJournal
     /\ j.op = "restore" =>
          /\ j.id \in Restores /\ j.id # d.activated
          /\ j.step = "stage" => d.applied # j.id
          /\ d.applied # j.id => d.replaced[j.id] = Absent /\ d.pending.id # j.id
     /\ j.op = "activate" => j.id \in Accounts

\* restore/pending.next is there while a committed restore installs it.
NextOK(d) ==
  LET j == d.journal
  IN \/ d.next = Absent
     \/ /\ j.op = "restore" /\ j.id \in Accounts /\ d.applied = j.id /\ d.pending.id # j.id
        /\ d.next.id \in {None, j.id}
        /\ \A k \in Parts : d.next.has[k] \in {Gone, j.id}
        /\ d.next.id = j.id => d.next.has["db"] = j.id

FoldersOK(d) ==
  LET j == d.journal
  IN /\ \A r \in Restores : (j.op = "activate" /\ r = j.id) \/ d.previous[r] = NoFolders
     /\ j.op # "activate" => \A f \in Folders : Home(d, f)
     /\ j.op = "activate" /\ d.activated # j.id => Undoable(d, j.id, j.moved)
     /\ Replaced(d) => (\A f \in Folders : d.live[f] = j.id) /\ d.pending.id \in {None, j.id}

DiskOK(d) == DiskInv(d) /\ TablesOK(d) /\ JournalOK(d) /\ NextOK(d) /\ FoldersOK(d)

\* No folder is away.
Calm(d) == d.journal.op = "activate" => d.journal.moved = <<>> /\ d.activated # d.journal.id

(* Which step belongs to what. *)

Acting     == Activating \cup Finishing \cup Undoing
Installed  == {"toPersona", "persona", "toPending", "install", "replace", "swap", "dropReplaced"}
Recovering == {"giveBack", "forget"}
Failing    == {"unstage", "unjournal"}

MemOK(m) ==
  /\ MemInv(m)
  /\ m.at \in {"idle", "down"} => m.for = "none" /\ m.id = None /\ m.moved = <<>> /\ ~m.again
  /\ m.at \in Activating => m.for = "open" /\ m.id \in Accounts /\ ~m.again
  /\ m.at \in Finishing \cup Undoing => m.for \in {"open", "start"} /\ m.id \in Accounts
  /\ m.at \in Installing \cup {"sweep"} => m.for \in {"job", "start"}
  /\ m.at \in Failing => m.for = "job"
  /\ m.at \in Recovering \cup {"orphans"} => m.for = "start"
  /\ m.at = "down" \/ m.for = "start" => m.job = "none"
  /\ m.for = "job" => m.job = "staging"
  /\ m.for = "open" => m.job # "staging"
  /\ m.job # "none" => m.jobId \in m.tried
  /\ m.serving => m.at \notin Acting \cup {"down"} /\ m.for # "start"

(* The disk at each step of a restore. *)

RestOK(d, m) ==
  LET j == d.journal
  IN /\ m.at \notin Acting \cup {"down"} => Calm(d)
     /\ m.at \in Installing => j.op = "restore" /\ j.id = m.id
     /\ m.at \in {"apply", "commit"} => d.applied # m.id
     /\ m.at \in Installed => d.applied = m.id
     /\ m.at \in Installed \cup {"commit"} => j.step # "stage"
     /\ m.at \in {"replace", "swap"} => d.next.id = m.id
     /\ m.at = "swap" => d.pending = Absent
     /\ m.at = "dropReplaced" => d.pending.id = m.id
     /\ m.at = "clear" => d.next = Absent
     /\ m.at \in Failing => j.op # "activate" /\ (j.op = "restore" => d.applied # j.id)
     /\ m.at \in Recovering => j.op = "restore" /\ j.id = m.id /\ d.applied # m.id
     /\ m.at \in {"sweep", "orphans"} => j = NoJournal
     /\ m.at = "idle" /\ m.job = "staging" => j = RestoreJournal(m.jobId, "stage")
     /\ m.job = "opening" => j.op # "restore"

(* The disk at each step of an activation. *)

Settled(d, m, f) == IF f \in InOf(m.moved) THEN d.live[f] = m.id ELSE f \notin OutOf(m.moved)
Opened(d, m, f)  == d.live[f] = Gone /\ d.pending.has[f] = m.id /\ Left(d, m.id, m.moved, f)
CurrentOf(m)     == First(Folders \ InOf(m.moved))
LastOf(m)        == m.moved[Len(m.moved)]

\* The journal while folders are moved and tables are replaced.
NotedOf(m) == ActivateJournal(m.id, IF m.at = "check" THEN "migrate"
                                    ELSE IF m.at = "tables" THEN "db" ELSE "files", m.moved)

\* Done with the tables, with the journal or after it.
DoneOK(d, r) ==
  /\ d.activated = r /\ d.pending.id \in {None, r}
  /\ \/ d.journal.op = "activate" /\ d.journal.id = r
     \/ d.journal.op = "none" /\ d.pending = Absent

UndoOK(d, m) ==
  /\ Undoable(d, m.id, m.moved) /\ d.activated # m.id
  /\ \/ d.journal = NoJournal /\ m.moved = <<>>
     \/ d.journal.op = "activate" /\ d.journal.id = m.id

ActOK(d, m) ==
  /\ m.at = "migrate" => d.journal = NoJournal /\ d.pending.id = m.id
  /\ m.at \in Activating \ {"migrate", "toCleanup"} =>
       d.journal = NotedOf(m) /\ d.activated # m.id /\ d.pending.id = m.id
  /\ m.at = "out" => \A f \in Folders : Settled(d, m, f)
  /\ m.at = "outMove" =>
       /\ m.moved # <<>> /\ LastOf(m) = [way |-> "out", folder |-> CurrentOf(m)]
       /\ d.live[CurrentOf(m)] # Gone /\ d.pending.has[CurrentOf(m)] = m.id
       /\ \A f \in Folders \ {CurrentOf(m)} : Settled(d, m, f)
  /\ m.at = "in" =>
       Opened(d, m, CurrentOf(m)) /\ \A f \in Folders \ {CurrentOf(m)} : Settled(d, m, f)
  /\ m.at = "inMove" =>
       /\ m.moved # <<>> /\ LastOf(m).way = "in" /\ Opened(d, m, LastOf(m).folder)
       /\ \A f \in Folders \ {LastOf(m).folder} : Settled(d, m, f)
  /\ m.at \in {"toDb", "tables"} => \A f \in Folders : d.live[f] = m.id
  /\ m.at \in Finishing \cup {"toCleanup"} => DoneOK(d, m.id)
  /\ m.at = "toCleanup" => d.journal.op = "activate"
  /\ m.at \in Finishing \ {"dropPrevious"} => d.previous[m.id] = NoFolders
  /\ m.at \in {"dropRoot", "clearDone"} => d.pending = Absent
  /\ m.at = "undo" => UndoOK(d, m)

(* An id that was not used yet is nowhere. *)

Seen(d, m)      == {d.activated, d.applied, d.pending.id, d.journal.id, m.id}
Unseen(d, m, r) == r \notin Seen(d, m) /\ d.replaced[r] = Absent
FreshOK(d, m)   == /\ \A r \in Restores \ m.tried : Unseen(d, m, r)
                   /\ m.job = "opening" => Unseen(d, m, m.jobId)

\* What can go wrong only after a failure.
FaultOK(d, m, n) ==
  /\ m.at = "undo" /\ m.for = "open" => n > 0 \/ (d.journal.moved = <<>> /\ m.moved = <<>>)
  /\ m.again => n > 0

Good(d, m, n) == DiskOK(d) /\ MemOK(m) /\ RestOK(d, m) /\ ActOK(d, m) /\ FreshOK(d, m)
                 /\ FaultOK(d, m, n)

IInv == Good(disk, mem, faults)

(* Where a step goes on, or stops. *)

\* What a step may leave on the disk when it throws.
Stopped(d, m) ==
  /\ m.at \notin Acting => Calm(d)
  /\ m.at \in Installing =>
       d.journal.op # "activate" /\ (d.journal.op = "restore" => d.journal.id = m.id)
  /\ m.at = "sweep" => d.journal = NoJournal
  /\ m.at \in Activating => IF d.activated = m.id THEN DoneOK(d, m.id) ELSE UndoOK(d, m)
  /\ m.at \in Finishing => DoneOK(d, m.id)
  /\ m.at \in Undoing /\ m.for = "open" => Calm(d)
  /\ m.job = "opening" => d.journal.op # "restore"

LEMMA EndFields ==
  ASSUME MemInv(mem)
  PROVE  \A m \in {Idle, JobOver, Serve, Down} :
           /\ MemInv(m) /\ m.for = "none" /\ m.id = None /\ m.moved = <<>> /\ ~m.again
           /\ m.tried = mem.tried
           /\ m.at = (IF m = Down THEN "down" ELSE "idle")
           /\ m.serving => m # Down
           /\ m \in {JobOver, Down} => m.job = "none"
           /\ \/ m.job = "none"
              \/ m \in {Idle, Serve} /\ m.job = mem.job /\ m.jobId = mem.jobId
<1>1. MemInv(Idle) /\ MemInv(JobOver) /\ MemInv(Serve) /\ MemInv(Down)
  BY EndTypes
<1>2. /\ Idle.for = "none" /\ Idle.id = None /\ Idle.moved = <<>> /\ Idle.again = FALSE
      /\ Idle.tried = mem.tried /\ Idle.at = "idle" /\ Idle.job = mem.job /\ Idle.jobId = mem.jobId
  BY DEF MemInv, MemType, Idle
<1>3. /\ JobOver.for = "none" /\ JobOver.id = None /\ JobOver.moved = <<>> /\ JobOver.again = FALSE
      /\ JobOver.tried = mem.tried /\ JobOver.at = "idle" /\ JobOver.job = "none"
  BY <1>2 DEF MemInv, MemType, JobOver, Idle
<1>4. /\ Serve.for = "none" /\ Serve.id = None /\ Serve.moved = <<>> /\ Serve.again = FALSE
      /\ Serve.tried = mem.tried /\ Serve.at = "idle" /\ Serve.job = mem.job /\ Serve.jobId = mem.jobId
  BY <1>2 DEF MemInv, MemType, Serve, Idle
<1>5. /\ Down.for = "none" /\ Down.id = None /\ Down.moved = <<>> /\ Down.again = FALSE
      /\ Down.tried = mem.tried /\ Down.at = "down" /\ Down.job = "none" /\ Down.serving = FALSE
  BY <1>3 DEF MemInv, MemType, Down, JobOver, Idle
<1> HIDE DEF MemInv
<1> QED BY <1>1, <1>2, <1>3, <1>4, <1>5

\* The places synchronous code ends at.
LEMMA EndsOK ==
  ASSUME MemOK(mem), NEW m \in {Idle, JobOver, Serve, Down}
  PROVE  MemOK(m)
<1>1. /\ MemInv(m) /\ m.for = "none" /\ m.id = None /\ m.moved = <<>> /\ ~m.again
      /\ m.tried = mem.tried /\ m.at \in {"idle", "down"} /\ (m.at = "down" => m.job = "none")
      /\ m.serving => m.at # "down"
      /\ m.job # "none" => m.job = mem.job /\ m.jobId = mem.jobId
  <2>1. MemInv(mem)
    BY DEF MemOK
  <2> QED BY <2>1, EndFields
<1>2. m.job # "none" => m.jobId \in m.tried
  BY <1>1 DEF MemOK
<1>3. m.at \notin Activating \cup Finishing \cup Undoing \cup Installing \cup Failing \cup Recovering
                  \cup {"sweep", "orphans"}
  BY <1>1 DEF Activating, Finishing, Undoing, Installing, Failing, Recovering
<1> QED BY <1>1, <1>2, <1>3 DEF MemOK, Acting

LEMMA FreshKept ==
  ASSUME MemInv(mem), FreshOK(disk, mem), NEW d, NEW m,
         Seen(d, m) \subseteq Seen(disk, mem) \cup {None},
         \A r \in Restores : d.replaced[r] \in {Absent, disk.replaced[r]} \/ r = mem.id,
         m.tried = mem.tried,
         m.job = "opening" => mem.job = "opening" /\ m.jobId = mem.jobId
  PROVE  FreshOK(d, m)
<1>1. None \notin Restores
  BY RestoreAssumption
<1>2. ASSUME NEW r \in Restores, Unseen(disk, mem, r) PROVE Unseen(d, m, r)
  <2>1. r \notin Seen(d, m) /\ r # mem.id
    BY <1>1, <1>2 DEF Unseen, Seen
  <2> QED BY <1>2, <2>1 DEF Unseen
<1>3. mem.job = "opening" => mem.jobId \in Restores
  BY DEF MemInv
<1> QED BY <1>2, <1>3 DEF FreshOK

\* Code that ends leaves a good state on a disk without a folder away.
LEMMA EndGood ==
  ASSUME MemOK(mem), NEW d, DiskOK(d), FreshOK(d, mem), NEW n,
         NEW m \in {Idle, JobOver, Serve, Down},
         m = Down \/ Calm(d),
         mem.job = "opening" => d.journal.op # "restore",
         mem.job = "staging" => m \in {JobOver, Down}
  PROVE  Good(d, m, n)
<1>1. /\ MemOK(m) /\ m.id = None /\ ~m.again /\ m.tried = mem.tried /\ m.at \in {"idle", "down"}
      /\ m # Down => m.at = "idle"
      /\ m = Down => m.at = "down"
      /\ m.job = "none" \/ (m \in {Idle, Serve} /\ m.job = mem.job /\ m.jobId = mem.jobId)
      /\ m \in {JobOver, Down} => m.job = "none"
  <2>1. MemInv(mem)
    BY DEF MemOK
  <2> QED BY <2>1, EndsOK, EndFields
<1>2. m.job # "staging"
  BY <1>1
<1>3. m.at \notin Activating \cup Finishing \cup Undoing \cup Installing \cup Failing \cup Recovering
                  \cup Installed \cup {"sweep", "orphans"}
  BY <1>1 DEF Activating, Finishing, Undoing, Installing, Failing, Recovering, Installed
<1>4. RestOK(d, m)
  BY <1>1, <1>2, <1>3 DEF RestOK
<1>5. ActOK(d, m)
  BY <1>1, <1>3 DEF ActOK
<1>6. FreshOK(d, m)
  BY <1>1, RestoreAssumption DEF FreshOK, Unseen, Seen, MemOK, MemInv
<1>7. FaultOK(d, m, n)
  BY <1>1 DEF FaultOK
<1> QED BY <1>1, <1>4, <1>5, <1>6, <1>7 DEF Good

LEMMA GotoFields ==
  ASSUME MemInv(mem), NEW step
  PROVE  LET m == Goto(step)
             a == [Goto(step) EXCEPT !.again = TRUE]
         IN /\ m.at = step /\ m.for = mem.for /\ m.id = mem.id /\ m.moved = mem.moved
            /\ m.again = mem.again /\ m.job = mem.job /\ m.jobId = mem.jobId /\ m.tried = mem.tried
            /\ m.serving = mem.serving
            /\ a.at = step /\ a.for = mem.for /\ a.id = mem.id /\ a.moved = mem.moved
            /\ a.again = TRUE /\ a.job = mem.job /\ a.jobId = mem.jobId /\ a.tried = mem.tried
            /\ a.serving = mem.serving
  BY DEF MemInv, MemType, Goto

LEMMA SameFresh ==
  ASSUME NEW d, NEW m, FreshOK(d, mem), m.id = mem.id, m.tried = mem.tried,
         m.job = mem.job, m.jobId = mem.jobId
  PROVE  FreshOK(d, m)
  BY DEF FreshOK, Unseen, Seen

\* Where a catch goes on.
LEMMA CatchGood ==
  ASSUME MemOK(mem), NEW d, DiskOK(d), FreshOK(d, mem), NEW n, n > 0 \/ ~mem.again,
         mem.job = "opening" => d.journal.op # "restore"
  PROVE  /\ /\ mem.for = "job" /\ mem.id \in Restores /\ mem.at \notin Acting /\ Calm(d)
            /\ d.journal.op # "activate" /\ (d.journal.op = "restore" => d.applied # d.journal.id)
            => Good(d, Goto("unstage"), n)
         /\ mem.for = "start" /\ d.journal = NoJournal => Good(d, Goto("orphans"), n)
         /\ /\ mem.for \in {"open", "start"} /\ mem.id \in Accounts /\ UndoOK(d, mem)
            /\ ~mem.serving
            /\ n > 0 \/ (d.journal.moved = <<>> /\ mem.moved = <<>>)
            => Good(d, Goto("undo"), n)
         /\ /\ mem.for \in {"open", "start"} /\ mem.id \in Accounts /\ DoneOK(d, mem.id)
            /\ ~mem.serving /\ n > 0
            => Good(d, [Goto("dropPrevious") EXCEPT !.again = TRUE], n)
<1>1. MemInv(mem)
  BY DEF MemOK
<1>2. Accounts \subseteq Restores
  BY RestoreAssumption
<1>3. ASSUME mem.for = "job", mem.id \in Restores, mem.at \notin Acting, Calm(d),
             d.journal.op # "activate", d.journal.op = "restore" => d.applied # d.journal.id
      PROVE  Good(d, Goto("unstage"), n)
  <2> DEFINE m == Goto("unstage")
  <2>1. MemInv(m)
    BY <1>1, <1>3, GotoType DEF Steppers
  <2>2. /\ m.at = "unstage" /\ m.for = "job" /\ m.id = mem.id /\ m.again = mem.again
        /\ m.job = mem.job /\ m.jobId = mem.jobId /\ m.tried = mem.tried /\ m.serving = mem.serving
    BY <1>1, <1>3, GotoFields
  <2> HIDE DEF m
  <2>3. MemOK(m)
    BY <1>3, <2>1, <2>2 DEF MemOK, Activating, Finishing, Undoing, Installing,
       Recovering, Acting
  <2>4. RestOK(d, m) /\ ActOK(d, m)
    BY <1>3, <2>2 DEF RestOK, ActOK, Activating, Finishing, Undoing,
       Installing, Recovering,
                      Installed
  <2>5. FreshOK(d, m) /\ FaultOK(d, m, n)
    BY <2>2, SameFresh DEF FaultOK
  <2> QED BY <2>3, <2>4, <2>5 DEF Good, m
<1>4. ASSUME mem.for = "start", d.journal = NoJournal PROVE Good(d, Goto("orphans"), n)
  <2> DEFINE m == Goto("orphans")
  <2>1. MemInv(m)
    BY <1>1, GotoType DEF Steppers
  <2>2. /\ m.at = "orphans" /\ m.for = "start" /\ m.id = mem.id /\ m.again = mem.again
        /\ m.job = mem.job /\ m.jobId = mem.jobId /\ m.tried = mem.tried /\ m.serving = mem.serving
    BY <1>1, <1>4, GotoFields
  <2> HIDE DEF m
  <2>3. MemOK(m)
    BY <1>4, <2>1, <2>2 DEF MemOK, Activating, Finishing, Undoing, Installing,
       Recovering, Acting,
                            Failing
  <2>4. RestOK(d, m) /\ ActOK(d, m)
    BY <1>4, <2>2, NoJournalType DEF RestOK, ActOK, Activating, Finishing,
       Undoing, Installing,
                                     Recovering, Installed, Failing, Calm
  <2>5. FreshOK(d, m) /\ FaultOK(d, m, n)
    BY <2>2, SameFresh DEF FaultOK
  <2> QED BY <2>3, <2>4, <2>5 DEF Good, m
<1>5. ASSUME mem.for \in {"open", "start"}, mem.id \in Accounts, UndoOK(d, mem), ~mem.serving,
             n > 0 \/ (d.journal.moved = <<>> /\ mem.moved = <<>>)
      PROVE  Good(d, Goto("undo"), n)
  <2> DEFINE m == Goto("undo")
  <2>1. MemInv(m)
    BY <1>1, <1>2, <1>5, GotoType DEF Steppers, Undoing
  <2>2. /\ m.at = "undo" /\ m.for = mem.for /\ m.id = mem.id /\ m.again = mem.again
        /\ m.moved = mem.moved
        /\ m.job = mem.job /\ m.jobId = mem.jobId /\ m.tried = mem.tried /\ m.serving = mem.serving
    BY <1>1, GotoFields
  <2> HIDE DEF m
  <2>3. MemOK(m)
    BY <1>5, <2>1, <2>2 DEF MemOK, Activating, Finishing, Undoing, Installing,
       Recovering, Failing
  <2>4. RestOK(d, m)
    BY <1>5, <2>2 DEF RestOK, Acting, Undoing, Installing, Recovering,
       Installed, Failing
  <2>5. ActOK(d, m)
    BY <1>5, <2>2 DEF ActOK, UndoOK, Activating, Finishing
  <2>6. FreshOK(d, m) /\ FaultOK(d, m, n)
    BY <1>5, <2>2, SameFresh DEF FaultOK
  <2> QED BY <2>3, <2>4, <2>5, <2>6 DEF Good, m
<1>6. ASSUME mem.for \in {"open", "start"}, mem.id \in Accounts, DoneOK(d, mem.id), ~mem.serving,
             n > 0
      PROVE  Good(d, [Goto("dropPrevious") EXCEPT !.again = TRUE], n)
  <2> DEFINE m == [Goto("dropPrevious") EXCEPT !.again = TRUE]
  <2>1. MemInv(m)
    BY <1>1, <1>2, <1>6, GotoType DEF Steppers, Finishing
  <2>2. /\ m.at = "dropPrevious" /\ m.for = mem.for /\ m.id = mem.id /\ m.again = TRUE
        /\ m.job = mem.job /\ m.jobId = mem.jobId /\ m.tried = mem.tried /\ m.serving = mem.serving
    BY <1>1, GotoFields
  <2> HIDE DEF m
  <2>3. MemOK(m)
    BY <1>6, <2>1, <2>2 DEF MemOK, Activating, Finishing, Undoing, Installing,
       Recovering, Failing
  <2>4. RestOK(d, m)
    BY <1>6, <2>2 DEF RestOK, Acting, Finishing, Installing, Recovering,
       Installed, Failing
  <2>5. ActOK(d, m)
    BY <1>6, <2>2 DEF ActOK, Activating, Finishing
  <2>6. FreshOK(d, m) /\ FaultOK(d, m, n)
    BY <1>6, <2>2, SameFresh DEF FaultOK
  <2> QED BY <2>3, <2>4, <2>5, <2>6 DEF Good, m
<1> QED BY <1>3, <1>4, <1>5, <1>6

\* A catch goes on from a good state to a good state, for a step that may leave
\* the disk as d.
LEMMA ThrownOK ==
  ASSUME Good(disk, mem, faults), NEW d, DiskOK(d), FreshOK(d, mem), Stopped(d, mem), NEW n,
         mem.at # "down",
         \/ n > 0 /\ faults = 0
         \/ d = disk /\ n = faults /\ mem.at \in Installing \cup {"check"}
  PROVE  Good(d, Thrown(d), n)
<1>1. MemOK(mem) /\ MemInv(mem) /\ (mem.at \in Activating => ~mem.again) /\ (n > 0 \/ ~mem.again)
  BY DEF Good, FaultOK, MemOK
<1>2. mem.at \in Steppers /\ (mem.job = "opening" => d.journal.op # "restore")
  BY <1>1 DEF MemInv, MemType, Stopped
<1>3. CASE mem.at \in {"unstage", "unjournal", "idle"}
  <2>1. Thrown(d) = JobOver
    BY <1>3 DEF Thrown, Installing, Activating, Finishing, Undoing
  <2>2. Calm(d)
    BY <1>3 DEF Stopped, Acting, Activating, Finishing, Undoing
  <2> QED BY <1>1, <1>2, <2>1, <2>2, EndGood
<1>4. CASE mem.at \in Installing
  <2>1. /\ mem.at \notin Acting /\ mem.id \in Restores /\ mem.for \in {"job", "start"}
        /\ mem.at \notin {"unstage", "unjournal", "idle", "sweep"}
        /\ mem.at \notin Activating \cup Finishing \cup Undoing
    BY <1>1, <1>4 DEF Installing, Acting, Activating, Finishing, Undoing, MemOK, MemInv
  <2>2. Calm(d) /\ d.journal.op # "activate" /\ (d.journal.op = "restore" => d.journal.id = mem.id)
    BY <1>4, <2>1 DEF Stopped
  <2>3. CASE mem.for = "job" /\ d.applied = mem.id /\ d.journal.id = mem.id
    <3>1. Thrown(d) = JobOver
      BY <1>4, <2>1, <2>3 DEF Thrown
    <3> QED BY <1>1, <1>2, <2>2, <3>1, EndGood
  <2>4. CASE mem.for = "job" /\ ~(d.applied = mem.id /\ d.journal.id = mem.id)
    <3>1. Thrown(d) = Goto("unstage")
      BY <1>4, <2>1, <2>4 DEF Thrown
    <3> QED BY <1>1, <1>2, <2>1, <2>2, <2>4, <3>1, CatchGood
  <2>5. CASE mem.for = "start"
    <3>1. Thrown(d) = Idle
      BY <1>4, <2>1, <2>5 DEF Thrown
    <3>2. mem.job = "none"
      BY <1>1, <2>5 DEF MemOK
    <3> QED BY <1>1, <1>2, <2>2, <3>1, <3>2, EndGood
  <2> QED BY <2>1, <2>3, <2>4, <2>5
<1>5. CASE mem.at = "sweep"
  <2>1. /\ mem.for \in {"job", "start"} /\ mem.at \notin Installing /\ mem.at \notin Acting
    BY <1>1, <1>5 DEF MemOK, Installing, Acting, Activating, Finishing, Undoing
  <2>2. Calm(d) /\ d.journal = NoJournal
    BY <1>5, <2>1 DEF Stopped
  <2>3. Thrown(d) = IF mem.for = "job" THEN JobOver ELSE Goto("orphans")
    BY <1>5, <2>1 DEF Thrown, Installing, Activating, Finishing, Undoing
  <2> QED BY <1>1, <1>2, <2>1, <2>2, <2>3, EndGood, CatchGood
<1>6. CASE mem.at \in Activating
  <2>1. /\ mem.for = "open" /\ mem.id \in Accounts /\ ~mem.serving
        /\ mem.at \notin Installing \cup {"unstage", "unjournal", "idle", "sweep"}
    BY <1>1, <1>6 DEF MemOK, Installing, Acting, Activating
  <2>2. Thrown(d) = IF d.activated = mem.id THEN [Goto("dropPrevious") EXCEPT !.again = TRUE]
                    ELSE Goto("undo")
    BY <1>6, <2>1 DEF Thrown, Activating, Finishing, Undoing
  <2>3. CASE d.activated = mem.id
    <3>1. DoneOK(d, mem.id)
      BY <1>6, <2>3 DEF Stopped
    <3>2. n > 0
      <4>1. mem.at = "check" => disk.activated # mem.id
        BY DEF Good, ActOK, Activating
      <4>2. mem.at \notin Installing
        BY <1>6 DEF Activating, Installing
      <4> QED BY <2>3, <4>1, <4>2
    <3>3. Good(d, [Goto("dropPrevious") EXCEPT !.again = TRUE], n)
      BY <1>1, <1>2, <2>1, <3>1, <3>2, CatchGood
    <3> QED BY <2>2, <2>3, <3>3
  <2>4. CASE d.activated # mem.id
    <3>1. UndoOK(d, mem)
      BY <1>6, <2>4 DEF Stopped
    <3>2. n > 0 \/ (d.journal.moved = <<>> /\ mem.moved = <<>>)
      <4>1. CASE mem.at = "check" /\ d = disk
        <5>1. mem.moved = <<>> /\ mem.id \in Restores
          BY <1>1, <4>1 DEF MemInv
        <5>2. d.journal = ActivateJournal(mem.id, "migrate", <<>>)
          BY <4>1, <5>1 DEF Good, ActOK, NotedOf, Activating
        <5> QED BY <5>1, <5>2 DEF ActivateJournal
      <4> QED BY <4>1, <1>6 DEF Activating, Installing
    <3> QED BY <1>1, <1>2, <2>1, <2>2, <2>4, <3>1, <3>2, CatchGood
  <2> QED BY <2>3, <2>4
<1>7. CASE mem.at \in Finishing
  <2>1. /\ mem.for \in {"open", "start"} /\ mem.id \in Accounts /\ ~mem.serving
        /\ mem.at \notin Installing \cup Activating \cup {"unstage", "unjournal", "idle", "sweep", "check"}
    BY <1>1, <1>7 DEF MemOK, Installing, Acting, Activating, Finishing
  <2>2. n > 0 /\ ~mem.again
    BY <2>1 DEF Good, FaultOK
  <2>3. Thrown(d) = IF mem.for = "open" THEN [Goto("dropPrevious") EXCEPT !.again = TRUE] ELSE Down
    BY <1>7, <2>1, <2>2 DEF Thrown, Undoing, Finishing
  <2>4. DoneOK(d, mem.id)
    BY <1>7 DEF Stopped
  <2>5. mem.for = "start" => mem.job = "none"
    BY <1>1 DEF MemOK
  <2> QED BY <1>1, <1>2, <2>1, <2>2, <2>3, <2>4, <2>5, CatchGood, EndGood, ZenonT(60)
<1>8. CASE mem.at \in Undoing
  <2>1. /\ mem.for \in {"open", "start"}
        /\ mem.at \notin Installing \cup Activating \cup Finishing
                         \cup {"unstage", "unjournal", "idle", "sweep", "check"}
    BY <1>1, <1>8 DEF MemOK, Installing, Acting, Activating, Finishing, Undoing
  <2>2. Thrown(d) = IF mem.for = "open" THEN Idle ELSE Down
    BY <1>8, <2>1 DEF Thrown, Undoing
  <2>3. mem.for = "open" => Calm(d) /\ mem.job # "staging"
    BY <1>1, <1>8 DEF Stopped, MemOK
  <2>4. mem.for = "start" => mem.job = "none"
    BY <1>1 DEF MemOK
  <2> QED BY <1>1, <1>2, <2>1, <2>2, <2>3, <2>4, EndGood
<1>9. CASE mem.at \in {"giveBack", "forget", "orphans"}
  <2>1. /\ mem.for = "start" /\ mem.job = "none" /\ mem.at \notin Acting
        /\ mem.at \notin Installing \cup Activating \cup Finishing \cup Undoing
    BY <1>1, <1>9 DEF MemOK, Installing, Acting, Activating, Finishing,
       Undoing, Recovering
  <2>2. Thrown(d) = Idle
    BY <1>9, <2>1 DEF Thrown
  <2>3. Calm(d)
    BY <2>1 DEF Stopped
  <2> QED BY <1>1, <1>2, <2>1, <2>2, <2>3, EndGood
<1> QED BY <1>2, <1>3, <1>4, <1>5, <1>6, <1>7, <1>8, <1>9 DEF Steppers

\* What is on the disk before a step is among what may be left.
LEMMA StoppedHere ==
  ASSUME Good(disk, mem, faults), faults = 0 \/ mem.at \notin Undoing, mem.at # "down"
  PROVE  Stopped(disk, mem)
<1>1. mem.at \notin Acting => Calm(disk)
  BY DEF Good, RestOK
<1>2. mem.at \in Installing \cup {"sweep"} =>
        /\ mem.at = "sweep" => disk.journal = NoJournal
        /\ mem.at # "sweep" => disk.journal.op = "restore" /\ disk.journal.id = mem.id
  BY DEF Good, RestOK
<1>3. mem.at \in Activating =>
        IF disk.activated = mem.id THEN DoneOK(disk, mem.id) ELSE UndoOK(disk, mem)
  <2> SUFFICES ASSUME mem.at \in Activating
               PROVE  IF disk.activated = mem.id THEN DoneOK(disk, mem.id) ELSE UndoOK(disk, mem)
    OBVIOUS
  <2>1. CASE mem.at = "toCleanup"
    <3>1. DoneOK(disk, mem.id)
      BY <2>1 DEF Good, ActOK
    <3> QED BY <3>1 DEF DoneOK
  <2>2. CASE mem.at = "migrate"
    <3>1. /\ disk.journal = NoJournal /\ disk.pending.id = mem.id /\ mem.moved = <<>>
          /\ mem.id \in Accounts /\ mem.id \in Restores /\ mem.id # None
      BY <2>2, RestoreAssumption DEF Good, ActOK, MemOK, MemInv, Activating
    <3>2. disk.journal.op = "none"
      BY <3>1, NoJournalType
    <3>3. disk.activated # mem.id
      BY <3>1, <3>2 DEF Good, DiskOK, TablesOK, Replaced
    <3>4. /\ \A f \in Folders : Home(disk, f)
          /\ disk.previous[mem.id] = NoFolders
      BY <3>1, <3>2 DEF Good, DiskOK, FoldersOK
    <3>5. Undoable(disk, mem.id, <<>>)
      BY <3>4, AbsentType DEF Undoable, Orderly, Untouched, InOf
    <3> QED BY <3>1, <3>3, <3>5 DEF UndoOK
  <2>3. CASE mem.at \notin {"toCleanup", "migrate"}
    <3>1. disk.journal = NotedOf(mem) /\ disk.activated # mem.id
      BY <2>3 DEF Good, ActOK
    <3>2. /\ disk.journal.op = "activate" /\ disk.journal.id = mem.id
          /\ disk.journal.moved = mem.moved
      BY <3>1 DEF NotedOf, ActivateJournal
    <3>3. Undoable(disk, mem.id, mem.moved)
      BY <3>1, <3>2 DEF Good, DiskOK, FoldersOK
    <3> QED BY <3>1, <3>2, <3>3 DEF UndoOK
  <2> QED BY <2>1, <2>2, <2>3
<1>4. mem.at \in Finishing => DoneOK(disk, mem.id)
  BY DEF Good, ActOK
<1>5. mem.at \in Undoing /\ mem.for = "open" => Calm(disk)
  <2> SUFFICES ASSUME mem.at \in Undoing, mem.for = "open" PROVE Calm(disk)
    OBVIOUS
  <2>1. mem.at = "undo" /\ faults = 0
    BY DEF Undoing
  <2>2. disk.journal.moved = <<>>
    BY <2>1 DEF Good, FaultOK
  <2>3. disk.activated # mem.id
        /\ (disk.journal.op = "activate" => disk.journal.id = mem.id)
    BY <2>1, NoJournalType DEF Good, ActOK, UndoOK
  <2> QED BY <2>2, <2>3 DEF Calm
<1>6. mem.job = "opening" => disk.journal.op # "restore"
  BY DEF Good, RestOK
<1>7. "sweep" \notin Installing
  BY DEF Installing
<1> QED BY <1>1, <1>2, <1>3, <1>4, <1>5, <1>6, <1>7 DEF Stopped

\* A durable step keeps a good state good if its two outcomes do.
LEMMA TryOK ==
  ASSUME OneFault, faults \in Nat, Good(disk, mem, faults), mem.at # "down",
         NEW new, NEW after, Try(new, after),
         Good(new, after, faults),
         FreshOK(new, mem), faults = 0 => Stopped(new, mem)
  PROVE  IInv'
<1>1. CASE disk' = new /\ mem' = after /\ UNCHANGED faults
  BY <1>1 DEF IInv
<1>2. ASSUME faults < MaxFaults, faults' = faults + 1,
             NEW d \in {disk, new}, disk' = d, mem' = Thrown(d)
      PROVE  IInv'
  <2>1. faults = 0 /\ faults' = 1
    BY <1>2, RestoreAssumption DEF OneFault
  <2>2. DiskOK(d) /\ FreshOK(d, mem) /\ Stopped(d, mem)
    BY <1>2, <2>1, StoppedHere DEF Good
  <2>3. Good(d, Thrown(d), 1)
    BY <2>1, <2>2, ThrownOK
  <2> QED BY <1>2, <2>1, <2>3 DEF IInv
<1> QED BY <1>1, <1>2 DEF Try

LEMMA ThrowsOK ==
  ASSUME Good(disk, mem, faults), mem.at \in Installing \cup {"check"}, Throws
  PROVE  IInv'
<1>1. mem.at \notin Undoing /\ mem.at # "down"
  BY DEF Installing, Undoing
<1>2. Good(disk, Thrown(disk), faults)
  BY <1>1, StoppedHere, ThrownOK DEF Good
<1> QED BY <1>2 DEF Throws, IInv

(* The steps of a restore. *)

\* The parts of the disk that an account is made of.
LEMMA SameAccount ==
  ASSUME NEW d, DiskOK(d), NEW e, DiskInv(e),
         e.live = d.live, e.tables = d.tables, e.activated = d.activated, e.applied = d.applied,
         e.journal = d.journal, e.previous = d.previous, e.replaced = d.replaced,
         e.next = d.next, e.pending = d.pending
  PROVE  DiskOK(e) /\ (Calm(d) => Calm(e))
<1>1. TablesOK(e) /\ JournalOK(e) /\ NextOK(e)
  BY DEF DiskOK, TablesOK, Replaced, JournalOK, NextOK
<1>2. \A r, moved, f :
        /\ Home(d, f) <=> Home(e, f)
        /\ Untouched(d, r, moved, f) <=> Untouched(e, r, moved, f)
        /\ TakenOut(d, r, moved, f) <=> TakenOut(e, r, moved, f)
        /\ TakenIn(d, r, moved, f) <=> TakenIn(e, r, moved, f)
  BY DEF Home, Untouched, TakenOut, TakenIn, Left, Kept
<1>3. FoldersOK(e)
  BY <1>2 DEF DiskOK, FoldersOK, Replaced, Undoable
<1> QED BY <1>1, <1>3 DEF DiskOK, Calm

LEMMA RestJournal ==
  ASSUME DiskOK(disk), NEW r \in Restores, disk.journal.op = "restore", disk.journal.id = r,
         NEW step \in {"apply", "persona", "pending"}
  PROVE  LET new == [disk EXCEPT !.journal = RestoreJournal(r, step)]
         IN DiskOK(new) /\ new.journal = RestoreJournal(r, step)
            /\ new.journal.op = "restore" /\ new.journal.id = r /\ new.journal.step = step
<1> DEFINE j   == RestoreJournal(r, step)
           new == [disk EXCEPT !.journal = j]
<1>1. j \in Journals /\ j.op = "restore" /\ j.id = r /\ j.step = step
  BY RestoreJournalType DEF JournalSteps
<1> HIDE DEF j
<1>2. DiskInv(new)
  BY <1>1, NoteType DEF DiskOK
<1>3. /\ new.journal = j /\ new.live = disk.live /\ new.tables = disk.tables
      /\ new.activated = disk.activated /\ new.applied = disk.applied
      /\ new.previous = disk.previous /\ new.replaced = disk.replaced
      /\ new.next = disk.next /\ new.pending = disk.pending
  BY DEF DiskOK, DiskInv, DiskType
<1> HIDE DEF new
<1>4. TablesOK(new) /\ JournalOK(new) /\ NextOK(new)
  BY <1>1, <1>3 DEF DiskOK, TablesOK, Replaced, JournalOK, NextOK
<1>5. FoldersOK(new)
  BY <1>1, <1>3 DEF DiskOK, FoldersOK, Replaced, Home
<1> QED BY <1>1, <1>2, <1>3, <1>4, <1>5 DEF DiskOK, j, new

LEMMA JournalOver ==
  ASSUME DiskOK(disk), disk.journal.op # "activate", disk.next = Absent
  PROVE  LET new == [disk EXCEPT !.journal = NoJournal]
         IN DiskOK(new) /\ new.journal = NoJournal /\ Calm(new)
<1> DEFINE new == [disk EXCEPT !.journal = NoJournal]
<1>2. DiskInv(new)
  BY NoJournalType, NoteType DEF DiskOK
<1>3. /\ new.journal = NoJournal /\ new.live = disk.live /\ new.tables = disk.tables
      /\ new.activated = disk.activated /\ new.applied = disk.applied
      /\ new.previous = disk.previous /\ new.replaced = disk.replaced
      /\ new.next = disk.next /\ new.pending = disk.pending
  BY DEF DiskOK, DiskInv, DiskType
<1> HIDE DEF new
<1>4. TablesOK(new) /\ JournalOK(new) /\ NextOK(new)
  BY <1>3, NoJournalType DEF DiskOK, TablesOK, Replaced, JournalOK, NextOK
<1>5. FoldersOK(new)
  BY <1>3, NoJournalType DEF DiskOK, FoldersOK, Replaced, Home
<1> QED BY <1>2, <1>3, <1>4, <1>5, NoJournalType DEF DiskOK, Calm, new

\* Removing restore/<id> takes nothing that an account is made of.
LEMMA RootOK ==
  ASSUME DiskOK(disk), NEW r \in Restores,
         \/ disk.previous[r] = NoFolders
         \/ ~(disk.journal.op = "activate" /\ disk.journal.id = r)
  PROVE  LET new == RmRoot(disk, r)
         IN /\ DiskOK(new) /\ new.journal = disk.journal /\ new.live = disk.live
            /\ new.tables = disk.tables /\ new.activated = disk.activated
            /\ new.applied = disk.applied /\ new.next = disk.next /\ new.pending = disk.pending
            /\ new.previous = disk.previous
            /\ \A q \in Restores : new.replaced[q] \in {Absent, disk.replaced[q]}
<1> DEFINE new == RmRoot(disk, r)
<1>1. disk.previous[r] = NoFolders
  BY DEF DiskOK, FoldersOK
<1>2. /\ new.journal = disk.journal /\ new.live = disk.live
      /\ new.tables = disk.tables /\ new.activated = disk.activated
      /\ new.applied = disk.applied /\ new.next = disk.next /\ new.pending = disk.pending
      /\ new.previous = [disk.previous EXCEPT ![r] = NoFolders]
      /\ new.replaced = [disk.replaced EXCEPT ![r] = Absent]
  BY DEF DiskOK, DiskInv, DiskType, RmRoot
<1>3. disk.previous \in [Restores -> [Folders -> Data]] /\ disk.replaced \in [Restores -> Packages]
  BY DEF DiskOK, DiskInv, DiskType
<1>4. new.previous = disk.previous
  BY <1>1, <1>2, <1>3
<1>5. \A q \in Restores : new.replaced[q] \in {Absent, disk.replaced[q]}
  BY <1>2, <1>3
<1>6. DiskInv(new)
  BY RootType DEF DiskOK
<1> HIDE DEF new
<1>7. TablesOK(new) /\ NextOK(new)
  BY <1>2 DEF DiskOK, TablesOK, Replaced, NextOK
<1>8. JournalOK(new)
  BY <1>2, <1>5 DEF DiskOK, JournalOK
<1>9. \A q, moved, f :
        /\ Home(disk, f) <=> Home(new, f)
        /\ Untouched(disk, q, moved, f) <=> Untouched(new, q, moved, f)
        /\ TakenOut(disk, q, moved, f) <=> TakenOut(new, q, moved, f)
        /\ TakenIn(disk, q, moved, f) <=> TakenIn(new, q, moved, f)
  BY <1>2, <1>4 DEF Home, Untouched, TakenOut, TakenIn, Left, Kept
<1>10. FoldersOK(new)
  BY <1>2, <1>4, <1>9 DEF DiskOK, FoldersOK, Replaced, Undoable
<1> QED BY <1>2, <1>4, <1>5, <1>6, <1>7, <1>8, <1>10 DEF DiskOK, new

\* A step of a restore goes on to the next.
LEMMA RestGoto ==
  ASSUME Good(disk, mem, faults), NEW new, DiskOK(new), FreshOK(new, mem),
         mem.id \in Restores, mem.for \in {"job", "start"}, mem.at \notin Acting \cup {"down"},
         NEW step,
         \/ step \in Installing \cup {"sweep"}
         \/ step \in Failing /\ mem.for = "job"
         \/ step \in Recovering \cup {"orphans"} /\ mem.for = "start",
         RestOK(new, Goto(step))
  PROVE  Good(new, Goto(step), faults)
<1> DEFINE m == Goto(step)
<1>1. MemOK(mem) /\ MemInv(mem)
  BY DEF Good, MemOK
<1>2. /\ step \in Steppers \ {"idle", "down", "migrate", "check", "out", "outMove", "in", "inMove"}
      /\ step \notin Activating \cup Finishing \cup Undoing
      /\ step # "undo" /\ step # "migrate" /\ step # "toCleanup"
  BY DEF Steppers, Installing, Failing, Recovering, Activating, Finishing, Undoing
<1>3. MemInv(m)
  BY <1>1, <1>2, GotoType
<1>4. /\ m.at = step /\ m.for = mem.for /\ m.id = mem.id /\ m.again = mem.again
      /\ m.job = mem.job /\ m.jobId = mem.jobId /\ m.tried = mem.tried /\ m.serving = mem.serving
  BY <1>1, GotoFields
<1> HIDE DEF m
<1>5. MemOK(m)
  <2>1. /\ step \in Installing \cup {"sweep"} => step \notin Failing \cup Recovering \cup {"orphans"}
        /\ step \in Failing => step \notin Installing \cup {"sweep"} \cup Recovering \cup {"orphans"}
        /\ step \in Recovering \cup {"orphans"} => step \notin Installing \cup {"sweep"} \cup Failing
    BY DEF Installing, Failing, Recovering
  <2> QED BY <1>1, <1>2, <1>3, <1>4, <2>1 DEF MemOK, Acting
<1>6. ActOK(new, m)
  BY <1>2, <1>4 DEF ActOK, Activating, Finishing
<1>7. FreshOK(new, m) /\ FaultOK(new, m, faults)
  BY <1>2, <1>4, SameFresh DEF Good, FaultOK
<1> QED BY <1>5, <1>6, <1>7 DEF Good, m

LEMMA RestTry ==
  ASSUME OneFault, faults \in Nat, Good(disk, mem, faults), NEW new, NEW step,
         Try(new, Goto(step)), DiskOK(new), Stopped(new, mem),
         Seen(new, mem) \subseteq Seen(disk, mem) \cup {None},
         \A r \in Restores : new.replaced[r] \in {Absent, disk.replaced[r]} \/ r = mem.id,
         mem.id \in Restores, mem.for \in {"job", "start"}, mem.at \notin Acting \cup {"down"},
         \/ step \in Installing \cup {"sweep"}
         \/ step \in Failing /\ mem.for = "job"
         \/ step \in Recovering \cup {"orphans"} /\ mem.for = "start",
         RestOK(new, Goto(step))
  PROVE  IInv'
<1>1. FreshOK(new, mem)
  BY FreshKept DEF Good, MemOK
<1>2. Good(new, Goto(step), faults)
  BY <1>1, RestGoto
<1> QED BY <1>1, <1>2, TryOK

\* One step of a restore on the way to the next.
LEMMA InstallingOK ==
  ASSUME OneFault, faults \in Nat, Good(disk, mem, faults), mem.at \in Installing,
         NEW new, NEW step \in Installing, Try(new, Goto(step)), DiskOK(new),
         new.journal.op = "restore", new.journal.id = mem.id,
         {new.activated, new.applied, new.pending.id} \subseteq Seen(disk, mem) \cup {None},
         \A r \in Restores : new.replaced[r] \in {Absent, disk.replaced[r]} \/ r = mem.id,
         step \in {"apply", "commit"} => new.applied # mem.id,
         step \in Installed => new.applied = mem.id,
         step \in Installed \cup {"commit"} => new.journal.step # "stage",
         step \in {"replace", "swap"} => new.next.id = mem.id,
         step = "swap" => new.pending = Absent,
         step = "dropReplaced" => new.pending.id = mem.id,
         step = "clear" => new.next = Absent
  PROVE  IInv'
<1>1. /\ MemInv(mem) /\ mem.id \in Restores /\ mem.for \in {"job", "start"}
      /\ mem.at \notin Acting \cup {"down"} /\ mem.job # "opening"
      /\ mem.at \notin Activating \cup Finishing \cup Undoing \cup {"sweep"}
  BY DEF Good, MemOK, MemInv, Installing, Acting, Activating, Finishing, Undoing
<1>2. Calm(new) /\ Stopped(new, mem)
  BY <1>1 DEF Calm, Stopped
<1>3. Seen(new, mem) \subseteq Seen(disk, mem) \cup {None}
  BY DEF Seen
<1>4. RestOK(new, Goto(step))
  <2> DEFINE m == Goto(step)
  <2>1. m.at = step /\ m.id = mem.id /\ m.job = mem.job /\ m.jobId = mem.jobId
    BY <1>1, GotoFields
  <2> HIDE DEF m
  <2>2. step \notin Failing \cup Recovering \cup {"sweep", "orphans", "idle"}
    BY DEF Installing, Failing, Recovering
  <2>3. RestOK(new, m)
    BY <1>1, <1>2, <2>1, <2>2 DEF RestOK
  <2> QED BY <2>3 DEF m
<1> QED BY <1>1, <1>2, <1>3, <1>4, RestTry

\* What a disk is at a step of a restore.
LEMMA RestHere ==
  ASSUME Good(disk, mem, faults), mem.at \in Installing
  PROVE  /\ DiskOK(disk) /\ DiskInv(disk) /\ disk \in DiskType /\ mem.id \in Restores
         /\ disk.journal.op = "restore" /\ disk.journal.id = mem.id
         /\ disk.activated # mem.id
         /\ {disk.activated, disk.applied, disk.pending.id, mem.id} \subseteq Seen(disk, mem)
         /\ \A f \in Folders : Home(disk, f)
         /\ \A r \in Restores : disk.previous[r] = NoFolders
<1>1. /\ DiskOK(disk) /\ DiskInv(disk) /\ disk \in DiskType
      /\ disk.journal.op = "restore" /\ disk.journal.id = mem.id
  BY DEF Good, RestOK, DiskOK, DiskInv
<1>2. mem.id \in Restores /\ disk.activated # mem.id
  BY <1>1 DEF DiskOK, JournalOK
<1>3. /\ \A f \in Folders : Home(disk, f)
      /\ \A r \in Restores : disk.previous[r] = NoFolders
  BY <1>1 DEF DiskOK, FoldersOK
<1> QED BY <1>1, <1>2, <1>3 DEF Seen

LEMMA JournalStepsOK ==
  ASSUME OneFault, faults \in Nat, IInv, Apply \/ ToPersona \/ ToPending
  PROVE  IInv'
<1>1. Good(disk, mem, faults) /\ mem.at \in Installing
  BY DEF IInv, Apply, ToPersona, ToPending, Installing
<1>2. \A step \in {"apply", "persona", "pending"} :
        LET new == [disk EXCEPT !.journal = RestoreJournal(mem.id, step)]
        IN /\ DiskOK(new) /\ new.journal.op = "restore" /\ new.journal.id = mem.id
           /\ new.journal.step = step
           /\ new.applied = disk.applied /\ new.activated = disk.activated
           /\ new.pending = disk.pending /\ new.replaced = disk.replaced
  <2>1. /\ DiskOK(disk) /\ disk \in DiskType /\ mem.id \in Restores
        /\ disk.journal.op = "restore" /\ disk.journal.id = mem.id
    BY <1>1, RestHere
  <2> TAKE step \in {"apply", "persona", "pending"}
  <2> DEFINE j   == RestoreJournal(mem.id, step)
             new == [disk EXCEPT !.journal = j]
  <2>2. /\ DiskOK(new) /\ new.journal.op = "restore" /\ new.journal.id = mem.id
        /\ new.journal.step = step
    BY <2>1, RestJournal, ZenonT(60)
  <2> HIDE DEF j
  <2>3. /\ new.applied = disk.applied /\ new.activated = disk.activated
        /\ new.pending = disk.pending /\ new.replaced = disk.replaced
    BY <2>1 DEF DiskType
  <2> QED BY <2>2, <2>3 DEF j
<1>3. ASSUME NEW step \in {"apply", "persona", "pending"},
             NEW next \in {"commit", "persona", "install"},
             next = "commit" => disk.applied # mem.id,
             next # "commit" => disk.applied = mem.id,
             Try([disk EXCEPT !.journal = RestoreJournal(mem.id, step)], Goto(next))
      PROVE  IInv'
  <2> DEFINE new == [disk EXCEPT !.journal = RestoreJournal(mem.id, step)]
  <2>1. /\ DiskOK(new) /\ new.journal.op = "restore" /\ new.journal.id = mem.id
        /\ new.journal.step = step
        /\ new.applied = disk.applied /\ new.activated = disk.activated
        /\ new.pending = disk.pending /\ new.replaced = disk.replaced
    BY <1>2
  <2>2. Try(new, Goto(next))
    BY <1>3
  <2> HIDE DEF new
  <2>3. next \in Installing /\ (next \in Installed <=> next # "commit")
    BY DEF Installing, Installed
  <2>4. {new.activated, new.applied, new.pending.id} \subseteq Seen(disk, mem) \cup {None}
    BY <1>1, <2>1, RestHere
  <2> QED BY <1>1, <1>3, <2>1, <2>2, <2>3, <2>4, InstallingOK
<1>4. /\ mem.at = "apply" => disk.applied # mem.id
      /\ mem.at \in {"toPersona", "toPending"} => disk.applied = mem.id
  BY <1>1 DEF Good, RestOK, Installed
<1>5. CASE Apply
  BY <1>3, <1>4, <1>5 DEF Apply
<1>6. CASE ToPersona
  BY <1>1, <1>3, <1>4, <1>6, ThrowsOK DEF ToPersona
<1>7. CASE ToPending
  BY <1>3, <1>4, <1>7 DEF ToPending
<1> QED BY <1>5, <1>6, <1>7

LEMMA CommitOK ==
  ASSUME OneFault, faults \in Nat, IInv, Commit \/ Refuse \/ InstallPersona
  PROVE  IInv'
<1>1. Good(disk, mem, faults) /\ mem.at \in Installing
  BY DEF IInv, Commit, Refuse, InstallPersona, Installing
<1>2. /\ mem.at = "commit" => disk.applied # mem.id
      /\ mem.at = "persona" => disk.applied = mem.id
      /\ disk.journal.step # "stage" \/ mem.at \notin {"commit", "persona"}
  BY <1>1 DEF Good, RestOK, Installed
<1>3. CASE Commit
  <2> DEFINE new == [disk EXCEPT !.settings = mem.id, !.applied = mem.id]
  <2>1. mem.at = "commit" /\ Try(new, Goto("toPersona"))
    BY <1>3 DEF Commit
  <2>2. /\ new.applied = mem.id /\ new.journal = disk.journal /\ new.live = disk.live
        /\ new.tables = disk.tables /\ new.activated = disk.activated
        /\ new.previous = disk.previous /\ new.replaced = disk.replaced
        /\ new.next = disk.next /\ new.pending = disk.pending
    BY <1>1, RestHere DEF DiskType
  <2>3. DiskInv(new)
    BY <1>1, RestHere DEF DiskInv, DiskType, Data, Ids
  <2> HIDE DEF new
  <2>4. disk.next = Absent
    BY <1>1, <1>2, <2>1, RestHere DEF DiskOK, NextOK
  <2>5. TablesOK(new) /\ NextOK(new)
    BY <1>1, <2>2, <2>4, RestHere DEF DiskOK, TablesOK, Replaced, NextOK
  <2>6. JournalOK(new)
    BY <1>1, <1>2, <2>1, <2>2, RestHere DEF DiskOK, JournalOK
  <2>7. FoldersOK(new)
    BY <1>1, <2>2, RestHere DEF FoldersOK, Replaced, Home
  <2>8. DiskOK(new)
    BY <2>3, <2>5, <2>6, <2>7 DEF DiskOK
  <2>9. {new.activated, new.applied, new.pending.id} \subseteq Seen(disk, mem) \cup {None}
    BY <1>1, <2>2, RestHere
  <2> QED BY <1>1, <1>2, <2>1, <2>2, <2>8, <2>9, RestHere, InstallingOK
             DEF Installing, Installed
<1>4. CASE Refuse
  BY <1>1, <1>4, ThrowsOK DEF Refuse
<1>5. CASE InstallPersona
  <2> DEFINE new == [disk EXCEPT !.persona = mem.id]
  <2>1. mem.at = "persona" /\ Try(new, Goto("toPending"))
    BY <1>5 DEF InstallPersona
  <2>2. /\ new.applied = disk.applied /\ new.journal = disk.journal /\ new.live = disk.live
        /\ new.tables = disk.tables /\ new.activated = disk.activated
        /\ new.previous = disk.previous /\ new.replaced = disk.replaced
        /\ new.next = disk.next /\ new.pending = disk.pending
    BY <1>1, RestHere DEF DiskType
  <2>3. DiskInv(new)
    BY <1>1, RestHere DEF DiskInv, DiskType, Data
  <2> HIDE DEF new
  <2>4. DiskOK(new)
    BY <1>1, <2>2, <2>3, RestHere, SameAccount
  <2>5. {new.activated, new.applied, new.pending.id} \subseteq Seen(disk, mem) \cup {None}
    BY <1>1, <2>2, RestHere
  <2> QED BY <1>1, <1>2, <2>1, <2>2, <2>4, <2>5, RestHere, InstallingOK
             DEF Installing, Installed
<1> QED BY <1>3, <1>4, <1>5

LEMMA InstallOK ==
  ASSUME OneFault, faults \in Nat, IInv, AlreadyInstalled \/ InstallPart
  PROVE  IInv'
<1>1. Good(disk, mem, faults) /\ mem.at = "install" /\ mem.at \in Installing
  BY DEF IInv, AlreadyInstalled, InstallPart, Installing
<1>2. disk.applied = mem.id /\ disk.journal.step # "stage" /\ mem.job # "opening"
  BY <1>1 DEF Good, RestOK, MemOK, Installed
<1>3. {disk.activated, disk.applied, disk.pending.id} \subseteq Seen(disk, mem) \cup {None}
  BY <1>1, RestHere
<1>4. CASE AlreadyInstalled
  <2>1. mem.id \notin Accounts \/ disk.pending.id = mem.id
    BY <1>4 DEF AlreadyInstalled
  <2>2. disk.next = Absent
    BY <1>1, <2>1, RestHere DEF DiskOK, NextOK
  <2>3. CASE Throws
    BY <1>1, <2>3, ThrowsOK
  <2>4. CASE mem' = Goto("clear") /\ UNCHANGED <<disk, faults, crashes, dropped>>
    <3>1. Calm(disk) /\ DiskOK(disk)
      BY <1>1, RestHere DEF Calm
    <3>2. RestOK(disk, Goto("clear"))
      <4> DEFINE m == Goto("clear")
      <4>1. m.at = "clear" /\ m.id = mem.id /\ m.job = mem.job /\ m.jobId = mem.jobId
        BY <1>1, GotoFields DEF Good, MemOK
      <4> HIDE DEF m
      <4>2. RestOK(disk, m)
        BY <1>1, <1>2, <2>2, <3>1, <4>1, RestHere DEF RestOK, Acting,
           Activating, Finishing, Undoing,
             Installed, Failing, Recovering
      <4> QED BY <4>2 DEF m
    <3>3. /\ mem.id \in Restores /\ mem.for \in {"job", "start"} /\ FreshOK(disk, mem)
          /\ mem.at \notin Acting \cup {"down"} /\ "clear" \in Installing
      BY <1>1, RestHere DEF Good, MemOK, Installing, Acting, Activating,
         Finishing, Undoing
    <3>4. Good(disk, Goto("clear"), faults)
      BY <1>1, <3>1, <3>2, <3>3, RestGoto
    <3> QED BY <2>4, <3>4 DEF IInv
  <2> QED BY <1>4, <2>3, <2>4 DEF AlreadyInstalled
<1>5. CASE InstallPart
  <2>1. mem.id \in Accounts /\ disk.pending.id # mem.id
    BY <1>5 DEF InstallPart
  <2>2. disk.journal.op = "restore" /\ disk.journal.id = mem.id /\ mem.id \in Restores
    BY <1>1, RestHere
  <2>3. /\ disk.next \in Packages /\ disk.next.id \in {None, mem.id}
        /\ \A k \in Parts : disk.next.has[k] \in {Gone, mem.id}
        /\ disk.next.id = mem.id => disk.next.has["db"] = mem.id
    BY <1>1, <2>2, RestHere, AbsentType, RestoreAssumption
       DEF DiskOK, NextOK, DiskType, Absent, Parts
  <2>4. mem.id # Gone /\ "db" \in Parts /\ WantedParts(mem.id) \subseteq Parts
    BY <2>2, RestoreAssumption DEF Parts, WantedParts
  <2>5. CASE Missing = {}
    <3> DEFINE new == [disk EXCEPT !.next.id = mem.id]
    <3>1. Try(new, Goto("replace"))
      BY <1>5, <2>5 DEF InstallPart
    <3>2. /\ new.next = [disk.next EXCEPT !.id = mem.id]
          /\ new.applied = disk.applied /\ new.journal = disk.journal /\ new.live = disk.live
          /\ new.tables = disk.tables /\ new.activated = disk.activated
          /\ new.previous = disk.previous /\ new.replaced = disk.replaced
          /\ new.pending = disk.pending
      BY <1>1, RestHere DEF DiskType
    <3>3. new.next.id = mem.id /\ new.next.has = disk.next.has /\ new.next \in Packages
      BY <2>2, <2>3, <3>2 DEF Packages, Ids
    <3>4. DiskInv(new)
      BY <1>1, <3>3, RestHere DEF DiskInv, DiskType
    <3> HIDE DEF new
    <3>5. new.next.has["db"] = mem.id
      <4>1. "db" \notin Missing /\ "db" \in WantedParts(mem.id)
        BY <2>5 DEF WantedParts
      <4> QED BY <2>3, <2>4, <3>3, <4>1 DEF Missing
    <3>6. TablesOK(new) /\ JournalOK(new)
      BY <1>1, <3>2, RestHere DEF DiskOK, TablesOK, JournalOK, Replaced
    <3>7. NextOK(new)
      BY <1>2, <2>1, <2>2, <2>3, <3>2, <3>3, <3>5 DEF NextOK
    <3>8. FoldersOK(new)
      BY <1>1, <3>2, RestHere DEF FoldersOK, Replaced, Home
    <3>9. DiskOK(new)
      BY <3>4, <3>6, <3>7, <3>8 DEF DiskOK
    <3> QED BY <1>1, <1>2, <1>3, <2>2, <3>1, <3>2, <3>3, <3>9, InstallingOK
               DEF Installing, Installed
  <2>6. CASE Missing # {} /\ First(Missing) \in disk.staged[mem.id]
    <3> DEFINE k   == First(Missing)
               new == [disk EXCEPT !.staged[mem.id] = @ \ {k}, !.next.has[k] = mem.id]
    <3>1. Try(new, Goto("install"))
      BY <1>5, <2>6 DEF InstallPart
    <3>2. k \in Parts
      <4>1. Missing \in SUBSET Parts /\ Missing # {}
        BY <2>4, <2>6 DEF Missing
      <4> QED BY <4>1, FirstIn
    <3> HIDE DEF k
    <3>3. /\ new.next = [disk.next EXCEPT !.has[k] = mem.id]
          /\ new.staged = [disk.staged EXCEPT ![mem.id] = @ \ {k}]
          /\ new.applied = disk.applied /\ new.journal = disk.journal /\ new.live = disk.live
          /\ new.tables = disk.tables /\ new.activated = disk.activated
          /\ new.previous = disk.previous /\ new.replaced = disk.replaced
          /\ new.pending = disk.pending
      BY <1>1, RestHere DEF DiskType
    <3>4. /\ new.next.id = disk.next.id /\ new.next.has = [disk.next.has EXCEPT ![k] = mem.id]
          /\ new.next \in Packages
      BY <2>2, <2>3, <3>2, <3>3 DEF Packages, Data
    <3>5. new.staged \in [Restores -> SUBSET (Parts \cup {"metadata", "persona"})]
      BY <1>1, <3>3, RestHere DEF DiskType
    <3>6. DiskInv(new)
      BY <1>1, <3>4, <3>5, RestHere DEF DiskInv, DiskType
    <3> HIDE DEF new
    <3>7. /\ \A p \in Parts : new.next.has[p] \in {Gone, mem.id}
          /\ new.next.id = mem.id => new.next.has["db"] = mem.id
      BY <2>3, <2>4, <3>2, <3>4 DEF Packages
    <3>8. TablesOK(new) /\ JournalOK(new)
      BY <1>1, <3>3, RestHere DEF DiskOK, TablesOK, JournalOK, Replaced
    <3>9. NextOK(new)
      BY <1>2, <2>1, <2>2, <2>3, <3>3, <3>4, <3>7 DEF NextOK
    <3>10. FoldersOK(new)
      BY <1>1, <3>3, RestHere DEF FoldersOK, Replaced, Home
    <3>11. DiskOK(new)
      BY <3>6, <3>8, <3>9, <3>10 DEF DiskOK
    <3> QED BY <1>1, <1>2, <1>3, <2>2, <3>1, <3>3, <3>11, InstallingOK DEF
               Installing, Installed
  <2>7. CASE Missing # {} /\ First(Missing) \notin disk.staged[mem.id]
    <3>1. Throws
      BY <1>5, <2>7 DEF InstallPart
    <3> QED BY <1>1, <3>1, ThrowsOK
  <2> QED BY <2>5, <2>6, <2>7
<1> QED BY <1>4, <1>5

LEMMA ReplaceOK ==
  ASSUME OneFault, faults \in Nat, IInv, Replace
  PROVE  IInv'
<1>1. Good(disk, mem, faults) /\ mem.at = "replace" /\ mem.at \in Installing
  BY DEF IInv, Replace, Installing
<1>2. disk.applied = mem.id /\ disk.journal.step # "stage" /\ disk.next.id = mem.id
  BY <1>1 DEF Good, RestOK, Installed
<1>3. {disk.activated, disk.applied, disk.pending.id} \subseteq Seen(disk, mem) \cup {None}
  BY <1>1, RestHere
<1>4. CASE disk.pending = Absent
  <2>1. Try(disk, Goto("swap"))
    BY <1>4 DEF Replace
  <2>2. DiskOK(disk) /\ disk.journal.op = "restore" /\ disk.journal.id = mem.id
    BY <1>1, RestHere
  <2>3. "swap" \in Installing /\ "swap" \in Installed
    BY DEF Installing, Installed
  <2> QED BY <1>1, <1>2, <1>3, <1>4, <2>1, <2>2, <2>3, InstallingOK
<1>5. CASE disk.pending # Absent
  <2> DEFINE new == [disk EXCEPT !.replaced[mem.id] = disk.pending, !.pending = Absent]
  <2>1. Try(new, Goto("swap"))
    BY <1>5 DEF Replace
  <2>2. /\ disk.journal.op = "restore" /\ disk.journal.id = mem.id /\ mem.id \in Restores
        /\ disk \in DiskType
    BY <1>1, RestHere
  <2>3. /\ new.pending = Absent /\ new.replaced = [disk.replaced EXCEPT ![mem.id] = disk.pending]
        /\ new.applied = disk.applied /\ new.journal = disk.journal /\ new.live = disk.live
        /\ new.tables = disk.tables /\ new.activated = disk.activated
        /\ new.previous = disk.previous /\ new.next = disk.next
    BY <2>2 DEF DiskType
  <2>4. new.replaced \in [Restores -> Packages]
        /\ \A r \in Restores \ {mem.id} : new.replaced[r] = disk.replaced[r]
    BY <2>2, <2>3 DEF DiskType
  <2>5. DiskInv(new)
    BY <1>1, <2>4, AbsentType, RestHere DEF DiskInv, DiskType
  <2> HIDE DEF new
  <2>6. Absent.id = None /\ None \notin Restores
    BY AbsentType, RestoreAssumption
  <2>7. TablesOK(new)
    BY <1>1, <2>3, <2>6, RestHere DEF DiskOK, TablesOK, Replaced, Package
  <2>8. JournalOK(new)
    BY <1>1, <1>2, <2>2, <2>3, RestHere DEF DiskOK, JournalOK
  <2>9. NextOK(new)
    BY <1>1, <2>2, <2>3, <2>6, RestHere DEF DiskOK, NextOK
  <2>10. FoldersOK(new)
    BY <1>1, <2>3, RestHere DEF FoldersOK, Replaced, Home
  <2>11. DiskOK(new)
    BY <2>5, <2>7, <2>8, <2>9, <2>10 DEF DiskOK
  <2> QED BY <1>1, <1>2, <1>3, <2>1, <2>2, <2>3, <2>4, <2>6, <2>11, InstallingOK
             DEF Installing, Installed
<1> QED BY <1>4, <1>5

LEMMA SwapOK ==
  ASSUME OneFault, faults \in Nat, IInv, Swap \/ DropReplaced
  PROVE  IInv'
<1>1. Good(disk, mem, faults) /\ mem.at \in Installing
  BY DEF IInv, Swap, DropReplaced, Installing
<1>2. disk.applied = mem.id /\ disk.journal.step # "stage"
  BY <1>1 DEF Good, RestOK, Installed, Swap, DropReplaced
<1>3. {disk.activated, disk.applied, disk.pending.id} \subseteq Seen(disk, mem) \cup {None}
      /\ mem.id \in Seen(disk, mem)
  BY <1>1, RestHere
<1>4. /\ disk.journal.op = "restore" /\ disk.journal.id = mem.id /\ mem.id \in Restores
      /\ disk \in DiskType /\ disk.activated # mem.id /\ mem.id # None
  BY <1>1, RestHere, RestoreAssumption
<1>5. CASE Swap
  <2> DEFINE new == [disk EXCEPT !.pending = disk.next, !.next = Absent]
  <2>1. Try(new, Goto("dropReplaced"))
    BY <1>5 DEF Swap
  <2>2. disk.next.id = mem.id /\ disk.next # Absent
    BY <1>1, <1>4, <1>5, AbsentType DEF Good, RestOK, Swap
  <2>3. Package(disk.next)
    BY <1>1, <1>4, <2>2, RestHere DEF DiskOK, NextOK, Package
  <2>4. /\ new.pending = disk.next /\ new.next = Absent /\ new.replaced = disk.replaced
        /\ new.applied = disk.applied /\ new.journal = disk.journal /\ new.live = disk.live
        /\ new.tables = disk.tables /\ new.activated = disk.activated
        /\ new.previous = disk.previous
    BY <1>4 DEF DiskType
  <2>5. DiskInv(new)
    BY <1>1, AbsentType, RestHere DEF DiskInv, DiskType
  <2> HIDE DEF new
  <2>6. TablesOK(new)
    BY <1>1, <1>4, <2>2, <2>3, <2>4, RestHere DEF DiskOK, TablesOK, Replaced
  <2>7. JournalOK(new) /\ NextOK(new)
    BY <1>1, <1>2, <1>4, <2>4, RestHere DEF DiskOK, JournalOK, NextOK
  <2>8. FoldersOK(new)
    BY <1>1, <2>4, RestHere DEF FoldersOK, Replaced, Home
  <2>9. DiskOK(new)
    BY <2>5, <2>6, <2>7, <2>8 DEF DiskOK
  <2> QED BY <1>1, <1>2, <1>3, <1>4, <2>1, <2>2, <2>4, <2>9, InstallingOK DEF
             Installing, Installed
<1>6. CASE DropReplaced
  <2> DEFINE new == [disk EXCEPT !.replaced[mem.id] = Absent]
  <2>1. Try(new, Goto("clear")) /\ mem.at = "dropReplaced"
    BY <1>6 DEF DropReplaced
  <2>2. disk.pending.id = mem.id
    BY <1>1, <2>1 DEF Good, RestOK
  <2>3. disk.next = Absent
    BY <1>1, <1>4, <2>2, RestHere DEF DiskOK, NextOK
  <2>4. /\ new.replaced = [disk.replaced EXCEPT ![mem.id] = Absent]
        /\ new.pending = disk.pending /\ new.next = disk.next
        /\ new.applied = disk.applied /\ new.journal = disk.journal /\ new.live = disk.live
        /\ new.tables = disk.tables /\ new.activated = disk.activated
        /\ new.previous = disk.previous
    BY <1>4 DEF DiskType
  <2>5. new.replaced \in [Restores -> Packages]
        /\ \A r \in Restores : new.replaced[r] \in {Absent, disk.replaced[r]}
    BY <1>4, <2>4, AbsentType DEF DiskType
  <2>6. DiskInv(new)
    BY <1>1, <2>5, RestHere DEF DiskInv, DiskType
  <2> HIDE DEF new
  <2>7. TablesOK(new) /\ JournalOK(new) /\ NextOK(new)
    BY <1>1, <1>2, <1>4, <2>4, RestHere DEF DiskOK, TablesOK, Replaced,
       JournalOK, NextOK
  <2>8. FoldersOK(new)
    BY <1>1, <2>4, RestHere DEF FoldersOK, Replaced, Home
  <2>9. DiskOK(new)
    BY <2>6, <2>7, <2>8 DEF DiskOK
  <2>10. "clear" \in Installing /\ "clear" \notin Installed
    BY DEF Installing, Installed
  <2> QED BY <1>1, <1>2, <1>3, <1>4, <2>1, <2>3, <2>4, <2>5, <2>9, <2>10, InstallingOK
<1> QED BY <1>5, <1>6

\* A step that code ends with.
LEMMA EndTry ==
  ASSUME OneFault, faults \in Nat, Good(disk, mem, faults), mem.at # "down",
         NEW new, NEW m \in {Idle, JobOver, Serve, Down}, Try(new, m), DiskOK(new),
         Stopped(new, mem),
         Seen(new, mem) \subseteq Seen(disk, mem) \cup {None},
         \A r \in Restores : new.replaced[r] \in {Absent, disk.replaced[r]} \/ r = mem.id,
         m = Down \/ Calm(new),
         mem.job = "staging" => m \in {JobOver, Down}
  PROVE  IInv'
<1>1. FreshOK(new, mem)
  BY FreshKept DEF Good, MemOK
<1>2. mem.job = "opening" => new.journal.op # "restore"
  BY DEF Stopped
<1>3. Good(new, m, faults)
  BY <1>1, <1>2, EndGood DEF Good
<1> QED BY <1>1, <1>3, TryOK

LEMMA ClearOK ==
  ASSUME OneFault, faults \in Nat, IInv, Clear
  PROVE  IInv'
<1>1. Good(disk, mem, faults) /\ mem.at = "clear" /\ mem.at \in Installing
  BY DEF IInv, Clear, Installing
<1>2. disk.next = Absent /\ mem.job # "opening"
  BY <1>1 DEF Good, RestOK, MemOK
<1>3. /\ MemInv(mem) /\ mem.id \in Restores /\ mem.for \in {"job", "start"}
      /\ mem.at \notin Acting \cup {"down", "sweep"}
      /\ mem.at \notin Activating \cup Finishing \cup Undoing
  BY <1>1, RestHere DEF Good, MemOK, Installing, Acting, Activating, Finishing, Undoing
<1> DEFINE new == [disk EXCEPT !.journal = NoJournal]
<1>4. Try(new, Goto("sweep"))
  BY DEF Clear
<1>5. DiskOK(new) /\ new.journal = NoJournal /\ Calm(new)
  BY <1>1, <1>2, RestHere, JournalOver
<1>6. /\ new.activated = disk.activated /\ new.applied = disk.applied
      /\ new.pending = disk.pending /\ new.replaced = disk.replaced
  BY <1>1, RestHere DEF DiskType
<1> HIDE DEF new
<1>7. Seen(new, mem) \subseteq Seen(disk, mem) \cup {None}
  BY <1>5, <1>6 DEF Seen, NoJournal
<1>8. Stopped(new, mem)
  BY <1>2, <1>3, <1>5, NoJournalType DEF Stopped
<1>9. RestOK(new, Goto("sweep"))
  <2> DEFINE m == Goto("sweep")
  <2>1. m.at = "sweep" /\ m.id = mem.id /\ m.job = mem.job /\ m.jobId = mem.jobId
    BY <1>3, GotoFields
  <2> HIDE DEF m
  <2>2. RestOK(new, m)
    BY <1>2, <1>5, <2>1 DEF RestOK, Installing, Installed, Failing, Recovering
  <2> QED BY <2>2 DEF m
<1> QED BY <1>1, <1>3, <1>4, <1>5, <1>6, <1>7, <1>8, <1>9, RestTry

LEMMA SweepOK ==
  ASSUME OneFault, faults \in Nat, IInv, Sweep \/ Unstage
  PROVE  IInv'
<1>1. Good(disk, mem, faults) /\ mem.at \in {"sweep", "unstage"} /\ mem.at # "down"
  BY DEF IInv, Sweep, Unstage
<1>2. /\ DiskOK(disk) /\ MemOK(mem) /\ MemInv(mem) /\ mem.id \in Restores
      /\ mem.for \in {"job", "start"} /\ mem.job # "opening"
      /\ mem.at = "unstage" => mem.for = "job"
      /\ mem.for = "start" => mem.job = "none"
  BY <1>1 DEF Good, MemOK, MemInv, Failing
<1>3. mem.at \notin Acting \cup {"down"} \cup Activating \cup Finishing \cup Undoing \cup Installing
  BY <1>1 DEF Installing, Acting, Activating, Finishing, Undoing
<1>4. /\ Calm(disk) /\ disk.journal.op # "activate"
      /\ disk.journal.op = "restore" => disk.applied # disk.journal.id
      /\ mem.at = "sweep" => disk.journal = NoJournal
  BY <1>1, <1>3, NoJournalType DEF Good, RestOK, Failing
<1> DEFINE new == RmRoot(disk, mem.id)
<1>5. /\ DiskOK(new) /\ new.journal = disk.journal
      /\ new.activated = disk.activated
      /\ new.applied = disk.applied /\ new.pending = disk.pending
      /\ \A q \in Restores : new.replaced[q] \in {Absent, disk.replaced[q]}
  BY <1>2, <1>4, RootOK
<1> HIDE DEF new
<1>6. Seen(new, mem) \subseteq Seen(disk, mem) \cup {None}
  BY <1>5 DEF Seen
<1>7. Calm(new) /\ Stopped(new, mem)
  BY <1>2, <1>3, <1>4, <1>5 DEF Calm, Stopped
<1>8. CASE Sweep /\ mem.for = "job"
  <2>1. Try(new, JobOver)
    BY <1>8 DEF Sweep, new
  <2> QED BY <1>1, <1>5, <1>6, <1>7, <2>1, EndTry
<1>9. CASE Sweep /\ mem.for # "job"
  <2>1. Try(new, Goto("orphans")) /\ mem.for = "start" /\ mem.at = "sweep"
    BY <1>2, <1>9 DEF Sweep, new
  <2>2. RestOK(new, Goto("orphans"))
    <3> DEFINE m == Goto("orphans")
    <3>1. m.at = "orphans" /\ m.id = mem.id /\ m.job = mem.job /\ m.jobId = mem.jobId
      BY <1>2, GotoFields
    <3> HIDE DEF m
    <3>2. RestOK(new, m)
      BY <1>2, <1>4, <1>5, <1>7, <2>1, <3>1 DEF RestOK, Installing, Installed,
         Failing, Recovering
    <3> QED BY <3>2 DEF m
  <2> QED BY <1>1, <1>2, <1>3, <1>5, <1>6, <1>7, <2>1, <2>2, RestTry
<1>10. CASE Unstage
  <2>1. Try(new, Goto("unjournal")) /\ mem.at = "unstage"
    BY <1>10 DEF Unstage, new
  <2>2. RestOK(new, Goto("unjournal"))
    <3> DEFINE m == Goto("unjournal")
    <3>1. m.at = "unjournal" /\ m.id = mem.id /\ m.job = mem.job /\ m.jobId = mem.jobId
      BY <1>2, GotoFields
    <3> HIDE DEF m
    <3>2. RestOK(new, m)
      BY <1>2, <1>4, <1>5, <1>7, <2>1, <3>1 DEF RestOK, Installing, Installed,
         Failing, Recovering
    <3> QED BY <3>2 DEF m
  <2>3. "unjournal" \in Failing
    BY DEF Failing
  <2> QED BY <1>1, <1>2, <1>3, <1>5, <1>6, <1>7, <2>1, <2>2, <2>3, RestTry
<1> QED BY <1>2, <1>8, <1>9, <1>10

LEMMA UnjournalOK ==
  ASSUME OneFault, faults \in Nat, IInv, Unjournal
  PROVE  IInv'
<1>1. Good(disk, mem, faults) /\ mem.at = "unjournal" /\ mem.at # "down"
  BY DEF IInv, Unjournal
<1>2. /\ DiskOK(disk) /\ MemInv(mem) /\ mem.job # "opening"
      /\ mem.at \notin Activating \cup Finishing \cup Undoing \cup Installing
  BY <1>1 DEF Good, MemOK, Failing, Activating, Finishing, Undoing, Installing
<1>3. /\ disk.journal.op # "activate" /\ (disk.journal.op = "restore" => disk.applied # disk.journal.id)
  BY <1>1 DEF Good, RestOK, Failing
<1>4. disk.next = Absent
  BY <1>2, <1>3 DEF DiskOK, NextOK
<1> DEFINE new == [disk EXCEPT !.journal = NoJournal]
<1>5. Try(new, JobOver)
  BY DEF Unjournal
<1>6. DiskOK(new) /\ new.journal = NoJournal /\ Calm(new)
  BY <1>2, <1>3, <1>4, JournalOver
<1>7. /\ new.activated = disk.activated /\ new.applied = disk.applied
      /\ new.pending = disk.pending /\ new.replaced = disk.replaced
  BY <1>2 DEF DiskOK, DiskInv, DiskType
<1> HIDE DEF new
<1>8. Seen(new, mem) \subseteq Seen(disk, mem) \cup {None}
  BY <1>6, <1>7 DEF Seen, NoJournal
<1>9. Stopped(new, mem)
  BY <1>1, <1>2, <1>6 DEF Stopped
<1> QED BY <1>1, <1>5, <1>6, <1>7, <1>8, <1>9, EndTry

(* The steps of a recovery. *)

LEMMA GiveBackOK ==
  ASSUME OneFault, faults \in Nat, IInv, GiveBack \/ Forget
  PROVE  IInv'
<1>1. Good(disk, mem, faults) /\ mem.at \in {"giveBack", "forget"}
  BY DEF IInv, GiveBack, Forget
<1>2. /\ DiskOK(disk) /\ disk \in DiskType /\ MemInv(mem) /\ mem.id \in Restores /\ mem.for = "start"
      /\ mem.job = "none"
      /\ mem.at \notin Acting \cup {"down"} \cup Activating \cup Finishing \cup Undoing \cup Installing
  BY <1>1 DEF Good, MemOK, MemInv, DiskOK, DiskInv, Recovering, Acting,
     Activating, Finishing,
              Undoing, Installing
<1>3. disk.journal.op = "restore" /\ disk.journal.id = mem.id /\ disk.applied # mem.id
  BY <1>1 DEF Good, RestOK, Recovering
<1>4. disk.replaced[mem.id] = Absent /\ disk.pending.id # mem.id /\ disk.next = Absent
  BY <1>2, <1>3 DEF DiskOK, JournalOK, NextOK
<1>5. ASSUME NEW new, DiskOK(new), new.journal = disk.journal, new.applied = disk.applied,
             new.activated = disk.activated, new.pending = disk.pending, new.next = disk.next,
             \A r \in Restores : new.replaced[r] \in {Absent, disk.replaced[r]},
             NEW step \in {"forget", "clear"}, Try(new, Goto(step))
      PROVE  IInv'
  <2>1. Calm(new) /\ Stopped(new, mem)
    BY <1>1, <1>2, <1>3, <1>5 DEF Calm, Stopped
  <2>2. Seen(new, mem) \subseteq Seen(disk, mem) \cup {None}
    BY <1>5 DEF Seen
  <2>3. RestOK(new, Goto(step))
    <3> DEFINE m == Goto(step)
    <3>1. m.at = step /\ m.id = mem.id /\ m.job = mem.job /\ m.jobId = mem.jobId
      BY <1>2, GotoFields
    <3> HIDE DEF m
    <3>2. RestOK(new, m)
      BY <1>2, <1>3, <1>4, <1>5, <2>1, <3>1 DEF RestOK, Installed, Failing,
         Recovering, Installing
    <3> QED BY <3>2 DEF m
  <2>4. step \in Installing \cup Recovering
    BY DEF Installing, Recovering
  <2> QED BY <1>1, <1>2, <1>5, <2>1, <2>2, <2>3, <2>4, RestTry
<1>6. CASE GiveBack
  <2> DEFINE kept == IF disk.pending.id = mem.id THEN Absent ELSE disk.pending
             new == [disk EXCEPT !.pending = IF kept = Absent THEN disk.replaced[mem.id] ELSE kept,
                                 !.replaced[mem.id] = IF kept = Absent THEN Absent ELSE @]
  <2>1. Try(new, Goto("forget"))
    BY <1>6 DEF GiveBack
  <2>2. /\ new.journal = disk.journal /\ new.applied = disk.applied
        /\ new.activated = disk.activated /\ new.next = disk.next /\ new.live = disk.live
        /\ new.tables = disk.tables /\ new.previous = disk.previous
        /\ new.pending = (IF kept = Absent THEN disk.replaced[mem.id] ELSE kept)
        /\ new.replaced = [disk.replaced EXCEPT ![mem.id] = IF kept = Absent THEN Absent ELSE @]
    BY <1>2 DEF DiskType
  <2>3. new.pending = disk.pending
    BY <1>4, <2>2
  <2>4. new.replaced = disk.replaced
    BY <1>2, <1>4, <2>2 DEF DiskType
  <2>5. new.staged = disk.staged /\ new.settings = disk.settings /\ new.persona = disk.persona
    BY <1>2 DEF DiskType
  <2>6. new = disk
    BY <1>2, <2>2, <2>3, <2>4, <2>5 DEF DiskType
  <2> HIDE DEF new
  <2> QED BY <1>2, <1>5, <2>1, <2>6
<1>7. CASE Forget
  <2> DEFINE root == RmRoot(disk, mem.id)
             new  == [root EXCEPT !.next = Absent]
  <2>1. Try(new, Goto("clear"))
    BY <1>7 DEF Forget
  <2>2. /\ DiskOK(root) /\ root.journal = disk.journal
        /\ root.activated = disk.activated /\ root.next = disk.next
        /\ root.applied = disk.applied /\ root.pending = disk.pending
        /\ \A q \in Restores : root.replaced[q] \in {Absent, disk.replaced[q]}
    BY <1>2, <1>3, RootOK
  <2> HIDE DEF root
  <2>3. root \in DiskType
    BY <2>2 DEF DiskOK, DiskInv
  <2>4. new = root
    BY <1>4, <2>2, <2>3 DEF DiskType
  <2> QED BY <1>5, <2>1, <2>2, <2>4
<1> QED BY <1>6, <1>7

LEMMA OrphansOK ==
  ASSUME OneFault, faults \in Nat, IInv, Orphans
  PROVE  IInv'
<1>1. Good(disk, mem, faults) /\ mem.at = "orphans" /\ mem.at # "down"
  BY DEF IInv, Orphans
<1>2. /\ DiskOK(disk) /\ disk \in DiskType /\ mem.job = "none"
      /\ mem.at \notin Activating \cup Finishing \cup Undoing \cup Installing \cup Acting
  BY <1>1 DEF Good, MemOK, DiskOK, DiskInv, Acting, Activating, Finishing,
     Undoing, Installing
<1>3. disk.journal = NoJournal /\ disk.journal.op = "none"
  BY <1>1, NoJournalType DEF Good, RestOK
<1>4. disk.next = Absent /\ \A r \in Restores : disk.previous[r] = NoFolders
  BY <1>2, <1>3 DEF DiskOK, NextOK, FoldersOK
<1> DEFINE new == [disk EXCEPT !.staged   = [r \in Restores |-> {}],
                               !.previous = [r \in Restores |-> NoFolders],
                               !.replaced = [r \in Restores |-> Absent],
                               !.next     = Absent]
<1>5. Try(new, Idle)
  BY DEF Orphans
<1>6. /\ new.journal = disk.journal /\ new.applied = disk.applied
      /\ new.activated = disk.activated /\ new.live = disk.live
      /\ new.tables = disk.tables /\ new.pending = disk.pending /\ new.next = Absent
      /\ new.previous = [r \in Restores |-> NoFolders]
      /\ new.replaced = [r \in Restores |-> Absent]
  BY <1>2 DEF DiskType
<1>7. new.previous = disk.previous
  BY <1>2, <1>4, <1>6 DEF DiskType
<1>8. DiskInv(new)
  BY <1>2, AbsentType DEF DiskOK, DiskInv, DiskType
<1> HIDE DEF new
<1>9. TablesOK(new) /\ NextOK(new) /\ JournalOK(new) /\ FoldersOK(new)
  BY <1>2, <1>3, <1>4, <1>6, <1>7 DEF DiskOK, TablesOK, Replaced, NextOK,
     JournalOK, FoldersOK, Home
<1>10. DiskOK(new) /\ Calm(new)
  BY <1>3, <1>6, <1>8, <1>9 DEF DiskOK, Calm
<1>11. Seen(new, mem) \subseteq Seen(disk, mem) \cup {None}
  BY <1>6 DEF Seen
<1>12. Stopped(new, mem)
  BY <1>1, <1>2, <1>10 DEF Stopped
<1>13. \A r \in Restores : new.replaced[r] = Absent
  BY <1>6
<1> QED BY <1>1, <1>2, <1>5, <1>10, <1>11, <1>12, <1>13, EndTry

(* The moves of an activation. *)

LEMMA NoMoves ==
  /\ InOf(<<>>) = {} /\ OutOf(<<>>) = {} /\ Orderly(<<>>) /\ <<>> \in MoveLists
  /\ Folders # {}
<1>1. DOMAIN <<>> = {} /\ <<>> \in MoveLists
  BY DEF MoveLists
<1>2. Folders # {}
  BY RestoreAssumption DEF Folders
<1> QED BY <1>1, <1>2 DEF InOf, OutOf, Orderly

LEMMA MoreMoves ==
  ASSUME NEW moved \in MoveLists, Orderly(moved), NEW way \in {"in", "out"}, NEW f \in Folders,
         f \notin InOf(moved), way = "out" => f \notin OutOf(moved)
  PROVE  LET more == Append(moved, [way |-> way, folder |-> f])
         IN /\ more \in MoveLists /\ more # <<>> /\ Orderly(more)
            /\ InOf(more) = InOf(moved) \cup (IF way = "in" THEN {f} ELSE {})
            /\ OutOf(more) = OutOf(moved) \cup (IF way = "out" THEN {f} ELSE {})
            /\ more[Len(more)] = [way |-> way, folder |-> f]
<1> DEFINE m    == [way |-> way, folder |-> f]
           more == Append(moved, m)
<1>1. m \in Moves /\ m.way = way /\ m.folder = f
  BY DEF Moves
<1>2. /\ more \in MoveLists /\ more # <<>>
      /\ InOf(more) = InOf(moved) \cup (IF way = "in" THEN {f} ELSE {})
  BY Appended
<1>3. /\ DOMAIN more = DOMAIN moved \cup {Len(moved) + 1} /\ Len(more) = Len(moved) + 1
      /\ DOMAIN moved = 1..Len(moved) /\ Len(moved) \in Nat
      /\ \A i \in DOMAIN moved : more[i] = moved[i]
      /\ more[Len(moved) + 1] = m
  BY <1>1 DEF MoveLists
<1> HIDE DEF m, more
<1>4. OutOf(more) = OutOf(moved) \cup (IF way = "out" THEN {f} ELSE {})
  <2>1. ASSUME NEW g \in OutOf(more) PROVE g \in OutOf(moved) \cup (IF way = "out" THEN {f} ELSE {})
    BY <1>1, <1>3, <2>1 DEF OutOf
  <2>2. OutOf(moved) \subseteq OutOf(more)
    BY <1>3 DEF OutOf
  <2>3. way = "out" => f \in OutOf(more)
    BY <1>1, <1>3 DEF OutOf
  <2> QED BY <2>1, <2>2, <2>3
<1>5. Orderly(more)
  <2> SUFFICES ASSUME NEW i \in DOMAIN more, NEW j \in DOMAIN more,
                      i < j, more[i].folder = more[j].folder
               PROVE  more[i].way = "out" /\ more[j].way = "in"
    BY DEF Orderly
  <2>1. i \in DOMAIN moved /\ more[i] = moved[i]
    BY <1>3
  <2>2. CASE j \in DOMAIN moved
    BY <1>3, <2>1, <2>2 DEF Orderly
  <2>3. CASE j = Len(moved) + 1
    <3>1. moved[i].folder = f /\ moved[i].way \in {"out", "in"}
      <4>1. moved[i] \in Moves
        BY <2>1, Moving
      <4> QED BY <1>1, <1>3, <2>1, <2>3, <4>1 DEF Moves
    <3>2. moved[i].way = "out"
      BY <2>1, <3>1 DEF InOf
    <3>3. way # "out"
      BY <2>1, <3>1, <3>2 DEF OutOf
    <3> QED BY <1>1, <1>3, <2>1, <2>3, <3>2, <3>3
  <2> QED BY <1>3, <2>2, <2>3
<1> QED BY <1>1, <1>2, <1>3, <1>4, <1>5 DEF m, more

LEMMA LessMoves ==
  ASSUME NEW moved \in MoveLists, Orderly(moved), moved # <<>>
  PROVE  LET less == SubSeq(moved, 1, Len(moved) - 1)
             last == moved[Len(moved)]
             f    == last.folder
         IN /\ less \in MoveLists /\ Orderly(less) /\ f \in Folders
            /\ last.way = "out" => /\ f \in OutOf(moved) /\ f \notin InOf(moved)
                                   /\ InOf(less) = InOf(moved) /\ OutOf(less) = OutOf(moved) \ {f}
            /\ last.way # "out" => /\ f \in InOf(moved)
                                   /\ InOf(less) = InOf(moved) \ {f} /\ OutOf(less) = OutOf(moved)
<1> DEFINE less == SubSeq(moved, 1, Len(moved) - 1)
           n    == Len(moved)
           f    == moved[n].folder
<1>1. /\ less \in MoveLists /\ DOMAIN less = DOMAIN moved \ {n}
      /\ \A i \in DOMAIN less : less[i] = moved[i]
  BY Shortened
<1>2. /\ DOMAIN moved = 1..n /\ n \in DOMAIN moved /\ n \in Nat
      /\ \A i \in DOMAIN moved : moved[i].way \in {"out", "in"} /\ moved[i].folder \in Folders
  <2>1. \A i \in DOMAIN moved : moved[i] \in Moves
    BY Moving
  <2> QED BY <2>1, Moving DEF Moves
<1> HIDE DEF less, n
<1>3. Orderly(less)
  BY <1>1 DEF Orderly
<1>4. \A i \in DOMAIN less : moved[i].folder = f => moved[i].way = "out" /\ moved[n].way = "in"
  BY <1>1, <1>2 DEF Orderly
<1>5. /\ InOf(less) = {moved[i].folder : i \in {j \in DOMAIN moved \ {n} : moved[j].way = "in"}}
      /\ OutOf(less) = {moved[i].folder : i \in {j \in DOMAIN moved \ {n} : moved[j].way = "out"}}
  BY <1>1 DEF InOf, OutOf
<1>6. CASE moved[n].way = "out"
  <2>1. f \in OutOf(moved) /\ f \notin OutOf(less)
    BY <1>1, <1>2, <1>4, <1>5, <1>6 DEF OutOf
  <2>2. InOf(less) = InOf(moved)
    BY <1>5, <1>6 DEF InOf
  <2>3. f \notin InOf(less)
    BY <1>1, <1>4, <1>5, <1>6
  <2>4. OutOf(moved) \subseteq OutOf(less) \cup {f} /\ OutOf(less) \subseteq OutOf(moved)
    BY <1>5 DEF OutOf
  <2> QED BY <1>1, <1>2, <1>3, <1>6, <2>1, <2>2, <2>3, <2>4 DEF less, n
<1>7. CASE moved[n].way # "out"
  <2>1. moved[n].way = "in"
    BY <1>2, <1>7
  <2>2. f \in InOf(moved) /\ f \notin InOf(less)
    BY <1>1, <1>2, <1>4, <1>5, <2>1 DEF InOf
  <2>3. OutOf(less) = OutOf(moved)
    <3>1. {j \in DOMAIN moved \ {n} : moved[j].way = "out"} = {j \in DOMAIN moved : moved[j].way = "out"}
      BY <1>7
    <3> QED BY <1>5, <3>1 DEF OutOf
  <2>4. InOf(moved) \subseteq InOf(less) \cup {f} /\ InOf(less) \subseteq InOf(moved)
    BY <1>5 DEF InOf
  <2> QED BY <1>1, <1>2, <1>3, <1>7, <2>2, <2>3, <2>4 DEF less, n
<1> QED BY <1>6, <1>7

(* The disk while folders are moved. *)

\* What a disk is before the tables are replaced.
LEMMA ActHere ==
  ASSUME Good(disk, mem, faults), mem.at \in Activating \ {"toCleanup"}
  PROVE  /\ DiskOK(disk) /\ DiskInv(disk) /\ disk \in DiskType /\ MemInv(mem)
         /\ mem \in MemType /\ mem.moved \in MoveLists
         /\ mem.id \in Accounts /\ mem.id \in Restores /\ mem.id \in Data
         /\ mem.id \notin {None, Own, Fresh, Gone} /\ "db" \in Parts /\ "db" \notin Folders
         /\ mem.for = "open" /\ ~mem.again /\ mem.job # "staging"
         /\ disk.activated # mem.id /\ disk.tables # mem.id /\ disk.tables \notin {Gone, Fresh}
         /\ disk.journal.op # "restore" /\ disk.next = Absent
         /\ disk.journal.op = "activate" => disk.journal.id = mem.id
         /\ disk.pending.id = mem.id /\ disk.pending.has["db"] = mem.id
         /\ \A k \in Parts : disk.pending.has[k] \in {Gone, mem.id}
         /\ Undoable(disk, mem.id, mem.moved)
<1>1. /\ DiskOK(disk) /\ DiskInv(disk) /\ disk \in DiskType /\ MemInv(mem)
      /\ mem \in MemType /\ mem.moved \in MoveLists
  BY DEF Good, DiskOK, DiskInv, MemOK, MemInv, MemType
<1>2. /\ mem.id \in Accounts /\ mem.for = "open" /\ ~mem.again /\ mem.job # "staging"
  BY DEF Good, MemOK
<1>3. /\ mem.id \in Restores /\ mem.id \in Data
      /\ mem.id \notin {None, Own, Fresh, Gone} /\ "db" \in Parts /\ "db" \notin Folders
  BY <1>2, RestoreAssumption DEF Data, Parts
<1>4. disk.pending.id = mem.id
  BY DEF Good, ActOK
<1>5. UndoOK(disk, mem)
  <2>1. Stopped(disk, mem)
    <3>1. mem.at \notin Undoing /\ mem.at # "down"
      BY DEF Activating, Undoing
    <3> QED BY <3>1, StoppedHere
  <2>2. disk.activated # mem.id
    <3>1. CASE mem.at = "migrate"
      <4>1. disk.journal.op = "none"
        BY <3>1, NoJournalType DEF Good, ActOK
      <4> QED BY <1>1, <1>3, <1>4, <4>1 DEF DiskOK, TablesOK, Replaced
    <3>2. CASE mem.at # "migrate"
      BY <3>2 DEF Good, ActOK
    <3> QED BY <3>1, <3>2
  <2> QED BY <2>1, <2>2 DEF Stopped
<1>6. /\ disk.activated # mem.id /\ Undoable(disk, mem.id, mem.moved)
      /\ disk.journal.op # "restore" /\ (disk.journal.op = "activate" => disk.journal.id = mem.id)
  BY <1>5, NoJournalType DEF UndoOK
<1>7. disk.next = Absent
  BY <1>1, <1>6 DEF DiskOK, NextOK
<1>8. disk.tables # mem.id /\ disk.tables \notin {Gone, Fresh}
  BY <1>1, <1>3, <1>6, RestoreAssumption DEF DiskOK, TablesOK, Own, Gone, Fresh
<1>9. disk.pending.has["db"] = mem.id /\ \A k \in Parts : disk.pending.has[k] \in {Gone, mem.id}
  <2>1. disk.pending # Absent
    BY <1>3, <1>4, AbsentType
  <2> QED BY <1>1, <1>4, <2>1 DEF DiskOK, TablesOK, Package
<1> QED BY <1>1, <1>2, <1>3, <1>4, <1>6, <1>7, <1>8, <1>9

\* A disk on which the undo of the journal finds everything.
LEMMA ActDisk ==
  ASSUME DiskOK(disk), NEW r \in Accounts, disk.activated # r,
         disk.journal.op # "restore", disk.journal.op = "activate" => disk.journal.id = r,
         NEW new, DiskInv(new), new.journal.op = "activate", new.journal.id = r,
         new.tables = disk.tables, new.activated = disk.activated, new.next = disk.next,
         Package(new.pending), new.pending.id = disk.pending.id,
         \A q \in Restores \ {r} : new.previous[q] = disk.previous[q],
         Undoable(new, r, new.journal.moved)
  PROVE  DiskOK(new)
<1>1. TablesOK(new)
  BY DEF DiskOK, TablesOK, Replaced
<1>2. JournalOK(new) /\ NextOK(new)
  BY DEF DiskOK, JournalOK, NextOK
<1>3. FoldersOK(new)
  BY DEF DiskOK, FoldersOK, Replaced
<1> QED BY <1>1, <1>2, <1>3 DEF DiskOK

\* A step of an activation or its undo goes on to the next.
LEMMA ActGood ==
  ASSUME Good(disk, mem, faults), mem.at \in Acting, NEW new, DiskOK(new), FreshOK(new, mem),
         NEW m, MemInv(m), m.at \in Acting, m.at \in Activating => mem.at \in Activating,
         m.for = mem.for, m.id = mem.id, m.again = mem.again, m.job = mem.job, m.jobId = mem.jobId,
         m.tried = mem.tried, m.serving = mem.serving,
         new.journal.op # "restore", ActOK(new, m), NEW n, mem.again => n > 0,
         m.at = "undo" /\ m.for = "open" => n > 0
  PROVE  Good(new, m, n)
<1>1. MemOK(mem)
  BY DEF Good
<1>2. /\ m.at \notin {"idle", "down", "sweep", "orphans"} \cup Installing \cup Failing \cup Recovering
      /\ m.at \notin Installed \cup {"commit", "apply", "replace", "swap", "dropReplaced", "clear"}
      /\ mem.at \in Activating \cup Finishing \cup Undoing
      /\ mem.at \in Activating \/ m.at \in Finishing \cup Undoing
  BY DEF Acting, Activating, Finishing, Undoing, Installing, Installed, Failing, Recovering
<1>3. mem.for \in {"open", "start"} /\ mem.id \in Accounts /\ ~mem.serving
      /\ (m.at \in Activating => mem.for = "open" /\ ~mem.again)
  BY <1>1, <1>2 DEF MemOK, Acting
<1>4. MemOK(m)
  BY <1>1, <1>2, <1>3 DEF MemOK
<1>5. RestOK(new, m)
  BY <1>2 DEF RestOK
<1>6. FreshOK(new, m)
  BY SameFresh
<1>7. FaultOK(new, m, n)
  BY DEF FaultOK
<1> QED BY <1>4, <1>5, <1>6, <1>7 DEF Good

LEMMA ActTry ==
  ASSUME OneFault, faults \in Nat, Good(disk, mem, faults), mem.at \in Activating,
         NEW new, DiskOK(new), new.journal.op = "activate", new.replaced = disk.replaced,
         {new.activated, new.applied, new.pending.id, new.journal.id} \subseteq Seen(disk, mem) \cup {None},
         NEW step \in {"check", "out", "in", "toDb", "tables", "toCleanup", "dropPrevious"},
         step = "check" => mem.moved = <<>>,
         step \in {"out", "in"} => InOf(mem.moved) # Folders,
         Try(new, Goto(step)),
         \A m : m.at = step /\ m.id = mem.id /\ m.moved = mem.moved => ActOK(new, m),
         IF new.activated = mem.id THEN DoneOK(new, mem.id) ELSE UndoOK(new, mem)
  PROVE  IInv'
<1>1. /\ MemOK(mem) /\ MemInv(mem) /\ mem.id \in Restores /\ mem.at # "down" /\ mem.at \in Acting
      /\ mem.at \notin Installing \cup Finishing \cup Undoing \cup {"sweep"}
  BY RestoreAssumption DEF Good, MemOK, Acting, Activating, Installing,
     Finishing, Undoing
<1>2. step \in Steppers /\ step \in Acting /\ step # "undo"
  BY DEF Steppers, Acting, Activating, Finishing
<1>3. Seen(new, mem) \subseteq Seen(disk, mem) \cup {None}
  BY DEF Seen
<1>4. FreshOK(new, mem)
  BY <1>1, <1>3, FreshKept DEF Good
<1>5. Stopped(new, mem)
  BY <1>1 DEF Stopped
<1> DEFINE m == Goto(step)
<1>6. m \in MemType
  BY <1>1, <1>2 DEF MemInv, MemType, Goto
<1>7. /\ m.at = step /\ m.for = mem.for /\ m.id = mem.id /\ m.again = mem.again
      /\ m.moved = mem.moved
      /\ m.job = mem.job /\ m.jobId = mem.jobId /\ m.tried = mem.tried /\ m.serving = mem.serving
  BY <1>1, GotoFields
<1>8. Try(new, m)
  OBVIOUS
<1> HIDE DEF m
<1>9. ActOK(new, m)
  BY <1>7
<1>10. mem.again => faults > 0
  BY DEF Good, FaultOK
<1>11. MemInv(m)
  BY <1>1, <1>6, <1>7 DEF MemInv
<1>12. Good(new, m, faults)
  BY <1>1, <1>2, <1>4, <1>7, <1>9, <1>10, <1>11, ActGood
<1> QED BY <1>1, <1>4, <1>5, <1>8, <1>12, TryOK

\* Noting something in the journal of an activation changes nothing else.
LEMMA ActJournal ==
  ASSUME Good(disk, mem, faults), mem.at \in Activating \ {"toCleanup"},
         NEW step \in JournalSteps, NEW moved \in MoveLists, Undoable(disk, mem.id, moved)
  PROVE  LET new == [disk EXCEPT !.journal = ActivateJournal(mem.id, step, moved)]
         IN /\ DiskOK(new) /\ new.journal = ActivateJournal(mem.id, step, moved)
            /\ new.journal.op = "activate" /\ new.journal.id = mem.id /\ new.journal.moved = moved
            /\ new.live = disk.live /\ new.pending = disk.pending /\ new.replaced = disk.replaced
            /\ new.activated = disk.activated /\ new.applied = disk.applied
            /\ new.previous = disk.previous /\ new.tables = disk.tables
            /\ Undoable(new, mem.id, moved)
<1> DEFINE j   == ActivateJournal(mem.id, step, moved)
           new == [disk EXCEPT !.journal = j]
<1>1. mem.id \in Restores /\ DiskOK(disk) /\ DiskInv(disk) /\ disk \in DiskType
  BY ActHere
<1>2. j \in Journals /\ j.op = "activate" /\ j.id = mem.id /\ j.moved = moved
  BY <1>1, ActivateJournalType DEF ActivateJournal
<1> HIDE DEF j
<1>3. DiskInv(new)
  BY <1>1, <1>2, NoteType
<1>4. /\ new.journal = j /\ new.live = disk.live /\ new.tables = disk.tables
      /\ new.activated = disk.activated /\ new.applied = disk.applied
      /\ new.previous = disk.previous /\ new.replaced = disk.replaced
      /\ new.next = disk.next /\ new.pending = disk.pending
  BY <1>1 DEF DiskType
<1> HIDE DEF new
<1>5. Undoable(new, mem.id, moved)
  BY <1>4 DEF Undoable, Untouched, TakenOut, TakenIn, Left, Kept, Home
<1>6. Package(new.pending)
  BY <1>1, <1>4 DEF DiskOK, TablesOK
<1>7. DiskOK(new)
  BY <1>2, <1>3, <1>4, <1>5, <1>6, ActHere, ActDisk
<1> QED BY <1>2, <1>4, <1>5, <1>7 DEF new, j

\* What has been seen of an activation.
LEMMA ActSeen ==
  ASSUME NEW d, d.activated = disk.activated, d.applied = disk.applied,
         d.pending.id = disk.pending.id, d.journal.id = mem.id
  PROVE  {d.activated, d.applied, d.pending.id, d.journal.id} \subseteq Seen(disk, mem) \cup {None}
  BY DEF Seen

LEMMA MigrateOK ==
  ASSUME OneFault, faults \in Nat, IInv, Migrate \/ Check \/ CheckFails
  PROVE  IInv'
<1>1. Good(disk, mem, faults) /\ mem.at \in {"migrate", "check"}
      /\ mem.at \in Activating \ {"toCleanup"}
  BY DEF IInv, Migrate, Check, CheckFails, Activating
<1>2. mem.moved = <<>> /\ MemInv(mem) /\ Undoable(disk, mem.id, <<>>) /\ disk.pending.id = mem.id
      /\ disk.activated # mem.id
  BY <1>1, ActHere DEF MemInv
<1>3. InOf(mem.moved) # Folders
  BY <1>2, NoMoves
<1>4. CASE CheckFails
  BY <1>1, <1>4, ThrowsOK DEF CheckFails
<1>5. ASSUME NEW step \in {"migrate", "files"}, NEW next \in {"check", "out"},
             step = "migrate" <=> next = "check",
             Try([disk EXCEPT !.journal = ActivateJournal(mem.id, step, <<>>)], Goto(next))
      PROVE  IInv'
  <2> DEFINE new == [disk EXCEPT !.journal = ActivateJournal(mem.id, step, <<>>)]
  <2>1. Try(new, Goto(next))
    BY <1>5
  <2>2. /\ DiskOK(new) /\ new.journal = ActivateJournal(mem.id, step, <<>>)
        /\ new.journal.op = "activate" /\ new.journal.id = mem.id
        /\ new.live = disk.live /\ new.pending = disk.pending /\ new.replaced = disk.replaced
        /\ new.activated = disk.activated /\ new.applied = disk.applied
        /\ Undoable(new, mem.id, <<>>)
    <3>1. step \in JournalSteps /\ <<>> \in MoveLists
      BY NoMoves DEF JournalSteps
    <3> QED BY <1>1, <1>2, <3>1, ActJournal
  <2> HIDE DEF new
  <2>3. {new.activated, new.applied, new.pending.id, new.journal.id} \subseteq Seen(disk, mem) \cup {None}
    BY <2>2, ActSeen
  <2>4. UndoOK(new, mem)
    BY <1>2, <2>2 DEF UndoOK
  <2>5. ASSUME NEW m, m.at = next, m.id = mem.id, m.moved = mem.moved PROVE ActOK(new, m)
    <3>1. new.journal = NotedOf(m)
      BY <1>2, <1>5, <2>2, <2>5 DEF NotedOf
    <3>2. \A f \in Folders : Settled(new, m, f)
      BY <1>2, <2>5, NoMoves DEF Settled
    <3> QED BY <1>2, <2>2, <2>5, <3>1, <3>2 DEF ActOK, Finishing
  <2> QED BY <1>1, <1>2, <1>3, <2>1, <2>2, <2>3, <2>4, <2>5, ActTry
<1>6. CASE Migrate
  BY <1>5, <1>6 DEF Migrate
<1>7. CASE Check
  BY <1>5, <1>7 DEF Check
<1> QED BY <1>4, <1>6, <1>7

\* A move that is only intended leaves undoMoves what it needs.
LEMMA IntendUndoable ==
  ASSUME NEW d, NEW r, NEW moved \in MoveLists, Undoable(d, r, moved), d.pending.id = r,
         NEW way \in {"in", "out"}, NEW f \in Folders, f \notin InOf(moved),
         way = "out" => f \notin OutOf(moved), way = "in" => d.pending.has[f] = r
  PROVE  Undoable(d, r, Append(moved, [way |-> way, folder |-> f]))
<1> DEFINE more == Append(moved, [way |-> way, folder |-> f])
<1>1. /\ Orderly(more)
      /\ InOf(more) = InOf(moved) \cup (IF way = "in" THEN {f} ELSE {})
      /\ OutOf(more) = OutOf(moved) \cup (IF way = "out" THEN {f} ELSE {})
  BY MoreMoves DEF Undoable
<1> HIDE DEF more
<1>2. ASSUME NEW g \in Folders
      PROVE  Untouched(d, r, more, g) \/ TakenOut(d, r, more, g) \/ TakenIn(d, r, more, g)
  <2>1. Untouched(d, r, moved, g) \/ TakenOut(d, r, moved, g) \/ TakenIn(d, r, moved, g)
    BY DEF Undoable
  <2>2. CASE g # f
    BY <1>1, <2>1, <2>2 DEF Untouched, TakenOut, TakenIn, Left
  <2>3. CASE g = f
    BY <1>1, <2>1, <2>3 DEF Untouched, TakenOut, TakenIn
  <2> QED BY <2>2, <2>3
<1> QED BY <1>1, <1>2 DEF Undoable, more

LEMMA IntendOK ==
  ASSUME OneFault, faults \in Nat, Good(disk, mem, faults), NEW way \in {"out", "in"}, mem.at = way,
         NEW new, DiskOK(new), new.journal = disk.journal, new.live = disk.live,
         new.tables = disk.tables, new.previous = disk.previous,
         new.activated = disk.activated, new.applied = disk.applied, new.replaced = disk.replaced,
         new.pending.id = disk.pending.id, new.pending.has[Current] = mem.id,
         way = "out" => Current \notin OutOf(mem.moved) /\ disk.live[Current] # Gone,
         Intend(way, new, IF way = "in" THEN "inMove" ELSE "outMove")
  PROVE  IInv'
<1> DEFINE c     == Current
           moved == Append(mem.moved, [way |-> way, folder |-> c])
           noted == [new EXCEPT !.journal = ActivateJournal(mem.id, "files", moved)]
           after == IF way = "in" THEN "inMove" ELSE "outMove"
           go(at) == [[mem EXCEPT !.moved = moved] EXCEPT !.at = at]
<1>1. mem.at \in Activating \ {"toCleanup"} /\ mem.at \in Acting /\ mem.at # "down"
  BY DEF Activating, Acting
<1>2. TypeInv /\ mem.at \in {"out", "outMove", "in"} /\ "files" \in JournalSteps
  BY DEF Good, DiskOK, MemOK, TypeInv, JournalSteps
<1>3. c \in Folders /\ c \notin InOf(mem.moved) /\ c = CurrentOf(mem)
  BY <1>2, CurrentIn DEF Current, MovedOf, CurrentOf, InOf
<1>4. /\ mem.moved \in MoveLists /\ Orderly(mem.moved) /\ mem.id \in Restores /\ mem \in MemType
      /\ Undoable(disk, mem.id, mem.moved) /\ disk.pending.id = mem.id /\ disk.activated # mem.id
      /\ mem.id \in Accounts
  BY <1>1, ActHere DEF Undoable
<1>5. /\ disk.journal = NotedOf(mem) /\ disk.journal.op = "activate" /\ disk.journal.id = mem.id
      /\ disk.journal.moved = mem.moved
  BY <1>1 DEF Good, ActOK, NotedOf, ActivateJournal
<1>6. /\ moved \in MoveLists /\ moved # <<>> /\ Orderly(moved)
      /\ InOf(moved) = InOf(mem.moved) \cup (IF way = "in" THEN {c} ELSE {})
      /\ OutOf(moved) = OutOf(mem.moved) \cup (IF way = "out" THEN {c} ELSE {})
      /\ moved[Len(moved)] = [way |-> way, folder |-> c]
  BY <1>3, <1>4, MoreMoves
<1>7. way = "in" => /\ Opened(disk, mem, c)
                    /\ disk.pending.has[c] = mem.id
  BY <1>1, <1>3 DEF Good, ActOK, Opened
<1>8. \A f \in Folders \ {c} : Settled(disk, mem, f)
  BY <1>1, <1>3 DEF Good, ActOK
<1>9. Undoable(disk, mem.id, moved)
  BY <1>3, <1>4, <1>7, IntendUndoable
<1>10. Undoable(new, mem.id, moved)
  <2>1. Undoable(new, mem.id, mem.moved)
    BY <1>4, <1>5 DEF DiskOK, FoldersOK
  <2> QED BY <1>3, <1>4, <2>1, IntendUndoable
<1>11. \A at : /\ go(at).at = at /\ go(at).moved = moved /\ go(at).id = mem.id
               /\ go(at).for = mem.for /\ go(at).again = mem.again /\ go(at).job = mem.job
               /\ go(at).jobId = mem.jobId /\ go(at).tried = mem.tried
               /\ go(at).serving = mem.serving
               /\ at \in Steppers => go(at) \in MemType
  BY <1>4, <1>6 DEF MemType
<1>12. (disk' = noted /\ mem' = go(after) /\ faults' = faults)
       \/ (disk' \in {disk, new, noted} /\ mem' = go("undo") /\ faults' = faults + 1)
  BY DEF Intend
<1> HIDE DEF moved, noted, after, c
<1>13. /\ noted.journal = ActivateJournal(mem.id, "files", moved) /\ noted.live = disk.live
       /\ noted.tables = disk.tables /\ noted.previous = disk.previous
       /\ noted.activated = disk.activated /\ noted.applied = disk.applied
       /\ noted.replaced = disk.replaced /\ noted.next = new.next /\ noted.pending = new.pending
       /\ noted.journal.op = "activate" /\ noted.journal.id = mem.id /\ noted.journal.moved = moved
  BY DEF noted, DiskOK, DiskInv, DiskType, ActivateJournal
<1>14. Undoable(noted, mem.id, moved)
  BY <1>10, <1>13 DEF Undoable, Untouched, TakenOut, TakenIn, Left, Kept, Home
<1>15. DiskOK(noted)
  <2>1. DiskInv(noted)
    BY <1>2, <1>4, <1>6, ActivateJournalType, NoteType DEF DiskOK, noted
  <2>2. Package(noted.pending)
    BY <1>13 DEF DiskOK, TablesOK
  <2>3. new.next = disk.next
    BY <1>5 DEF Good, DiskOK, NextOK
  <2>4. DiskOK(disk)
    BY DEF Good
  <2> QED BY <1>4, <1>5, <1>13, <1>14, <2>1, <2>2, <2>3, <2>4, ActDisk
<1>16. FreshOK(disk, mem) /\ FreshOK(new, mem) /\ FreshOK(noted, mem)
  BY <1>5, <1>13 DEF Good, FreshOK, Unseen, Seen
<1>17. ASSUME NEW at \in {after, "undo"} PROVE MemInv(go(at)) /\ at \in Acting /\ at # "down"
  <2>1. /\ at \in {"inMove", "outMove", "undo"} /\ (at = "outMove" => way = "out")
    BY DEF after
  <2>2. at \in Steppers /\ at \in Acting
    BY <2>1 DEF Steppers, Acting, Activating, Undoing
  <2>3. mem.job # "none" => mem.jobId \in Restores
    BY DEF Good, MemOK, MemInv
  <2>4. at = "outMove" => InOf(moved) # Folders
    BY <1>2, <1>6, <2>1 DEF TypeInv, MemInv
  <2> HIDE DEF go
  <2> QED BY <1>4, <1>6, <1>11, <2>1, <2>2, <2>3, <2>4 DEF MemInv
<1>18. CASE disk' = noted /\ mem' = go(after) /\ faults' = faults
  <2> DEFINE m == go(after)
  <2>1. /\ m.at = after /\ m.moved = moved /\ m.id = mem.id /\ MemInv(m) /\ m.at \in Acting
        /\ m.for = mem.for /\ m.again = mem.again /\ m.job = mem.job
        /\ m.jobId = mem.jobId /\ m.tried = mem.tried /\ m.serving = mem.serving
        /\ disk' = noted /\ mem' = m /\ faults' = faults
    BY <1>11, <1>17, <1>18
  <2> HIDE DEF m, go
  <2>2. noted.journal = NotedOf(m) /\ noted.activated # m.id /\ noted.pending.id = m.id
    BY <1>4, <1>13, <2>1 DEF NotedOf, after
  <2>3. \A f \in Folders \ {c} : Settled(noted, m, f)
    BY <1>6, <1>8, <1>13, <2>1 DEF Settled
  <2>4. LastOf(m) = [way |-> way, folder |-> c]
    BY <1>6, <2>1 DEF LastOf
  <2>5. ActOK(noted, m)
    <3>1. CASE way = "out"
      <4>1. CurrentOf(m) = c
        BY <1>3, <1>6, <2>1, <3>1 DEF CurrentOf
      <4>2. noted.live[c] # Gone /\ noted.pending.has[c] = mem.id
        BY <1>13, <3>1 DEF c
      <4>3. /\ m.at = "outMove" /\ m.moved # <<>>
            /\ LastOf(m) = [way |-> "out", folder |-> CurrentOf(m)]
            /\ noted.live[CurrentOf(m)] # Gone /\ noted.pending.has[CurrentOf(m)] = m.id
            /\ \A f \in Folders \ {CurrentOf(m)} : Settled(noted, m, f)
        BY <1>6, <2>1, <2>3, <2>4, <3>1, <4>1, <4>2 DEF after
      <4> QED BY <2>2, <4>3 DEF ActOK, Activating, Finishing
    <3>2. CASE way = "in"
      <4>1. Opened(noted, m, c)
        <5>1. noted.pending.has[c] = mem.id
          BY <1>13 DEF c
        <5>2. Left(disk, mem.id, mem.moved, c) /\ disk.live[c] = Gone
          BY <1>7, <3>2 DEF Opened
        <5>3. Left(noted, mem.id, moved, c)
          BY <1>6, <1>13, <3>2, <5>2 DEF Left, Kept
        <5> QED BY <1>13, <2>1, <5>1, <5>2, <5>3 DEF Opened
      <4>2. /\ m.at = "inMove" /\ m.moved # <<>>
            /\ LastOf(m).way = "in" /\ LastOf(m).folder = c
        BY <1>6, <2>1, <2>4, <3>2 DEF after
      <4> QED BY <2>2, <2>3, <4>1, <4>2 DEF ActOK, Activating, Finishing
    <3> QED BY <3>1, <3>2
  <2>6. (mem.again => faults > 0) /\ m.at # "undo"
    BY <2>1 DEF Good, FaultOK, after
  <2> QED BY <1>1, <1>13, <1>15, <1>16, <2>1, <2>5, <2>6, ActGood DEF IInv
<1>19. CASE disk' \in {disk, new, noted} /\ mem' = go("undo") /\ faults' = faults + 1
  <2> DEFINE m == go("undo")
  <2>1. /\ m.at = "undo" /\ m.moved = moved /\ m.id = mem.id /\ MemInv(m) /\ m.at \in Acting
        /\ m.for = mem.for /\ m.again = mem.again /\ m.job = mem.job
        /\ m.jobId = mem.jobId /\ m.tried = mem.tried /\ m.serving = mem.serving
        /\ disk' \in {disk, new, noted} /\ mem' = m /\ faults' = faults + 1
    BY <1>11, <1>17, <1>19
  <2> HIDE DEF m, go
  <2>2. PICK d \in {disk, new, noted} : disk' = d
    BY <2>1
  <2>3. /\ DiskOK(d) /\ FreshOK(d, mem) /\ Undoable(d, mem.id, moved) /\ d.activated # mem.id
        /\ d.journal.op = "activate" /\ d.journal.id = mem.id
    BY <1>4, <1>5, <1>9, <1>10, <1>13, <1>14, <1>15, <1>16 DEF Good
  <2>4. ActOK(d, m)
    BY <2>1, <2>3 DEF ActOK, UndoOK, Activating, Finishing
  <2>5. Good(d, m, faults + 1)
    BY <1>1, <2>1, <2>3, <2>4, ActGood DEF Activating
  <2> QED BY <2>1, <2>2, <2>5 DEF IInv
<1> QED BY <1>12, <1>18, <1>19

\* What is done to one folder leaves the others to undoMoves as they were.
LEMMA FolderChanged ==
  ASSUME NEW d, NEW e, NEW r, NEW moved, NEW less, Undoable(d, r, moved), Orderly(less),
         less # <<>> => e.pending.id = r,
         NEW f \in Folders, e.tables = d.tables,
         \A g \in Folders \ {f} : /\ e.live[g] = d.live[g] /\ e.pending.has[g] = d.pending.has[g]
                                  /\ e.previous[r][g] = d.previous[r][g],
         InOf(less) \ {f} = InOf(moved) \ {f}, OutOf(less) \ {f} = OutOf(moved) \ {f},
         Untouched(e, r, less, f) \/ TakenOut(e, r, less, f) \/ TakenIn(e, r, less, f)
  PROVE  Undoable(e, r, less)
<1>1. ASSUME NEW g \in Folders \ {f}
      PROVE  Untouched(e, r, less, g) \/ TakenOut(e, r, less, g) \/ TakenIn(e, r, less, g)
  <2>1. Untouched(d, r, moved, g) \/ TakenOut(d, r, moved, g) \/ TakenIn(d, r, moved, g)
    BY DEF Undoable
  <2>2. (g \in InOf(less) <=> g \in InOf(moved)) /\ (g \in OutOf(less) <=> g \in OutOf(moved))
    OBVIOUS
  <2> QED BY <2>1, <2>2 DEF Untouched, TakenOut, TakenIn, Left, Kept, Home
<1> QED BY <1>1 DEF Undoable

\* The folder a move is at, which has not been moved in.
LEMMA AtCurrent ==
  ASSUME Good(disk, mem, faults), mem.at \in {"out", "outMove", "in"}
  PROVE  /\ Current \in Folders /\ Current \notin InOf(mem.moved) /\ Current = CurrentOf(mem)
         /\ Current \in Parts /\ Current # "db"
         /\ InOf(mem.moved) # Folders /\ mem.at \in Activating \ {"toCleanup"}
         /\ disk.journal = NotedOf(mem) /\ disk.journal.op = "activate" /\ disk.journal.id = mem.id
         /\ disk.journal.moved = mem.moved
<1>1. TypeInv /\ MemInv(mem) /\ mem.at \in Activating \ {"toCleanup", "migrate"}
  BY DEF Good, DiskOK, MemOK, TypeInv, Activating
<1>2. Current \in Folders /\ Current \notin InOf(mem.moved) /\ Current = CurrentOf(mem)
  BY <1>1, CurrentIn DEF Current, MovedOf, CurrentOf, InOf
<1>3. disk.journal = NotedOf(mem)
  BY <1>1 DEF Good, ActOK
<1> QED BY <1>1, <1>2, <1>3, RestoreAssumption DEF MemInv, NotedOf,
           ActivateJournal, Parts

LEMMA MoveOutOK ==
  ASSUME OneFault, faults \in Nat, IInv, MoveOut
  PROVE  IInv'
<1> DEFINE c == Current
           new == [disk EXCEPT !.pending.has[c] = IF @ = Gone THEN mem.id ELSE @]
<1>1. Good(disk, mem, faults) /\ mem.at = "out" /\ mem.at \in Activating \ {"toCleanup"}
  BY DEF IInv, MoveOut, Activating
<1>2. /\ c \in Folders /\ c \notin InOf(mem.moved) /\ c = CurrentOf(mem)
      /\ c \in Parts /\ c # "db" /\ InOf(mem.moved) # Folders
      /\ disk.journal = NotedOf(mem) /\ disk.journal.op = "activate" /\ disk.journal.id = mem.id
      /\ disk.journal.moved = mem.moved
  BY <1>1, AtCurrent
<1>3. /\ DiskOK(disk) /\ DiskInv(disk) /\ disk \in DiskType /\ mem.id \in Data
      /\ mem.id \in Accounts /\ mem.id # Gone /\ disk.activated # mem.id
      /\ disk.pending.id = mem.id /\ disk.pending.has["db"] = mem.id
      /\ disk.tables \notin {Gone, Fresh} /\ disk.next = Absent
      /\ \A k \in Parts : disk.pending.has[k] \in {Gone, mem.id}
      /\ Undoable(disk, mem.id, mem.moved) /\ "db" \in Parts
  BY <1>1, ActHere
<1>4. \A f \in Folders : Settled(disk, mem, f)
  BY <1>1 DEF Good, ActOK
<1>5. c \notin OutOf(mem.moved)
  BY <1>2, <1>4 DEF Settled
<1>6. Untouched(disk, mem.id, mem.moved, c)
  BY <1>2, <1>3, <1>5 DEF Undoable, TakenOut, TakenIn
<1> HIDE DEF c
<1>7. /\ new.pending = [disk.pending EXCEPT !.has[c] = IF @ = Gone THEN mem.id ELSE @]
      /\ new.journal = disk.journal /\ new.live = disk.live /\ new.tables = disk.tables
      /\ new.activated = disk.activated /\ new.applied = disk.applied
      /\ new.previous = disk.previous /\ new.replaced = disk.replaced
      /\ new.next = disk.next
  BY <1>3 DEF DiskType
<1>8. /\ new.pending.id = mem.id
      /\ new.pending.has = [disk.pending.has EXCEPT ![c] = IF @ = Gone THEN mem.id ELSE @]
      /\ new.pending \in Packages
  BY <1>2, <1>3, <1>7 DEF DiskType, Packages
<1>9. DiskInv(new)
  BY <1>3, <1>8 DEF DiskInv, DiskType
<1> HIDE DEF new
<1>10. /\ new.pending.has[c] = mem.id /\ new.pending.has["db"] = mem.id
       /\ \A k \in Parts : new.pending.has[k] \in {Gone, mem.id}
       /\ \A k \in Parts \ {c} : new.pending.has[k] = disk.pending.has[k]
  BY <1>2, <1>3, <1>8 DEF DiskType, Packages
<1>11. Package(new.pending)
  BY <1>3, <1>8, <1>10 DEF Package
<1>12. Undoable(new, mem.id, mem.moved)
  <2>1. Untouched(new, mem.id, mem.moved, c)
    BY <1>2, <1>6, <1>7 DEF Untouched, Home
  <2>2. Orderly(mem.moved) /\ Folders \subseteq Parts
    BY <1>3 DEF Undoable, Parts
  <2> QED BY <1>2, <1>3, <1>7, <1>8, <1>10, <2>1, <2>2, FolderChanged, ZenonT(60)
<1>13. DiskOK(new)
  BY <1>2, <1>3, <1>7, <1>8, <1>9, <1>11, <1>12, ActDisk
<1>14. CASE disk.live[c] = Gone
  <2>1. Try(new, Goto("in"))
    BY <1>14 DEF MoveOut, Sourced, new, c
  <2>2. Left(new, mem.id, mem.moved, c)
    BY <1>3, <1>5, <1>6, <1>7, <1>14 DEF Untouched, Home, Left
  <2>3. ASSUME NEW m, m.at = "in", m.id = mem.id, m.moved = mem.moved PROVE ActOK(new, m)
    <3>1. new.journal = NotedOf(m)
      BY <1>1, <1>2, <1>7, <2>3 DEF NotedOf
    <3>2. CurrentOf(m) = c /\ Opened(new, m, c)
      BY <1>2, <1>7, <1>10, <1>14, <2>2, <2>3 DEF CurrentOf, Opened
    <3>3. \A f \in Folders : Settled(new, m, f)
      BY <1>4, <1>7, <2>3 DEF Settled
    <3> QED BY <1>3, <1>7, <1>8, <2>3, <3>1, <3>2, <3>3 DEF ActOK, Finishing
  <2>4. UndoOK(new, mem)
    BY <1>2, <1>3, <1>7, <1>12 DEF UndoOK
  <2>5. {new.activated, new.applied, new.pending.id, new.journal.id} \subseteq Seen(disk, mem) \cup {None}
    BY <1>2, <1>3, <1>7, <1>8, ActSeen
  <2> QED BY <1>1, <1>2, <1>3, <1>7, <1>13, <2>1, <2>3, <2>4, <2>5, ActTry
<1>15. CASE disk.live[c] # Gone
  <2>1. Intend("out", new, "outMove")
    BY <1>15 DEF MoveOut, Sourced, new, c
  <2> QED BY <1>1, <1>3, <1>5, <1>7, <1>8, <1>10, <1>13, <1>15, <2>1, IntendOK DEF c
<1> QED BY <1>14, <1>15

LEMMA RenameOutOK ==
  ASSUME OneFault, faults \in Nat, IInv, RenameOut
  PROVE  IInv'
<1> DEFINE c == Current
           new == [disk EXCEPT !.previous[mem.id][c] = disk.live[c], !.live[c] = Gone]
<1>1. Good(disk, mem, faults) /\ mem.at = "outMove" /\ mem.at \in Activating \ {"toCleanup"}
  BY DEF IInv, RenameOut, Activating
<1>2. /\ c \in Folders /\ c \notin InOf(mem.moved) /\ c = CurrentOf(mem)
      /\ c \in Parts /\ c # "db" /\ InOf(mem.moved) # Folders
      /\ disk.journal = NotedOf(mem) /\ disk.journal.op = "activate" /\ disk.journal.id = mem.id
      /\ disk.journal.moved = mem.moved
  BY <1>1, AtCurrent
<1>3. /\ DiskOK(disk) /\ DiskInv(disk) /\ disk \in DiskType /\ mem.id \in Restores
      /\ mem.id \in Accounts /\ disk.activated # mem.id
      /\ disk.pending.id = mem.id
      /\ disk.tables \notin {Gone, Fresh} /\ disk.next = Absent
      /\ Undoable(disk, mem.id, mem.moved)
  BY <1>1, ActHere
<1>4. /\ mem.moved # <<>> /\ LastOf(mem) = [way |-> "out", folder |-> c]
      /\ disk.live[c] # Gone /\ disk.pending.has[c] = mem.id
      /\ \A f \in Folders \ {c} : Settled(disk, mem, f)
  BY <1>1, <1>2 DEF Good, ActOK
<1>5. c \in OutOf(mem.moved)
  <2>1. mem.moved \in MoveLists
    BY <1>1, ActHere
  <2>2. LastOf(mem).way = "out" /\ LastOf(mem).folder = c
    BY <1>4
  <2> QED BY <1>4, <2>1, <2>2, Moving DEF OutOf, LastOf
<1>6. Untouched(disk, mem.id, mem.moved, c)
  BY <1>2, <1>3, <1>4 DEF Undoable, TakenOut, TakenIn
<1>7. Try(new, Goto("in"))
  BY DEF RenameOut
<1> HIDE DEF c
<1>8. /\ new.live = [disk.live EXCEPT ![c] = Gone]
      /\ new.previous = [disk.previous EXCEPT ![mem.id][c] = disk.live[c]]
      /\ new.pending = disk.pending
      /\ new.journal = disk.journal /\ new.tables = disk.tables
      /\ new.activated = disk.activated /\ new.applied = disk.applied
      /\ new.replaced = disk.replaced /\ new.next = disk.next
  BY <1>3 DEF DiskType
<1>9. /\ new.live \in [Folders -> Data] /\ new.previous \in [Restores -> [Folders -> Data]]
      /\ new.live[c] = Gone /\ new.previous[mem.id][c] = disk.live[c]
      /\ \A g \in Folders \ {c} : /\ new.live[g] = disk.live[g]
                                   /\ new.previous[mem.id][g] = disk.previous[mem.id][g]
      /\ \A q \in Restores \ {mem.id} : new.previous[q] = disk.previous[q]
  BY <1>2, <1>3, <1>8 DEF DiskType, Data
<1>10. DiskInv(new)
  BY <1>3, <1>9 DEF DiskInv, DiskType
<1> HIDE DEF new
<1>11. Kept(new, mem.id, c)
  BY <1>4, <1>6, <1>8, <1>9 DEF Kept, Untouched, Home
<1>12. Undoable(new, mem.id, mem.moved)
  <2>1. TakenOut(new, mem.id, mem.moved, c)
    BY <1>4, <1>5, <1>8, <1>9, <1>11 DEF TakenOut
  <2>2. Orderly(mem.moved)
    BY <1>3 DEF Undoable
  <2> QED BY <1>2, <1>3, <1>8, <1>9, <2>1, <2>2, FolderChanged
<1>13. DiskOK(new)
  <2>1. Package(new.pending)
    BY <1>3, <1>8 DEF DiskOK, TablesOK
  <2> QED BY <1>2, <1>3, <1>8, <1>9, <1>10, <1>12, <2>1, ActDisk
<1>14. ASSUME NEW m, m.at = "in", m.id = mem.id, m.moved = mem.moved PROVE ActOK(new, m)
  <2>1. new.journal = NotedOf(m)
    BY <1>1, <1>2, <1>8, <1>14 DEF NotedOf
  <2>2. CurrentOf(m) = c /\ Opened(new, m, c)
    BY <1>2, <1>4, <1>5, <1>8, <1>9, <1>11, <1>14 DEF CurrentOf, Opened, Left
  <2>3. \A f \in Folders \ {c} : Settled(new, m, f)
    BY <1>4, <1>9, <1>14 DEF Settled
  <2> QED BY <1>3, <1>8, <1>14, <2>1, <2>2, <2>3 DEF ActOK, Finishing
<1>15. UndoOK(new, mem)
  BY <1>2, <1>3, <1>8, <1>12 DEF UndoOK
<1>16. {new.activated, new.applied, new.pending.id, new.journal.id} \subseteq Seen(disk, mem) \cup {None}
  BY <1>2, <1>8, ActSeen
<1> QED BY <1>1, <1>2, <1>3, <1>7, <1>8, <1>13, <1>14, <1>15, <1>16, ActTry

LEMMA MoveInOK ==
  ASSUME OneFault, faults \in Nat, IInv, MoveIn
  PROVE  IInv'
<1>1. Good(disk, mem, faults) /\ mem.at = "in" /\ Intend("in", disk, "inMove")
  BY DEF IInv, MoveIn
<1>2. Current = CurrentOf(mem)
  BY <1>1, AtCurrent
<1>3. disk.pending.has[Current] = mem.id
  BY <1>1, <1>2 DEF Good, ActOK, Opened
<1> QED BY <1>1, <1>3, IntendOK DEF Good

LEMMA RenameInOK ==
  ASSUME OneFault, faults \in Nat, IInv, RenameIn
  PROVE  IInv'
<1> DEFINE f == LastOf(mem).folder
           new == [disk EXCEPT !.live[f] = disk.pending.has[f], !.pending.has[f] = Gone]
           next == IF InOf(mem.moved) = Folders THEN "toDb" ELSE "out"
<1>1. Good(disk, mem, faults) /\ mem.at = "inMove" /\ mem.at \in Activating \ {"toCleanup"}
  BY DEF IInv, RenameIn, Activating
<1>2. /\ mem.moved # <<>> /\ LastOf(mem).way = "in" /\ Opened(disk, mem, f)
      /\ \A g \in Folders \ {f} : Settled(disk, mem, g)
      /\ disk.journal = NotedOf(mem)
  BY <1>1 DEF Good, ActOK
<1>3. /\ DiskOK(disk) /\ DiskInv(disk) /\ disk \in DiskType /\ mem.id \in Restores
      /\ mem.id \in Accounts /\ disk.activated # mem.id /\ mem.id # Gone
      /\ disk.pending.id = mem.id /\ disk.pending.has["db"] = mem.id
      /\ disk.next = Absent /\ mem.moved \in MoveLists
      /\ \A k \in Parts : disk.pending.has[k] \in {Gone, mem.id}
      /\ Undoable(disk, mem.id, mem.moved) /\ "db" \in Parts /\ "db" \notin Folders
  BY <1>1, ActHere
<1>4. f \in Folders /\ f \in InOf(mem.moved) /\ f \in Parts /\ f # "db"
  <2>1. Len(mem.moved) \in DOMAIN mem.moved /\ f \in Folders
    BY <1>2, <1>3, Moving DEF LastOf
  <2> QED BY <1>2, <1>3, <2>1 DEF InOf, LastOf, Parts
<1>5. /\ disk.journal.op = "activate" /\ disk.journal.id = mem.id /\ disk.journal.moved = mem.moved
  BY <1>2 DEF NotedOf, ActivateJournal
<1>6. Try(new, Goto(next))
  BY DEF RenameIn, MovedOf, InOf, LastOf
<1> HIDE DEF f
<1>7. /\ new.live = [disk.live EXCEPT ![f] = disk.pending.has[f]]
      /\ new.pending = [disk.pending EXCEPT !.has[f] = Gone]
      /\ new.previous = disk.previous
      /\ new.journal = disk.journal /\ new.tables = disk.tables
      /\ new.activated = disk.activated /\ new.applied = disk.applied
      /\ new.replaced = disk.replaced /\ new.next = disk.next
  BY <1>3 DEF DiskType
<1>8. /\ new.live \in [Folders -> Data] /\ new.pending \in Packages
      /\ new.pending.id = mem.id /\ new.pending.has = [disk.pending.has EXCEPT ![f] = Gone]
  BY <1>3, <1>4, <1>7 DEF DiskType, Packages, Data
<1>9. DiskInv(new)
  BY <1>3, <1>8 DEF DiskInv, DiskType
<1> HIDE DEF new
<1>10. /\ new.live[f] = mem.id /\ new.pending.has[f] = Gone /\ new.pending.has["db"] = mem.id
       /\ \A k \in Parts : new.pending.has[k] \in {Gone, mem.id}
       /\ \A g \in Folders \ {f} : /\ new.live[g] = disk.live[g]
                                    /\ new.pending.has[g] = disk.pending.has[g]
  <2>1. disk.pending.has[f] = mem.id
    BY <1>2 DEF Opened
  <2>2. \A k \in Parts : new.pending.has[k] = (IF k = f THEN Gone ELSE disk.pending.has[k])
    BY <1>3, <1>4, <1>8 DEF DiskType, Packages
  <2>3. new.live[f] = mem.id /\ \A g \in Folders \ {f} : new.live[g] = disk.live[g]
    BY <1>3, <1>4, <1>7, <2>1 DEF DiskType
  <2>4. Folders \subseteq Parts
    BY DEF Parts
  <2> QED BY <1>3, <1>4, <2>2, <2>3, <2>4
<1>11. Package(new.pending)
  BY <1>3, <1>8, <1>10 DEF Package
<1>12. Undoable(new, mem.id, mem.moved)
  <2>1. Left(new, mem.id, mem.moved, f)
    BY <1>2, <1>7 DEF Opened, Left, Kept
  <2>2. TakenIn(new, mem.id, mem.moved, f)
    BY <1>4, <1>10, <2>1 DEF TakenIn
  <2>3. Orderly(mem.moved)
    BY <1>3 DEF Undoable
  <2>4. /\ new.tables = disk.tables /\ new.pending.id = mem.id
        /\ \A g \in Folders \ {f} : /\ new.live[g] = disk.live[g]
                                     /\ new.pending.has[g] = disk.pending.has[g]
                                     /\ new.previous[mem.id][g] = disk.previous[mem.id][g]
    BY <1>7, <1>8, <1>10
  <2> QED BY <1>3, <1>4, <2>2, <2>3, <2>4, FolderChanged
<1>13. DiskOK(new)
  BY <1>3, <1>5, <1>7, <1>8, <1>9, <1>11, <1>12, ActDisk
<1>14. ASSUME NEW m, m.at = next, m.id = mem.id, m.moved = mem.moved PROVE ActOK(new, m)
  <2>1. new.journal = NotedOf(m)
    BY <1>1, <1>2, <1>7, <1>14 DEF NotedOf
  <2>2. \A g \in Folders : Settled(new, m, g)
    BY <1>2, <1>4, <1>10, <1>14 DEF Settled
  <2>3. next = "toDb" => \A g \in Folders : new.live[g] = m.id
    BY <1>14, <2>2 DEF Settled
  <2> HIDE DEF next
  <2>4. m.at \in {"toDb", "out"}
    BY <1>14 DEF next
  <2> QED BY <1>3, <1>7, <1>8, <1>14, <2>1, <2>2, <2>3, <2>4 DEF ActOK, Finishing
<1>15. UndoOK(new, mem)
  BY <1>3, <1>5, <1>7, <1>12 DEF UndoOK
<1>16. {new.activated, new.applied, new.pending.id, new.journal.id} \subseteq Seen(disk, mem) \cup {None}
  BY <1>3, <1>5, <1>7, <1>8, ActSeen
<1>17. next \in {"toDb", "out"} /\ (next = "out" => InOf(mem.moved) # Folders)
  OBVIOUS
<1> HIDE DEF next
<1> QED BY <1>1, <1>3, <1>5, <1>6, <1>7, <1>13, <1>14, <1>15, <1>16, <1>17,
           ActTry, ZenonT(60)

LEMMA ToDbOK ==
  ASSUME OneFault, faults \in Nat, IInv, ToDb
  PROVE  IInv'
<1>1. Good(disk, mem, faults) /\ mem.at = "toDb" /\ mem.at \in Activating \ {"toCleanup"}
  BY DEF IInv, ToDb, Activating
<1>2. \A f \in Folders : disk.live[f] = mem.id
  BY <1>1 DEF Good, ActOK
<1>3. /\ mem.id \in Accounts /\ disk.activated # mem.id /\ disk.pending.id = mem.id
      /\ mem.moved \in MoveLists /\ Undoable(disk, mem.id, mem.moved) /\ "db" \in JournalSteps
  BY <1>1, ActHere DEF JournalSteps
<1> DEFINE new == [disk EXCEPT !.journal = ActivateJournal(mem.id, "db", mem.moved)]
<1>4. Try(new, Goto("tables"))
  BY DEF ToDb
<1>5. /\ DiskOK(new) /\ new.journal = ActivateJournal(mem.id, "db", mem.moved)
      /\ new.journal.op = "activate" /\ new.journal.id = mem.id
      /\ new.live = disk.live /\ new.pending = disk.pending /\ new.replaced = disk.replaced
      /\ new.activated = disk.activated /\ new.applied = disk.applied
      /\ Undoable(new, mem.id, mem.moved)
  BY <1>1, <1>3, ActJournal
<1> HIDE DEF new
<1>6. {new.activated, new.applied, new.pending.id, new.journal.id} \subseteq Seen(disk, mem) \cup {None}
  BY <1>5, ActSeen
<1>7. UndoOK(new, mem)
  BY <1>3, <1>5 DEF UndoOK
<1>8. ASSUME NEW m, m.at = "tables", m.id = mem.id, m.moved = mem.moved PROVE ActOK(new, m)
  <2>1. new.journal = NotedOf(m)
    BY <1>5, <1>8 DEF NotedOf
  <2> QED BY <1>2, <1>3, <1>5, <1>8, <2>1 DEF ActOK, Finishing
<1> QED BY <1>1, <1>3, <1>4, <1>5, <1>6, <1>7, <1>8, ActTry

LEMMA ReplaceTablesOK ==
  ASSUME OneFault, faults \in Nat, IInv, ReplaceTables
  PROVE  IInv'
<1>1. Good(disk, mem, faults) /\ mem.at = "tables" /\ mem.at \in Activating \ {"toCleanup"}
  BY DEF IInv, ReplaceTables, Activating
<1>2. /\ \A f \in Folders : disk.live[f] = mem.id
      /\ disk.journal = NotedOf(mem)
  BY <1>1 DEF Good, ActOK, Activating
<1>3. /\ mem.id \in Accounts /\ mem.id \in Restores /\ mem.id \in Data
      /\ disk.activated # mem.id /\ disk.pending.id = mem.id
      /\ DiskOK(disk) /\ DiskInv(disk) /\ disk \in DiskType /\ disk.pending.has["db"] = mem.id
      /\ mem.id # None /\ disk.next = Absent
  BY <1>1, ActHere
<1>4. disk.journal.op = "activate" /\ disk.journal.id = mem.id
  BY <1>2 DEF NotedOf, ActivateJournal
<1> DEFINE new == [disk EXCEPT !.tables = disk.pending.has["db"], !.activated = mem.id]
<1>5. Try(new, Goto("toCleanup"))
  BY DEF ReplaceTables
<1>6. /\ new.tables = mem.id /\ new.activated = mem.id
      /\ new.live = disk.live /\ new.previous = disk.previous /\ new.pending = disk.pending
      /\ new.journal = disk.journal /\ new.applied = disk.applied
      /\ new.replaced = disk.replaced /\ new.next = disk.next
  BY <1>3 DEF DiskType
<1>7. DiskInv(new)
  BY <1>3 DEF DiskInv, DiskType, Ids
<1> HIDE DEF new
<1>8. TablesOK(new) /\ JournalOK(new) /\ NextOK(new) /\ FoldersOK(new)
  BY <1>2, <1>3, <1>4, <1>6 DEF DiskOK, TablesOK, JournalOK, NextOK, FoldersOK, Replaced
<1>9. DiskOK(new) /\ DoneOK(new, mem.id)
  BY <1>3, <1>4, <1>6, <1>7, <1>8 DEF DiskOK, DoneOK
<1>10. {new.activated, new.applied, new.pending.id, new.journal.id} \subseteq Seen(disk, mem) \cup {None}
  BY <1>6 DEF Seen
<1>11. ASSUME NEW m, m.at = "toCleanup", m.id = mem.id, m.moved = mem.moved PROVE ActOK(new, m)
  BY <1>4, <1>6, <1>9, <1>11 DEF ActOK, Finishing
<1> QED BY <1>1, <1>4, <1>5, <1>6, <1>9, <1>10, <1>11, ActTry

\* What is left to do once the tables are replaced takes nothing an account is made of.
LEMMA DoneDisk ==
  ASSUME DiskOK(disk), NEW r \in Accounts, DoneOK(disk, r), NEW new, DiskInv(new),
         new.live = disk.live, new.tables = disk.tables, new.activated = disk.activated,
         new.applied = disk.applied, new.journal = disk.journal, new.next = disk.next,
         new.pending \in {disk.pending, Absent},
         \A q \in Restores : new.previous[q] \in {disk.previous[q], NoFolders}
  PROVE  DiskOK(new) /\ DoneOK(new, r)
<1>1. DoneOK(new, r)
  BY AbsentType DEF DoneOK
<1>2. disk.journal.op \in {"activate", "none"} /\ disk.activated = r
      /\ (disk.journal.op = "activate" => disk.journal.id = r)
  BY DEF DoneOK
<1>3. TablesOK(new)
  BY <1>2, AbsentType DEF DiskOK, TablesOK, Replaced, Package
<1>4. JournalOK(new) /\ NextOK(new)
  BY <1>2 DEF DiskOK, JournalOK, NextOK
<1>5. FoldersOK(new)
  BY <1>2, AbsentType DEF DiskOK, FoldersOK, Replaced, Home
<1> QED BY <1>1, <1>3, <1>4, <1>5 DEF DiskOK

\* One step after the tables are replaced.
LEMMA DoneTry ==
  ASSUME OneFault, faults \in Nat, Good(disk, mem, faults), mem.at \in Finishing,
         NEW new, DiskOK(new), DoneOK(new, mem.id),
         new.activated = disk.activated, new.applied = disk.applied, new.journal = disk.journal,
         new.pending \in {disk.pending, Absent},
         \A r \in Restores : new.replaced[r] \in {Absent, disk.replaced[r]},
         NEW step \in Finishing, Try(new, Goto(step)),
         step # "dropPrevious" => new.previous[mem.id] = NoFolders,
         step \in {"dropRoot", "clearDone"} => new.pending = Absent
  PROVE  IInv'
<1>1. /\ MemOK(mem) /\ MemInv(mem) /\ mem.id \in Restores /\ mem.at # "down" /\ mem.at \in Acting
      /\ mem.at \notin Installing \cup Activating \cup Undoing \cup {"sweep"}
  BY RestoreAssumption DEF Good, MemOK, Acting, Activating, Installing,
     Finishing, Undoing
<1>2. /\ step \in Steppers /\ step \in Acting /\ step \notin Activating \cup Undoing
      /\ step \notin {"idle", "down", "migrate", "check", "out", "outMove", "in", "inMove", "undo"}
  BY DEF Steppers, Acting, Activating, Finishing, Undoing
<1>3. Seen(new, mem) \subseteq Seen(disk, mem) \cup {None}
  BY AbsentType DEF Seen
<1>4. FreshOK(new, mem)
  BY <1>1, <1>3, FreshKept DEF Good
<1>5. new.journal.op # "restore"
  BY DEF DoneOK
<1>6. Stopped(new, mem)
  BY <1>1, <1>5 DEF Stopped
<1> DEFINE m == Goto(step)
<1>7. MemInv(m)
  BY <1>1, <1>2, GotoType
<1>8. /\ m.at = step /\ m.for = mem.for /\ m.id = mem.id /\ m.again = mem.again
      /\ m.job = mem.job /\ m.jobId = mem.jobId /\ m.tried = mem.tried /\ m.serving = mem.serving
  BY <1>1, GotoFields
<1>9. Try(new, m)
  OBVIOUS
<1> HIDE DEF m
<1>10. ActOK(new, m)
  BY <1>2, <1>8 DEF ActOK, Activating
<1>11. mem.again => faults > 0
  BY DEF Good, FaultOK
<1>12. Good(new, m, faults)
  BY <1>1, <1>2, <1>4, <1>5, <1>7, <1>8, <1>10, <1>11, ActGood
<1> QED BY <1>1, <1>4, <1>6, <1>9, <1>12, TryOK

LEMMA DropsOK ==
  ASSUME OneFault, faults \in Nat, IInv, DropPrevious \/ DropPending \/ DropRoot
  PROVE  IInv'
<1>1. Good(disk, mem, faults) /\ mem.at \in Finishing
  BY DEF IInv, DropPrevious, DropPending, DropRoot, Finishing
<1>2. /\ DiskOK(disk) /\ DiskInv(disk) /\ disk \in DiskType /\ mem.id \in Accounts
      /\ mem.id \in Restores /\ DoneOK(disk, mem.id)
  BY <1>1, RestoreAssumption DEF Good, DiskOK, DiskInv, MemOK, ActOK
<1>3. CASE DropPrevious
  <2> DEFINE new == [disk EXCEPT !.previous[mem.id] = NoFolders]
  <2>1. Try(new, Goto("dropPending"))
    BY <1>3 DEF DropPrevious
  <2>2. /\ new.previous = [disk.previous EXCEPT ![mem.id] = NoFolders]
        /\ new.live = disk.live /\ new.tables = disk.tables /\ new.activated = disk.activated
        /\ new.applied = disk.applied /\ new.journal = disk.journal /\ new.next = disk.next
        /\ new.pending = disk.pending /\ new.replaced = disk.replaced
    BY <1>2 DEF DiskType
  <2>3. /\ new.previous \in [Restores -> [Folders -> Data]] /\ new.previous[mem.id] = NoFolders
        /\ \A q \in Restores : new.previous[q] \in {disk.previous[q], NoFolders}
    BY <1>2, <2>2, AbsentType DEF DiskType
  <2>4. DiskInv(new)
    BY <1>2, <2>3 DEF DiskInv, DiskType
  <2> HIDE DEF new
  <2>5. DiskOK(new) /\ DoneOK(new, mem.id)
    BY <1>2, <2>2, <2>3, <2>4, DoneDisk
  <2>6. "dropPending" \in Finishing
    BY DEF Finishing
  <2> QED BY <1>1, <2>1, <2>2, <2>3, <2>5, <2>6, DoneTry
<1>4. CASE DropPending
  <2> DEFINE new == [disk EXCEPT !.pending = Absent]
  <2>1. Try(new, Goto("dropRoot")) /\ mem.at = "dropPending"
    BY <1>4 DEF DropPending
  <2>2. /\ new.previous = disk.previous
        /\ new.live = disk.live /\ new.tables = disk.tables /\ new.activated = disk.activated
        /\ new.applied = disk.applied /\ new.journal = disk.journal /\ new.next = disk.next
        /\ new.pending = Absent /\ new.replaced = disk.replaced
    BY <1>2 DEF DiskType
  <2>3. DiskInv(new)
    BY <1>2, AbsentType DEF DiskInv, DiskType
  <2> HIDE DEF new
  <2>4. DiskOK(new) /\ DoneOK(new, mem.id)
    BY <1>2, <2>2, <2>3, DoneDisk
  <2>5. new.previous[mem.id] = NoFolders
    BY <1>1, <2>1, <2>2 DEF Good, ActOK, Finishing
  <2>6. "dropRoot" \in Finishing
    BY DEF Finishing
  <2> QED BY <1>1, <2>1, <2>2, <2>4, <2>5, <2>6, DoneTry
<1>5. CASE DropRoot
  <2> DEFINE new == RmRoot(disk, mem.id)
  <2>1. Try(new, Goto("clearDone")) /\ mem.at = "dropRoot"
    BY <1>5 DEF DropRoot
  <2>2. disk.previous[mem.id] = NoFolders /\ disk.pending = Absent
    BY <1>1, <2>1 DEF Good, ActOK, Finishing
  <2>3. /\ DiskOK(new) /\ new.journal = disk.journal /\ new.live = disk.live
        /\ new.tables = disk.tables /\ new.activated = disk.activated
        /\ new.applied = disk.applied /\ new.next = disk.next /\ new.pending = disk.pending
        /\ new.previous = disk.previous
        /\ \A q \in Restores : new.replaced[q] \in {Absent, disk.replaced[q]}
    BY <1>2, <2>2, RootOK
  <2> HIDE DEF new
  <2>4. DoneOK(new, mem.id)
    BY <1>2, <2>3, DoneDisk DEF DiskOK
  <2>5. "clearDone" \in Finishing
    BY DEF Finishing
  <2> QED BY <1>1, <2>1, <2>2, <2>3, <2>4, <2>5, DoneTry
<1> QED BY <1>3, <1>4, <1>5

LEMMA ToCleanupOK ==
  ASSUME OneFault, faults \in Nat, IInv, ToCleanup
  PROVE  IInv'
<1>1. Good(disk, mem, faults) /\ mem.at = "toCleanup" /\ mem.at \in Activating
  BY DEF IInv, ToCleanup, Activating
<1>2. /\ DiskOK(disk) /\ DiskInv(disk) /\ disk \in DiskType /\ mem.id \in Accounts
      /\ mem.id \in Restores /\ mem.moved \in MoveLists
      /\ DoneOK(disk, mem.id) /\ disk.journal.op = "activate" /\ disk.journal.id = mem.id
  BY <1>1, RestoreAssumption DEF Good, DiskOK, DiskInv, MemOK, MemInv, MemType,
     ActOK, DoneOK
<1> DEFINE j   == ActivateJournal(mem.id, "cleanup", mem.moved)
           new == [disk EXCEPT !.journal = j]
<1>3. Try(new, Goto("dropPrevious"))
  BY DEF ToCleanup
<1>4. j \in Journals /\ j.op = "activate" /\ j.id = mem.id
  BY <1>2, ActivateJournalType DEF JournalSteps
<1> HIDE DEF j
<1>5. DiskInv(new)
  BY <1>2, <1>4, NoteType
<1>6. /\ new.journal = j /\ new.previous = disk.previous
      /\ new.live = disk.live /\ new.tables = disk.tables /\ new.activated = disk.activated
      /\ new.applied = disk.applied /\ new.next = disk.next
      /\ new.pending = disk.pending /\ new.replaced = disk.replaced
  BY <1>2 DEF DiskType
<1> HIDE DEF new
<1>7. DoneOK(new, mem.id)
  BY <1>2, <1>4, <1>6 DEF DoneOK
<1>8. TablesOK(new) /\ JournalOK(new) /\ NextOK(new)
  BY <1>2, <1>4, <1>6 DEF DiskOK, TablesOK, Replaced, JournalOK, NextOK
<1>9. FoldersOK(new)
  BY <1>2, <1>4, <1>6, <1>7 DEF DiskOK, FoldersOK, Replaced, DoneOK
<1>10. DiskOK(new)
  BY <1>5, <1>8, <1>9 DEF DiskOK
<1>11. {new.activated, new.applied, new.pending.id, new.journal.id} \subseteq Seen(disk, mem) \cup {None}
  BY <1>4, <1>6, ActSeen
<1>12. ASSUME NEW m, m.at = "dropPrevious", m.id = mem.id, m.moved = mem.moved PROVE ActOK(new, m)
  BY <1>7, <1>12 DEF ActOK, Activating, Finishing
<1>13. new.activated = mem.id
  BY <1>7 DEF DoneOK
<1> QED BY <1>1, <1>3, <1>4, <1>6, <1>7, <1>10, <1>11, <1>12, <1>13, ActTry

\* The end of an activation or its undo.
LEMMA AfterTry ==
  ASSUME OneFault, faults \in Nat, Good(disk, mem, faults), mem.at \in Finishing \cup Undoing,
         NEW new, DiskOK(new), new.journal = NoJournal, Stopped(new, mem),
         new.activated = disk.activated, new.applied = disk.applied, new.pending = disk.pending,
         new.replaced = disk.replaced, Try(new, AfterActivation)
  PROVE  IInv'
<1>1. /\ MemOK(mem) /\ mem.for \in {"open", "start"} /\ mem.at # "down"
      /\ mem.for = "open" => mem.job # "staging"
  BY DEF Good, MemOK, Finishing, Undoing
<1>2. Seen(new, mem) \subseteq Seen(disk, mem) \cup {None}
  BY DEF Seen, NoJournal
<1>3. new.journal.op = "none" /\ Calm(new)
  BY NoJournalType DEF Calm
<1>4. CASE mem.for = "open"
  <2>1. Try(new, Serve)
    BY <1>4 DEF AfterActivation
  <2> QED BY <1>1, <1>2, <1>3, <1>4, <2>1, EndTry
<1>5. CASE mem.for = "start"
  <2>1. Try(new, Goto("orphans"))
    BY <1>5 DEF AfterActivation
  <2>2. FreshOK(new, mem)
    BY <1>1, <1>2, FreshKept DEF Good, MemOK
  <2>3. faults > 0 \/ ~mem.again
    BY DEF Good, FaultOK
  <2>4. Good(new, Goto("orphans"), faults)
    BY <1>1, <1>3, <1>5, <2>2, <2>3, CatchGood
  <2> QED BY <1>1, <2>1, <2>2, <2>4, TryOK
<1> QED BY <1>1, <1>4, <1>5

LEMMA ClearDoneOK ==
  ASSUME OneFault, faults \in Nat, IInv, ClearDone
  PROVE  IInv'
<1>1. Good(disk, mem, faults) /\ mem.at = "clearDone" /\ mem.at \in Finishing
  BY DEF IInv, ClearDone, Finishing
<1>2. /\ DiskOK(disk) /\ DiskInv(disk) /\ disk \in DiskType /\ mem.id \in Accounts
      /\ mem.id \in Restores /\ mem.id # Own /\ mem.id # None /\ DoneOK(disk, mem.id)
      /\ disk.pending = Absent /\ disk.previous[mem.id] = NoFolders
  BY <1>1, RestoreAssumption DEF Good, DiskOK, DiskInv, MemOK, ActOK
<1>3. /\ disk.activated = mem.id /\ disk.tables = mem.id /\ disk.next = Absent
      /\ disk.journal.op = "activate" => disk.journal.id = mem.id
      /\ disk.journal.op # "restore"
  BY <1>2 DEF DiskOK, TablesOK, NextOK, DoneOK
<1> DEFINE new == [disk EXCEPT !.journal = NoJournal]
<1>4. Try(new, AfterActivation)
  BY DEF ClearDone
<1>5. DiskInv(new)
  BY <1>2, NoJournalType, NoteType
<1>6. /\ new.journal = NoJournal /\ new.previous = disk.previous
      /\ new.live = disk.live /\ new.tables = disk.tables /\ new.activated = disk.activated
      /\ new.applied = disk.applied /\ new.next = disk.next
      /\ new.pending = disk.pending /\ new.replaced = disk.replaced
  BY <1>2 DEF DiskType
<1> HIDE DEF new
<1>7. TablesOK(new) /\ JournalOK(new) /\ NextOK(new)
  BY <1>2, <1>3, <1>6, NoJournalType, AbsentType DEF DiskOK, TablesOK, JournalOK, NextOK
<1>8. FoldersOK(new)
  <2>1. \A r \in Restores : new.previous[r] = NoFolders
    BY <1>2, <1>3, <1>6 DEF DiskOK, FoldersOK
  <2>2. \A f \in Folders : Home(new, f)
    <3>1. CASE disk.journal.op = "activate"
      <4>1. \A f \in Folders : disk.live[f] = mem.id
        BY <1>2, <1>3, <3>1 DEF DiskOK, FoldersOK, Replaced
      <4> QED BY <1>2, <1>3, <1>6, <4>1 DEF Home, FoldersOf
    <3>2. CASE disk.journal.op # "activate"
      BY <1>2, <1>6, <3>2 DEF DiskOK, FoldersOK, Home
    <3> QED BY <3>1, <3>2
  <2> QED BY <1>6, <2>1, <2>2, NoJournalType DEF FoldersOK, Replaced
<1>9. DiskOK(new)
  BY <1>5, <1>7, <1>8 DEF DiskOK
<1>10. Stopped(new, mem)
  <2>1. DoneOK(new, mem.id)
    BY <1>2, <1>3, <1>6, NoJournalType, AbsentType DEF DoneOK
  <2>2. mem.at \in Acting /\ mem.at \notin Installing \cup Activating \cup Undoing \cup {"sweep"}
    BY <1>1 DEF Acting, Installing, Activating, Undoing
  <2> QED BY <1>6, <2>1, <2>2, NoJournalType DEF Stopped
<1> QED BY <1>1, <1>4, <1>6, <1>9, <1>10, AfterTry

LEMMA AllUndoneOK ==
  ASSUME OneFault, faults \in Nat, IInv, AllUndone
  PROVE  IInv'
<1>1. Good(disk, mem, faults) /\ mem.at = "undo" /\ mem.moved = <<>> /\ mem.at \in Undoing
  BY DEF IInv, AllUndone, Undoing
<1>2. /\ DiskOK(disk) /\ DiskInv(disk) /\ disk \in DiskType /\ mem.id \in Accounts
      /\ mem.id \in Restores /\ Undoable(disk, mem.id, <<>>) /\ disk.activated # mem.id
      /\ disk.journal = NoJournal \/ (disk.journal.op = "activate" /\ disk.journal.id = mem.id)
  BY <1>1, RestoreAssumption DEF Good, DiskOK, DiskInv, MemOK, ActOK, UndoOK
<1>3. disk.next = Absent
  BY <1>2, NoJournalType DEF DiskOK, NextOK
<1>4. \A f \in Folders : Untouched(disk, mem.id, <<>>, f)
  BY <1>2, NoMoves DEF Undoable, TakenOut, TakenIn
<1>5. disk.previous[mem.id] = NoFolders
  BY <1>2, <1>4, AbsentType DEF Untouched, DiskType, NoFolders
<1> DEFINE new == [disk EXCEPT !.journal = NoJournal]
<1>6. Try(new, AfterActivation)
  BY DEF AllUndone
<1>7. DiskInv(new)
  BY <1>2, NoJournalType, NoteType
<1>8. /\ new.journal = NoJournal /\ new.previous = disk.previous
      /\ new.live = disk.live /\ new.tables = disk.tables /\ new.activated = disk.activated
      /\ new.applied = disk.applied /\ new.next = disk.next
      /\ new.pending = disk.pending /\ new.replaced = disk.replaced
  BY <1>2 DEF DiskType
<1> HIDE DEF new
<1>9. TablesOK(new)
  BY <1>2, <1>8, NoJournalType DEF DiskOK, TablesOK, Replaced
<1>10. JournalOK(new) /\ NextOK(new)
  BY <1>3, <1>8, NoJournalType DEF JournalOK, NextOK
<1>11. FoldersOK(new)
  <2>1. \A r \in Restores : new.previous[r] = NoFolders
    BY <1>2, <1>5, <1>8, NoJournalType DEF DiskOK, FoldersOK
  <2>2. \A f \in Folders : Home(new, f)
    BY <1>4, <1>8 DEF Untouched, Home
  <2> QED BY <1>8, <2>1, <2>2, NoJournalType DEF FoldersOK, Replaced
<1>12. DiskOK(new)
  BY <1>7, <1>9, <1>10, <1>11 DEF DiskOK
<1>13. Stopped(new, mem)
  <2>1. mem.at \in Acting /\ mem.at \notin Installing \cup Activating \cup Finishing \cup {"sweep"}
    BY <1>1 DEF Acting, Installing, Activating, Finishing, Undoing
  <2> QED BY <1>8, <2>1, NoJournalType DEF Stopped, Calm
<1> QED BY <1>1, <1>6, <1>8, <1>12, <1>13, AfterTry

\* Undoing the last move of a list leaves the rest of it, and the list in the
\* journal, what they need.
LEMMA UndoneUndoable ==
  ASSUME DiskOK(disk), disk \in DiskType, mem.id \in Accounts, disk.pending.id = mem.id,
         disk.activated # mem.id,
         mem.moved \in MoveLists, mem.moved # <<>>, Undoable(disk, mem.id, mem.moved),
         NEW noted, Undoable(disk, mem.id, noted)
  PROVE  LET less == SubSeq(mem.moved, 1, Len(mem.moved) - 1)
             new  == Undone(mem.moved[Len(mem.moved)])
         IN /\ Undoable(new, mem.id, less) /\ Undoable(new, mem.id, noted)
            /\ DiskInv(new) /\ Package(new.pending) /\ new.pending.id = mem.id
            /\ new.journal = disk.journal /\ new.tables = disk.tables
            /\ new.activated = disk.activated /\ new.applied = disk.applied
            /\ new.next = disk.next /\ new.replaced = disk.replaced
            /\ \A q \in Restores \ {mem.id} : new.previous[q] = disk.previous[q]
<1> DEFINE less == SubSeq(mem.moved, 1, Len(mem.moved) - 1)
           last == mem.moved[Len(mem.moved)]
           f    == last.folder
           new  == Undone(last)
           out  == [disk EXCEPT !.live[f] = disk.previous[mem.id][f], !.previous[mem.id][f] = Gone]
           in   == [disk EXCEPT !.pending.has[f] = disk.live[f], !.live[f] = Gone]
<1>1. /\ less \in MoveLists /\ Orderly(less) /\ f \in Folders /\ Orderly(noted)
      /\ Orderly(mem.moved)
      /\ last.way = "out" => /\ f \in OutOf(mem.moved) /\ f \notin InOf(mem.moved)
                             /\ InOf(less) = InOf(mem.moved) /\ OutOf(less) = OutOf(mem.moved) \ {f}
      /\ last.way # "out" => /\ f \in InOf(mem.moved)
                             /\ InOf(less) = InOf(mem.moved) \ {f} /\ OutOf(less) = OutOf(mem.moved)
  BY LessMoves DEF Undoable
<1>2. /\ InOf(less) \ {f} = InOf(mem.moved) \ {f} /\ OutOf(less) \ {f} = OutOf(mem.moved) \ {f}
  BY <1>1
<1>3. new = IF last.way = "out"
            THEN IF disk.previous[mem.id][f] # Gone /\ disk.live[f] = Gone THEN out ELSE disk
            ELSE IF disk.live[f] # Gone /\ disk.pending.has[f] = Gone THEN in ELSE disk
  BY DEF Undone
<1> HIDE DEF less, last, f, new
<1>4. /\ mem.id \in Restores /\ mem.id \notin {None, Own, Gone, Fresh} /\ mem.id # disk.tables
      /\ disk.tables \notin {Gone, Fresh} /\ DiskInv(disk) /\ Package(disk.pending)
      /\ f \in Parts /\ f # "db" /\ Folders \subseteq Parts /\ Gone \in Data /\ mem.id \in Data
      /\ "db" \in Parts /\ "db" \notin Folders
  BY <1>1, RestoreAssumption DEF DiskOK, TablesOK, Parts, Data, Own, Gone, Fresh
<1>5. \A moved \in {mem.moved, noted} :
        Untouched(disk, mem.id, moved, f) \/ TakenOut(disk, mem.id, moved, f)
        \/ TakenIn(disk, mem.id, moved, f)
  BY <1>1 DEF Undoable
<1>6. CASE last.way = "out" /\ disk.previous[mem.id][f] # Gone /\ disk.live[f] = Gone
  <2>1. new = out
    BY <1>3, <1>6
  <2>2. /\ out.live = [disk.live EXCEPT ![f] = disk.previous[mem.id][f]]
        /\ out.previous = [disk.previous EXCEPT ![mem.id][f] = Gone]
        /\ out.pending = disk.pending /\ out.journal = disk.journal /\ out.tables = disk.tables
        /\ out.activated = disk.activated /\ out.applied = disk.applied
        /\ out.next = disk.next /\ out.replaced = disk.replaced
    BY DEF DiskType
  <2>3. /\ out.live \in [Folders -> Data] /\ out.previous \in [Restores -> [Folders -> Data]]
        /\ out.live[f] = disk.previous[mem.id][f] /\ out.previous[mem.id][f] = Gone
        /\ \A g \in Folders \ {f} : out.live[g] = disk.live[g]
                                    /\ out.previous[mem.id][g] = disk.previous[mem.id][g]
        /\ \A q \in Restores \ {mem.id} : out.previous[q] = disk.previous[q]
    BY <1>1, <1>4, <2>2 DEF DiskType
  <2>4. DiskInv(out)
    BY <1>4, <2>3 DEF DiskInv, DiskType
  <2> HIDE DEF out
  <2>5. /\ \A moved \in {mem.moved, noted} : TakenOut(disk, mem.id, moved, f)
        /\ Kept(disk, mem.id, f) /\ disk.pending.has[f] = mem.id
    BY <1>4, <1>5, <1>6 DEF Untouched, TakenIn, TakenOut
  <2>6. Home(out, f)
    BY <1>4, <2>2, <2>3, <2>5 DEF Home, Kept
  <2>7. Untouched(out, mem.id, less, f) /\ Untouched(out, mem.id, noted, f)
    BY <2>2, <2>3, <2>5, <2>6 DEF Untouched
  <2>8. Undoable(out, mem.id, less)
    BY <1>1, <1>2, <2>2, <2>3, <2>7, FolderChanged
  <2>9. Undoable(out, mem.id, noted)
    BY <1>1, <2>2, <2>3, <2>7, FolderChanged
  <2>10. new.pending = disk.pending
    BY <2>1, <2>2
  <2> QED BY <1>4, <2>1, <2>2, <2>3, <2>4, <2>8, <2>9, <2>10 DEF less, new, last
<1>7. CASE last.way # "out" /\ disk.live[f] # Gone /\ disk.pending.has[f] = Gone
  <2>1. new = in
    BY <1>3, <1>7
  <2>2. /\ in.live = [disk.live EXCEPT ![f] = Gone]
        /\ in.pending = [disk.pending EXCEPT !.has[f] = disk.live[f]]
        /\ in.previous = disk.previous /\ in.journal = disk.journal /\ in.tables = disk.tables
        /\ in.activated = disk.activated /\ in.applied = disk.applied
        /\ in.next = disk.next /\ in.replaced = disk.replaced
    BY DEF DiskType
  <2>3. /\ in.live \in [Folders -> Data] /\ in.pending \in Packages /\ in.pending.id = mem.id
        /\ in.pending.has = [disk.pending.has EXCEPT ![f] = disk.live[f]]
        /\ in.live[f] = Gone /\ in.pending.has[f] = disk.live[f]
        /\ \A g \in Folders \ {f} : in.live[g] = disk.live[g]
    BY <1>1, <1>4, <2>2 DEF DiskType, Packages
  <2>4. \A k \in Parts \ {f} : in.pending.has[k] = disk.pending.has[k]
    BY <1>1, <1>4, <2>3 DEF DiskType, Packages
  <2>5. DiskInv(in)
    BY <1>4, <2>3 DEF DiskInv, DiskType
  <2> HIDE DEF in
  <2>6. /\ \A moved \in {mem.moved, noted} : TakenIn(disk, mem.id, moved, f)
        /\ disk.live[f] = mem.id
    <3>1. TakenIn(disk, mem.id, mem.moved, f)
      BY <1>1, <1>4, <1>5, <1>7 DEF Untouched, TakenOut
    <3>2. disk.live[f] = mem.id
      BY <3>1 DEF TakenIn
    <3>3. ~Home(disk, f)
      BY <1>4, <3>2 DEF Home
    <3>4. TakenIn(disk, mem.id, noted, f)
      BY <1>5, <1>7, <3>3 DEF Untouched, TakenOut
    <3> QED BY <3>1, <3>2, <3>4
  <2>7. Package(in.pending)
    <3>1. disk.pending # Absent
      BY <1>4, AbsentType
    <3>2. in.pending.has["db"] = mem.id /\ \A k \in Parts : in.pending.has[k] \in {Gone, mem.id}
      BY <1>4, <2>3, <2>4, <2>6, <3>1 DEF Package
    <3> QED BY <2>3, <3>2 DEF Package
  <2>8. ASSUME NEW moved, Left(disk, mem.id, moved, f), NEW rest,
               f \in OutOf(rest) <=> f \in OutOf(moved)
        PROVE  Untouched(in, mem.id, rest, f) \/ TakenOut(in, mem.id, rest, f)
    <3>1. in.pending.has[f] = mem.id
      BY <2>3, <2>6
    <3>2. CASE f \in OutOf(moved)
      BY <2>2, <2>3, <2>8, <3>1, <3>2 DEF Left, Kept, TakenOut
    <3>3. CASE f \notin OutOf(moved)
      BY <2>2, <2>3, <2>8, <3>1, <3>3 DEF Left, Home, Untouched
    <3> QED BY <3>2, <3>3
  <2>9. /\ in.tables = disk.tables /\ in.pending.id = mem.id
        /\ \A g \in Folders \ {f} : /\ in.live[g] = disk.live[g]
                                     /\ in.pending.has[g] = disk.pending.has[g]
                                     /\ in.previous[mem.id][g] = disk.previous[mem.id][g]
    BY <1>4, <2>2, <2>3, <2>4
  <2>10. Undoable(in, mem.id, less)
    <3>1. Untouched(in, mem.id, less, f) \/ TakenOut(in, mem.id, less, f)
      <4>1. f \in OutOf(less) <=> f \in OutOf(mem.moved)
        BY <1>1, <1>7
      <4> QED BY <2>6, <2>8, <4>1 DEF TakenIn
    <3> QED BY <1>1, <1>2, <2>9, <3>1, FolderChanged
  <2>11. Undoable(in, mem.id, noted)
    <3>1. Untouched(in, mem.id, noted, f) \/ TakenOut(in, mem.id, noted, f)
      BY <2>6, <2>8 DEF TakenIn
    <3> QED BY <1>1, <2>9, <3>1, FolderChanged
  <2> QED BY <2>1, <2>2, <2>3, <2>5, <2>7, <2>10, <2>11 DEF less, new, last
<1>8. CASE new = disk /\ Undoable(disk, mem.id, less)
  BY <1>4, <1>8 DEF less, new, last
<1>9. CASE last.way = "out" /\ ~(disk.previous[mem.id][f] # Gone /\ disk.live[f] = Gone)
  <2>1. Untouched(disk, mem.id, mem.moved, f)
    BY <1>1, <1>4, <1>5, <1>9 DEF TakenOut, TakenIn, Kept, Fresh, Gone
  <2>2. Untouched(disk, mem.id, less, f)
    BY <1>1, <1>9, <2>1 DEF Untouched
  <2>3. Undoable(disk, mem.id, less)
    BY <1>1, <1>2, <2>2, FolderChanged
  <2> QED BY <1>3, <1>8, <1>9, <2>3
<1>10. CASE last.way # "out" /\ ~(disk.live[f] # Gone /\ disk.pending.has[f] = Gone)
  <2>1. Untouched(disk, mem.id, mem.moved, f) \/ TakenOut(disk, mem.id, mem.moved, f)
    BY <1>4, <1>5, <1>10 DEF TakenIn
  <2>2. Untouched(disk, mem.id, less, f) \/ TakenOut(disk, mem.id, less, f)
    BY <1>1, <1>10, <2>1 DEF Untouched, TakenOut
  <2>3. Undoable(disk, mem.id, less)
    BY <1>1, <1>2, <2>2, FolderChanged
  <2> QED BY <1>3, <1>8, <1>10, <2>3
<1> QED BY <1>6, <1>7, <1>9, <1>10

LEMMA UndoStepOK ==
  ASSUME OneFault, faults \in Nat, IInv, Undo
  PROVE  IInv'
<1> DEFINE less == SubSeq(mem.moved, 1, Len(mem.moved) - 1)
           new  == Undone(mem.moved[Len(mem.moved)])
           m    == [mem EXCEPT !.moved = less]
<1>1. Good(disk, mem, faults) /\ mem.at = "undo" /\ mem.at \in Undoing /\ mem.moved # <<>>
  BY DEF IInv, Undo, Undoing
<1>2. Try(new, m)
  BY DEF Undo
<1>3. /\ DiskOK(disk) /\ disk \in DiskType /\ mem.id \in Accounts /\ MemOK(mem) /\ MemInv(mem)
      /\ mem \in MemType
      /\ mem.id \in Restores /\ mem.moved \in MoveLists /\ UndoOK(disk, mem)
  BY <1>1, RestoreAssumption DEF Good, DiskOK, DiskInv, MemOK, MemInv, MemType, ActOK
<1>4. /\ Undoable(disk, mem.id, mem.moved) /\ disk.activated # mem.id /\ disk.pending.id = mem.id
      /\ disk.journal.op = "activate" /\ disk.journal.id = mem.id
      /\ Undoable(disk, mem.id, disk.journal.moved)
  BY <1>1, <1>3 DEF UndoOK, Undoable, DiskOK, FoldersOK
<1>5. /\ Undoable(new, mem.id, less) /\ Undoable(new, mem.id, disk.journal.moved)
      /\ DiskInv(new) /\ Package(new.pending) /\ new.pending.id = mem.id
      /\ new.journal = disk.journal /\ new.tables = disk.tables
      /\ new.activated = disk.activated /\ new.applied = disk.applied
      /\ new.next = disk.next /\ new.replaced = disk.replaced
      /\ \A q \in Restores \ {mem.id} : new.previous[q] = disk.previous[q]
  BY <1>1, <1>3, <1>4, UndoneUndoable
<1>6. less \in MoveLists
  BY <1>1, <1>3, Shortened
<1> HIDE DEF new, less
<1>7. DiskOK(new)
  BY <1>3, <1>4, <1>5, ActDisk
<1>8. /\ m.moved = less /\ m.at = "undo" /\ m.for = mem.for /\ m.id = mem.id
      /\ m.again = mem.again /\ m.job = mem.job /\ m.jobId = mem.jobId
      /\ m.tried = mem.tried /\ m.serving = mem.serving /\ m \in MemType
  BY <1>1, <1>3, <1>6 DEF MemType
<1> HIDE DEF m
<1>9. MemInv(m)
  BY <1>3, <1>8 DEF MemInv
<1>10. FreshOK(new, mem)
  <2>1. Seen(new, mem) \subseteq Seen(disk, mem) \cup {None}
    BY <1>4, <1>5 DEF Seen
  <2> QED BY <1>1, <1>3, <1>5, <2>1, FreshKept DEF Good
<1>11. ActOK(new, m)
  BY <1>4, <1>5, <1>8 DEF ActOK, UndoOK, Activating, Finishing
<1>12. faults > 0 \/ mem.for # "open"
  BY <1>1 DEF Good, FaultOK
<1>13. mem.at \in Acting /\ mem.at \notin Installing \cup Activating \cup Finishing \cup {"sweep", "down"}
  BY <1>1 DEF Acting, Installing, Activating, Finishing, Undoing
<1>14. Good(new, m, faults)
  <2>1. mem.again => faults > 0
    BY <1>1 DEF Good, FaultOK
  <2> QED BY <1>1, <1>4, <1>5, <1>7, <1>8, <1>9, <1>10, <1>11, <1>12, <1>13,
             <2>1, ActGood
<1>15. faults = 0 => Stopped(new, mem)
  BY <1>4, <1>5, <1>12, <1>13 DEF Stopped
<1> QED BY <1>1, <1>2, <1>7, <1>10, <1>13, <1>14, <1>15, TryOK

(* What happens between two pieces of synchronous code. *)

LEMMA IdleGood ==
  ASSUME NEW d, DiskOK(d), Calm(d), NEW m, MemInv(m), m.at = "idle", m.for = "none", m.id = None,
         m.moved = <<>>, ~m.again, m.job # "none" => m.jobId \in m.tried, FreshOK(d, m),
         m.job = "staging" => d.journal = RestoreJournal(m.jobId, "stage"),
         m.job = "opening" => d.journal.op # "restore",
         NEW n
  PROVE  Good(d, m, n)
<1>1. m.at \notin Activating \cup Finishing \cup Undoing \cup Installing \cup Failing \cup Recovering
                  \cup Installed \cup {"sweep", "orphans"}
  BY DEF Activating, Finishing, Undoing, Installing, Failing, Recovering, Installed
<1>2. MemOK(m)
  BY <1>1 DEF MemOK, Acting
<1>3. RestOK(d, m) /\ ActOK(d, m) /\ FaultOK(d, m, n)
  BY <1>1 DEF RestOK, ActOK, FaultOK
<1> QED BY <1>2, <1>3 DEF Good

LEMMA IdleHere ==
  ASSUME Good(disk, mem, faults), mem.at = "idle"
  PROVE  /\ DiskOK(disk) /\ DiskInv(disk) /\ disk \in DiskType /\ Calm(disk)
         /\ MemInv(mem) /\ mem \in MemType /\ FreshOK(disk, mem)
         /\ mem.for = "none" /\ mem.id = None /\ mem.moved = <<>> /\ ~mem.again
         /\ mem.job # "none" => mem.jobId \in mem.tried /\ mem.jobId \in Restores
         /\ mem.job = "staging" => disk.journal = RestoreJournal(mem.jobId, "stage")
         /\ mem.job = "opening" => disk.journal.op # "restore"
<1>1. mem.at \notin Acting \cup {"down"}
  BY DEF Acting, Activating, Finishing, Undoing
<1>2. Calm(disk) /\ (mem.job = "staging" => disk.journal = RestoreJournal(mem.jobId, "stage"))
      /\ (mem.job = "opening" => disk.journal.op # "restore")
  BY <1>1 DEF Good, RestOK
<1> QED BY <1>2 DEF Good, DiskOK, DiskInv, MemOK, MemInv

\* When no folder is away, the undo of the journal finds nothing to do.
LEMMA CalmFolders ==
  ASSUME DiskOK(disk), Calm(disk)
  PROVE  /\ \A f \in Folders : Home(disk, f)
         /\ \A r \in Restores : disk.previous[r] = NoFolders
         /\ ~Replaced(disk) /\ disk.tables # Gone
<1>1. disk.tables # Gone
  BY RestoreAssumption DEF DiskOK, TablesOK, Own, Gone
<1>2. CASE disk.journal.op # "activate"
  BY <1>1, <1>2 DEF DiskOK, FoldersOK, Replaced
<1>3. CASE disk.journal.op = "activate"
  <2>1. disk.journal.moved = <<>> /\ disk.activated # disk.journal.id /\ disk.journal.id \in Restores
    BY <1>3 DEF Calm, DiskOK, DiskInv
  <2>2. \A f \in Folders : Untouched(disk, disk.journal.id, <<>>, f)
    BY <1>3, <2>1, NoMoves DEF DiskOK, FoldersOK, Undoable, TakenOut, TakenIn
  <2>3. disk.previous[disk.journal.id] = NoFolders
    BY <2>1, <2>2 DEF DiskOK, DiskInv, DiskType, NoFolders, Untouched
  <2>4. \A r \in Restores : disk.previous[r] = NoFolders
    BY <2>3 DEF DiskOK, FoldersOK
  <2> QED BY <1>1, <2>1, <2>2, <2>4 DEF Untouched, Replaced
<1> QED BY <1>2, <1>3

LEMMA StartRestoreOK ==
  ASSUME IInv, NEW r \in Restores, StartRestore(r)
  PROVE  IInv'
<1>1. Good(disk, mem, faults) /\ mem.at = "idle" /\ r \notin mem.tried /\ disk.journal = NoJournal
      /\ disk' = disk /\ faults' = faults
  BY DEF IInv, StartRestore
<1> DEFINE m == [mem EXCEPT !.job = "opening", !.jobId = r, !.tried = @ \cup {r}]
<1>2. mem' = m
  BY DEF StartRestore
<1>3. /\ m.at = "idle" /\ m.for = "none" /\ m.id = None /\ m.moved = <<>> /\ m.again = mem.again
      /\ m.job = "opening" /\ m.jobId = r /\ m.tried = mem.tried \cup {r} /\ m.serving = mem.serving
      /\ m \in MemType
  BY <1>1, IdleHere DEF MemType, JobStates, Ids
<1> HIDE DEF m
<1>4. MemInv(m)
  BY <1>3 DEF MemInv
<1>5. FreshOK(disk, m)
  <2>1. \A q \in Restores : Unseen(disk, mem, q) => Unseen(disk, m, q)
    BY <1>1, <1>3, IdleHere DEF Unseen, Seen
  <2> QED BY <1>1, <1>3, <2>1, IdleHere DEF FreshOK
<1>6. Good(disk, m, faults)
  BY <1>1, <1>3, <1>4, <1>5, IdleHere, IdleGood, NoJournalType
<1> QED BY <1>1, <1>2, <1>6 DEF IInv

LEMMA StageOK ==
  ASSUME IInv, Stage
  PROVE  IInv'
<1>1. Good(disk, mem, faults) /\ mem.at = "idle" /\ mem.job = "opening"
  BY DEF IInv, Stage
<1>2. /\ DiskOK(disk) /\ DiskInv(disk) /\ disk \in DiskType /\ Calm(disk)
      /\ MemInv(mem) /\ mem \in MemType /\ FreshOK(disk, mem)
      /\ mem.for = "none" /\ mem.id = None /\ mem.moved = <<>> /\ ~mem.again
      /\ mem.jobId \in mem.tried /\ mem.jobId \in Restores
      /\ disk.journal.op # "restore"
  BY <1>1, IdleHere
<1>3. /\ mem.jobId \notin {disk.activated, disk.applied, disk.pending.id}
      /\ disk.replaced[mem.jobId] = Absent
  BY <1>1, <1>2 DEF FreshOK, Unseen, Seen
<1> DEFINE j     == RestoreJournal(mem.jobId, "stage")
           new   == [disk EXCEPT !.staged[mem.jobId] = {"metadata"}, !.journal = j]
           after == [mem EXCEPT !.job = "staging"]
<1>4. \/ disk' = new /\ mem' = after /\ faults' = faults
      \/ disk' \in {disk, new} /\ mem' = JobOver /\ faults' = faults + 1
  <2>1. \A d : Thrown(d) = JobOver
    BY <1>1 DEF Thrown, Installing, Activating, Finishing, Undoing
  <2>2. Try(new, after)
    BY DEF Stage
  <2> HIDE DEF new, after
  <2> QED BY <2>1, <2>2 DEF Try
<1>5. j \in Journals /\ j.op = "restore" /\ j.id = mem.jobId /\ j.step = "stage"
  BY <1>2, RestoreJournalType DEF JournalSteps, RestoreJournal
<1> HIDE DEF j
<1>6. /\ new.staged = [disk.staged EXCEPT ![mem.jobId] = {"metadata"}] /\ new.journal = j
      /\ new.live = disk.live /\ new.tables = disk.tables
      /\ new.activated = disk.activated /\ new.applied = disk.applied
      /\ new.previous = disk.previous /\ new.replaced = disk.replaced
      /\ new.next = disk.next /\ new.pending = disk.pending
  BY <1>2 DEF DiskType
<1>7. DiskInv(new)
  BY <1>2, <1>5, <1>6 DEF DiskInv, DiskType
<1> HIDE DEF new
<1>8. TablesOK(new)
  BY <1>2, <1>6, CalmFolders DEF DiskOK, TablesOK
<1>9. JournalOK(new) /\ NextOK(new)
  BY <1>2, <1>3, <1>5, <1>6 DEF DiskOK, JournalOK, NextOK
<1>10. FoldersOK(new)
  BY <1>2, <1>5, <1>6, CalmFolders DEF FoldersOK, Replaced, Home
<1>11. DiskOK(new) /\ Calm(new)
  BY <1>5, <1>6, <1>7, <1>8, <1>9, <1>10 DEF DiskOK, Calm
<1>12. CASE disk' = new /\ mem' = after /\ faults' = faults
  <2>1. /\ after.at = "idle" /\ after.for = "none" /\ after.id = None /\ after.moved = <<>>
        /\ after.again = mem.again /\ after.job = "staging" /\ after.jobId = mem.jobId
        /\ after.tried = mem.tried /\ after \in MemType
    BY <1>1, <1>2 DEF MemType, JobStates
  <2> HIDE DEF after
  <2>2. MemInv(after)
    BY <1>2, <2>1 DEF MemInv
  <2>3. FreshOK(new, after)
    BY <1>2, <1>5, <1>6, <2>1 DEF FreshOK, Unseen, Seen
  <2>4. Good(new, after, faults)
    BY <1>2, <1>6, <1>11, <2>1, <2>2, <2>3, IdleGood DEF j
  <2> QED BY <1>12, <2>4 DEF IInv
<1>13. CASE disk' \in {disk, new} /\ mem' = JobOver /\ faults' = faults + 1
  <2>1. /\ MemInv(JobOver) /\ JobOver.at = "idle" /\ JobOver.for = "none" /\ JobOver.id = None
        /\ JobOver.moved = <<>> /\ ~JobOver.again /\ JobOver.job = "none"
        /\ JobOver.tried = mem.tried
    <3>1. MemInv(JobOver)
      BY <1>2, EndTypes
    <3> QED BY <1>2, <3>1 DEF MemType, JobOver, Idle
  <2>2. FreshOK(disk, JobOver) /\ FreshOK(new, JobOver)
    BY <1>2, <1>5, <1>6, <2>1 DEF FreshOK, Unseen, Seen
  <2>3. \A d \in {disk, new} : Good(d, JobOver, faults + 1)
    BY <1>2, <1>11, <2>1, <2>2, IdleGood
  <2> QED BY <1>13, <2>3 DEF IInv
<1> QED BY <1>4, <1>12, <1>13

\* The end of a restore's last await.
LEMMA ExtractOK ==
  ASSUME IInv, Extracted \/ ExtractFails
  PROVE  IInv'
<1>1. Good(disk, mem, faults) /\ mem.at = "idle" /\ mem.job = "staging" /\ faults' = faults
  BY DEF IInv, Extracted, ExtractFails
<1>2. /\ DiskOK(disk) /\ DiskInv(disk) /\ disk \in DiskType /\ Calm(disk)
      /\ MemInv(mem) /\ mem \in MemType /\ FreshOK(disk, mem)
      /\ mem.for = "none" /\ mem.id = None /\ mem.moved = <<>> /\ ~mem.again
      /\ mem.jobId \in mem.tried /\ mem.jobId \in Restores
      /\ disk.journal = RestoreJournal(mem.jobId, "stage")
  BY <1>1, IdleHere
<1>3. disk.journal.op = "restore" /\ disk.journal.id = mem.jobId /\ disk.journal.step = "stage"
  BY <1>2 DEF RestoreJournal
<1>4. disk.applied # mem.jobId
  BY <1>2, <1>3 DEF DiskOK, JournalOK
<1>5. MemOK(mem)
  BY <1>1 DEF Good
<1>6. ASSUME NEW d, DiskOK(d), Calm(d), d.journal = disk.journal, d.activated = disk.activated,
             d.applied = disk.applied, d.pending = disk.pending, d.replaced = disk.replaced,
             NEW at \in {"apply", "unstage"}
      PROVE  Good(d, [mem EXCEPT !.at = at, !.for = "job", !.id = mem.jobId], faults)
  <2> DEFINE m == [mem EXCEPT !.at = at, !.for = "job", !.id = mem.jobId]
  <2>1. at \in Steppers /\ "job" \in Reasons /\ mem.jobId \in Ids
    BY <1>2 DEF Steppers, Installing, Reasons, Ids
  <2>2. /\ m.at = at /\ m.for = "job" /\ m.id = mem.jobId /\ m.moved = <<>> /\ m.again = mem.again
        /\ m.job = "staging" /\ m.jobId = mem.jobId /\ m.tried = mem.tried
        /\ m.serving = mem.serving /\ m \in MemType
    BY <1>1, <1>2, <2>1 DEF MemType
  <2> HIDE DEF m
  <2>3. MemInv(m)
    BY <1>2, <2>2 DEF MemInv
  <2>4. /\ m.at \notin Activating \cup Finishing \cup Undoing \cup Recovering \cup Installed
        /\ m.at \notin Acting \cup {"down", "sweep", "orphans", "idle"}
        /\ m.at \in Installing => m.at = "apply"
        /\ m.at \in Failing => m.at = "unstage"
    BY <2>2 DEF Activating, Finishing, Undoing, Recovering, Installed, Acting,
       Installing, Failing
  <2>5. MemOK(m)
    BY <1>2, <2>2, <2>3, <2>4 DEF MemOK
  <2>6. RestOK(d, m)
    BY <1>3, <1>4, <1>6, <2>2, <2>4 DEF RestOK
  <2>7. ActOK(d, m) /\ FaultOK(d, m, faults)
    BY <1>2, <2>2, <2>4 DEF ActOK, FaultOK
  <2>8. FreshOK(d, m)
    BY <1>2, <1>6, <2>2 DEF FreshOK, Unseen, Seen
  <2> QED BY <1>6, <2>5, <2>6, <2>7, <2>8 DEF Good, m
<1>7. CASE Extracted
  <2> DEFINE new == [disk EXCEPT !.staged[mem.jobId] = AllStaged(mem.jobId)]
  <2>1. disk' = new /\ mem' = [mem EXCEPT !.at = "apply", !.for = "job", !.id = mem.jobId]
    BY <1>7 DEF Extracted
  <2>2. /\ new.staged = [disk.staged EXCEPT ![mem.jobId] = AllStaged(mem.jobId)]
        /\ new.journal = disk.journal
        /\ new.live = disk.live /\ new.tables = disk.tables
        /\ new.activated = disk.activated /\ new.applied = disk.applied
        /\ new.previous = disk.previous /\ new.replaced = disk.replaced
        /\ new.next = disk.next /\ new.pending = disk.pending
    BY <1>2 DEF DiskType
  <2>3. AllStaged(mem.jobId) \subseteq Parts \cup {"metadata", "persona"}
    BY <1>2, RestoreAssumption DEF AllStaged, WantedParts, Parts
  <2>4. DiskInv(new)
    BY <1>2, <2>2, <2>3 DEF DiskInv, DiskType
  <2> HIDE DEF new
  <2>5. DiskOK(new) /\ Calm(new)
    BY <1>2, <2>2, <2>4, SameAccount
  <2> QED BY <1>1, <1>6, <2>1, <2>2, <2>5 DEF IInv
<1>8. CASE ExtractFails
  BY <1>1, <1>2, <1>6, <1>8 DEF ExtractFails, IInv
<1> QED BY <1>7, <1>8

LEMMA SocketsOK ==
  ASSUME IInv, SocketCloses \/ (\E matches \in BOOLEAN : SocketOpens(matches))
  PROVE  IInv'
<1>1. Good(disk, mem, faults) /\ mem.at = "idle" /\ faults' = faults /\ disk' = disk
  BY DEF IInv, SocketCloses, SocketOpens
<1>2. /\ DiskOK(disk) /\ Calm(disk)
      /\ MemInv(mem) /\ mem \in MemType /\ FreshOK(disk, mem)
      /\ mem.for = "none" /\ mem.id = None /\ mem.moved = <<>> /\ ~mem.again
      /\ mem.job # "none" => mem.jobId \in mem.tried /\ mem.jobId \in Restores
      /\ mem.job = "staging" => disk.journal = RestoreJournal(mem.jobId, "stage")
      /\ mem.job = "opening" => disk.journal.op # "restore"
  BY <1>1, IdleHere
<1>3. MemOK(mem)
  BY <1>1 DEF Good
<1>4. ASSUME NEW m, MemInv(m), m.at = "idle", m.for = "none", m.id = None, m.moved = <<>>, ~m.again,
             m.job = mem.job, m.jobId = mem.jobId, m.tried = mem.tried, mem' = m
      PROVE  IInv'
  <2>1. FreshOK(disk, m)
    BY <1>2, <1>4 DEF FreshOK, Unseen, Seen
  <2>2. Good(disk, m, faults)
    BY <1>2, <1>4, <2>1, IdleGood
  <2> QED BY <1>1, <1>4, <2>2 DEF IInv
<1>5. CASE SocketCloses
  <2> DEFINE m == [mem EXCEPT !.serving = FALSE]
  <2>1. /\ m.at = "idle" /\ m.for = "none" /\ m.id = None /\ m.moved = <<>> /\ m.again = mem.again
        /\ m.job = mem.job /\ m.jobId = mem.jobId /\ m.tried = mem.tried /\ m \in MemType
    BY <1>1, <1>2 DEF MemType
  <2>2. mem' = m
    BY <1>5 DEF SocketCloses
  <2> HIDE DEF m
  <2>3. MemInv(m)
    BY <1>2, <2>1 DEF MemInv
  <2> QED BY <1>2, <1>4, <2>1, <2>2, <2>3
<1>6. ASSUME NEW matches \in BOOLEAN, SocketOpens(matches) PROVE IInv'
  <2>1. CASE mem' = mem
    BY <1>1, <2>1 DEF IInv
  <2>2. CASE mem' = Serve
    <3>1. /\ MemInv(Serve) /\ Serve.at = "idle" /\ Serve.for = "none" /\ Serve.id = None
          /\ Serve.moved = <<>> /\ ~Serve.again /\ Serve.job = mem.job /\ Serve.jobId = mem.jobId
          /\ Serve.tried = mem.tried
      <4>1. MemInv(Serve)
        BY <1>2, EndTypes
      <4> QED BY <1>2, <4>1 DEF MemType, Serve, Idle
    <3> QED BY <1>4, <2>2, <3>1
  <2>3. CASE /\ disk.journal = NoJournal /\ disk.pending.id # None
             /\ mem' = [mem EXCEPT !.at = "migrate", !.for = "open", !.id = disk.pending.id]
    <3> DEFINE m == [mem EXCEPT !.at = "migrate", !.for = "open", !.id = disk.pending.id]
    <3>1. disk.pending.id \in Accounts /\ disk.pending.id \in Restores
      BY <1>2, <2>3, AbsentType, RestoreAssumption DEF DiskOK, TablesOK, Package
    <3>2. "migrate" \in Steppers /\ "open" \in Reasons /\ disk.pending.id \in Ids
      BY <3>1 DEF Steppers, Activating, Reasons, Ids
    <3>3. /\ m.at = "migrate" /\ m.for = "open" /\ m.id = disk.pending.id /\ m.moved = <<>>
          /\ m.again = mem.again /\ m.job = mem.job /\ m.jobId = mem.jobId
          /\ m.tried = mem.tried /\ m.serving = mem.serving /\ m \in MemType
      BY <1>1, <1>2, <3>2 DEF MemType
    <3>4. mem' = m /\ ~mem.serving
      BY <1>6, <2>3 DEF SocketOpens
    <3> HIDE DEF m
    <3>5. MemInv(m)
      BY <1>2, <3>1, <3>3 DEF MemInv
    <3>6. mem.job # "staging"
      BY <1>2, <2>3, NoJournalType DEF RestoreJournal
    <3>7. /\ m.at \notin Installing \cup Failing \cup Recovering \cup Finishing \cup Undoing \cup Installed
          /\ m.at \in Acting
      BY <3>3 DEF Installing, Failing, Recovering, Finishing, Undoing,
         Installed, Acting, Activating
    <3>8. MemOK(m)
      <4>1. ~m.again /\ ~m.serving
        BY <1>2, <3>3, <3>4
      <4> QED BY <1>2, <3>1, <3>3, <3>5, <3>6, <3>7, <4>1 DEF MemOK
    <3>9. RestOK(disk, m) /\ ActOK(disk, m) /\ FaultOK(disk, m, faults)
      <4>1. ~m.again
        BY <1>2, <3>3
      <4> QED BY <1>2, <2>3, <3>3, <3>6, <3>7, <4>1 DEF RestOK, ActOK, FaultOK
    <3>10. FreshOK(disk, m)
      BY <1>2, <3>3 DEF FreshOK, Unseen, Seen
    <3>11. Good(disk, m, faults)
      BY <1>2, <3>8, <3>9, <3>10 DEF Good
    <3> QED BY <1>1, <3>4, <3>11 DEF IInv
  <2> QED BY <1>6, <2>1, <2>2, <2>3 DEF SocketOpens
<1> QED BY <1>5, <1>6

LEMMA CrashOK ==
  ASSUME IInv, Crash \/ OpenFails
  PROVE  IInv'
<1>1. Good(disk, mem, faults) /\ disk' = disk /\ faults' = faults
  BY DEF IInv, Crash, OpenFails
<1>2. /\ MemOK(mem) /\ DiskOK(disk) /\ FreshOK(disk, mem)
      /\ mem.job = "opening" => disk.journal.op # "restore"
  BY <1>1 DEF Good, RestOK
<1>3. CASE Crash
  <2>1. mem' = Down
    BY <1>3 DEF Crash
  <2>2. Good(disk, Down, faults)
    BY <1>2, EndGood
  <2> QED BY <1>1, <2>1, <2>2 DEF IInv
<1>4. CASE OpenFails
  <2>1. mem' = JobOver /\ Calm(disk)
    BY <1>1, <1>4, IdleHere DEF OpenFails
  <2>2. Good(disk, JobOver, faults)
    BY <1>2, <2>1, EndGood
  <2> QED BY <1>1, <2>1, <2>2 DEF IInv
<1> QED BY <1>3, <1>4

\* What is done to the account from outside while nothing else runs.
LEMMA OutsideOK ==
  ASSUME IInv, Discard \/ (\E f \in Folders : MakeFolder(f))
  PROVE  IInv'
<1>1. Good(disk, mem, faults) /\ mem.at = "idle" /\ mem' = mem /\ faults' = faults
  BY DEF IInv, Discard, MakeFolder
<1>2. /\ DiskOK(disk) /\ DiskInv(disk) /\ disk \in DiskType /\ Calm(disk)
      /\ MemInv(mem) /\ FreshOK(disk, mem)
      /\ mem.for = "none" /\ mem.id = None /\ mem.moved = <<>> /\ ~mem.again
      /\ mem.job # "none" => mem.jobId \in mem.tried
      /\ mem.job = "staging" => disk.journal = RestoreJournal(mem.jobId, "stage")
      /\ mem.job = "opening" => disk.journal.op # "restore"
  BY <1>1, IdleHere
<1>3. /\ \A f \in Folders : Home(disk, f)
      /\ \A r \in Restores : disk.previous[r] = NoFolders
      /\ ~Replaced(disk) /\ disk.tables # Gone
  BY <1>2, CalmFolders
<1>4. ASSUME NEW d, DiskInv(d), \A f \in Folders : Home(d, f), d.pending \in {disk.pending, Absent},
             d.tables = disk.tables, d.activated = disk.activated, d.applied = disk.applied,
             d.journal = disk.journal, d.previous = disk.previous, d.replaced = disk.replaced,
             d.next = disk.next, disk' = d
      PROVE  IInv'
  <2>1. TablesOK(d)
    BY <1>2, <1>3, <1>4, AbsentType DEF DiskOK, TablesOK, Package
  <2>2. None \notin Restores
    BY RestoreAssumption
  <2>3. JournalOK(d) /\ NextOK(d)
    BY <1>2, <1>4, <2>2, AbsentType, RestoreAssumption DEF DiskOK, JournalOK, NextOK
  <2>4. FoldersOK(d)
    <3>1. d.journal.op = "activate" => Undoable(d, d.journal.id, d.journal.moved)
      <4>1. \A r \in Restores, f \in Folders : d.previous[r][f] = Gone
        BY <1>3, <1>4, AbsentType
      <4>2. d.journal.op = "activate" => d.journal.id \in Restores /\ d.journal.moved = <<>>
        BY <1>2, <1>4 DEF DiskInv, Calm
      <4> QED BY <1>4, <4>1, <4>2, NoMoves DEF Undoable, Untouched
    <3> QED BY <1>3, <1>4, <3>1 DEF FoldersOK, Replaced
  <2>5. DiskOK(d) /\ Calm(d)
    BY <1>2, <1>4, <2>1, <2>3, <2>4 DEF DiskOK, Calm
  <2>6. FreshOK(d, mem)
    BY <1>2, <1>4, AbsentType, RestoreAssumption DEF FreshOK, Unseen, Seen, MemInv
  <2>7. Good(d, mem, faults)
    BY <1>1, <1>2, <1>4, <2>5, <2>6, IdleGood
  <2> QED BY <1>1, <1>4, <2>7 DEF IInv
<1>5. CASE Discard
  <2> DEFINE new == [disk EXCEPT !.pending = Absent]
  <2>1. disk' = new
    BY <1>5 DEF Discard
  <2>2. /\ new.live = disk.live /\ new.tables = disk.tables /\ new.activated = disk.activated
        /\ new.applied = disk.applied /\ new.journal = disk.journal
        /\ new.previous = disk.previous /\ new.replaced = disk.replaced
        /\ new.next = disk.next /\ new.pending = Absent
    BY <1>2 DEF DiskType
  <2>3. DiskInv(new)
    BY <1>2, AbsentType DEF DiskInv, DiskType
  <2> HIDE DEF new
  <2>4. \A f \in Folders : Home(new, f)
    BY <1>3, <2>2 DEF Home
  <2> QED BY <1>4, <2>1, <2>2, <2>3, <2>4
<1>6. ASSUME NEW f \in Folders, MakeFolder(f) PROVE IInv'
  <2> DEFINE new == [disk EXCEPT !.live[f] = Fresh]
  <2>1. disk' = new /\ disk.live[f] = Gone
    BY <1>6 DEF MakeFolder
  <2>2. /\ new.live = [disk.live EXCEPT ![f] = Fresh]
        /\ new.tables = disk.tables /\ new.activated = disk.activated
        /\ new.applied = disk.applied /\ new.journal = disk.journal
        /\ new.previous = disk.previous /\ new.replaced = disk.replaced
        /\ new.next = disk.next /\ new.pending = disk.pending
    BY <1>2 DEF DiskType
  <2>3. new.live \in [Folders -> Data] /\ new.live[f] = Fresh
        /\ \A g \in Folders \ {f} : new.live[g] = disk.live[g]
    BY <1>2, <2>2 DEF DiskType, Data
  <2>4. DiskInv(new)
    BY <1>2, <2>3 DEF DiskInv, DiskType
  <2> HIDE DEF new
  <2>5. \A g \in Folders : Home(new, g)
    BY <1>3, <2>1, <2>2, <2>3 DEF Home
  <2> QED BY <1>4, <2>1, <2>2, <2>4, <2>5
<1> QED BY <1>5, <1>6

\* A start takes up what the journal says.
LEMMA StartOK ==
  ASSUME IInv, Start
  PROVE  IInv'
<1> DEFINE j  == disk.journal
           at == CASE j.op = "none" -> "orphans"
                   [] j.op = "activate" -> IF disk.activated = j.id THEN "dropPrevious" ELSE "undo"
                   [] j.op = "restore" ->
                        IF j.step = "stage" \/ disk.applied # j.id THEN "giveBack"
                        ELSE IF j.step = "pending" THEN "install" ELSE "toPersona"
           m  == [mem EXCEPT !.for = "start", !.id = j.id, !.moved = j.moved, !.at = at]
<1>1. Good(disk, mem, faults) /\ mem.at = "down" /\ disk' = disk /\ faults' = faults /\ mem' = m
  BY DEF IInv, Start
<1>2. /\ DiskOK(disk) /\ DiskInv(disk) /\ disk \in DiskType /\ MemInv(mem) /\ mem \in MemType
      /\ FreshOK(disk, mem) /\ mem.job = "none" /\ ~mem.serving /\ ~mem.again /\ JournalOK(disk)
  BY <1>1 DEF Good, DiskOK, DiskInv, MemOK, MemInv
<1>3. /\ j.op \in {"none", "restore", "activate"} /\ j.id \in Ids /\ j.moved \in MoveLists
      /\ j.op # "none" => j.id \in Restores
  BY <1>2 DEF DiskInv, DiskType, Journals
<1>4. /\ at \in {"orphans", "dropPrevious", "undo", "giveBack", "install", "toPersona"}
      /\ at = "orphans" <=> j.op = "none"
      /\ at \in {"dropPrevious", "undo"} <=> j.op = "activate"
      /\ at = "dropPrevious" => disk.activated = j.id
      /\ at = "undo" => disk.activated # j.id
      /\ at = "giveBack" => disk.applied # j.id
      /\ at \in {"install", "toPersona"} => disk.applied = j.id /\ j.step # "stage"
  BY <1>2, <1>3 DEF JournalOK
<1> HIDE DEF at
<1>5. at \in Steppers /\ "start" \in Reasons
  BY <1>4 DEF Steppers, Finishing, Undoing, Installing, Reasons
<1>6. /\ m.at = at /\ m.for = "start" /\ m.id = j.id /\ m.moved = j.moved
      /\ m.again = mem.again /\ m.job = mem.job /\ m.jobId = mem.jobId
      /\ m.tried = mem.tried /\ m.serving = mem.serving /\ m \in MemType
  BY <1>2, <1>3, <1>5 DEF MemType
<1> HIDE DEF m
<1>7. MemInv(m)
  BY <1>2, <1>3, <1>4, <1>6 DEF MemInv
<1>8. /\ at \notin Activating \cup Failing \cup {"idle", "down"}
      /\ at \in Finishing => at = "dropPrevious"
      /\ at \in Undoing => at = "undo"
      /\ at \in Acting => at \in {"dropPrevious", "undo"}
      /\ at \in Installing => at \in {"install", "toPersona"}
      /\ at \in Installed => at \in {"install", "toPersona"}
      /\ at \in Recovering => at = "giveBack"
  BY <1>4 DEF Activating, Failing, Finishing, Undoing, Acting, Installing,
     Installed, Recovering
<1>9. MemOK(m)
  <2>1. j.op = "activate" => j.id \in Accounts
    BY <1>2 DEF JournalOK
  <2>2. ~m.again /\ ~m.serving
    BY <1>2, <1>6
  <2> QED BY <1>2, <1>4, <1>6, <1>7, <1>8, <2>1, <2>2 DEF MemOK
<1>10. RestOK(disk, m)
  <2>1. at \notin Acting => Calm(disk)
    <3>1. at \notin Acting => j.op # "activate"
      BY <1>4 DEF Acting, Finishing, Undoing
    <3> QED BY <3>1 DEF Calm
  <2>2. at = "orphans" => j = NoJournal
    BY <1>2, <1>4 DEF JournalOK
  <2> QED BY <1>2, <1>3, <1>4, <1>6, <1>8, <2>1, <2>2 DEF RestOK
<1>11. ActOK(disk, m)
  <2>1. at = "dropPrevious" => DoneOK(disk, j.id)
    BY <1>2, <1>4 DEF DiskOK, FoldersOK, Replaced, DoneOK
  <2>2. at = "undo" => UndoOK(disk, m)
    BY <1>2, <1>4, <1>6 DEF DiskOK, FoldersOK, UndoOK
  <2> QED BY <1>4, <1>6, <1>8, <2>1, <2>2 DEF ActOK
<1>12. FreshOK(disk, m)
  BY <1>2, <1>6 DEF FreshOK, Unseen, Seen
<1>13. FaultOK(disk, m, faults)
  <2>1. ~m.again
    BY <1>2, <1>6
  <2> QED BY <1>6, <2>1 DEF FaultOK
<1>14. Good(disk, m, faults)
  BY <1>2, <1>9, <1>10, <1>11, <1>12, <1>13 DEF Good
<1> QED BY <1>1, <1>14 DEF IInv

(* --------------------------------- theorems -------------------------------- *)

LEMMA InitOK == Init => IInv
<1> SUFFICES ASSUME Init PROVE IInv
  OBVIOUS
<1>1. DiskInv(disk) /\ MemInv(mem)
  BY InitType DEF TypeInv
<1>2. /\ disk.tables = Own /\ disk.activated = None /\ disk.applied = None
      /\ disk.journal = NoJournal /\ disk.pending = Absent /\ disk.next = Absent
      /\ disk.live = [f \in Folders |-> IF f \in OwnFolders THEN Own ELSE Gone]
      /\ disk.previous = [r \in Restores |-> NoFolders]
      /\ disk.replaced = [r \in Restores |-> Absent]
  BY DEF Init
<1>3. /\ mem.at = "idle" /\ mem.for = "none" /\ mem.id = None /\ mem.moved = <<>> /\ mem.again = FALSE
      /\ mem.job = "none"
  BY DEF Init
<1>4. TablesOK(disk) /\ JournalOK(disk) /\ NextOK(disk)
  BY <1>2, NoJournalType, AbsentType DEF TablesOK, Package, JournalOK, NextOK
<1>5. FoldersOK(disk)
  BY <1>2, NoJournalType DEF FoldersOK, Replaced, Home, FoldersOf
<1>6. DiskOK(disk) /\ Calm(disk)
  BY <1>1, <1>2, <1>4, <1>5, NoJournalType DEF DiskOK, Calm
<1>7. FreshOK(disk, mem)
  BY <1>2, <1>3, AbsentType, RestoreAssumption DEF FreshOK, Unseen, Seen, NoJournal
<1>8. Good(disk, mem, faults)
  BY <1>1, <1>3, <1>6, <1>7, IdleGood
<1> QED BY <1>8 DEF IInv

LEMMA StepOK ==
  ASSUME OneFault, faults \in Nat, IInv, [Next]_vars
  PROVE  IInv'
<1>1. CASE RestoreSteps
  BY <1>1, JournalStepsOK, CommitOK, InstallOK, ReplaceOK, SwapOK, ClearOK,
     SweepOK, UnjournalOK
     DEF RestoreSteps
<1>2. CASE ActivationSteps
  BY <1>2, MigrateOK, MoveOutOK, RenameOutOK, MoveInOK, RenameInOK, ToDbOK,
     ReplaceTablesOK,
     ToCleanupOK, DropsOK, ClearDoneOK, UndoStepOK, AllUndoneOK DEF ActivationSteps
<1>3. CASE RecoverySteps
  BY <1>3, GiveBackOK, OrphansOK DEF RecoverySteps
<1>4. CASE JobEvents
  BY <1>4, CrashOK, StageOK, ExtractOK DEF JobEvents
<1>5. CASE \E r \in Restores : StartRestore(r)
  BY <1>5, StartRestoreOK
<1>6. CASE SocketCloses \/ Crash \/ Start \/ Discard \/ (\E matches \in BOOLEAN : SocketOpens(matches))
           \/ (\E f \in Folders : MakeFolder(f))
  BY <1>6, SocketsOK, CrashOK, StartOK, OutsideOK
<1>7. CASE UNCHANGED vars
  BY <1>7 DEF vars, IInv
<1> QED BY <1>1, <1>2, <1>3, <1>4, <1>5, <1>6, <1>7 DEF Next, Steps

LEMMA Inductive ==
  ASSUME OneFault
  PROVE  Spec => []IInv
<1>1. TypeInv /\ Counters /\ IInv /\ [Next]_vars => IInv'
  <2>1. Counters => faults \in Nat
    BY RestoreAssumption DEF Counters
  <2> QED BY <2>1, StepOK
<1> QED BY InitOK, TypeInvariant, <1>1, PTL DEF Spec

\* With one failure at most, and any number of deaths of the process: the tables
\* and the folders the bot works with are those of one account, and while they
\* are not, a journal says so to the next start (activatePending, undoMoves,
\* finishActivation, recoverActivation).
THEOREM AccountIsWholeHolds ==
  ASSUME OneFault
  PROVE  Spec => []AccountIsWhole
<1>1. IInv => AccountIsWhole
  <2> SUFFICES ASSUME IInv PROVE AccountIsWhole
    OBVIOUS
  <2>1. DiskOK(disk) /\ MemOK(mem) /\ RestOK(disk, mem)
    BY DEF IInv, Good
  <2>2. (\A f \in Folders : Home(disk, f)) => IsWhole
    BY DEF Home, IsWhole
  <2>3. disk.journal.op # "activate" => \A f \in Folders : Home(disk, f)
    BY <2>1 DEF DiskOK, FoldersOK
  <2>4. mem.serving => \A f \in Folders : Home(disk, f)
    <3>1. mem.serving => Calm(disk)
      BY <2>1 DEF MemOK, RestOK
    <3> QED BY <2>1, <3>1, CalmFolders
  <2> QED BY <2>2, <2>3, <2>4 DEF AccountIsWhole
<1> QED BY <1>1, Inductive, PTL

\* Under the same assumption nothing of the account is deleted before what
\* replaces it is committed: a folder of the account in the tables is in place,
\* or in previous/ and in the journal as moved out.
THEOREM NothingIsLostHolds ==
  ASSUME OneFault
  PROVE  Spec => []NothingIsLost
<1>1. IInv => NothingIsLost
  <2> SUFFICES ASSUME IInv, NEW f \in FoldersOf(disk.tables), disk.live[f] # disk.tables
               PROVE  /\ disk.journal.op = "activate"
                      /\ disk.previous[disk.journal.id][f] = disk.tables
                      /\ \E i \in DOMAIN disk.journal.moved :
                           disk.journal.moved[i] = [way |-> "out", folder |-> f]
    BY DEF NothingIsLost
  <2> DEFINE j == disk.journal
  <2>1. /\ DiskOK(disk) /\ f \in Folders /\ j.moved \in MoveLists /\ ~Home(disk, f)
    BY RestoreAssumption DEF IInv, Good, DiskOK, DiskInv, DiskType, Journals,
       FoldersOf, Home
  <2>2. j.op = "activate"
    BY <2>1 DEF DiskOK, FoldersOK
  <2>3. disk.activated # j.id
    <3>1. j.id # None
      BY <2>1, <2>2, RestoreAssumption DEF DiskOK, JournalOK
    <3> QED BY <2>1, <2>2, <3>1 DEF DiskOK, TablesOK, FoldersOK, Replaced
  <2>4. TakenOut(disk, j.id, j.moved, f) \/ TakenIn(disk, j.id, j.moved, f)
    BY <2>1, <2>2, <2>3 DEF DiskOK, FoldersOK, Undoable, Untouched
  <2>5. f \in OutOf(j.moved) /\ Kept(disk, j.id, f)
    BY <2>4 DEF TakenOut, TakenIn, Left
  <2>6. PICK i \in DOMAIN j.moved : j.moved[i].way = "out" /\ j.moved[i].folder = f
    BY <2>5 DEF OutOf
  <2>7. j.moved[i] = [way |-> "out", folder |-> f]
    BY <2>1, <2>6, Moving DEF Moves
  <2> QED BY <2>2, <2>5, <2>7 DEF Kept
<1> QED BY <1>1, Inductive, PTL

(* ----------------- what waits, with one failure at most ------------------- *)

\* Whose account data waits on a disk.
WaitingOf(d, dr) ==
  LET j == d.journal
  IN CASE j.op = "restore" /\ d.applied = j.id /\ j.id \in Accounts \ dr -> j.id
       [] j.op = "activate" /\ d.activated = j.id -> None
       [] OTHER -> d.pending.id

\* What is in restore/pending is all there, but for what an activation has moved.
PendingOK(d) ==
  LET r == d.pending.id
  IN /\ d.journal.op # "activate" /\ d.pending # Absent =>
          \A k \in WantedParts(r) : d.pending.has[k] = r
     /\ d.journal.op = "activate" /\ d.activated # d.journal.id /\ d.pending # Absent =>
          /\ r = d.journal.id
          /\ \A k \in WantedParts(r) : d.pending.has[k] = r \/ (k \in Folders /\ d.live[k] = r)

\* What a restore brings is in its stage or in pending.next, each part in one of
\* them, until it is in pending or discarded from there.
StagedOK(d, dr) ==
  LET r    == d.journal.id
      over == r \in dr \/ d.pending.id = r
  IN d.journal.op = "restore" =>
       /\ d.applied = r /\ r \in Accounts /\ ~over =>
            \A k \in WantedParts(r) : k \in d.staged[r] \/ d.next.has[k] = r
       /\ \A k \in Parts : d.next.has[k] # Gone => k \notin d.staged[r]
       /\ over => d.next = Absent /\ d.staged[r] \cap WantedParts(r) = {}
       /\ d.applied # r => r \notin dr

WaitDisk(d, dr) == PendingOK(d) /\ StagedOK(d, dr)

WaitMem(d, m, dr) ==
  /\ m.at \in {"apply", "commit"} => d.staged[m.id] = AllStaged(m.id)
  /\ m.at \in {"replace", "swap"} =>
       m.id \in Accounts \ dr /\ \A k \in WantedParts(m.id) : d.next.has[k] = m.id
  /\ m.at = "clear" /\ m.id \in Accounts /\ d.applied = m.id => d.pending.id = m.id
  /\ dr \subseteq m.tried
  /\ m.job = "opening" => m.jobId \notin dr

WaitInv == WaitDisk(disk, dropped) /\ WaitMem(disk, mem, dropped)

\* A step of AccountSwap that does nothing.
Unmoved(d) == d.settings = disk.settings /\ d.tables = disk.tables
              /\ WaitingOf(d, dropped) = WaitingOf(disk, dropped)
Rests == Unmoved(disk') /\ dropped' = dropped

\* The steps at which what waits needs more than the disk.
Handing == {"apply", "commit", "replace", "swap", "clear"}

LEMMA ThrownWaits ==
  ASSUME MemInv(mem), NEW d
  PROVE  LET m == Thrown(d)
         IN /\ m.at \notin Handing /\ m.tried = mem.tried
            /\ m.job = "none" \/ (m.job = mem.job /\ m.jobId = mem.jobId)
<1> DEFINE OK(m) == /\ m.at \notin Handing /\ m.tried = mem.tried
                    /\ m.job = "none" \/ (m.job = mem.job /\ m.jobId = mem.jobId)
<1>1. OK(Idle) /\ OK(JobOver) /\ OK(Serve) /\ OK(Down)
  BY EndFields DEF Handing
<1>2. \A step \in {"unstage", "orphans", "undo"} : OK(Goto(step))
  BY GotoFields DEF Handing
<1>3. OK([Goto("dropPrevious") EXCEPT !.again = TRUE])
  BY GotoFields DEF Handing
<1> HIDE DEF OK
<1>4. OK(Thrown(d))
  BY <1>1, <1>2, <1>3 DEF Thrown
<1> QED BY <1>4 DEF OK

\* Nothing but the disk matters at the other steps.
LEMMA PlainMem ==
  ASSUME WaitInv, NEW d, NEW m, m.at \notin Handing, m.tried = mem.tried,
         m.job = "none" \/ (m.job = mem.job /\ m.jobId = mem.jobId)
  PROVE  WaitMem(d, m, dropped)
  BY DEF WaitInv, WaitMem, Handing

LEMMA TryWaits ==
  ASSUME WaitInv, MemInv(mem), NEW new, NEW after, Try(new, after),
         WaitDisk(new, dropped), WaitMem(new, after, dropped), Unmoved(new)
  PROVE  WaitInv' /\ Rests
<1>1. Unmoved(disk) /\ WaitDisk(disk, dropped)
  BY DEF Unmoved, WaitInv
<1>2. \A d : WaitMem(d, Thrown(d), dropped)
  BY ThrownWaits, PlainMem
<1>3. dropped' = dropped
  BY DEF Try
<1>4. \/ disk' = new /\ mem' = after
      \/ \E d \in {disk, new} : disk' = d /\ mem' = Thrown(d)
  BY DEF Try
<1> HIDE DEF Unmoved
<1>5. Unmoved(disk')
  BY <1>1, <1>4
<1>6. WaitDisk(disk', dropped) /\ WaitMem(disk', mem', dropped)
  BY <1>1, <1>2, <1>4
<1> QED BY <1>3, <1>5, <1>6 DEF WaitInv, Rests

\* A step that goes on where only the disk matters, or ends there.
LEMMA GotoWaits ==
  ASSUME WaitInv, MemInv(mem), NEW new, NEW step, Try(new, Goto(step)), step \notin Handing,
         WaitDisk(new, dropped), Unmoved(new)
  PROVE  WaitInv' /\ Rests
<1>1. WaitMem(new, Goto(step), dropped)
  BY GotoFields, PlainMem
<1> QED BY <1>1, TryWaits

LEMMA EndWaits ==
  ASSUME WaitInv, MemInv(mem), NEW new, NEW m \in {Idle, JobOver, Serve}, Try(new, m),
         WaitDisk(new, dropped), Unmoved(new)
  PROVE  WaitInv' /\ Rests
<1>1. m.at \notin Handing /\ m.tried = mem.tried
      /\ (m.job = "none" \/ (m.job = mem.job /\ m.jobId = mem.jobId))
  BY EndFields DEF Handing
<1>2. WaitMem(new, m, dropped)
  BY <1>1, PlainMem
<1> QED BY <1>2, TryWaits

\* A step of the process alone.
LEMMA MemWaits ==
  ASSUME WaitInv, UNCHANGED <<disk, dropped>>, WaitMem(disk, mem', dropped)
  PROVE  WaitInv' /\ Rests
  BY DEF WaitInv, Rests, Unmoved

LEMMA ThrowsWaits ==
  ASSUME WaitInv, MemInv(mem), Throws
  PROVE  WaitInv' /\ Rests
<1>1. WaitMem(disk, Thrown(disk), dropped)
  BY ThrownWaits, PlainMem
<1> QED BY <1>1, MemWaits DEF Throws

\* A write that what waits does not depend on.
LEMMA SameWaits ==
  ASSUME WaitDisk(disk, dropped), NEW d,
         d.journal.op = disk.journal.op, d.journal.id = disk.journal.id,
         d.applied = disk.applied, d.activated = disk.activated, d.live = disk.live,
         d.pending = disk.pending, d.next = disk.next, d.staged = disk.staged,
         d.settings = disk.settings, d.tables = disk.tables
  PROVE  WaitDisk(d, dropped) /\ Unmoved(d)
  BY DEF WaitDisk, PendingOK, StagedOK, Unmoved, WaitingOf

\* What the invariants say where a restore runs.
LEMMA WaitHere ==
  ASSUME IInv, WaitInv
  PROVE  /\ DiskInv(disk) /\ disk \in DiskType /\ MemInv(mem) /\ mem \in MemType
         /\ DiskOK(disk) /\ RestOK(disk, mem) /\ ActOK(disk, mem) /\ MemOK(mem) /\ FreshOK(disk, mem)
         /\ WaitDisk(disk, dropped) /\ WaitMem(disk, mem, dropped)
         /\ mem.at \in Installing =>
              mem.id \in Restores /\ disk.journal.op = "restore" /\ disk.journal.id = mem.id
         /\ mem.at \in Activating \cup Finishing \cup Undoing => mem.id \in Restores
<1>1. mem.at \in Installing \cup Activating \cup Finishing \cup Undoing => mem.id \in Restores
  BY DEF IInv, Good, MemOK, MemInv, Installing, Activating, Finishing, Undoing
<1> QED BY <1>1 DEF IInv, Good, DiskOK, DiskInv, MemOK, MemInv, RestOK, WaitInv

(* A restore. *)

LEMMA JournalsWait ==
  ASSUME IInv, WaitInv, Apply \/ ToPersona \/ InstallPersona \/ ToPending \/ Refuse
  PROVE  WaitInv' /\ Rests
<1>1. /\ mem.at \in Installing
      /\ disk \in DiskType /\ MemInv(mem) /\ mem.id \in Restores
      /\ disk.journal.op = "restore" /\ disk.journal.id = mem.id
      /\ WaitDisk(disk, dropped) /\ WaitMem(disk, mem, dropped)
  BY WaitHere DEF Apply, ToPersona, InstallPersona, ToPending, Refuse, Installing
<1>2. ASSUME NEW step \in {"apply", "persona", "pending"}
      PROVE  LET new == [disk EXCEPT !.journal = RestoreJournal(mem.id, step)]
             IN WaitDisk(new, dropped) /\ Unmoved(new) /\ new.staged = disk.staged
  <2> DEFINE new == [disk EXCEPT !.journal = RestoreJournal(mem.id, step)]
  <2>1. /\ new.journal.op = "restore" /\ new.journal.id = mem.id
        /\ new.applied = disk.applied /\ new.activated = disk.activated /\ new.live = disk.live
        /\ new.pending = disk.pending /\ new.next = disk.next /\ new.staged = disk.staged
        /\ new.settings = disk.settings /\ new.tables = disk.tables
    BY <1>1 DEF DiskType, RestoreJournal
  <2> HIDE DEF new
  <2>2. WaitDisk(new, dropped) /\ Unmoved(new)
    BY <1>1, <2>1, SameWaits
  <2> QED BY <2>1, <2>2 DEF new
<1>3. CASE Apply
  <2> DEFINE new == [disk EXCEPT !.journal = RestoreJournal(mem.id, "apply")]
  <2>1. mem.at = "apply" /\ Try(new, Goto("commit"))
    BY <1>3 DEF Apply
  <2>2. WaitDisk(new, dropped) /\ Unmoved(new) /\ new.staged = disk.staged
    BY <1>2
  <2> HIDE DEF new
  <2>3. WaitMem(new, Goto("commit"), dropped)
    BY <1>1, <2>1, <2>2, GotoFields DEF WaitMem
  <2> QED BY <1>1, <2>1, <2>2, <2>3, TryWaits
<1>4. CASE ToPersona
  <2>1. Throws \/ Try([disk EXCEPT !.journal = RestoreJournal(mem.id, "persona")], Goto("persona"))
    BY <1>4 DEF ToPersona
  <2>2. "persona" \notin Handing
    BY DEF Handing
  <2> QED BY <1>1, <1>2, <2>1, <2>2, GotoWaits, ThrowsWaits
<1>5. CASE InstallPersona
  <2> DEFINE new == [disk EXCEPT !.persona = mem.id]
  <2>1. Try(new, Goto("toPending"))
    BY <1>5 DEF InstallPersona
  <2>2. /\ new.journal = disk.journal
        /\ new.applied = disk.applied /\ new.activated = disk.activated /\ new.live = disk.live
        /\ new.pending = disk.pending /\ new.next = disk.next /\ new.staged = disk.staged
        /\ new.settings = disk.settings /\ new.tables = disk.tables
    BY <1>1 DEF DiskType
  <2> HIDE DEF new
  <2>3. WaitDisk(new, dropped) /\ Unmoved(new)
    BY <1>1, <2>2, SameWaits
  <2>4. "toPending" \notin Handing
    BY DEF Handing
  <2> QED BY <1>1, <2>1, <2>3, <2>4, GotoWaits
<1>6. CASE ToPending
  <2>1. "install" \notin Handing
    BY DEF Handing
  <2> QED BY <1>1, <1>2, <1>6, <2>1, GotoWaits DEF ToPending
<1>7. CASE Refuse
  BY <1>1, <1>7, ThrowsWaits DEF Refuse
<1> QED BY <1>3, <1>4, <1>5, <1>6, <1>7

\* A write that moves what waits: it does so in the step, or not at all.
LEMMA TryMoves ==
  ASSUME WaitInv, MemInv(mem), NEW new, NEW after, Try(new, after),
         WaitDisk(new, dropped), WaitMem(new, after, dropped)
  PROVE  WaitInv' /\ (Rests \/ (disk' = new /\ dropped' = dropped))
<1>1. \A d : WaitMem(d, Thrown(d), dropped)
  BY ThrownWaits, PlainMem
<1>2. dropped' = dropped
  BY DEF Try
<1>3. \/ disk' = new /\ mem' = after
      \/ \E d \in {disk, new} : disk' = d /\ mem' = Thrown(d)
  BY DEF Try
<1>4. WaitDisk(disk', dropped) /\ WaitMem(disk', mem', dropped)
  BY <1>1, <1>3 DEF WaitInv
<1>5. disk' = new \/ Unmoved(disk')
  BY <1>3 DEF Unmoved
<1> QED BY <1>2, <1>4, <1>5 DEF WaitInv, Rests

LEMMA WaitingIs ==
  Waiting = WaitingOf(disk, dropped) /\ Waiting' = WaitingOf(disk', dropped')
  BY DEF Waiting, WaitingOf

\* The transaction of the settings is the restore of the specification.
LEMMA CommitWaits ==
  ASSUME IInv, WaitInv, Commit
  PROVE  WaitInv' /\ (Rests \/ Swapped!Next)
<1> DEFINE r   == mem.id
           new == [disk EXCEPT !.settings = r, !.applied = r]
<1>1. mem.at = "commit" /\ Try(new, Goto("toPersona"))
  BY DEF Commit
<1>2. /\ disk \in DiskType /\ MemInv(mem) /\ r \in Restores /\ DiskOK(disk)
      /\ disk.journal.op = "restore" /\ disk.journal.id = r
      /\ WaitDisk(disk, dropped) /\ WaitMem(disk, mem, dropped) /\ disk.applied # r
  BY <1>1, WaitHere DEF RestOK, Installing
<1>3. /\ new.settings = r /\ new.applied = r /\ new.journal = disk.journal
      /\ new.activated = disk.activated /\ new.live = disk.live /\ new.tables = disk.tables
      /\ new.pending = disk.pending /\ new.next = disk.next /\ new.staged = disk.staged
  BY <1>2 DEF DiskType
<1> HIDE DEF new
<1>4. /\ r \notin dropped /\ disk.pending.id # r
      /\ disk.staged[r] = AllStaged(r)
  BY <1>1, <1>2 DEF WaitDisk, StagedOK, DiskOK, JournalOK, WaitMem
<1>5. WaitDisk(new, dropped)
  BY <1>2, <1>3, <1>4 DEF WaitDisk, PendingOK, StagedOK, AllStaged
<1>6. WaitMem(new, Goto("toPersona"), dropped)
  BY <1>2, GotoFields, PlainMem DEF Handing
<1>7. ASSUME disk' = new, dropped' = dropped PROVE Swapped!Next
  <2>1. WaitingOf(disk, dropped) = disk.pending.id
    BY <1>2 DEF WaitingOf
  <2>2. WaitingOf(new, dropped) = IF r \in Accounts THEN r ELSE disk.pending.id
    BY <1>2, <1>3, <1>4 DEF WaitingOf
  <2>3. Swapped!Restore(r)
    BY <1>3, <1>7, <2>1, <2>2, WaitingIs DEF Swapped!Restore
  <2> QED BY <1>2, <2>3 DEF Swapped!Next
<1> QED BY <1>1, <1>2, <1>5, <1>6, <1>7, TryMoves

LEMMA InstallWaits ==
  ASSUME IInv, WaitInv, AlreadyInstalled \/ InstallPart
  PROVE  WaitInv' /\ Rests
<1> DEFINE r == mem.id
<1>1. mem.at = "install"
  BY DEF AlreadyInstalled, InstallPart
<1>2. /\ disk \in DiskType /\ MemInv(mem) /\ r \in Restores /\ DiskOK(disk)
      /\ disk.journal.op = "restore" /\ disk.journal.id = r /\ disk.applied = r
      /\ WaitDisk(disk, dropped) /\ WaitMem(disk, mem, dropped)
  BY <1>1, WaitHere DEF RestOK, Installing, Installed
<1>3. CASE AlreadyInstalled
  <2>1. CASE Throws
    BY <1>2, <2>1, ThrowsWaits
  <2>2. CASE mem' = Goto("clear") /\ UNCHANGED <<disk, faults, crashes, dropped>>
    <3>1. WaitMem(disk, Goto("clear"), dropped)
      BY <1>2, <1>3, GotoFields DEF AlreadyInstalled, WaitMem
    <3> QED BY <2>2, <3>1, MemWaits
  <2> QED BY <1>3, <2>1, <2>2 DEF AlreadyInstalled
<1>4. CASE InstallPart
  <2> DEFINE k     == First(Missing)
             named == [disk EXCEPT !.next.id = r]
             moved == [disk EXCEPT !.staged[r] = @ \ {k}, !.next.has[k] = r]
  <2>1. r \in Accounts /\ disk.pending.id # r
    BY <1>4 DEF InstallPart
  <2>2. /\ WantedParts(r) \subseteq Parts
        /\ disk.next \in Packages /\ disk.staged \in [Restores -> SUBSET (Parts \cup {"metadata", "persona"})]
    BY <1>2, RestoreAssumption, DiskFields DEF WantedParts, Parts
  <2>3. \A p \in Parts : disk.next.has[p] \in {Gone, r}
    BY <1>2, AbsentType DEF DiskOK, NextOK
  <2>4. \/ Throws
        \/ Missing = {} /\ Try(named, Goto("replace"))
        \/ Missing # {} /\ k \in disk.staged[r] /\ Try(moved, Goto("install"))
    BY <1>4 DEF InstallPart
  <2>5. /\ named.next.has = disk.next.has
        /\ named.journal = disk.journal /\ named.applied = disk.applied
        /\ named.activated = disk.activated /\ named.live = disk.live
        /\ named.pending = disk.pending /\ named.staged = disk.staged
        /\ named.settings = disk.settings /\ named.tables = disk.tables
    BY <1>2, <2>2 DEF DiskType, Packages
  <2>6. k \in Parts =>
        /\ moved.next.has = [disk.next.has EXCEPT ![k] = r]
        /\ moved.staged = [disk.staged EXCEPT ![r] = @ \ {k}]
        /\ moved.journal = disk.journal /\ moved.applied = disk.applied
        /\ moved.activated = disk.activated /\ moved.live = disk.live
        /\ moved.pending = disk.pending
        /\ moved.settings = disk.settings /\ moved.tables = disk.tables
    BY <1>2, <2>2 DEF DiskType, Packages
  <2> HIDE DEF k, named, moved
  <2>7. r \in dropped => /\ \A p \in WantedParts(r) : p \notin disk.staged[r] /\ p \in Missing
    <3> SUFFICES ASSUME r \in dropped
                 PROVE  \A p \in WantedParts(r) : p \notin disk.staged[r] /\ p \in Missing
      OBVIOUS
    <3>1. disk.next = Absent /\ disk.staged[r] \cap WantedParts(r) = {}
      BY <1>2 DEF WaitDisk, StagedOK
    <3> QED BY <2>2, <3>1, AbsentType DEF Missing
  <2>8. CASE Throws
    BY <1>2, <2>8, ThrowsWaits
  <2>9. CASE Missing = {} /\ Try(named, Goto("replace"))
    <3>1. \A p \in WantedParts(r) : named.next.has[p] = r
      BY <2>2, <2>3, <2>5, <2>9 DEF Missing
    <3>2. r \notin dropped
      BY <2>7, <2>9 DEF WantedParts
    <3>3. WaitDisk(named, dropped) /\ Unmoved(named)
      BY <1>2, <2>1, <2>5, <3>2 DEF WaitDisk, PendingOK, StagedOK, Unmoved, WaitingOf
    <3>4. WaitMem(named, Goto("replace"), dropped)
      BY <1>2, <2>1, <3>1, <3>2, GotoFields DEF WaitMem
    <3> QED BY <1>2, <2>9, <3>3, <3>4, TryWaits
  <2>10. CASE Missing # {} /\ k \in disk.staged[r] /\ Try(moved, Goto("install"))
    <3>1. Missing \subseteq Parts /\ Missing \subseteq WantedParts(r)
      BY <2>2 DEF Missing
    <3>2. k \in Missing
      BY <2>10, <3>1, FirstIn DEF k
    <3>3. k \in Parts /\ r \notin dropped
      BY <2>7, <2>10, <3>1, <3>2
    <3>4. /\ \A p \in Parts : moved.next.has[p] = IF p = k THEN r ELSE disk.next.has[p]
          /\ moved.staged[r] = disk.staged[r] \ {k}
      BY <1>2, <2>2, <2>6, <3>3 DEF Packages
    <3>5. PendingOK(moved) /\ Unmoved(moved)
      BY <1>2, <2>6, <3>3 DEF WaitDisk, PendingOK, Unmoved, WaitingOf
    <3>6. StagedOK(moved, dropped)
      BY <1>2, <2>1, <2>2, <2>6, <3>3, <3>4 DEF WaitDisk, StagedOK
    <3>7. "install" \notin Handing
      BY DEF Handing
    <3> QED BY <1>2, <2>10, <3>5, <3>6, <3>7, GotoWaits DEF WaitDisk
  <2> QED BY <2>4, <2>8, <2>9, <2>10
<1> QED BY <1>3, <1>4

LEMMA HandOverWaits ==
  ASSUME IInv, WaitInv, Replace \/ Swap \/ DropReplaced
  PROVE  WaitInv' /\ Rests
<1> DEFINE r == mem.id
<1>1. /\ disk \in DiskType /\ MemInv(mem) /\ r \in Restores /\ DiskOK(disk)
      /\ disk.journal.op = "restore" /\ disk.journal.id = r /\ disk.applied = r
      /\ WaitDisk(disk, dropped) /\ WaitMem(disk, mem, dropped)
  BY WaitHere DEF Replace, Swap, DropReplaced, RestOK, Installing, Installed
<1>2. WantedParts(r) \subseteq Parts /\ r # None
  BY <1>1, RestoreAssumption DEF WantedParts, Parts
<1>3. CASE Replace
  <2> DEFINE new == IF disk.pending = Absent THEN disk
                    ELSE [disk EXCEPT !.replaced[r] = disk.pending, !.pending = Absent]
  <2>1. mem.at = "replace" /\ Try(new, Goto("swap"))
    BY <1>3 DEF Replace
  <2>2. /\ new.pending = Absent
        /\ new.journal = disk.journal /\ new.applied = disk.applied
        /\ new.activated = disk.activated /\ new.live = disk.live
        /\ new.next = disk.next /\ new.staged = disk.staged
        /\ new.settings = disk.settings /\ new.tables = disk.tables
    BY <1>1 DEF DiskType
  <2> HIDE DEF new
  <2>3. r \in Accounts \ dropped /\ \A k \in WantedParts(r) : disk.next.has[k] = r
    BY <1>1, <2>1 DEF WaitMem
  <2>4. WaitDisk(new, dropped) /\ Unmoved(new)
    BY <1>1, <1>2, <2>2, <2>3, AbsentType DEF WaitDisk, PendingOK, StagedOK,
       Unmoved, WaitingOf
  <2>5. WaitMem(new, Goto("swap"), dropped)
    BY <1>1, <2>2, <2>3, GotoFields DEF WaitMem
  <2> QED BY <1>1, <2>1, <2>4, <2>5, TryWaits
<1>4. CASE Swap
  <2> DEFINE new == [disk EXCEPT !.pending = disk.next, !.next = Absent]
  <2>1. mem.at = "swap" /\ Try(new, Goto("dropReplaced"))
    BY <1>4 DEF Swap
  <2>2. /\ new.pending = disk.next /\ new.next = Absent
        /\ new.journal = disk.journal /\ new.applied = disk.applied
        /\ new.activated = disk.activated /\ new.live = disk.live /\ new.staged = disk.staged
        /\ new.settings = disk.settings /\ new.tables = disk.tables
    BY <1>1 DEF DiskType
  <2> HIDE DEF new
  <2>3. /\ r \in Accounts \ dropped /\ \A k \in WantedParts(r) : disk.next.has[k] = r
        /\ disk.next.id = r
    BY <1>1, <2>1, WaitHere DEF WaitMem, RestOK
  <2>4. disk.staged[r] \cap WantedParts(r) = {}
    <3>1. r # Gone
      BY <1>1, RestoreAssumption
    <3> QED BY <1>1, <1>2, <2>3, <3>1 DEF WaitDisk, StagedOK
  <2>5. WaitDisk(new, dropped) /\ Unmoved(new)
    BY <1>1, <1>2, <2>2, <2>3, <2>4, AbsentType
       DEF WaitDisk, PendingOK, StagedOK, Unmoved, WaitingOf
  <2>6. "dropReplaced" \notin Handing
    BY DEF Handing
  <2> QED BY <1>1, <2>1, <2>5, <2>6, GotoWaits
<1>5. CASE DropReplaced
  <2> DEFINE new == [disk EXCEPT !.replaced[r] = Absent]
  <2>1. mem.at = "dropReplaced" /\ Try(new, Goto("clear"))
    BY <1>5 DEF DropReplaced
  <2>2. /\ new.journal = disk.journal
        /\ new.applied = disk.applied /\ new.activated = disk.activated /\ new.live = disk.live
        /\ new.pending = disk.pending /\ new.next = disk.next /\ new.staged = disk.staged
        /\ new.settings = disk.settings /\ new.tables = disk.tables
    BY <1>1 DEF DiskType
  <2> HIDE DEF new
  <2>3. WaitDisk(new, dropped) /\ Unmoved(new)
    BY <1>1, <2>2, SameWaits
  <2>4. disk.pending.id = r
    BY <2>1, WaitHere DEF RestOK
  <2>5. WaitMem(new, Goto("clear"), dropped)
    BY <1>1, <2>2, <2>4, GotoFields DEF WaitMem
  <2> QED BY <1>1, <2>1, <2>3, <2>5, TryWaits
<1> QED BY <1>3, <1>4, <1>5

\* A journal that goes, when it is not one of an activation under way.
LEMMA OverWaits ==
  ASSUME WaitDisk(disk, dropped), disk \in DiskType, NEW new,
         new.journal = NoJournal, new.pending = disk.pending,
         new.settings = disk.settings, new.tables = disk.tables,
         \/ disk.journal.op = "none"
         \/ /\ disk.journal.op = "restore"
            /\ disk.applied = disk.journal.id /\ disk.journal.id \in Accounts \ dropped =>
                 disk.pending.id = disk.journal.id
  PROVE  WaitDisk(new, dropped) /\ Unmoved(new)
<1>1. new.journal.op = "none"
  BY NoJournalType
<1>2. PendingOK(new) /\ StagedOK(new, dropped)
  BY <1>1 DEF WaitDisk, PendingOK, StagedOK
<1> QED BY <1>1, <1>2 DEF WaitDisk, Unmoved, WaitingOf

\* What is under restore/<id> and on its way from there, when no committed
\* restore is at it.
LEMMA SweptWaits ==
  ASSUME WaitDisk(disk, dropped), DiskOK(disk), NEW new,
         new.journal = disk.journal, new.applied = disk.applied, new.activated = disk.activated,
         new.live = disk.live, new.pending = disk.pending,
         new.settings = disk.settings, new.tables = disk.tables,
         new.next \in {disk.next, Absent},
         \A r \in Restores : new.staged[r] \in {{}, disk.staged[r]},
         disk.journal.op = "restore" => disk.applied # disk.journal.id
  PROVE  WaitDisk(new, dropped) /\ Unmoved(new)
<1>1. PendingOK(new)
  BY DEF WaitDisk, PendingOK
<1>2. StagedOK(new, dropped)
  BY AbsentType DEF WaitDisk, StagedOK, DiskOK, JournalOK
<1> QED BY <1>1, <1>2 DEF WaitDisk, Unmoved, WaitingOf

\* The fields of a disk without restore/<id>.
LEMMA RootFields ==
  ASSUME NEW d \in DiskType, NEW r
  PROVE  LET e == RmRoot(d, r)
         IN /\ e.journal = d.journal /\ e.applied = d.applied /\ e.activated = d.activated
            /\ e.live = d.live /\ e.pending = d.pending /\ e.next = d.next
            /\ e.settings = d.settings /\ e.tables = d.tables
            /\ \A q \in Restores : e.staged[q] \in {{}, d.staged[q]}
<1> DEFINE e == RmRoot(d, r)
<1>1. /\ e.journal = d.journal /\ e.applied = d.applied /\ e.activated = d.activated
      /\ e.live = d.live /\ e.pending = d.pending /\ e.next = d.next
      /\ e.settings = d.settings /\ e.tables = d.tables
      /\ e.staged = [d.staged EXCEPT ![r] = {}]
  BY DEF DiskType, RmRoot
<1>2. d.staged \in [Restores -> SUBSET (Parts \cup {"metadata", "persona"})]
  BY DiskFields
<1> HIDE DEF e
<1>3. \A q \in Restores : e.staged[q] \in {{}, d.staged[q]}
  BY <1>1, <1>2
<1> QED BY <1>1, <1>3 DEF e

LEMMA EndsWait ==
  ASSUME IInv, WaitInv, Clear \/ Sweep \/ Unstage \/ Unjournal
  PROVE  WaitInv' /\ Rests
<1> DEFINE r    == mem.id
           none == [disk EXCEPT !.journal = NoJournal]
<1>1. /\ disk \in DiskType /\ MemInv(mem) /\ DiskOK(disk) /\ RestOK(disk, mem)
      /\ WaitDisk(disk, dropped) /\ WaitMem(disk, mem, dropped)
  BY WaitHere
<1>2. /\ none.journal = NoJournal /\ none.pending = disk.pending
      /\ none.settings = disk.settings /\ none.tables = disk.tables
  BY <1>1 DEF DiskType
<1>3. disk.journal.op \in {"none", "restore", "activate"}
  BY <1>1, DiskFields DEF Journals
<1>4. "sweep" \notin Handing /\ "orphans" \notin Handing /\ "unjournal" \notin Handing
  BY DEF Handing
<1> HIDE DEF none
<1>5. CASE Clear
  <2>1. mem.at = "clear" /\ Try(none, Goto("sweep"))
    BY <1>5 DEF Clear, none
  <2>2. disk.journal.op = "restore" /\ disk.journal.id = r
    BY <1>1, <2>1 DEF RestOK, Installing
  <2>3. WaitDisk(none, dropped) /\ Unmoved(none)
    BY <1>1, <1>2, <2>1, <2>2, OverWaits DEF WaitMem
  <2> QED BY <1>1, <1>4, <2>1, <2>3, GotoWaits
<1>6. CASE Sweep \/ Unstage
  <2> DEFINE new == RmRoot(disk, r)
  <2>1. \/ Try(new, JobOver)
        \/ \E step \in {"orphans", "unjournal"} : Try(new, Goto(step))
    BY <1>6 DEF Sweep, Unstage
  <2>2. disk.journal.op = "restore" => disk.applied # disk.journal.id
    BY <1>1, <1>6, NoJournalType DEF Sweep, Unstage, RestOK, Failing
  <2>3. WaitDisk(new, dropped) /\ Unmoved(new)
    BY <1>1, <2>2, RootFields, SweptWaits
  <2> HIDE DEF new
  <2> QED BY <1>1, <1>4, <2>1, <2>3, GotoWaits, EndWaits
<1>7. CASE Unjournal
  <2>1. mem.at = "unjournal" /\ Try(none, JobOver)
    BY <1>7 DEF Unjournal, none
  <2>2. disk.journal.op = "none" \/ (disk.journal.op = "restore" /\ disk.applied # disk.journal.id)
    BY <1>1, <1>3, <2>1 DEF RestOK, Failing
  <2>3. WaitDisk(none, dropped) /\ Unmoved(none)
    BY <1>1, <1>2, <2>2, OverWaits
  <2> QED BY <1>1, <2>1, <2>3, EndWaits
<1> QED BY <1>5, <1>6, <1>7

LEMMA RecoveryWaits ==
  ASSUME IInv, WaitInv, GiveBack \/ Forget \/ Orphans
  PROVE  WaitInv' /\ Rests
<1> DEFINE r == mem.id
<1>1. /\ disk \in DiskType /\ MemInv(mem) /\ DiskOK(disk) /\ RestOK(disk, mem)
      /\ WaitDisk(disk, dropped) /\ WaitMem(disk, mem, dropped)
  BY WaitHere
<1>2. mem.at \in Recovering => disk.journal.op = "restore" /\ disk.journal.id = r /\ disk.applied # r
  BY <1>1 DEF RestOK
<1>3. CASE GiveBack
  <2> DEFINE kept == IF disk.pending.id = r THEN Absent ELSE disk.pending
             new  == [disk EXCEPT !.pending = IF kept = Absent THEN disk.replaced[r] ELSE kept,
                                  !.replaced[r] = IF kept = Absent THEN Absent ELSE @]
  <2>1. mem.at = "giveBack" /\ Try(new, Goto("forget"))
    BY <1>3 DEF GiveBack
  <2>2. disk.replaced[r] = Absent /\ disk.pending.id # r
    BY <1>1, <1>2, <2>1 DEF Recovering, DiskOK, JournalOK
  <2>3. /\ new.pending = disk.pending
        /\ new.journal = disk.journal /\ new.applied = disk.applied
        /\ new.activated = disk.activated /\ new.live = disk.live
        /\ new.next = disk.next /\ new.staged = disk.staged
        /\ new.settings = disk.settings /\ new.tables = disk.tables
    BY <1>1, <2>2 DEF DiskType
  <2> HIDE DEF new
  <2>4. WaitDisk(new, dropped) /\ Unmoved(new)
    BY <1>1, <2>3, SameWaits
  <2>5. "forget" \notin Handing
    BY DEF Handing
  <2> QED BY <1>1, <2>1, <2>4, <2>5, GotoWaits
<1>4. CASE Forget
  <2> DEFINE new == [RmRoot(disk, r) EXCEPT !.next = Absent]
  <2>1. mem.at = "forget" /\ Try(new, Goto("clear"))
    BY <1>4 DEF Forget
  <2>2. /\ new.next = Absent
        /\ new.journal = disk.journal /\ new.applied = disk.applied
        /\ new.activated = disk.activated /\ new.live = disk.live /\ new.pending = disk.pending
        /\ new.settings = disk.settings /\ new.tables = disk.tables
        /\ new.staged = RmRoot(disk, r).staged
    BY <1>1 DEF DiskType, RmRoot
  <2> HIDE DEF new
  <2>3. \A q \in Restores : new.staged[q] \in {{}, disk.staged[q]}
    BY <1>1, <2>2, RootFields
  <2>4. WaitDisk(new, dropped) /\ Unmoved(new)
    BY <1>1, <1>2, <2>1, <2>2, <2>3, SweptWaits DEF Recovering
  <2>5. WaitMem(new, Goto("clear"), dropped)
    BY <1>1, <1>2, <2>1, <2>2, GotoFields DEF WaitMem, Recovering
  <2> QED BY <1>1, <2>1, <2>4, <2>5, TryWaits
<1>5. CASE Orphans
  <2> DEFINE new == [disk EXCEPT !.staged   = [q \in Restores |-> {}],
                                 !.previous = [q \in Restores |-> NoFolders],
                                 !.replaced = [q \in Restores |-> Absent],
                                 !.next     = Absent]
  <2>1. mem.at = "orphans" /\ Try(new, Idle)
    BY <1>5 DEF Orphans
  <2>2. /\ new.next = Absent /\ new.staged = [q \in Restores |-> {}]
        /\ new.journal = disk.journal /\ new.applied = disk.applied
        /\ new.activated = disk.activated /\ new.live = disk.live /\ new.pending = disk.pending
        /\ new.settings = disk.settings /\ new.tables = disk.tables
    BY <1>1 DEF DiskType
  <2> HIDE DEF new
  <2>3. disk.journal.op # "restore"
    BY <1>1, <2>1, NoJournalType DEF RestOK
  <2>4. WaitDisk(new, dropped) /\ Unmoved(new)
    BY <1>1, <2>2, <2>3, SweptWaits
  <2> QED BY <1>1, <2>1, <2>4, EndWaits
<1> QED BY <1>3, <1>4, <1>5

(* An activation. *)

\* Folders move between pending, live and previous: what waits stays whole.
LEMMA MovingWaits ==
  ASSUME WaitDisk(disk, dropped), disk.journal.op = "activate",
         disk.activated # disk.journal.id, NEW new,
         new.journal.op = "activate", new.journal.id = disk.journal.id,
         new.activated = disk.activated, new.pending.id = disk.pending.id,
         disk.pending # Absent,
         new.settings = disk.settings, new.tables = disk.tables,
         \A k \in WantedParts(disk.journal.id) :
           \/ disk.pending.has[k] = disk.journal.id
           \/ k \in Folders /\ disk.live[k] = disk.journal.id
           => \/ new.pending.has[k] = disk.journal.id
              \/ k \in Folders /\ new.live[k] = disk.journal.id
  PROVE  WaitDisk(new, dropped) /\ Unmoved(new)
<1>1. PendingOK(new)
  BY DEF WaitDisk, PendingOK
<1>2. StagedOK(new, dropped)
  BY DEF StagedOK
<1> QED BY <1>1, <1>2 DEF WaitDisk, Unmoved, WaitingOf

\* The disk while folders move and tables are replaced.
LEMMA ActWaits ==
  ASSUME IInv, WaitInv, mem.at \in Activating \ {"migrate", "toCleanup"}
  PROVE  /\ disk \in DiskType /\ MemInv(mem) /\ mem \in MemType /\ mem.id \in Restores
         /\ WaitDisk(disk, dropped)
         /\ disk.journal.op = "activate" /\ disk.journal.id = mem.id
         /\ disk.activated # mem.id /\ disk.pending.id = mem.id /\ disk.pending # Absent
         /\ WantedParts(mem.id) \subseteq Parts /\ mem.id # Gone
<1>1. /\ disk \in DiskType /\ MemInv(mem) /\ mem \in MemType /\ mem.id \in Restores
      /\ WaitDisk(disk, dropped)
      /\ disk.journal = NotedOf(mem) /\ disk.activated # mem.id /\ disk.pending.id = mem.id
  BY WaitHere DEF ActOK
<1>2. mem.id # None /\ mem.id # Gone /\ WantedParts(mem.id) \subseteq Parts
  BY <1>1, RestoreAssumption DEF WantedParts, Parts
<1> QED BY <1>1, <1>2, AbsentType DEF NotedOf, ActivateJournal

LEMMA NotesWait ==
  ASSUME IInv, WaitInv, Migrate \/ Check \/ CheckFails \/ ToDb \/ ToCleanup
  PROVE  WaitInv' /\ Rests
<1> DEFINE Noted(step, moved) == [disk EXCEPT !.journal = ActivateJournal(mem.id, step, moved)]
<1>1. /\ disk \in DiskType /\ MemInv(mem) /\ DiskOK(disk) /\ ActOK(disk, mem)
      /\ WaitDisk(disk, dropped)
  BY WaitHere
<1>2. \A step, moved :
        LET d == Noted(step, moved)
        IN /\ d.journal.op = "activate" /\ d.journal.id = mem.id
           /\ d.applied = disk.applied /\ d.activated = disk.activated /\ d.live = disk.live
           /\ d.pending = disk.pending /\ d.next = disk.next /\ d.staged = disk.staged
           /\ d.settings = disk.settings /\ d.tables = disk.tables
  BY <1>1 DEF DiskType, ActivateJournal
<1>3. \A step \in {"check", "out", "tables", "dropPrevious"} : step \notin Handing
  BY DEF Handing
<1> HIDE DEF Noted
<1>4. CASE Migrate
  <2>1. mem.at = "migrate" /\ Try(Noted("migrate", <<>>), Goto("check"))
    BY <1>4 DEF Migrate, Noted
  <2>2. disk.journal.op = "none" /\ disk.pending.id = mem.id /\ mem.id \in Restores
    BY <1>1, <2>1, NoJournalType, WaitHere DEF ActOK, Activating
  <2>3. disk.activated # mem.id /\ disk.pending # Absent
    BY <1>1, <2>2, AbsentType, RestoreAssumption DEF DiskOK, TablesOK, Replaced
  <2> DEFINE new == Noted("migrate", <<>>)
  <2>4. PendingOK(new) /\ StagedOK(new, dropped) /\ Unmoved(new)
    BY <1>1, <1>2, <2>2, <2>3 DEF WaitDisk, PendingOK, StagedOK, Unmoved, WaitingOf
  <2> HIDE DEF new
  <2> QED BY <1>1, <1>3, <2>1, <2>4, GotoWaits DEF WaitDisk, new
<1>5. ASSUME disk.journal.op = "activate", disk.journal.id = mem.id
      PROVE  \A step, moved : WaitDisk(Noted(step, moved), dropped) /\ Unmoved(Noted(step, moved))
  BY <1>1, <1>2, <1>5, SameWaits
<1>6. CASE Check
  <2>1. mem.at = "check" /\ Try(Noted("files", <<>>), Goto("out"))
    BY <1>6 DEF Check, Noted
  <2>2. disk.journal.op = "activate" /\ disk.journal.id = mem.id
    BY <2>1, ActWaits DEF Activating
  <2> QED BY <1>1, <1>3, <1>5, <2>1, <2>2, GotoWaits
<1>7. CASE CheckFails
  BY <1>1, <1>7, ThrowsWaits DEF CheckFails
<1>8. CASE ToDb
  <2>1. mem.at = "toDb" /\ Try(Noted("db", mem.moved), Goto("tables"))
    BY <1>8 DEF ToDb, Noted
  <2>2. disk.journal.op = "activate" /\ disk.journal.id = mem.id
    BY <2>1, ActWaits DEF Activating
  <2> QED BY <1>1, <1>3, <1>5, <2>1, <2>2, GotoWaits
<1>9. CASE ToCleanup
  <2>1. mem.at = "toCleanup" /\ Try(Noted("cleanup", mem.moved), Goto("dropPrevious"))
    BY <1>9 DEF ToCleanup, Noted
  <2>2. disk.journal.op = "activate" /\ disk.journal.id = mem.id
    BY <1>1, <2>1 DEF ActOK, DoneOK
  <2> QED BY <1>1, <1>3, <1>5, <2>1, <2>2, GotoWaits
<1> QED BY <1>4, <1>6, <1>7, <1>8, <1>9

LEMMA IntendWaits ==
  ASSUME IInv, WaitInv, mem.at \in {"out", "in"}, NEW way, NEW new \in DiskType,
         NEW after \in {"outMove", "inMove"}, Intend(way, new, after),
         new.journal = disk.journal, new.activated = disk.activated, new.live = disk.live,
         new.settings = disk.settings, new.tables = disk.tables,
         new.pending.id = disk.pending.id,
         \A k \in Parts : disk.pending.has[k] = mem.id => new.pending.has[k] = mem.id
  PROVE  WaitInv' /\ Rests
<1> DEFINE moved == Append(mem.moved, [way |-> way, folder |-> Current])
           noted == [new EXCEPT !.journal = ActivateJournal(mem.id, "files", moved)]
           m(at) == [[mem EXCEPT !.moved = moved] EXCEPT !.at = at]
<1>1. /\ disk \in DiskType /\ MemInv(mem) /\ mem \in MemType /\ WaitDisk(disk, dropped)
      /\ disk.journal.op = "activate" /\ disk.journal.id = mem.id
      /\ disk.activated # mem.id /\ disk.pending # Absent
      /\ WantedParts(mem.id) \subseteq Parts
  BY ActWaits DEF Activating
<1>2. disk' \in {disk, new, noted} /\ dropped' = dropped
      /\ \E at \in {after, "undo"} : mem' = m(at)
  BY DEF Intend
<1>3. /\ noted.journal.op = "activate" /\ noted.journal.id = mem.id
      /\ noted.activated = disk.activated /\ noted.live = disk.live
      /\ noted.settings = disk.settings /\ noted.tables = disk.tables
      /\ noted.pending = new.pending
  BY DEF DiskType, ActivateJournal
<1> HIDE DEF noted
<1>4. \A d \in {new, noted} : WaitDisk(d, dropped) /\ Unmoved(d)
  <2> TAKE d \in {new, noted}
  <2>1. /\ d.journal.op = "activate" /\ d.journal.id = mem.id
        /\ d.activated = disk.activated /\ d.live = disk.live
        /\ d.settings = disk.settings /\ d.tables = disk.tables /\ d.pending = new.pending
    BY <1>1, <1>3
  <2> QED BY <1>1, <2>1, MovingWaits
<1>5. Unmoved(disk) /\ WaitDisk(disk, dropped)
  BY <1>1 DEF Unmoved
<1> HIDE DEF Unmoved
<1>6. WaitDisk(disk', dropped) /\ Unmoved(disk')
  BY <1>2, <1>4, <1>5
<1>7. \A at : m(at).at = at /\ m(at).tried = mem.tried /\ m(at).job = mem.job /\ m(at).jobId = mem.jobId
  BY <1>1 DEF MemType
<1> HIDE DEF m
<1>8. WaitMem(disk', mem', dropped)
  <2>1. PICK at \in {after, "undo"} : mem' = m(at)
    BY <1>2
  <2>2. at \notin Handing
    BY DEF Handing
  <2> QED BY <1>7, <2>1, <2>2, PlainMem
<1> QED BY <1>2, <1>6, <1>8 DEF WaitInv, Rests

LEMMA MovesWait ==
  ASSUME IInv, WaitInv, MoveOut \/ MoveIn
  PROVE  WaitInv' /\ Rests
<1>0. mem.at \in {"out", "in"} /\ mem.at \in Activating \ {"migrate", "toCleanup"}
  BY DEF MoveOut, MoveIn, Activating
<1>1. /\ disk \in DiskType /\ DiskInv(disk) /\ MemInv(mem) /\ mem.id \in Restores
      /\ WaitDisk(disk, dropped) /\ disk.journal.op = "activate" /\ disk.journal.id = mem.id
      /\ disk.activated # mem.id /\ disk.pending # Absent /\ mem.id # Gone
      /\ WantedParts(mem.id) \subseteq Parts
  BY <1>0, ActWaits, WaitHere
<1>2. CASE MoveIn
  BY <1>0, <1>1, <1>2, IntendWaits DEF MoveIn
<1>3. CASE MoveOut
  <2> DEFINE new == Sourced
  <2>1. Current \in Folders /\ Current \in Parts
    BY <1>1, <1>3, CurrentIn DEF MoveOut, TypeInv, Parts
  <2>2. disk.pending \in Packages
    BY <1>1, DiskFields
  <2>3. /\ new.journal = disk.journal /\ new.activated = disk.activated /\ new.live = disk.live
        /\ new.settings = disk.settings /\ new.tables = disk.tables
        /\ new.pending.id = disk.pending.id
        /\ \A k \in Parts : disk.pending.has[k] = mem.id => new.pending.has[k] = mem.id
    BY <1>1, <2>1, <2>2 DEF DiskType, Packages, Sourced
  <2>4. new \in DiskType
    <3>1. mem.id \in Data
      BY <1>1 DEF Data
    <3> QED BY <1>1, <2>1, <2>2, <3>1 DEF DiskType, Packages, Sourced
  <2>5. Try(new, Goto("in")) \/ Intend("out", new, "outMove")
    BY <1>3 DEF MoveOut
  <2> HIDE DEF new
  <2>6. CASE Try(new, Goto("in"))
    <3>1. WaitDisk(new, dropped) /\ Unmoved(new)
      BY <1>1, <2>3, MovingWaits
    <3>2. "in" \notin Handing
      BY DEF Handing
    <3> QED BY <1>1, <2>6, <3>1, <3>2, GotoWaits
  <2> QED BY <1>0, <2>3, <2>4, <2>5, <2>6, IntendWaits
<1> QED BY <1>2, <1>3

LEMMA RenamesWait ==
  ASSUME IInv, WaitInv, RenameOut \/ RenameIn
  PROVE  WaitInv' /\ Rests
<1> DEFINE r == mem.id
<1>1. mem.at \in Activating \ {"migrate", "toCleanup"}
  BY DEF RenameOut, RenameIn, Activating
<1>2. /\ disk \in DiskType /\ MemInv(mem) /\ r \in Restores /\ mem.moved \in MoveLists
      /\ WaitDisk(disk, dropped) /\ disk.journal.op = "activate" /\ disk.journal.id = r
      /\ disk.activated # r /\ disk.pending # Absent /\ r # Gone
      /\ WantedParts(r) \subseteq Parts /\ ActOK(disk, mem)
  BY <1>1, ActWaits, WaitHere DEF MemType
<1>3. disk.live \in [Folders -> Data] /\ disk.pending \in Packages
  BY <1>2, DiskFields
<1>4. CASE RenameOut
  <2> DEFINE c   == Current
             new == [disk EXCEPT !.previous[r][c] = disk.live[c], !.live[c] = Gone]
  <2>1. mem.at = "outMove" /\ Try(new, Goto("in"))
    BY <1>4, ZenonT(60) DEF RenameOut
  <2>2. disk.pending.has[c] = r
    BY <1>2, <2>1 DEF ActOK, CurrentOf, Current, MovedOf, InOf
  <2>3. /\ new.live = [disk.live EXCEPT ![c] = Gone] /\ new.pending = disk.pending
        /\ new.journal = disk.journal /\ new.activated = disk.activated
        /\ new.settings = disk.settings /\ new.tables = disk.tables
    BY <1>2 DEF DiskType
  <2> HIDE DEF new, c
  <2>4. WaitDisk(new, dropped) /\ Unmoved(new)
    BY <1>2, <1>3, <2>2, <2>3, MovingWaits
  <2>5. "in" \notin Handing
    BY DEF Handing
  <2> QED BY <1>2, <2>1, <2>4, <2>5, GotoWaits
<1>5. CASE RenameIn
  <2> DEFINE f    == mem.moved[Len(mem.moved)].folder
             next == IF MovedOf("in") = Folders THEN "toDb" ELSE "out"
             new  == [disk EXCEPT !.live[f] = disk.pending.has[f], !.pending.has[f] = Gone]
  <2>1. mem.at = "inMove" /\ Try(new, Goto(next))
    BY <1>5 DEF RenameIn
  <2>2. disk.pending.has[f] = r /\ mem.moved # <<>>
    BY <1>2, <2>1 DEF ActOK, LastOf, Opened
  <2>3. f \in Folders /\ f \in Parts
    BY <1>2, <2>2, Moving DEF Parts
  <2>4. /\ new.live = [disk.live EXCEPT ![f] = r]
        /\ new.pending.id = disk.pending.id
        /\ new.pending.has = [disk.pending.has EXCEPT ![f] = Gone]
        /\ new.journal = disk.journal /\ new.activated = disk.activated
        /\ new.settings = disk.settings /\ new.tables = disk.tables
    BY <1>2, <1>3, <2>2, <2>3 DEF DiskType, Packages
  <2>5. next \notin Handing
    BY DEF Handing
  <2> HIDE DEF new, f, next
  <2>6. \A k \in WantedParts(r) :
          \/ disk.pending.has[k] = r
          \/ k \in Folders /\ disk.live[k] = r
          => \/ new.pending.has[k] = r
             \/ k \in Folders /\ new.live[k] = r
    BY <1>2, <1>3, <2>2, <2>3, <2>4 DEF Packages
  <2>7. WaitDisk(new, dropped) /\ Unmoved(new)
    BY <1>2, <2>4, <2>6, MovingWaits
  <2> QED BY <1>2, <2>1, <2>5, <2>7, GotoWaits
<1> QED BY <1>4, <1>5

\* The transaction of the tables is the activation of the specification.
LEMMA ReplaceWaits ==
  ASSUME IInv, WaitInv, ReplaceTables
  PROVE  WaitInv' /\ (Rests \/ Swapped!Next)
<1> DEFINE r   == mem.id
           new == [disk EXCEPT !.tables = disk.pending.has["db"], !.activated = r]
<1>1. mem.at = "tables" /\ Try(new, Goto("toCleanup"))
  BY DEF ReplaceTables
<1>2. /\ disk \in DiskType /\ MemInv(mem) /\ r \in Restores /\ DiskOK(disk)
      /\ WaitDisk(disk, dropped) /\ disk.journal.op = "activate" /\ disk.journal.id = r
      /\ disk.activated # r /\ disk.pending.id = r /\ disk.pending # Absent
  BY <1>1, ActWaits, WaitHere DEF Activating
<1>3. disk.pending.has["db"] = r /\ r # None
  BY <1>2, RestoreAssumption DEF DiskOK, TablesOK, Package
<1>4. /\ new.tables = r /\ new.activated = r /\ new.journal = disk.journal
      /\ new.settings = disk.settings
  BY <1>2, <1>3 DEF DiskType
<1> HIDE DEF new
<1>5. WaitDisk(new, dropped)
  BY <1>2, <1>4 DEF WaitDisk, PendingOK, StagedOK
<1>6. WaitMem(new, Goto("toCleanup"), dropped)
  BY <1>2, GotoFields, PlainMem DEF Handing
<1>7. ASSUME disk' = new, dropped' = dropped PROVE Swapped!Next
  <2>1. WaitingOf(disk, dropped) = r /\ WaitingOf(new, dropped) = None
    BY <1>2, <1>4 DEF WaitingOf
  <2>2. Swapped!Activate
    BY <1>3, <1>4, <1>7, <2>1, WaitingIs DEF Swapped!Activate
  <2> QED BY <2>2 DEF Swapped!Next
<1> QED BY <1>1, <1>2, <1>5, <1>6, <1>7, TryMoves

\* When the tables are replaced nothing waits any more.
LEMMA DoneWaits ==
  ASSUME DiskOK(disk), NEW r \in Restores, DoneOK(disk, r), NEW new,
         new.journal \in {disk.journal, NoJournal}, new.activated = disk.activated,
         new.pending \in {disk.pending, Absent},
         new.journal = NoJournal => new.pending = Absent,
         new.settings = disk.settings, new.tables = disk.tables
  PROVE  WaitDisk(new, dropped) /\ Unmoved(new)
<1>1. PendingOK(new)
  BY NoJournalType, AbsentType DEF DoneOK, PendingOK
<1>2. new.journal.op # "restore"
  BY NoJournalType DEF DoneOK
<1>3. WaitingOf(disk, dropped) = None
  BY AbsentType DEF DoneOK, WaitingOf
<1>4. WaitingOf(new, dropped) = None
  BY NoJournalType, AbsentType DEF DoneOK, WaitingOf
<1> QED BY <1>1, <1>2, <1>3, <1>4 DEF WaitDisk, StagedOK, Unmoved

LEMMA FinishWaits ==
  ASSUME IInv, WaitInv, DropPrevious \/ DropPending \/ DropRoot \/ ClearDone
  PROVE  WaitInv' /\ Rests
<1> DEFINE r == mem.id
<1>1. /\ mem.at \in Finishing /\ disk \in DiskType /\ MemInv(mem) /\ r \in Restores
      /\ DiskOK(disk) /\ DoneOK(disk, r) /\ ActOK(disk, mem)
  BY WaitHere DEF DropPrevious, DropPending, DropRoot, ClearDone, Finishing, ActOK
<1>2. \A step \in {"dropPending", "dropRoot", "clearDone", "orphans"} : step \notin Handing
  BY DEF Handing
<1>3. CASE DropPrevious
  <2> DEFINE new == [disk EXCEPT !.previous[r] = NoFolders]
  <2>1. Try(new, Goto("dropPending"))
    BY <1>3 DEF DropPrevious
  <2>2. /\ new.journal = disk.journal /\ new.activated = disk.activated
        /\ new.pending = disk.pending
        /\ new.settings = disk.settings /\ new.tables = disk.tables
    BY <1>1 DEF DiskType
  <2> HIDE DEF new
  <2>3. new.journal = NoJournal => new.pending = Absent
    BY <1>1, <2>2, NoJournalType DEF DoneOK
  <2>4. WaitDisk(new, dropped) /\ Unmoved(new)
    BY <1>1, <2>2, <2>3, DoneWaits
  <2> QED BY <1>1, <1>2, <2>1, <2>4, GotoWaits
<1>4. CASE DropPending
  <2> DEFINE new == [disk EXCEPT !.pending = Absent]
  <2>1. Try(new, Goto("dropRoot"))
    BY <1>4 DEF DropPending
  <2>2. /\ new.journal = disk.journal /\ new.activated = disk.activated
        /\ new.pending = Absent
        /\ new.settings = disk.settings /\ new.tables = disk.tables
    BY <1>1 DEF DiskType
  <2> HIDE DEF new
  <2>3. WaitDisk(new, dropped) /\ Unmoved(new)
    BY <1>1, <2>2, DoneWaits
  <2> QED BY <1>1, <1>2, <2>1, <2>3, GotoWaits
<1>5. CASE DropRoot
  <2> DEFINE new == RmRoot(disk, r)
  <2>1. mem.at = "dropRoot" /\ Try(new, Goto("clearDone"))
    BY <1>5 DEF DropRoot
  <2>2. disk.pending = Absent
    BY <1>1, <2>1 DEF ActOK
  <2>3. WaitDisk(new, dropped) /\ Unmoved(new)
    <3>1. /\ new.journal = disk.journal /\ new.activated = disk.activated
          /\ new.pending = disk.pending
          /\ new.settings = disk.settings /\ new.tables = disk.tables
      BY <1>1, RootFields
    <3> HIDE DEF new
    <3> QED BY <1>1, <2>2, <3>1, DoneWaits
  <2> HIDE DEF new
  <2> QED BY <1>1, <1>2, <2>1, <2>3, GotoWaits
<1>6. CASE ClearDone
  <2> DEFINE new == [disk EXCEPT !.journal = NoJournal]
  <2>1. mem.at = "clearDone" /\ (Try(new, Serve) \/ Try(new, Goto("orphans")))
    BY <1>6 DEF ClearDone, AfterActivation
  <2>2. /\ new.journal = NoJournal /\ new.activated = disk.activated
        /\ new.pending = disk.pending /\ disk.pending = Absent
        /\ new.settings = disk.settings /\ new.tables = disk.tables
    BY <1>1, <2>1 DEF DiskType, ActOK
  <2> HIDE DEF new
  <2>3. WaitDisk(new, dropped) /\ Unmoved(new)
    BY <1>1, <2>2, DoneWaits
  <2>4. WaitInv
    OBVIOUS
  <2> QED BY <1>1, <1>2, <2>1, <2>3, GotoWaits, EndWaits
<1> QED BY <1>3, <1>4, <1>5, <1>6

\* With no move noted nothing of what waits is anywhere else.
LEMMA BackInPending ==
  ASSUME DiskOK(disk), PendingOK(disk), disk.journal.op = "activate",
         disk.activated # disk.journal.id,
         Undoable(disk, disk.journal.id, <<>>), disk.pending # Absent
  PROVE  /\ disk.pending.id = disk.journal.id
         /\ \A k \in WantedParts(disk.pending.id) : disk.pending.has[k] = disk.pending.id
<1> DEFINE r == disk.journal.id
<1>1. r \in Accounts /\ r \in Restores
  BY RestoreAssumption DEF DiskOK, JournalOK
<1>2. /\ disk.pending.id = r
      /\ \A k \in WantedParts(r) : disk.pending.has[k] = r \/ (k \in Folders /\ disk.live[k] = r)
  BY DEF PendingOK
<1>3. \A f \in Folders : disk.live[f] # r
  <2> TAKE f \in Folders
  <2>1. Home(disk, f)
    BY NoMoves DEF Undoable, Untouched, TakenOut, TakenIn
  <2>2. disk.tables # r /\ r \notin {Gone, Fresh}
    BY <1>1, RestoreAssumption DEF DiskOK, TablesOK
  <2> QED BY <2>1, <2>2 DEF Home
<1> QED BY <1>2, <1>3

LEMMA UndoWaits ==
  ASSUME IInv, WaitInv, Undo \/ AllUndone
  PROVE  WaitInv' /\ Rests
<1> DEFINE r == mem.id
<1>1. /\ mem.at = "undo" /\ disk \in DiskType /\ MemInv(mem) /\ mem \in MemType /\ r \in Restores
      /\ DiskOK(disk) /\ WaitDisk(disk, dropped)
      /\ Undoable(disk, r, mem.moved) /\ disk.activated # r
      /\ \/ disk.journal = NoJournal /\ mem.moved = <<>>
         \/ disk.journal.op = "activate" /\ disk.journal.id = r
  BY WaitHere DEF Undo, AllUndone, Undoing, ActOK, UndoOK
<1>2. CASE Undo
  <2> DEFINE m    == mem.moved[Len(mem.moved)]
             less == SubSeq(mem.moved, 1, Len(mem.moved) - 1)
             new  == Undone(m)
             after == [mem EXCEPT !.moved = less]
  <2>1. mem.moved # <<>> /\ Try(new, after)
    BY <1>2 DEF Undo
  <2>2. mem.moved \in MoveLists /\ disk.live \in [Folders -> Data] /\ disk.pending \in Packages
    BY <1>1, DiskFields DEF MemType
  <2>3. m \in Moves /\ m.folder \in Folders /\ m.folder \in Parts
    BY <2>1, <2>2, Moving DEF Parts
  <2>4. /\ after.at = "undo" /\ after.tried = mem.tried /\ after.job = mem.job
        /\ after.jobId = mem.jobId
    BY <1>1 DEF MemType
  <2> HIDE DEF m, after
  <2>5. /\ disk.pending.id = r /\ disk.pending # Absent
        /\ disk.journal.op = "activate" /\ disk.journal.id = r /\ r # Gone
    BY <1>1, <2>1, AbsentType, RestoreAssumption DEF Undoable
  <2>6. /\ new.journal = disk.journal /\ new.activated = disk.activated
        /\ new.settings = disk.settings /\ new.tables = disk.tables
        /\ new.pending.id = disk.pending.id
    BY <1>1, <2>2 DEF DiskType, Packages, Undone
  <2>7. \A k \in WantedParts(r) :
          \/ disk.pending.has[k] = r
          \/ k \in Folders /\ disk.live[k] = r
          => \/ new.pending.has[k] = r
             \/ k \in Folders /\ new.live[k] = r
    <3> DEFINE f == m.folder
               back == [disk EXCEPT !.live[f] = disk.previous[r][f], !.previous[r][f] = Gone]
               out  == [disk EXCEPT !.pending.has[f] = disk.live[f], !.live[f] = Gone]
    <3>1. \/ new = disk
          \/ new = back /\ disk.live[f] = Gone
          \/ new = out /\ disk.live[f] # Gone /\ disk.pending.has[f] = Gone
      BY DEF Undone
    <3>2. back.pending = disk.pending /\ back.live = [disk.live EXCEPT ![f] = disk.previous[r][f]]
      BY <1>1 DEF DiskType
    <3>3. out.live = [disk.live EXCEPT ![f] = Gone]
          /\ out.pending.has = [disk.pending.has EXCEPT ![f] = disk.live[f]]
      BY <1>1, <2>2 DEF DiskType, Packages
    <3>4. f \in Folders /\ f \in Parts /\ WantedParts(r) \subseteq Parts
      BY <1>1, <2>3, RestoreAssumption DEF WantedParts, Parts
    <3> HIDE DEF new, f, back, out
    <3>5. CASE new = back /\ disk.live[f] = Gone
      BY <2>2, <2>5, <3>2, <3>4, <3>5
    <3>6. CASE new = out /\ disk.live[f] # Gone /\ disk.pending.has[f] = Gone
      BY <2>2, <2>5, <3>3, <3>4, <3>6 DEF Packages
    <3> QED BY <3>1, <3>5, <3>6
  <2> HIDE DEF new
  <2>8. WaitDisk(new, dropped) /\ Unmoved(new)
    BY <1>1, <2>5, <2>6, <2>7, MovingWaits
  <2>9. WaitMem(new, after, dropped)
    BY <2>4, PlainMem DEF Handing
  <2> QED BY <1>1, <2>1, <2>8, <2>9, TryWaits
<1>3. CASE AllUndone
  <2> DEFINE new == [disk EXCEPT !.journal = NoJournal]
  <2>1. mem.moved = <<>> /\ (Try(new, Serve) \/ Try(new, Goto("orphans")))
    BY <1>3 DEF AllUndone, AfterActivation
  <2>2. /\ new.journal = NoJournal /\ new.pending = disk.pending
        /\ new.settings = disk.settings /\ new.tables = disk.tables
    BY <1>1 DEF DiskType
  <2> HIDE DEF new
  <2>3. WaitDisk(new, dropped) /\ Unmoved(new)
    <3>1. CASE disk.journal = NoJournal
      BY <1>1, <2>2, <3>1, NoJournalType, OverWaits
    <3>2. CASE disk.journal.op = "activate" /\ disk.journal.id = r
      <4>1. disk.pending # Absent =>
              \A k \in WantedParts(disk.pending.id) : disk.pending.has[k] = disk.pending.id
        BY <1>1, <2>1, <3>2, BackInPending DEF WaitDisk
      <4>2. PendingOK(new) /\ StagedOK(new, dropped)
        BY <2>2, <4>1, NoJournalType DEF PendingOK, StagedOK
      <4>3. Unmoved(new)
        BY <1>1, <2>2, <3>2, NoJournalType DEF Unmoved, WaitingOf
      <4> QED BY <4>2, <4>3 DEF WaitDisk
    <3> QED BY <1>1, <3>1, <3>2
  <2>4. "orphans" \notin Handing
    BY DEF Handing
  <2> QED BY <1>1, <2>1, <2>3, <2>4, GotoWaits, EndWaits
<1> QED BY <1>2, <1>3

(* Events and the start. *)

LEMMA JobsWait ==
  ASSUME IInv, WaitInv, JobEvents \/ \E r \in Restores : StartRestore(r)
  PROVE  WaitInv' /\ Rests
<1>1. /\ disk \in DiskType /\ MemInv(mem) /\ mem \in MemType
      /\ WaitDisk(disk, dropped) /\ WaitMem(disk, mem, dropped)
  BY WaitHere
<1>2. mem.at = "idle"
  BY DEF JobEvents, OpenFails, Stage, Extracted, ExtractFails, StartRestore
<1>3. Good(disk, mem, faults)
  BY DEF IInv
<1>4. CASE OpenFails
  <2>1. WaitMem(disk, JobOver, dropped)
    <3>1. JobOver.at \notin Handing /\ JobOver.tried = mem.tried /\ JobOver.job = "none"
      BY <1>1, EndFields DEF Handing
    <3> QED BY <3>1, PlainMem
  <2> QED BY <1>4, <2>1, MemWaits DEF OpenFails
<1>5. CASE ExtractFails
  <2>1. WaitMem(disk, mem', dropped)
    <3>1. mem'.at = "unstage" /\ mem'.tried = mem.tried /\ mem'.job = mem.job /\ mem'.jobId = mem.jobId
      BY <1>1, <1>5 DEF ExtractFails, MemType
    <3> QED BY <3>1, PlainMem DEF Handing
  <2> QED BY <1>5, <2>1, MemWaits DEF ExtractFails
<1>6. CASE Stage
  <2> DEFINE q   == mem.jobId
             new == [disk EXCEPT !.staged[q] = {"metadata"}, !.journal = RestoreJournal(q, "stage")]
             after == [mem EXCEPT !.job = "staging"]
  <2>1. mem.job = "opening" /\ Try(new, after)
    BY <1>6 DEF Stage
  <2>2. /\ DiskOK(disk) /\ Calm(disk) /\ q \in Restores /\ disk.journal.op # "restore"
        /\ q \notin {disk.applied, disk.pending.id} /\ q \notin dropped
    BY <1>1, <1>2, <1>3, <2>1, IdleHere DEF FreshOK, Unseen, Seen, WaitMem
  <2>3. /\ new.journal.op = "restore" /\ new.journal.id = q /\ new.applied = disk.applied
        /\ new.pending = disk.pending /\ new.next = disk.next
        /\ new.settings = disk.settings /\ new.tables = disk.tables
    BY <1>1 DEF DiskType, RestoreJournal
  <2>4. after.at = "idle" /\ after.tried = mem.tried /\ after.job = "staging" /\ after.jobId = q
    BY <1>1, <1>2 DEF MemType
  <2> HIDE DEF new, after
  <2>5. disk.next = Absent
    BY <2>2 DEF DiskOK, NextOK
  <2>6. disk.pending # Absent =>
          \A k \in WantedParts(disk.pending.id) : disk.pending.has[k] = disk.pending.id
    <3>1. CASE disk.journal.op = "activate"
      <4>1. disk.activated # disk.journal.id /\ Undoable(disk, disk.journal.id, <<>>)
        BY <2>2, <3>1 DEF Calm, DiskOK, FoldersOK
      <4> QED BY <1>1, <2>2, <3>1, <4>1, BackInPending DEF WaitDisk
    <3>2. CASE disk.journal.op # "activate"
      BY <1>1, <3>2 DEF WaitDisk, PendingOK
    <3> QED BY <3>1, <3>2
  <2>7. PendingOK(new)
    BY <2>3, <2>6 DEF PendingOK
  <2>8. StagedOK(new, dropped)
    <3>1. \A k \in Parts : new.next.has[k] = Gone
      BY <2>3, <2>5, AbsentType
    <3> QED BY <2>2, <2>3, <3>1 DEF StagedOK
  <2>9. Unmoved(new)
    <3>1. WaitingOf(disk, dropped) = disk.pending.id
      BY <2>2 DEF Calm, WaitingOf
    <3>2. WaitingOf(new, dropped) = disk.pending.id
      BY <2>2, <2>3 DEF WaitingOf
    <3> QED BY <2>3, <3>1, <3>2 DEF Unmoved
  <2>10. WaitMem(new, after, dropped)
    BY <1>1, <2>4 DEF WaitMem
  <2> QED BY <1>1, <2>1, <2>7, <2>8, <2>9, <2>10, TryWaits DEF WaitDisk
<1>7. CASE Extracted
  <2> DEFINE q   == mem.jobId
             new == [disk EXCEPT !.staged[q] = AllStaged(q)]
  <2>1. /\ mem.job = "staging" /\ disk' = new /\ dropped' = dropped
        /\ mem' = [mem EXCEPT !.at = "apply", !.for = "job", !.id = q]
    BY <1>7 DEF Extracted
  <2>2. /\ DiskOK(disk) /\ q \in Restores /\ disk.journal = RestoreJournal(q, "stage")
    BY <1>2, <1>3, <2>1, IdleHere
  <2>3. disk.journal.op = "restore" /\ disk.journal.id = q /\ disk.journal.step = "stage"
    BY <2>2 DEF RestoreJournal
  <2>4. disk.applied # q /\ disk.pending.id # q /\ disk.next = Absent /\ q \notin dropped
    BY <1>1, <2>2, <2>3 DEF DiskOK, JournalOK, NextOK, WaitDisk, StagedOK
  <2>5. /\ new.staged = [disk.staged EXCEPT ![q] = AllStaged(q)]
        /\ new.journal = disk.journal /\ new.applied = disk.applied
        /\ new.activated = disk.activated /\ new.live = disk.live
        /\ new.pending = disk.pending /\ new.next = disk.next
        /\ new.settings = disk.settings /\ new.tables = disk.tables
    BY <1>1 DEF DiskType
  <2>6. mem'.at = "apply" /\ mem'.id = q /\ mem'.tried = mem.tried /\ mem'.job = "staging"
    BY <1>1, <2>1 DEF MemType
  <2> HIDE DEF new
  <2>7. new.staged[q] = AllStaged(q)
    BY <1>1, <2>2, <2>5, DiskFields
  <2>8. WaitDisk(new, dropped) /\ Unmoved(new)
    <3>1. PendingOK(new) /\ Unmoved(new)
      BY <1>1, <2>5 DEF WaitDisk, PendingOK, Unmoved, WaitingOf
    <3>2. StagedOK(new, dropped)
      BY <2>3, <2>4, <2>5, AbsentType DEF StagedOK
    <3> QED BY <3>1, <3>2 DEF WaitDisk
  <2>9. WaitMem(new, mem', dropped)
    BY <1>1, <2>6, <2>7 DEF WaitMem
  <2> HIDE DEF Unmoved
  <2>10. WaitDisk(disk', dropped') /\ WaitMem(disk', mem', dropped') /\ Unmoved(disk')
    BY <2>1, <2>8, <2>9
  <2> QED BY <2>1, <2>10 DEF WaitInv, Rests
<1>8. ASSUME NEW r \in Restores, StartRestore(r) PROVE WaitInv' /\ Rests
  <2>1. /\ mem'.at = "idle" /\ mem'.job = "opening" /\ mem'.jobId = r
        /\ mem'.tried = mem.tried \cup {r} /\ r \notin mem.tried
    BY <1>1, <1>2, <1>8 DEF StartRestore, MemType
  <2>2. WaitMem(disk, mem', dropped)
    BY <1>1, <2>1 DEF WaitMem
  <2> QED BY <1>8, <2>2, MemWaits DEF StartRestore
<1> QED BY <1>4, <1>5, <1>6, <1>7, <1>8 DEF JobEvents

LEMMA ProcessWaits ==
  ASSUME IInv, WaitInv,
         SocketCloses \/ Crash \/ Start \/ \E matches \in BOOLEAN : SocketOpens(matches)
  PROVE  WaitInv' /\ Rests
<1>1. MemInv(mem) /\ mem \in MemType /\ MemOK(mem)
  BY WaitHere
<1>2. mem'.at \notin Handing /\ mem'.tried = mem.tried
      /\ (mem'.job = "none" \/ (mem'.job = mem.job /\ mem'.jobId = mem.jobId))
  <2>1. CASE SocketCloses
    BY <1>1, <2>1 DEF SocketCloses, MemType, Handing
  <2>2. CASE Crash
    BY <1>1, <2>2, EndFields DEF Crash, Handing
  <2>3. CASE Start
    <3> DEFINE j  == disk.journal
               at == CASE j.op = "none" -> "orphans"
                       [] j.op = "activate" -> IF disk.activated = j.id THEN "dropPrevious" ELSE "undo"
                       [] j.op = "restore" ->
                            IF j.step = "stage" \/ disk.applied # j.id THEN "giveBack"
                            ELSE IF j.step = "pending" THEN "install" ELSE "toPersona"
    <3>1. mem' = [mem EXCEPT !.for = "start", !.id = j.id, !.moved = j.moved, !.at = at]
      BY <2>3 DEF Start
    <3>2. j.op \in {"none", "restore", "activate"}
      BY WaitHere, DiskFields DEF Journals
    <3>3. at \notin Handing
      BY <3>2 DEF Handing
    <3> HIDE DEF at
    <3>4. mem'.at = at /\ mem'.tried = mem.tried /\ mem'.job = mem.job /\ mem'.jobId = mem.jobId
      BY <1>1, <3>1 DEF MemType
    <3> QED BY <3>3, <3>4
  <2>4. ASSUME NEW matches \in BOOLEAN, SocketOpens(matches)
        PROVE  mem'.at \notin Handing /\ mem'.tried = mem.tried
               /\ (mem'.job = "none" \/ (mem'.job = mem.job /\ mem'.jobId = mem.jobId))
    <3> DEFINE onward == [mem EXCEPT !.at = "migrate", !.for = "open", !.id = disk.pending.id]
    <3>1. mem.at = "idle" /\ mem' \in {mem, Serve, onward}
      BY <2>4 DEF SocketOpens
    <3>2. onward.at = "migrate" /\ onward.tried = mem.tried /\ onward.job = mem.job
          /\ onward.jobId = mem.jobId
      BY <1>1 DEF MemType
    <3> HIDE DEF onward
    <3>3. Serve.at = "idle" /\ Serve.tried = mem.tried
          /\ (Serve.job = "none" \/ (Serve.job = mem.job /\ Serve.jobId = mem.jobId))
      <4>1. Serve # Down
        BY <1>1 DEF Serve, Down, Idle, JobOver, MemType
      <4> QED BY <1>1, <4>1, EndFields
    <3> QED BY <3>1, <3>2, <3>3 DEF Handing
  <2> QED BY <2>1, <2>2, <2>3, <2>4
<1>3. WaitMem(disk, mem', dropped)
  BY <1>2, PlainMem
<1> QED BY <1>3, MemWaits DEF SocketCloses, Crash, Start, SocketOpens

\* What the operator discards.
LEMMA DiscardWaits ==
  ASSUME IInv, WaitInv, Discard
  PROVE  WaitInv' /\ (Rests \/ Swapped!Next)
<1> DEFINE w   == WaitingOf(disk, dropped)
           p   == disk.pending.id
           j   == disk.journal
           new == [disk EXCEPT !.pending = Absent]
<1>1. /\ mem.at = "idle" /\ disk.pending # Absent /\ disk' = new /\ mem' = mem
      /\ dropped' = IF w # None /\ p = w THEN dropped \cup {w} ELSE dropped
  BY WaitingIs DEF Discard
<1>2. /\ disk \in DiskType /\ DiskOK(disk) /\ FreshOK(disk, mem) /\ MemOK(mem) /\ RestOK(disk, mem)
      /\ WaitDisk(disk, dropped) /\ WaitMem(disk, mem, dropped)
  BY WaitHere
<1>3. /\ new.pending = Absent /\ new.journal = j /\ new.applied = disk.applied
      /\ new.activated = disk.activated /\ new.live = disk.live
      /\ new.next = disk.next /\ new.staged = disk.staged
      /\ new.settings = disk.settings /\ new.tables = disk.tables
  BY <1>2 DEF DiskType
<1> HIDE DEF new
<1>4. p # None /\ p \in Accounts /\ p \in Restores /\ p \in mem.tried
      /\ (mem.job = "opening" => mem.jobId # p)
  BY <1>1, <1>2, RestoreAssumption, AbsentType
     DEF DiskOK, TablesOK, Package, FreshOK, Unseen, Seen
<1>5. Absent.id = None /\ ~(j.op = "activate" /\ disk.activated = j.id)
  <2>1. Calm(disk)
    BY <1>1, <1>2 DEF RestOK, Acting, Activating, Finishing, Undoing
  <2> QED BY <2>1, AbsentType DEF Calm
<1>6. j.op = "restore" => j.id # None
  BY <1>2, RestoreAssumption DEF DiskOK, JournalOK
<1>7. StagedOK(new, dropped')
  <2> SUFFICES ASSUME j.op = "restore" PROVE StagedOK(new, dropped')
    BY <1>3 DEF StagedOK
  <2>1. CASE p = j.id
    <3>1. disk.applied = j.id
      BY <1>2, <2>1 DEF DiskOK, JournalOK
    <3>2. j.id \in dropped'
      BY <1>1, <1>4, <2>1, <3>1 DEF WaitingOf
    <3> QED BY <1>2, <1>3, <2>1, <3>1, <3>2 DEF WaitDisk, StagedOK
  <2>2. CASE p # j.id
    <3>1. j.id \in dropped' <=> j.id \in dropped
      BY <1>1, <2>2
    <3> QED BY <1>2, <1>3, <1>5, <1>6, <2>2, <3>1 DEF WaitDisk, StagedOK
  <2> QED BY <2>1, <2>2
<1>8. PendingOK(new)
  BY <1>3 DEF PendingOK
<1>9. WaitMem(new, mem, dropped')
  BY <1>1, <1>2, <1>4 DEF WaitMem
<1>10. WaitInv'
  BY <1>1, <1>7, <1>8, <1>9 DEF WaitInv, WaitDisk
<1>11. CASE w # None /\ p = w
  <2>1. WaitingOf(new, dropped') = None
    BY <1>1, <1>3, <1>5, <1>11 DEF WaitingOf
  <2>2. Swapped!Discard
    BY <1>1, <1>3, <1>11, <2>1, WaitingIs DEF Swapped!Discard
  <2> QED BY <1>10, <2>2 DEF Swapped!Next
<1>12. CASE ~(w # None /\ p = w)
  <2>1. w # p /\ dropped' = dropped
    BY <1>1, <1>4, <1>12
  <2>2. WaitingOf(new, dropped) = w
    BY <1>3, <1>5, <2>1 DEF WaitingOf
  <2> QED BY <1>1, <1>3, <1>10, <2>1, <2>2 DEF Rests, Unmoved
<1> QED BY <1>11, <1>12

LEMMA FolderWaits ==
  ASSUME IInv, WaitInv, NEW f \in Folders, MakeFolder(f)
  PROVE  WaitInv' /\ Rests
<1> DEFINE new == [disk EXCEPT !.live[f] = Fresh]
<1>1. /\ disk \in DiskType /\ MemInv(mem) /\ DiskOK(disk)
      /\ WaitDisk(disk, dropped) /\ WaitMem(disk, mem, dropped)
  BY WaitHere
<1>2. disk.live[f] = Gone /\ disk' = new /\ mem' = mem /\ dropped' = dropped /\ mem.at = "idle"
  BY DEF MakeFolder
<1>3. /\ new.live = [disk.live EXCEPT ![f] = Fresh] /\ disk.live \in [Folders -> Data]
      /\ new.journal = disk.journal /\ new.applied = disk.applied
      /\ new.activated = disk.activated /\ new.pending = disk.pending
      /\ new.next = disk.next /\ new.staged = disk.staged
      /\ new.settings = disk.settings /\ new.tables = disk.tables
  BY <1>1, DiskFields DEF DiskType
<1> HIDE DEF new
<1>4. disk.journal.op = "activate" => disk.journal.id # Gone
  BY <1>1, RestoreAssumption DEF DiskOK, JournalOK
<1>5. PendingOK(new)
  BY <1>1, <1>2, <1>3, <1>4 DEF WaitDisk, PendingOK
<1>6. StagedOK(new, dropped) /\ Unmoved(new)
  BY <1>1, <1>3 DEF WaitDisk, StagedOK, Unmoved, WaitingOf
<1>7. WaitMem(new, mem, dropped)
  BY <1>1, <1>2, <1>3 DEF WaitMem
<1> HIDE DEF Unmoved
<1>8. Unmoved(disk') /\ WaitDisk(disk', dropped') /\ WaitMem(disk', mem', dropped')
  BY <1>2, <1>5, <1>6, <1>7 DEF WaitDisk
<1> QED BY <1>2, <1>8 DEF WaitInv, Rests

(* The steps together. *)

LEMMA InitWaits == Init => WaitInv /\ Swapped!Init
<1> SUFFICES ASSUME Init PROVE WaitInv /\ Swapped!Init
  OBVIOUS
<1>1. /\ disk.tables = Own /\ disk.settings = Own /\ disk.journal = NoJournal
      /\ disk.pending = Absent /\ dropped = {} /\ mem.at = "idle" /\ mem.job = "none"
  BY DEF Init
<1>2. disk.journal.op = "none" /\ disk.pending.id = None
  BY <1>1, NoJournalType, AbsentType
<1>3. PendingOK(disk) /\ StagedOK(disk, dropped)
  BY <1>1, <1>2 DEF PendingOK, StagedOK
<1>4. WaitMem(disk, mem, dropped)
  BY <1>1 DEF WaitMem
<1>5. Waiting = None
  BY <1>2 DEF Waiting
<1> QED BY <1>1, <1>3, <1>4, <1>5 DEF WaitInv, WaitDisk, Swapped!Init

LEMMA StepWaits ==
  ASSUME IInv, WaitInv, [Next]_vars
  PROVE  WaitInv' /\ (Rests \/ Swapped!Next)
<1>1. CASE RestoreSteps
  BY <1>1, JournalsWait, CommitWaits, InstallWaits, HandOverWaits, EndsWait DEF
     RestoreSteps
<1>2. CASE ActivationSteps
  BY <1>2, NotesWait, MovesWait, RenamesWait, ReplaceWaits, FinishWaits, UndoWaits
     DEF ActivationSteps
<1>3. CASE RecoverySteps
  BY <1>3, RecoveryWaits DEF RecoverySteps
<1>4. CASE JobEvents \/ \E r \in Restores : StartRestore(r)
  BY <1>4, JobsWait
<1>5. CASE SocketCloses \/ Crash \/ Start \/ \E matches \in BOOLEAN : SocketOpens(matches)
  BY <1>5, ProcessWaits
<1>6. CASE Discard
  BY <1>6, DiscardWaits
<1>7. CASE \E f \in Folders : MakeFolder(f)
  BY <1>7, FolderWaits
<1>8. CASE UNCHANGED vars
  BY <1>8 DEF vars, WaitInv, Rests, Unmoved
<1> QED BY <1>1, <1>2, <1>3, <1>4, <1>5, <1>6, <1>7, <1>8 DEF Next, Steps

LEMMA WaitInvariant ==
  ASSUME OneFault
  PROVE  Spec => [](IInv /\ WaitInv)
<1>1. Init => WaitInv
  BY InitWaits
<1>2. IInv /\ WaitInv /\ [Next]_vars => WaitInv'
  BY StepWaits
<1> QED BY <1>1, <1>2, Inductive, PTL DEF Spec

\* With one failure at most, and any number of deaths: every part of the account
\* data that waits is in the stage, on its way to restore/pending, there, or in
\* place already, so that what recovery is told to finish it can finish
\* (installPending, activatePendingIfMatching).
THEOREM WaitingIsCompleteHolds ==
  ASSUME OneFault
  PROVE  Spec => []WaitingIsComplete
<1>1. IInv /\ WaitInv => WaitingIsComplete
  <2> SUFFICES ASSUME IInv, WaitInv, Waiting # None
               PROVE  \A k \in WantedParts(Waiting) :
                        \/ k \in disk.staged[Waiting]
                        \/ Waiting \in {disk.next.has[k], disk.pending.has[k]}
                        \/ /\ disk.journal.op = "activate" /\ k \in Folders
                           /\ disk.live[k] = Waiting
    BY DEF WaitingIsComplete
  <2> DEFINE j == disk.journal
  <2>1. DiskOK(disk) /\ WaitDisk(disk, dropped)
    BY WaitHere
  <2>2. CASE j.op = "restore" /\ disk.applied = j.id /\ j.id \in Accounts \ dropped
    <3>1. Waiting = j.id
      BY <2>2 DEF Waiting
    <3>2. CASE disk.pending.id = j.id
      BY <2>1, <2>2, <3>1, <3>2, AbsentType DEF WaitDisk, PendingOK
    <3>3. CASE disk.pending.id # j.id
      BY <2>1, <2>2, <3>1, <3>3 DEF WaitDisk, StagedOK
    <3> QED BY <3>2, <3>3
  <2>3. CASE ~(j.op = "restore" /\ disk.applied = j.id /\ j.id \in Accounts \ dropped)
    <3>1. Waiting = disk.pending.id /\ ~(j.op = "activate" /\ disk.activated = j.id)
      BY <2>3 DEF Waiting
    <3>2. disk.pending # Absent
      BY <3>1, AbsentType
    <3> QED BY <2>1, <3>1, <3>2 DEF WaitDisk, PendingOK
  <2> QED BY <2>2, <2>3
<1> QED BY <1>1, WaitInvariant, PTL

\* Under the same assumption all of restore.cjs, activation.cjs and recovery.cjs,
\* with their crashes, retries and undone moves, implements AccountSwap: the
\* transaction of the settings is its Restore, that of the tables its Activate,
\* the panel's DELETE its Discard, and every other step leaves it as it is.
THEOREM ImplementsAccountSwap ==
  ASSUME OneFault
  PROVE  Spec => SwapsAtOnce
<1>1. Init => Swapped!Init
  BY InitWaits
<1>2. IInv /\ WaitInv /\ [Next]_vars => [Swapped!Next]_(Swapped!vars)
  <2> SUFFICES ASSUME IInv, WaitInv, [Next]_vars PROVE [Swapped!Next]_(Swapped!vars)
    OBVIOUS
  <2>1. CASE Rests
    BY <2>1, WaitingIs DEF Rests, Unmoved, Swapped!vars
  <2>2. CASE Swapped!Next
    BY <2>2
  <2> QED BY <2>1, <2>2, StepWaits
<1> QED BY <1>1, <1>2, WaitInvariant, PTL DEF Spec, SwapsAtOnce, Swapped!Spec

=============================================================================
