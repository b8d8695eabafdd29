----------------------------- MODULE MCScheduler -----------------------------
(* Small instances of Scheduler: a one-off with a file, a text one-off, a    *)
(* recurring job.                                                            *)
EXTENDS Scheduler

CONSTANTS voice, note, weekly

AllJobs     == {voice, note, weekly}
FileAndCron == {voice, weekly}
TextAndCron == {note, weekly}
OneOffs     == {voice, note}
TextOnly    == {note}
FileOnly    == {voice}
Everyone    == {"panel", "ai", "command"}
ByCommand   == {"command"}
ChatOnly    == {"same_chat"}
None        == {}
=============================================================================
