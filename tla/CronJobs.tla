------------------------------ MODULE CronJobs ------------------------------
(***************************************************************************)
(* Scheduled jobs: a store that keeps the list in memory and rewrites a    *)
(* JSON file at every change, a tick that takes the list of due jobs and   *)
(* runs them one after the other, and the edits that REST and the agent's  *)
(* tools make while a run is awaited.                                      *)
(*                                                                         *)
(* Only the run of a job awaits; every method of the store is one action,  *)
(* its save with it.  A save may fail, which leaves memory ahead of the    *)
(* file.  Time only makes jobs due; the order of the due jobs in a tick is *)
(* left open.                                                              *)
(***************************************************************************)
EXTENDS Integers, FiniteSets

CONSTANTS
    Jobs,       \* ids
    None,
    Limit,      \* how often each event may happen: a bound of the model
    MaxMix      \* how many kinds of them may meet: a bound of the model

Events == {"create", "remove", "pause", "resume", "trigger", "elapse", "raise",
           "save", "unread", "crash", "stop"}

\* Events of an ordinary day, which may always meet.
Ordinary == {"create", "elapse"}

\* A job's record: it is in the list, and which of its flags are set; "due" is a
\* next_run_at that has come.  A job not in the list has the empty record.
Records == SUBSET {"listed", "enabled", "due", "once"}

ASSUME ConstantsAssumption ==
    /\ IsFiniteSet(Jobs) /\ None \notin Jobs
    /\ Limit \in [Events -> Nat] /\ MaxMix \in Nat

VARIABLES
    mem,        \* _jobs: the record of each job
    disk,       \* jobs.json
    file,       \* "dirty" while _dirty is set, "unread" if the start could not
                \* read jobs.json, "saved" otherwise
    daemon,     \* "up", "stopping", "off"
    todo,       \* what is left of the list the tick took
    running,    \* the job whose run is awaited, or None
    runs,       \* history: runs of each job since it was created
    cut,        \* history: runs whose end was never recorded
    wish,       \* history: what the last acknowledged edit asked for
    used        \* history: how often each event happened

storeVars == <<mem, disk, file>>
tickVars == <<todo, running>>
histVars == <<runs, cut, wish>>
vars == <<mem, disk, file, daemon, todo, running, runs, cut, wish, used>>

Wishes == {"none", "kept", "now", "paused", "gone"}

Init ==
    /\ mem = [j \in Jobs |-> {}] /\ disk = [j \in Jobs |-> {}]
    /\ file = "saved" /\ daemon = "up"
    /\ todo = {} /\ running = None
    /\ runs = [j \in Jobs |-> 0] /\ cut = [j \in Jobs |-> 0]
    /\ wish = [j \in Jobs |-> "none"]
    /\ used = [e \in Events |-> 0]

\* Counting several events of one action.
SpendAll(E) ==
    /\ \A e \in E : used[e] < Limit[e]
    /\ Cardinality(({g \in Events : used[g] > 0} \cup E) \ Ordinary) <= MaxMix
    /\ used' = [e \in Events |-> IF e \in E THEN used[e] + 1 ELSE used[e]]

Has(j) == "listed" \in mem[j]

-----------------------------------------------------------------------------
(* Edits *)

\* The store's dictionary becomes m and is saved; if that fails the caller
\* gets an error, and memory keeps the change.
Saved(m, asked, E) ==
    /\ daemon # "off"
    /\ mem' = m
    /\ \/ /\ disk' = m /\ file' = "saved"
          /\ wish' = asked
          /\ SpendAll(E)
       \/ /\ file' = "dirty"
          /\ SpendAll(E \cup {"save"})
          /\ wish' = [j \in Jobs |-> IF asked[j] = wish[j] /\ m[j] = mem[j]
                                     THEN wish[j] ELSE "none"]
          /\ UNCHANGED disk

With(j, r) == [mem EXCEPT ![j] = r]
Asked(j, w) == [wish EXCEPT ![j] = w]

\* add: the tool makes a new id and may ask for one run only, REST may name an
\* id that exists, whose record it replaces.
Create(j, once) ==
    /\ once # {} => ~Has(j) /\ disk[j] = {} /\ running # j
    /\ Saved(With(j, {"listed", "enabled"} \cup once),
             Asked(j, IF once # {} THEN "none" ELSE "kept"), {"create"})
    /\ runs' = [runs EXCEPT ![j] = 0]
    /\ cut' = [cut EXCEPT ![j] = 0]
    /\ UNCHANGED <<daemon, tickVars>>

Remove(j) ==
    /\ Has(j)
    /\ Saved(With(j, {}), Asked(j, "gone"), {"remove"})
    /\ UNCHANGED <<daemon, tickVars, runs, cut>>

\* REST leaves a paused job alone, the tool saves it once more.
Pause(j) ==
    /\ Has(j)
    /\ Saved(With(j, mem[j] \ {"enabled"}), Asked(j, "paused"), {"pause"})
    /\ UNCHANGED <<daemon, tickVars, runs, cut>>

\* REST computes the next run of a paused job from now; the tool keeps the old
\* time.
Resume(j) ==
    /\ Has(j)
    /\ \E later \in {{}, {"due"}} :
        /\ "enabled" \in mem[j] => later = {}
        /\ Saved(With(j, (mem[j] \ later) \cup {"enabled"}),
              Asked(j, IF "once" \in mem[j] THEN "none"
                       ELSE IF wish[j] = "now" THEN "now" ELSE "kept"), {"resume"})
    /\ UNCHANGED <<daemon, tickVars, runs, cut>>

Trigger(j) ==
    /\ Has(j)
    /\ Saved(With(j, mem[j] \cup {"enabled", "due"}),
             Asked(j, IF "once" \in mem[j] THEN "none" ELSE "now"), {"trigger"})
    /\ UNCHANGED <<daemon, tickVars, runs, cut>>

-----------------------------------------------------------------------------
(* The tick *)

\* next_run_at has come.
Elapse(j) ==
    /\ Has(j) /\ "due" \notin mem[j]
    /\ SpendAll({"elapse"})
    /\ mem' = With(j, mem[j] \cup {"due"})
    /\ disk' = IF disk[j] = mem[j] THEN [disk EXCEPT ![j] = mem'[j]] ELSE disk
    /\ UNCHANGED <<file, daemon, tickVars, histVars>>

Due == {j \in Jobs : {"enabled", "due"} \subseteq mem[j]}

\* tick_once takes the list.
TakeDue_Clean ==
    /\ daemon = "up" /\ todo = {} /\ running = None /\ file # "dirty"
    /\ Due # {}
    /\ todo' = Due
    /\ UNCHANGED <<storeVars, daemon, running, histVars, used>>

TakeDue ==
    /\ daemon = "up" /\ todo = {} /\ running = None
    /\ Due # {}
    /\ todo' = Due
    /\ UNCHANGED <<storeVars, daemon, running, histVars, used>>

\* The next job of the list is run, whatever became of it.
RunStarts(j) ==
    /\ j \in todo /\ running = None
    /\ running' = j
    /\ todo' = todo \ {j}
    /\ runs' = [runs EXCEPT ![j] = @ + 1]
    /\ wish' = IF wish[j] = "now" THEN Asked(j, "kept") ELSE wish
    /\ UNCHANGED <<storeVars, daemon, cut, used>>

\* mark_fired, on the record the store has now: gone, if it is to run once,
\* scheduled anew otherwise.
Marked_NoTime(m, j) ==
    IF m[j] = {} THEN m ELSE [m EXCEPT ![j] = @ \cup {"due", "no time"}]

Marked_FromList(m, j) == [m EXCEPT ![j] = {"listed", "enabled"}]

Marked_Reschedules(m, j) == [m EXCEPT ![j] = @ \ {"due"}]

Marked(m, j) ==
    IF "listed" \notin m[j] THEN m
    ELSE [m EXCEPT ![j] = IF "once" \in @ THEN {} ELSE @ \ {"due"}]

\* mark_fired and its save succeed; a job that is gone is not saved, and stays
\* in the file if its removal was not saved.
MarkSaved_Unflagged(j) ==
    /\ mem' = Marked(mem, j)
    /\ UNCHANGED <<disk, file, cut>>

MarkSaved(j) ==
    /\ mem' = Marked(mem, j)
    /\ \/ /\ Has(j)
          /\ disk' = mem' /\ file' = "saved"
          /\ UNCHANGED cut
       \/ /\ ~Has(j)
          /\ cut' = IF disk[j] = {} THEN cut ELSE [cut EXCEPT ![j] = @ + 1]
          /\ UNCHANGED <<disk, file>>

\* Its save fails.
MarkUnsaved(j) ==
    /\ Has(j)
    /\ mem' = Marked(mem, j)
    /\ file' = "dirty"
    /\ cut' = [cut EXCEPT ![j] = @ + 1]
    /\ UNCHANGED disk

RunOver == running # None /\ running' = None

\* The runner returns and its output is written.  When the save of mark_fired
\* fails the exception handler marks the job again: a job to run once is gone
\* by then, for another the second save may succeed or end the tick.
RunEnds ==
    /\ RunOver
    /\ \/ /\ MarkSaved(running)
          /\ UNCHANGED <<todo, used>>
       \/ /\ MarkUnsaved(running)
          /\ SpendAll({"save"})
          /\ todo' = IF "once" \in mem[running] THEN todo ELSE {}
       \/ /\ Has(running) /\ "once" \notin mem[running]
          /\ MarkSaved(running)
          /\ SpendAll({"save"})
          /\ UNCHANGED todo
    /\ UNCHANGED <<daemon, runs, wish>>

\* The runner, or the writing of its output, raises; if the save fails too, the
\* exception ends the tick and the rest of the list waits for the next.
RunRaises ==
    /\ RunOver
    /\ \/ /\ MarkSaved(running)
          /\ SpendAll({"raise"})
          /\ UNCHANGED todo
       \/ /\ MarkUnsaved(running)
          /\ SpendAll({"raise", "save"})
          /\ todo' = {}
    /\ UNCHANGED <<daemon, runs, wish>>

-----------------------------------------------------------------------------
(* Stop, crash and start *)

\* The process is gone, with whatever only memory knew.
Gone ==
    /\ daemon' = "off"
    /\ mem' = [j \in Jobs |-> {}]
    /\ todo' = {} /\ running' = None
    /\ cut' = IF running = None THEN cut ELSE [cut EXCEPT ![running] = @ + 1]
    /\ UNCHANGED <<disk, file, runs, wish>>

Crash ==
    /\ daemon # "off"
    /\ SpendAll({"crash"})
    /\ Gone

Stop ==
    /\ daemon = "up"
    /\ SpendAll({"stop"})
    /\ daemon' = "stopping"
    /\ UNCHANGED <<storeVars, tickVars, histVars>>

\* The tick is over, or five seconds are and it is cancelled.
Stopped ==
    /\ daemon = "stopping"
    /\ Gone
    /\ UNCHANGED used

\* The next process reads jobs.json; one it cannot read is an empty list to it.
Start ==
    /\ daemon = "off"
    /\ daemon' = "up"
    /\ \/ /\ mem' = disk
          /\ file' = "saved"
          /\ UNCHANGED <<wish, used>>
       \/ /\ mem' = [j \in Jobs |-> {}]
          /\ file' = "unread"
          /\ wish' = [j \in Jobs |-> IF wish[j] \in {"kept", "now"} THEN "none" ELSE wish[j]]
          /\ SpendAll({"unread"})
    /\ UNCHANGED <<disk, tickVars, runs, cut>>

Next ==
    \/ \E j \in Jobs :
        \/ \E once \in {{}, {"once"}} : Create(j, once)
        \/ Remove(j)
        \/ Pause(j)
        \/ Resume(j)
        \/ Trigger(j)
        \/ Elapse(j)
        \/ RunStarts(j)
    \/ TakeDue
    \/ RunEnds
    \/ RunRaises
    \/ Crash
    \/ Stop
    \/ Stopped
    \/ Start

Spec == Init /\ [][Next]_vars

\* The tick comes every minute, the list is worked off, and a run, bounded by
\* the turn's own time limits, ends.
FairSpec ==
    /\ Spec
    /\ WF_vars(TakeDue) /\ WF_vars(\E j \in Jobs : RunStarts(j))
    /\ WF_vars(RunEnds \/ RunRaises)
    /\ WF_vars(Stopped)

-----------------------------------------------------------------------------
(* Properties *)

TypeOK ==
    /\ mem \in [Jobs -> Records]
    /\ disk \in [Jobs -> Records]
    /\ file \in {"saved", "dirty", "unread"}
    /\ daemon \in {"up", "stopping", "off"}
    /\ todo \subseteq Jobs /\ running \in Jobs \cup {None}
    /\ runs \in [Jobs -> Nat] /\ cut \in [Jobs -> Nat]
    /\ wish \in [Jobs -> Wishes]
    /\ used \in [Events -> Nat]

\* What an edit asked for stands until the next edit of that job: a removed
\* job does not come back with the end of its run or a restart, a paused one is
\* not enabled by them, and one to be kept is enabled in memory and in the
\* file.  Only a start that cannot read the file forgets jobs.
Stands(r, w) ==
    /\ w = "gone" => r = {}
    /\ w = "paused" => "enabled" \notin r
    /\ w \in {"kept", "now"} => "enabled" \in r

EditsStand ==
    \A j \in Jobs :
        /\ daemon # "off" => Stands(mem[j], wish[j])
        /\ Stands(disk[j], wish[j])

\* A job to run once runs once, and once more for each run whose end could not
\* be recorded.
OnceRunsOnce ==
    \A j \in Jobs :
        "once" \in mem[j] \cup disk[j] =>
            runs[j] <= cut[j] + (IF running = j THEN 1 ELSE 0)

\* Memory and file differ only after a save that failed or a file not read.
FileFollows == daemon # "off" /\ file = "saved" => disk = mem

\* A due job is run, unless it is paused or removed or the process goes first.
DueGetsRun ==
    \A j \in Jobs : (j \in Due /\ daemon = "up") ~> (running = j \/ j \notin Due \/ daemon # "up")

\* A trigger is not forgotten: "Force a cron job to run on the next tick."
TriggerHeld ==
    \A j \in Jobs : daemon # "off" /\ wish[j] = "now" => "due" \in mem[j]
=============================================================================
