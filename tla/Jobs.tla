--------------------------------- MODULE Jobs ---------------------------------
(***************************************************************************)
(* Background jobs: bash's job table (jobs.c), the SIGCHLD handler that    *)
(* changes it at any moment, and $.getJobs(): GetJobs in bashexec.cpp over *)
(* libbash_get_jobs, which walks the table while the handler may run.      *)
(*                                                                         *)
(* A job is a pipeline of one or two processes.  Jobs are not stopped and  *)
(* continued here, and the table does not reach the 4096 jobs at which     *)
(* bash compacts it.                                                       *)
(***************************************************************************)
EXTENDS Integers, Sequences, FiniteSets

CONSTANTS
  JobSlots,  (* JOB_SLOTS, by which the table grows: 8 *)
  MaxJobs    (* bound on the jobs a script starts      *)

ASSUME JobsAssumption == JobSlots \in Nat \ {0} /\ MaxJobs \in Nat

VARIABLES
  interactive,  (* bash found a terminal and no arguments                     *)
  jobs,         (* the table: slot i is job number i, <<>> before the first job *)
  started,      (* jobs started so far                                        *)
  pc,           (* what the process does                                      *)
  waitLoop,     (* the script is in the loop of Jobs.md that waits for its jobs *)
  list,         (* what libbash_get_jobs has read so far                      *)
  running       (* the running field read of the job whose state is read next *)

vars == <<interactive, jobs, started, pc, waitLoop, list, running>>

NoJob == [id |-> 0, size |-> 0, alive |-> {}, flags |-> {}]

\* The running field of a process, the state field of a job.
PS_DONE == 0
PS_RUNNING == 1

Running(job, p) == IF p \in job.alive THEN PS_RUNNING ELSE PS_DONE
State(job)      == IF job.alive = {} THEN "JDEAD" ELSE "JRUNNING"

Used(i)    == jobs[i] # NoJob
Dead(job)  == job # NoJob /\ job.alive = {}
Slots      == DOMAIN jobs

-------------------------------------------------------------------------------

Init ==
  /\ interactive \in BOOLEAN
  /\ jobs = <<>>
  /\ started = 0
  /\ pc = "script"
  /\ waitLoop = FALSE
  /\ list = <<>>
  /\ running = PS_DONE

Goto(from, to) == pc = from /\ pc' = to

\* stop_pipeline: the slot after the last used one; the table grows if it has none.
IsNextSlot(n) ==
  /\ n \in 1 .. Len(jobs) + 1
  /\ n > 1 => Used(n - 1)
  /\ \A i \in Slots : i >= n => ~ Used(i)

Grown(slots) == [i \in 1 .. Len(jobs) + slots |-> IF i \in Slots THEN jobs[i] ELSE NoJob]

EnterGrowingByOne(job) ==  \* mutant: a full table grows by one slot
  \E n \in 1 .. Len(jobs) + 1 :
    /\ IsNextSlot(n)
    /\ jobs' = [Grown(IF n > Len(jobs) THEN 1 ELSE 0) EXCEPT ![n] = job]

Enter(job) ==
  \E n \in 1 .. Len(jobs) + 1 :
    /\ IsNextSlot(n)
    /\ jobs' = [Grown(IF n > Len(jobs) THEN JobSlots ELSE 0) EXCEPT ![n] = job]

NewJob(size, flags) == [id |-> started + 1, size |-> size, alive |-> 1 .. size, flags |-> flags]

\* The slots of the dead jobs among those become free.
Clean(slots) == jobs' = [i \in Slots |-> IF i \in slots /\ Dead(jobs[i]) THEN NoJob ELSE jobs[i]]

(***************************************************************************)
(* notify_and_cleanup: a script run without a terminal keeps the dead      *)
(* background jobs that were not killed by a signal.                       *)
(***************************************************************************)
Notified == {i \in Slots : interactive \/ jobs[i].flags \cap {"foreground", "killed"} # {}}

-------------------------------------------------------------------------------

\* binjs_exec of a command that ends in &.
StartBackground(size) ==
  /\ pc = "script" /\ ~ waitLoop
  /\ started < MaxJobs
  /\ started' = started + 1
  /\ Enter(NewJob(size, {}))
  /\ UNCHANGED <<interactive, pc, waitLoop, list, running>>

\* binjs_exec of any other command that forks: wait_for waits for it.
StartForeground(size) ==
  /\ Goto("script", "foreground") /\ ~ waitLoop
  /\ started < MaxJobs
  /\ started' = started + 1
  /\ Enter(NewJob(size, {"foreground"}))
  /\ UNCHANGED <<interactive, waitLoop, list, running>>

FinishForeground ==
  /\ Goto("foreground", "script")
  /\ \E i \in Slots : "foreground" \in jobs[i].flags /\ Dead(jobs[i])
  /\ Clean(Notified)
  /\ UNCHANGED <<interactive, started, waitLoop, list, running>>

\* The wait builtin: when no background job is left running, all are forgotten.
Wait ==
  /\ Goto("script", "wait") /\ ~ waitLoop
  /\ UNCHANGED <<interactive, jobs, started, waitLoop, list, running>>

FinishWait ==
  /\ Goto("wait", "script")
  /\ \A i \in Slots : Used(i) => Dead(jobs[i])
  /\ Clean(Slots)
  /\ UNCHANGED <<interactive, started, waitLoop, list, running>>

\* How the last process of a pipeline ends is how the job does.
Ended(job, p, how) ==
  [job EXCEPT !.alive = @ \ {p}, !.flags = IF p = job.size THEN @ \cup {how} ELSE @]

ReapAndClean(i, p, how) ==  \* mutant: the handler frees the slot of a job that is over
  /\ pc \notin {"crashed", "ended"}
  /\ p \in jobs[i].alive
  /\ jobs' = [jobs EXCEPT ![i] = IF jobs[i].alive = {p} /\ "foreground" \notin jobs[i].flags
                                 THEN NoJob ELSE Ended(jobs[i], p, how)]
  /\ UNCHANGED <<interactive, started, pc, waitLoop, list, running>>

(***************************************************************************)
(* A process has ended and waitchld, called by the SIGCHLD handler or by   *)
(* wait_for, marks it.  The job stays in the table.                        *)
(***************************************************************************)
Reap(i, p, how) ==
  /\ pc \notin {"crashed", "ended"}
  /\ p \in jobs[i].alive
  /\ jobs' = [jobs EXCEPT ![i] = Ended(jobs[i], p, how)]
  /\ UNCHANGED <<interactive, started, pc, waitLoop, list, running>>

-------------------------------------------------------------------------------

\* $.getJobs() calls libbash_get_jobs.
GetJobs ==
  /\ Goto("script", "slot")
  /\ UNCHANGED <<interactive, jobs, started, waitLoop, list, running>>

Unread == {i \in Slots : Used(i) /\ \A k \in DOMAIN list : list[k].id # jobs[i].id}

AtNextUsed ==  \* mutant: free slots are skipped
  IF Unread = {} THEN Len(list) + 1 ELSE CHOOSE i \in Unread : \A j \in Unread : i <= j

\* The slot being read.
At == Len(list) + 1

ReadRunningUnchecked ==  \* mutant: a free slot is not recognised
  /\ Goto("slot", "state")
  /\ At \in Slots
  /\ running' = Running(jobs[At], 1)
  /\ UNCHANGED <<interactive, jobs, started, waitLoop, list>>

\* The running field is that of the first process of the pipeline.
ReadRunning ==
  /\ Goto("slot", "state")
  /\ At \in Slots /\ Used(At)
  /\ running' = Running(jobs[At], 1)
  /\ UNCHANGED <<interactive, jobs, started, waitLoop, list>>

ReadStateOfFirst ==  \* mutant: the job is over when its first process is
  /\ Goto("state", "slot")
  /\ list' = Append(list, [id |-> jobs[At].id, size |-> jobs[At].size,
                           running |-> running,
                           state |-> IF running = PS_DONE THEN "JDEAD" ELSE "JRUNNING"])
  /\ UNCHANGED <<interactive, jobs, started, waitLoop, running>>

ReadState ==
  /\ Goto("state", "slot")
  /\ list' = Append(list, [id |-> jobs[At].id, size |-> jobs[At].size,
                           running |-> running, state |-> State(jobs[At])])
  /\ UNCHANGED <<interactive, jobs, started, waitLoop, running>>

ReadDeadJob ==  \* mutant: a job that is over ends the walk as a free slot does
  /\ Goto("slot", "objects")
  /\ At \in Slots /\ (Used(At) => Dead(jobs[At]))
  /\ UNCHANGED <<interactive, jobs, started, waitLoop, list, running>>

\* The first free slot ends the walk.
ReadFreeSlot ==
  /\ Goto("slot", "objects")
  /\ At \in Slots /\ ~ Used(At)
  /\ UNCHANGED <<interactive, jobs, started, waitLoop, list, running>>

(***************************************************************************)
(* There is no free slot: the walk leaves the table.  Without a table that *)
(* is a null pointer; behind a table it is whatever the heap holds, which  *)
(* may be zero.                                                            *)
(***************************************************************************)
ReadPastTable ==
  /\ pc = "slot"
  /\ At > Len(jobs)
  /\ pc' \in IF jobs = <<>> THEN {"crashed"} ELSE {"crashed", "objects"}
  /\ UNCHANGED <<interactive, jobs, started, waitLoop, list, running>>

\* GetJobs numbers what was read and copies it, the commands too, into Job objects.
MakeObjects ==
  /\ pc = "objects"
  /\ pc' = IF waitLoop /\ list = <<>> THEN "ended" ELSE "script"
  /\ list' = <<>>
  /\ running' = PS_DONE
  /\ UNCHANGED <<interactive, jobs, started, waitLoop>>

\* Jobs.md: while ($.getJobs().length > 0) { ... $.sleep(500); }
EnterWaitLoop ==
  /\ pc = "script" /\ ~ waitLoop
  /\ started > 0
  /\ waitLoop' = TRUE
  /\ UNCHANGED <<interactive, jobs, started, pc, list, running>>

-------------------------------------------------------------------------------

Bash == \E size \in 1 .. 2 : StartBackground(size) \/ StartForeground(size)

Command == Bash \/ FinishForeground \/ Wait \/ FinishWait

Walk == GetJobs \/ ReadRunning \/ ReadState \/ ReadFreeSlot \/ ReadPastTable \/ MakeObjects

Sigchld == \E i \in Slots, p \in 1 .. 2, how \in {"exited", "killed"} : Reap(i, p, how)

Next == Command \/ Walk \/ EnterWaitLoop \/ Sigchld

\* Processes end, and what the script has called goes on.
Spec == Init /\ [][Next]_vars /\ WF_vars(Sigchld) /\ WF_vars(Walk)

-------------------------------------------------------------------------------

Job == [id : 1 .. MaxJobs, size : 1 .. 2, alive : SUBSET (1 .. 2),
        flags : SUBSET {"foreground", "exited", "killed"}]

Entry == [id : 1 .. MaxJobs, size : 1 .. 2, running : {PS_DONE, PS_RUNNING}, state : {"JDEAD", "JRUNNING"}]

TypeOK ==
  /\ interactive \in BOOLEAN
  /\ jobs \in Seq(Job \cup {NoJob})
  /\ started \in 0 .. MaxJobs
  /\ pc \in {"script", "foreground", "wait", "slot", "state", "objects", "crashed", "ended"}
  /\ waitLoop \in BOOLEAN
  /\ list \in Seq(Entry)
  /\ running \in {PS_DONE, PS_RUNNING}

InWalk == pc \in {"slot", "state", "objects"}

(***************************************************************************)
(* The commands in the list are pointers into the table, used by GetJobs   *)
(* after the walk: until then the handler has freed none of these jobs.    *)
(***************************************************************************)
CommandsStayValid ==
  /\ InWalk => \A k \in DOMAIN list : list[k].id \in {jobs[i].id : i \in Slots}
  /\ pc = "state" => Used(At)

(***************************************************************************)
(* The id of a Job object, which is its place in the list, is the number   *)
(* bash knows the job by (kill %id), because the walk skips no slot.       *)
(***************************************************************************)
IdsAreJobNumbers ==
  InWalk => \A k \in DOMAIN list : k \in Slots /\ jobs[k].id = list[k].id

(***************************************************************************)
(* The two fields read while the handler runs: a job of one process is not *)
(* listed as no longer running and yet as alive.  A job listed as dead is. *)
(***************************************************************************)
FieldsAgree ==
  \A k \in DOMAIN list :
    /\ list[k].size = 1 /\ list[k].running = PS_DONE => list[k].state = "JDEAD"
    /\ InWalk /\ list[k].state = "JDEAD" => Dead(jobs[k])

(***************************************************************************)
(* getJobs leaves the table only if no slot of it is free: before any job  *)
(* was started, or when the jobs that are kept fill it, which takes as     *)
(* many jobs as the table has slots.                                       *)
(***************************************************************************)
CrashesOnlyWhenFull ==
  pc = "crashed" => (\A i \in Slots : Used(i)) /\ (started = 0 \/ started >= JobSlots)

(***************************************************************************)
(* Jobs.md: "Processes started this way can be looked up using the         *)
(* `$.getJobs()` method."  When the walk is over, every job is in the      *)
(* list, those that ended meanwhile too, up to the first free slot: one    *)
(* that a job left which was cleaned up hides those behind it, also while  *)
(* they run.                                                               *)
(***************************************************************************)
ListedUpToFreeSlot ==
  pc = "objects" => \A i \in Slots :
    (\A j \in 1 .. i : Used(j)) => \E k \in DOMAIN list : list[k].id = jobs[i].id

(***************************************************************************)
(* Jobs.md: the loop that waits until getJobs() is empty.  Once all jobs   *)
(* are over it ends.                                                       *)
(***************************************************************************)
WaitLoopEnds == waitLoop ~> pc = "ended"

===============================================================================
