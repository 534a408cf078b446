------------------------------ MODULE JobsProofs ------------------------------
(***************************************************************************)
(* Proofs about Jobs, for every size of table and number of jobs.  The     *)
(* invariant says what the walk may rely on although the SIGCHLD handler   *)
(* runs in the middle of it: no slot changes hands, and a dead process     *)
(* stays dead.                                                             *)
(***************************************************************************)
EXTENDS Jobs, TLAPS

\* A job is entered behind the last one, so its number is not below its slot.
Numbered ==
  \A i \in Slots : Used(i) => /\ i <= jobs[i].id /\ jobs[i].id <= started
                              /\ jobs[i].alive \subseteq 1 .. jobs[i].size

TableSize == IF jobs = <<>> THEN started = 0 ELSE JobSlots <= Len(jobs)

\* What the walk has read is still so, but for processes that ended since.
ReadSoFar ==
  InWalk => /\ Len(list) <= Len(jobs)
            /\ \A k \in DOMAIN list : /\ Used(k)
                                      /\ jobs[k].id = list[k].id
                                      /\ list[k].state = "JDEAD" => jobs[k].alive = {}

ReadNext ==
  pc = "state" => /\ Len(list) + 1 \in Slots /\ Used(Len(list) + 1)
                  /\ running = PS_DONE => 1 \notin jobs[Len(list) + 1].alive

Listed == \A k \in DOMAIN list : list[k].size = 1 /\ list[k].running = PS_DONE => list[k].state = "JDEAD"

NothingRead == pc \in {"script", "foreground", "wait"} => list = <<>>

IInv == TypeOK /\ Numbered /\ TableSize /\ ReadSoFar /\ ReadNext /\ Listed /\ NothingRead /\ CrashesOnlyWhenFull

\* The typing that SMT is to see: it treats the two Booleans poorly.
Table ==
  /\ jobs \in Seq(Job \cup {NoJob})
  /\ started \in 0 .. MaxJobs
  /\ list \in Seq(Entry)
  /\ running \in {PS_DONE, PS_RUNNING}

States == {"script", "foreground", "wait", "slot", "state", "objects", "crashed", "ended"}

LEMMA Types == TypeOK <=> interactive \in BOOLEAN /\ waitLoop \in BOOLEAN /\ pc \in States /\ Table
BY Zenon DEF TypeOK, Table, States

\* A job is not a free slot.
LEMMA JobIsUsed ==
  ASSUME NEW job \in Job
  PROVE  job # NoJob
BY DEF Job, NoJob

LEMMA InitHolds == Init => IInv
<1> SUFFICES ASSUME Init PROVE IInv
  OBVIOUS
<1>1. interactive \in BOOLEAN /\ waitLoop \in BOOLEAN
  BY Zenon DEF Init
<1>2. Table /\ pc \in States
  BY JobsAssumption DEF Init, Table, States
<1>3. Numbered /\ TableSize /\ ReadSoFar /\ ReadNext /\ Listed /\ NothingRead /\ CrashesOnlyWhenFull
  BY DEF Init, Numbered, TableSize, ReadSoFar, ReadNext, Listed, NothingRead, CrashesOnlyWhenFull,
         Slots, InWalk
<1> QED
  BY <1>1, <1>2, <1>3, Types DEF IInv

(***************************************************************************)
(* What every step but Reap keeps outside the walk.                        *)
(***************************************************************************)
LEMMA OutsideWalk ==
  ASSUME IInv, pc' \in {"script", "foreground", "wait"}, list' = <<>>, running' \in {PS_DONE, PS_RUNNING},
         jobs' \in Seq(Job \cup {NoJob}), started' \in 0 .. MaxJobs, Numbered', TableSize',
         interactive' \in BOOLEAN, waitLoop' \in BOOLEAN
  PROVE  IInv'
<1>1. Table' /\ pc' \in States
  BY DEF Table, States
<1>2. TypeOK'
  BY <1>1, Zenon DEF TypeOK, Table, States
<1>3. ReadSoFar' /\ ReadNext' /\ Listed' /\ NothingRead' /\ CrashesOnlyWhenFull'
  BY DEF ReadSoFar, ReadNext, Listed, NothingRead, CrashesOnlyWhenFull, InWalk
<1> QED
  BY <1>2, <1>3 DEF IInv

LEMMA EnterStep ==
  ASSUME IInv, started < MaxJobs, started' = started + 1,
         NEW size \in 1 .. 2, NEW flags \in SUBSET {"foreground", "exited", "killed"},
         Enter(NewJob(size, flags))
  PROVE  jobs' \in Seq(Job \cup {NoJob}) /\ Numbered' /\ TableSize'
<1> DEFINE job == NewJob(size, flags)
<1>1. jobs \in Seq(Job \cup {NoJob}) /\ started \in Nat /\ Len(jobs) \in Nat /\ Slots = 1 .. Len(jobs)
  BY JobsAssumption, Types DEF IInv, Table, Slots
<1>2. job \in Job /\ job.id = started + 1 /\ job.alive = 1 .. job.size
  BY <1>1, JobsAssumption DEF NewJob, Job
<1>3. PICK n \in 1 .. Len(jobs) + 1 :
        /\ IsNextSlot(n)
        /\ jobs' = [Grown(IF n > Len(jobs) THEN JobSlots ELSE 0) EXCEPT ![n] = job]
  BY DEF Enter
<1> DEFINE length == Len(jobs) + (IF n > Len(jobs) THEN JobSlots ELSE 0)
<1> HIDE DEF job
<1>4. length \in Nat /\ n \in 1 .. length /\ JobSlots <= length /\ Len(jobs) <= length
  BY <1>1, <1>3, JobsAssumption DEF IInv, TableSize
<1> HIDE DEF length
<1>5. jobs' = [i \in 1 .. length |-> IF i = n THEN job ELSE IF i \in Slots THEN jobs[i] ELSE NoJob]
  BY <1>3 DEF Grown, length
<1>6. jobs' \in Seq(Job \cup {NoJob}) /\ Len(jobs') = length /\ DOMAIN jobs' = 1 .. length
  BY <1>1, <1>2, <1>4, <1>5
<1>7. n <= started + 1
  <2>1. CASE n = 1
    BY <1>1, <2>1
  <2>2. CASE n # 1
    <3>1. n - 1 \in Slots /\ Used(n - 1)
      BY <1>1, <1>3, <2>2 DEF IsNextSlot
    <3>2. n - 1 <= jobs[n - 1].id /\ jobs[n - 1].id <= started
      BY <3>1 DEF IInv, Numbered
    <3>3. jobs[n - 1] \in Job
      BY <1>1, <3>1 DEF Used
    <3> QED
      BY <1>1, <3>2, <3>3 DEF Job
  <2> QED
    BY <2>1, <2>2
<1>8. Numbered'
  <2> SUFFICES ASSUME NEW i \in DOMAIN jobs', jobs'[i] # NoJob
               PROVE  /\ i <= jobs'[i].id /\ jobs'[i].id <= started + 1
                      /\ jobs'[i].alive \subseteq 1 .. jobs'[i].size
    BY DEF Numbered, Slots, Used
  <2>1. CASE i = n
    <3>1. jobs'[i] = job
      BY <1>5, <1>6, <2>1
    <3>2. i <= jobs'[i].id /\ jobs'[i].id <= started + 1
      BY <1>1, <1>2, <1>7, <2>1, <3>1
    <3>3. jobs'[i].alive \subseteq 1 .. jobs'[i].size
      BY <1>2, <3>1, Zenon
    <3> QED
      BY <3>2, <3>3
  <2>2. CASE i # n
    <3>1. i \in Slots /\ jobs'[i] = jobs[i] /\ Used(i)
      BY <1>5, <1>6, <2>2 DEF Used
    <3>2. jobs[i] \in Job
      BY <1>1, <3>1 DEF Used
    <3>3. i <= jobs[i].id /\ jobs[i].id <= started /\ jobs[i].alive \subseteq 1 .. jobs[i].size
      BY <3>1 DEF IInv, Numbered
    <3>4. jobs[i].id \in Nat
      BY <3>2 DEF Job
    <3> QED
      BY <1>1, <3>1, <3>3, <3>4
  <2> QED
    BY <2>1, <2>2
<1>9. TableSize'
  BY <1>4, <1>6, JobsAssumption DEF TableSize
<1> QED
  BY <1>6, <1>8, <1>9

LEMMA CleanStep ==
  ASSUME IInv, UNCHANGED started, NEW slots, Clean(slots)
  PROVE  jobs' \in Seq(Job \cup {NoJob}) /\ Numbered' /\ TableSize'
<1>1. jobs \in Seq(Job \cup {NoJob}) /\ Len(jobs) \in Nat /\ Slots = 1 .. Len(jobs)
  BY Types DEF IInv, Table, Slots
<1>2. jobs' = [i \in 1 .. Len(jobs) |-> IF i \in slots /\ Dead(jobs[i]) THEN NoJob ELSE jobs[i]]
  BY <1>1 DEF Clean
<1>3. jobs' \in Seq(Job \cup {NoJob}) /\ Len(jobs') = Len(jobs) /\ DOMAIN jobs' = Slots
  BY <1>1, <1>2
<1>4. Numbered'
  <2> SUFFICES ASSUME NEW i \in Slots, jobs'[i] # NoJob PROVE Used(i) /\ jobs'[i] = jobs[i]
    BY <1>3 DEF IInv, Numbered, Slots, Used
  <2> QED
    BY <1>1, <1>2 DEF Used
<1>5. TableSize'
  <2>1. jobs = <<>> <=> Len(jobs) = 0
    BY <1>1
  <2>2. jobs' = <<>> <=> Len(jobs') = 0
    BY <1>3
  <2> QED
    BY <1>3, <2>1, <2>2 DEF IInv, TableSize
<1> QED
  BY <1>3, <1>4, <1>5

(***************************************************************************)
(* The commands, between two calls of getJobs.                             *)
(***************************************************************************)
LEMMA CommandSteps ==
  ASSUME IInv, Command
  PROVE  IInv'
<1>1. /\ pc \in {"script", "foreground", "wait"} /\ pc' \in {"script", "foreground", "wait"}
      /\ list' = list /\ running' = running
  BY Zenon DEF Command, Bash, StartBackground, StartForeground, FinishForeground, Wait, FinishWait, Goto
<1>2. interactive' \in BOOLEAN /\ waitLoop' \in BOOLEAN
  BY Zenon DEF IInv, TypeOK, Command, Bash, StartBackground, StartForeground, FinishForeground, Wait,
     FinishWait
<1>3. list' = <<>> /\ running' \in {PS_DONE, PS_RUNNING}
  BY <1>1, Zenon DEF IInv, NothingRead, TypeOK
<1>4. started \in 0 .. MaxJobs /\ jobs \in Seq(Job \cup {NoJob})
  BY Types DEF IInv, Table
<1>5. jobs' \in Seq(Job \cup {NoJob}) /\ Numbered' /\ TableSize' /\ started' \in 0 .. MaxJobs
  <2>1. CASE Bash
    <3>1. PICK size \in 1 .. 2, flags \in SUBSET {"foreground", "exited", "killed"} :
            started < MaxJobs /\ started' = started + 1 /\ Enter(NewJob(size, flags))
      BY <2>1, Zenon DEF Bash, StartBackground, StartForeground
    <3> QED
      BY <1>4, <3>1, EnterStep, JobsAssumption
  <2>2. CASE FinishForeground
    BY <1>4, <2>2, CleanStep DEF FinishForeground
  <2>3. CASE Wait
    BY <1>4, <2>3 DEF IInv, Wait, Numbered, TableSize, Slots, Used
  <2>4. CASE FinishWait
    BY <1>4, <2>4, CleanStep DEF FinishWait
  <2> QED
    BY <2>1, <2>2, <2>3, <2>4 DEF Command
<1> QED
  BY <1>1, <1>2, <1>3, <1>5, OutsideWalk

(***************************************************************************)
(* The walk: it changes no slot.                                           *)
(***************************************************************************)
LEMMA WalkTypes ==
  ASSUME IInv, Walk \/ EnterWaitLoop
  PROVE  /\ UNCHANGED <<jobs, started>> /\ Numbered' /\ TableSize'
         /\ interactive' \in BOOLEAN /\ waitLoop' \in BOOLEAN
<1>1. UNCHANGED <<jobs, started>>
  BY Zenon DEF Walk, GetJobs, ReadRunning, ReadState, ReadFreeSlot, ReadPastTable, MakeObjects, EnterWaitLoop
<1>2. interactive' \in BOOLEAN /\ waitLoop' \in BOOLEAN
  BY Zenon DEF IInv, TypeOK, Walk, GetJobs, ReadRunning, ReadState, ReadFreeSlot, ReadPastTable,
     MakeObjects, EnterWaitLoop
<1> QED
  BY <1>1, <1>2 DEF IInv, Numbered, TableSize, Slots, Used

\* A step of the walk after which every part of the invariant about it holds.
LEMMA WalkStep ==
  ASSUME IInv, Walk \/ EnterWaitLoop, pc' \in States, list' \in Seq(Entry),
         running' \in {PS_DONE, PS_RUNNING},
         ReadSoFar', ReadNext', Listed', NothingRead', CrashesOnlyWhenFull'
  PROVE  IInv'
<1>1. Table'
  BY WalkTypes, Types DEF IInv, Table
<1>2. TypeOK'
  BY <1>1, WalkTypes, Zenon DEF TypeOK, Table, States
<1> QED
  BY <1>2, WalkTypes DEF IInv

LEMMA ReadRunningStep == IInv /\ ReadRunning => IInv'
<1> SUFFICES ASSUME IInv, ReadRunning PROVE IInv'
  OBVIOUS
<1>1. /\ pc = "slot" /\ pc' = "state" /\ UNCHANGED <<jobs, list>>
      /\ running' = Running(jobs[Len(list) + 1], 1)
      /\ Len(list) + 1 \in Slots /\ Used(Len(list) + 1)
  BY DEF ReadRunning, Goto, At
<1>2. running' \in {PS_DONE, PS_RUNNING}
  BY <1>1 DEF Running
<1>3. ReadSoFar' /\ Listed' /\ NothingRead' /\ CrashesOnlyWhenFull'
  BY <1>1 DEF IInv, ReadSoFar, Listed, NothingRead, CrashesOnlyWhenFull, InWalk, Used
<1>4. ReadNext'
  BY <1>1 DEF ReadNext, Running, PS_DONE, PS_RUNNING, Slots, Used
<1>5. list' \in Seq(Entry)
  BY <1>1, Types DEF IInv, Table
<1> QED
  BY <1>1, <1>2, <1>3, <1>4, <1>5, WalkStep DEF Walk, States

LEMMA ReadStateStep == IInv /\ ReadState => IInv'
<1> SUFFICES ASSUME IInv, ReadState PROVE IInv'
  OBVIOUS
<1> DEFINE n == Len(list) + 1
           entry == [id |-> jobs[n].id, size |-> jobs[n].size, running |-> running, state |-> State(jobs[n])]
<1>1. /\ pc = "state" /\ pc' = "slot" /\ UNCHANGED <<jobs, running>>
      /\ list' = Append(list, entry)
  BY DEF ReadState, Goto, At
<1>2. /\ jobs \in Seq(Job \cup {NoJob}) /\ Slots = 1 .. Len(jobs) /\ Len(jobs) \in Nat
      /\ list \in Seq(Entry) /\ Len(list) \in Nat /\ running \in {PS_DONE, PS_RUNNING}
  BY Types DEF IInv, Table, Slots
<1>3. n \in Slots /\ Used(n) /\ jobs[n] \in Job /\ (running = PS_DONE => 1 \notin jobs[n].alive)
  BY <1>1, <1>2 DEF IInv, ReadNext, Used
<1>4. entry \in Entry
  BY <1>2, <1>3 DEF Job, Entry, State
<1>5. entry.state = "JDEAD" => jobs[n].alive = {}
  BY DEF State
<1>6. entry.size = 1 /\ entry.running = PS_DONE => entry.state = "JDEAD"
  <2> SUFFICES ASSUME jobs[n].size = 1, running = PS_DONE PROVE jobs[n].alive = {}
    BY DEF State
  <2>1. jobs[n].alive \subseteq 1 .. 1
    BY <1>3 DEF IInv, Numbered
  <2> QED
    BY <1>3, <2>1
<1>7. entry.id = jobs[n].id
  OBVIOUS
<1> HIDE DEF entry
<1>8. /\ list' \in Seq(Entry) /\ Len(list') = n /\ DOMAIN list' = 1 .. n
      /\ \A k \in 1 .. n : list'[k] = IF k = n THEN entry ELSE list[k]
  BY <1>1, <1>2, <1>4
<1>9. ReadSoFar'
  <2>1. Len(list') <= Len(jobs)
    BY <1>2, <1>3, <1>8
  <2>2. \A k \in 1 .. n : /\ Used(k) /\ jobs[k].id = list'[k].id
                          /\ list'[k].state = "JDEAD" => jobs[k].alive = {}
    <3> SUFFICES ASSUME NEW k \in 1 .. n
                 PROVE  /\ Used(k) /\ jobs[k].id = list'[k].id
                        /\ list'[k].state = "JDEAD" => jobs[k].alive = {}
      OBVIOUS
    <3>1. CASE k = n
      BY <1>3, <1>5, <1>7, <1>8, <3>1
    <3>2. CASE k # n
      <4>1. k \in DOMAIN list /\ list'[k] = list[k]
        BY <1>2, <1>8, <3>2
      <4> QED
        BY <1>1, <4>1 DEF IInv, ReadSoFar, InWalk
    <3> QED
      BY <3>1, <3>2
  <2> QED
    BY <1>1, <1>8, <2>1, <2>2 DEF ReadSoFar, Used
<1>10. Listed'
  <2> SUFFICES ASSUME NEW k \in 1 .. n, list'[k].size = 1, list'[k].running = PS_DONE
               PROVE  list'[k].state = "JDEAD"
    BY <1>8 DEF Listed
  <2>1. CASE k = n
    BY <1>6, <1>8, <2>1
  <2>2. CASE k # n
    <3>1. k \in DOMAIN list /\ list'[k] = list[k]
      BY <1>2, <1>8, <2>2
    <3> QED
      BY <3>1 DEF IInv, Listed
  <2> QED
    BY <2>1, <2>2
<1>11. ReadNext' /\ NothingRead' /\ CrashesOnlyWhenFull'
  BY <1>1 DEF ReadNext, NothingRead, CrashesOnlyWhenFull
<1> QED
  BY <1>1, <1>2, <1>8, <1>9, <1>10, <1>11, WalkStep DEF Walk, States

(***************************************************************************)
(* Past the table: every slot was read, so every slot is used, and the     *)
(* number of the job in the last one is at least the size of the table.    *)
(***************************************************************************)
LEMMA ReadPastTableStep == IInv /\ ReadPastTable => IInv'
<1> SUFFICES ASSUME IInv, ReadPastTable PROVE IInv'
  OBVIOUS
<1>1. /\ pc = "slot" /\ pc' \in {"crashed", "objects"} /\ Len(list) + 1 > Len(jobs)
      /\ UNCHANGED <<jobs, started, list, running>>
  BY DEF ReadPastTable, At
<1>2. /\ jobs \in Seq(Job \cup {NoJob}) /\ Slots = 1 .. Len(jobs) /\ Len(jobs) \in Nat
      /\ list \in Seq(Entry) /\ Len(list) \in Nat /\ running \in {PS_DONE, PS_RUNNING}
      /\ started \in Nat
  BY Types DEF IInv, Table, Slots
<1>3. Len(list) = Len(jobs)
  BY <1>1, <1>2 DEF IInv, ReadSoFar, InWalk
<1>4. \A i \in Slots : Used(i)
  BY <1>1, <1>2, <1>3 DEF IInv, ReadSoFar, InWalk
<1>5. started = 0 \/ started >= JobSlots
  <2>1. CASE jobs = <<>>
    BY <2>1 DEF IInv, TableSize
  <2>2. CASE jobs # <<>>
    <3>1. JobSlots <= Len(jobs) /\ Len(jobs) \in Slots
      BY <1>2, <2>2 DEF IInv, TableSize
    <3>2. jobs[Len(jobs)] \in Job /\ Len(jobs) <= jobs[Len(jobs)].id /\ jobs[Len(jobs)].id <= started
      BY <1>2, <1>4, <3>1 DEF IInv, Numbered, Used
    <3>3. jobs[Len(jobs)].id \in Nat
      BY <3>2 DEF Job
    <3> QED
      BY <1>2, <3>1, <3>2, <3>3, JobsAssumption
  <2> QED
    BY <2>1, <2>2
<1>6. CrashesOnlyWhenFull'
  BY <1>1, <1>4, <1>5 DEF CrashesOnlyWhenFull, Slots, Used
<1>7. ReadSoFar' /\ ReadNext' /\ Listed' /\ NothingRead'
  BY <1>1 DEF IInv, ReadSoFar, ReadNext, Listed, NothingRead, InWalk, Used
<1> QED
  BY <1>1, <1>2, <1>6, <1>7, WalkStep DEF Walk, States

LEMMA OtherWalkSteps ==
  ASSUME IInv, GetJobs \/ ReadFreeSlot \/ MakeObjects \/ EnterWaitLoop
  PROVE  IInv'
<1>1. /\ UNCHANGED jobs /\ running' \in {PS_DONE, PS_RUNNING} /\ pc' \in {"script", "slot", "objects", "ended"}
      /\ \/ pc = "script" /\ list = <<>> /\ UNCHANGED list /\ pc' \in {"script", "slot"}
         \/ pc = "slot" /\ pc' = "objects" /\ UNCHANGED list
         \/ pc' \in {"script", "ended"} /\ list' = <<>>
  <2>1. running \in {PS_DONE, PS_RUNNING} /\ (pc = "script" => list = <<>>)
    BY Types DEF IInv, Table, NothingRead
  <2> QED
    BY <2>1 DEF GetJobs, ReadFreeSlot, MakeObjects, EnterWaitLoop, Goto
<1>2. list \in Seq(Entry) /\ list' \in Seq(Entry) /\ Len(jobs) \in Nat
  <2>1. list \in Seq(Entry) /\ jobs \in Seq(Job \cup {NoJob})
    BY Types DEF IInv, Table
  <2>2. list' = list \/ list' = <<>>
    BY <1>1, Zenon
  <2>3. <<>> \in Seq(Entry)
    OBVIOUS
  <2>4. list' \in Seq(Entry)
    BY <2>1, <2>2, <2>3, Zenon
  <2>5. Len(jobs) \in Nat
    BY <2>1
  <2> QED
    BY <2>1, <2>4, <2>5
<1>3. ReadSoFar'
  BY <1>1, <1>2 DEF IInv, ReadSoFar, InWalk, Used
<1>4. ReadNext' /\ Listed' /\ NothingRead' /\ CrashesOnlyWhenFull'
  BY <1>1 DEF IInv, ReadNext, Listed, NothingRead, CrashesOnlyWhenFull
<1>5. pc' \in States
  BY <1>1 DEF States
<1>6. Walk \/ EnterWaitLoop
  BY DEF Walk
<1> QED
  BY <1>1, <1>2, <1>3, <1>4, <1>5, <1>6, WalkStep

(***************************************************************************)
(* The SIGCHLD handler, at any moment: it takes a process from a job, and  *)
(* the job stays where it is.                                              *)
(***************************************************************************)
LEMMA ReapStep ==
  ASSUME IInv, NEW i \in Slots, NEW p \in 1 .. 2, NEW how \in {"exited", "killed"}, Reap(i, p, how)
  PROVE  IInv'
<1>1. /\ pc \notin {"crashed", "ended"} /\ p \in jobs[i].alive
      /\ jobs' = [jobs EXCEPT ![i] = Ended(jobs[i], p, how)]
      /\ UNCHANGED <<started, pc, list, running>>
  BY DEF Reap
<1>2. interactive' \in BOOLEAN /\ waitLoop' \in BOOLEAN
  BY Zenon DEF IInv, TypeOK, Reap
<1>3. /\ jobs \in Seq(Job \cup {NoJob}) /\ Slots = 1 .. Len(jobs) /\ Len(jobs) \in Nat
      /\ list \in Seq(Entry)
  BY Types DEF IInv, Table, Slots
<1>4. Used(i) /\ jobs[i] \in Job
  BY <1>1, <1>3 DEF Used, NoJob
<1> DEFINE job == Ended(jobs[i], p, how)
<1>5. /\ job \in Job /\ job.id = jobs[i].id /\ job.size = jobs[i].size
      /\ job.alive = jobs[i].alive \ {p}
  BY <1>4 DEF Ended, Job
<1> HIDE DEF job
<1>6. job # NoJob
  BY <1>5, JobIsUsed
<1>7. /\ jobs' \in Seq(Job \cup {NoJob}) /\ DOMAIN jobs' = Slots /\ Len(jobs') = Len(jobs)
      /\ \A j \in Slots : jobs'[j] = IF j = i THEN job ELSE jobs[j]
  BY <1>1, <1>3, <1>5 DEF job
<1>8. \A j \in Slots : /\ jobs'[j] # NoJob <=> Used(j)
                       /\ jobs'[j].id = jobs[j].id /\ jobs'[j].size = jobs[j].size
                       /\ jobs'[j].alive \subseteq jobs[j].alive
  BY <1>4, <1>5, <1>6, <1>7 DEF Used
<1>9. TypeOK'
  <2>1. Table'
    BY <1>1, <1>7, Types DEF IInv, Table
  <2>2. pc' \in States
    BY <1>1, Types DEF IInv
  <2> QED
    BY <1>2, <2>1, <2>2, Zenon DEF TypeOK, Table, States
<1>10. Numbered'
  <2> SUFFICES ASSUME NEW j \in Slots, jobs'[j] # NoJob
               PROVE  /\ j <= jobs'[j].id /\ jobs'[j].id <= started
                      /\ jobs'[j].alive \subseteq 1 .. jobs'[j].size
    BY <1>1, <1>7 DEF Numbered, Slots, Used
  <2>1. j <= jobs[j].id /\ jobs[j].id <= started /\ jobs[j].alive \subseteq 1 .. jobs[j].size
    BY <1>8 DEF IInv, Numbered
  <2>2. jobs'[j].id = jobs[j].id /\ jobs'[j].size = jobs[j].size /\ jobs'[j].alive \subseteq jobs[j].alive
    BY <1>8
  <2>3. jobs'[j].alive \subseteq 1 .. jobs'[j].size
    BY <2>1, <2>2, Zenon
  <2> QED
    BY <2>1, <2>2, <2>3
<1>11. TableSize'
  BY <1>1, <1>3, <1>7 DEF IInv, TableSize
<1>12. ReadSoFar'
  <2> SUFFICES ASSUME InWalk
               PROVE  /\ Len(list) <= Len(jobs)
                      /\ \A k \in DOMAIN list : /\ jobs'[k] # NoJob /\ jobs'[k].id = list[k].id
                                                /\ list[k].state = "JDEAD" => jobs'[k].alive = {}
    BY <1>1, <1>7 DEF ReadSoFar, InWalk, Used
  <2>1. Len(list) <= Len(jobs)
    BY DEF IInv, ReadSoFar
  <2>2. DOMAIN list \subseteq Slots
    BY <1>3, <2>1
  <2> QED
    BY <1>8, <2>1, <2>2 DEF IInv, ReadSoFar
<1>13. ReadNext'
  BY <1>1, <1>7, <1>8 DEF IInv, ReadNext, Slots, Used
<1>14. Listed' /\ NothingRead' /\ CrashesOnlyWhenFull'
  BY <1>1 DEF IInv, Listed, NothingRead, CrashesOnlyWhenFull
<1> QED
  BY <1>9, <1>10, <1>11, <1>12, <1>13, <1>14 DEF IInv

LEMMA StepHolds == IInv /\ [Next]_vars => IInv'
<1> SUFFICES ASSUME IInv, [Next]_vars PROVE IInv'
  OBVIOUS
<1>1. CASE UNCHANGED vars
  BY <1>1, Zenon DEF vars, IInv, TypeOK, Numbered, TableSize, ReadSoFar, ReadNext, Listed, NothingRead,
     CrashesOnlyWhenFull, Slots, Used, InWalk
<1>2. CASE Next
  BY <1>2, CommandSteps, ReadRunningStep, ReadStateStep, ReadPastTableStep, OtherWalkSteps, ReapStep
  DEF Next, Walk, Sigchld
<1> QED
  BY <1>1, <1>2

THEOREM Inductive == Spec => []IInv
<1> QED
  BY InitHolds, StepHolds, PTL DEF Spec

(***************************************************************************)
(* Every variable keeps its type, whenever processes end.                  *)
(***************************************************************************)
THEOREM TypeCorrect == Spec => []TypeOK
<1>1. IInv => TypeOK
  BY DEF IInv
<1> QED
  BY <1>1, Inductive, PTL

(***************************************************************************)
(* getJobs numbers the jobs as bash does, in every position of the table.  *)
(***************************************************************************)
THEOREM NumberedAsBashDoes == Spec => []IdsAreJobNumbers
<1>1. IInv => IdsAreJobNumbers
  BY Types DEF IInv, Table, ReadSoFar, IdsAreJobNumbers, Slots
<1> QED
  BY <1>1, Inductive, PTL

(***************************************************************************)
(* The handler never frees a job whose command getJobs still points to.    *)
(***************************************************************************)
THEOREM NoDanglingCommand == Spec => []CommandsStayValid
<1>1. IInv => CommandsStayValid
  <2>1. IInv => IdsAreJobNumbers
    BY Types DEF IInv, Table, ReadSoFar, IdsAreJobNumbers, Slots
  <2> QED
    BY <2>1 DEF IInv, ReadNext, IdsAreJobNumbers, CommandsStayValid, At
<1> QED
  BY <1>1, Inductive, PTL

(***************************************************************************)
(* A Job object of one process never says both that it is not running and  *)
(* that it is alive, wherever the handler ran between the two reads.       *)
(***************************************************************************)
THEOREM FieldsNeverDisagree == Spec => []FieldsAgree
<1>1. IInv => FieldsAgree
  BY DEF IInv, Listed, ReadSoFar, FieldsAgree, Dead, Used
<1> QED
  BY <1>1, Inductive, PTL

(***************************************************************************)
(* getJobs is safe from the first job until as many as the table has slots *)
(* have been started.                                                      *)
(***************************************************************************)
THEOREM CrashNeedsFullTable == Spec => []CrashesOnlyWhenFull
<1>1. IInv => CrashesOnlyWhenFull
  BY DEF IInv
<1> QED
  BY <1>1, Inductive, PTL

-------------------------------------------------------------------------------
(* The loop of Jobs.md. *)

\* Nothing is listed only if the first slot was free, and then it still is.
FirstSlot ==
  /\ waitLoop => pc \notin {"foreground", "wait"}
  /\ pc = "objects" /\ list = <<>> => 1 \in Slots /\ ~ Used(1)

\* A script in the loop, with job number 1 in the table.
Waiting == waitLoop /\ pc # "ended" /\ 1 \in Slots /\ Used(1)

\* Only bash commands enter and free jobs; the handler keeps what is used.
LEMMA ReapedSlots ==
  ASSUME IInv, Sigchld
  PROVE  /\ Slots' = Slots /\ \A i \in Slots : Used(i)' <=> Used(i)
         /\ UNCHANGED <<pc, waitLoop, list>>
<1>1. PICK i \in Slots, p \in 1 .. 2, how \in {"exited", "killed"} : Reap(i, p, how)
  BY DEF Sigchld
<1>2. /\ jobs \in Seq(Job \cup {NoJob}) /\ p \in jobs[i].alive
      /\ jobs' = [jobs EXCEPT ![i] = Ended(jobs[i], p, how)]
      /\ UNCHANGED <<pc, waitLoop, list>>
  BY <1>1, Types DEF IInv, Table, Reap
<1>3. jobs[i] \in Job /\ Used(i)
  <2>1. jobs[i] # NoJob
    BY <1>2 DEF NoJob
  <2> QED
    BY <1>2, <2>1 DEF Slots, Used
<1>4. Ended(jobs[i], p, how) # NoJob
  <2>1. Ended(jobs[i], p, how).id = jobs[i].id
    BY <1>3 DEF Ended, Job
  <2>2. jobs[i].id # 0 /\ NoJob.id = 0
    BY <1>3, JobsAssumption DEF Job, NoJob
  <2> QED
    BY <2>1, <2>2
<1>5. Slots' = Slots /\ \A k \in Slots : jobs'[k] = IF k = i THEN Ended(jobs[i], p, how) ELSE jobs[k]
  BY <1>2 DEF Slots
<1> QED
  BY <1>2, <1>3, <1>4, <1>5 DEF Used

LEMMA FirstSlotKept == IInv /\ FirstSlot /\ [Next]_vars => FirstSlot'
<1> SUFFICES ASSUME IInv, FirstSlot, [Next]_vars PROVE FirstSlot'
  OBVIOUS
<1>1. CASE UNCHANGED vars
  BY <1>1 DEF vars, FirstSlot, Slots, Used
<1>2. CASE Sigchld
  BY <1>2, ReapedSlots DEF FirstSlot
<1>3. CASE Command \/ EnterWaitLoop
  BY <1>3 DEF Command, Bash, StartBackground, StartForeground, FinishForeground, Wait, FinishWait,
     EnterWaitLoop, Goto, FirstSlot
<1>4. CASE Walk
  <2>1. list \in Seq(Entry) /\ jobs \in Seq(Job \cup {NoJob}) /\ Len(list) \in Nat /\ Slots = 1 .. Len(jobs)
    BY Types DEF IInv, Table, Slots
  <2>2. UNCHANGED waitLoop /\ pc' \notin {"foreground", "wait"} /\ UNCHANGED jobs
    BY <1>4 DEF Walk, GetJobs, ReadRunning, ReadState, ReadFreeSlot, ReadPastTable, MakeObjects, Goto
  <2>3. pc' = "objects" => /\ pc = "slot" /\ list' = list
                           /\ \/ At \in Slots /\ ~ Used(At)
                              \/ At > Len(jobs) /\ jobs # <<>>
    BY <1>4 DEF Walk, GetJobs, ReadRunning, ReadState, ReadFreeSlot, ReadPastTable, MakeObjects, Goto
  <2>4. list = <<>> => At = 1 /\ (jobs # <<>> => ~ At > Len(jobs))
    BY <2>1 DEF At
  <2> QED
    BY <2>2, <2>3, <2>4 DEF FirstSlot, Slots, Used
<1> QED
  BY <1>1, <1>2, <1>3, <1>4 DEF Next

LEMMA WaitingKept == IInv /\ FirstSlot /\ Waiting /\ [Next]_vars => Waiting'
<1> SUFFICES ASSUME IInv, FirstSlot, Waiting, [Next]_vars PROVE Waiting'
  OBVIOUS
<1>1. CASE UNCHANGED vars
  BY <1>1 DEF vars, Waiting, Slots, Used
<1>2. CASE Sigchld
  BY <1>2, ReapedSlots DEF Waiting
<1>3. CASE Command \/ EnterWaitLoop
  BY <1>3 DEF Command, Bash, StartBackground, StartForeground, FinishForeground, Wait, FinishWait,
     EnterWaitLoop, Goto, FirstSlot, Waiting
<1>4. CASE Walk
  <2>1. UNCHANGED <<waitLoop, jobs>>
    BY <1>4 DEF Walk, GetJobs, ReadRunning, ReadState, ReadFreeSlot, ReadPastTable, MakeObjects, Goto
  <2>2. pc' # "ended"
    BY <1>4 DEF Walk, GetJobs, ReadRunning, ReadState, ReadFreeSlot, ReadPastTable, MakeObjects, Goto,
       FirstSlot, Waiting
  <2> QED
    BY <2>1, <2>2 DEF Waiting, Slots, Used
<1> QED
  BY <1>1, <1>2, <1>3, <1>4 DEF Next

(***************************************************************************)
(* getJobs lists what is in the table up to the first free slot, whichever *)
(* processes end while it walks (libbash.c:445): where the walk ended is   *)
(* still free, or behind the table, when the list is used.                 *)
(***************************************************************************)
WalkOver == pc = "objects" => (At \in Slots => ~ Used(At))

LEMMA WalkOverKept == IInv /\ WalkOver /\ [Next]_vars => WalkOver'
<1> SUFFICES ASSUME IInv, WalkOver, [Next]_vars PROVE WalkOver'
  OBVIOUS
<1>1. CASE UNCHANGED vars
  BY <1>1 DEF vars, WalkOver, At, Slots, Used
<1>2. CASE Sigchld
  BY <1>2, ReapedSlots DEF WalkOver, At
<1>3. CASE Command \/ EnterWaitLoop
  BY <1>3 DEF Command, Bash, StartBackground, StartForeground, FinishForeground, Wait, FinishWait,
     EnterWaitLoop, Goto, WalkOver
<1>4. CASE Walk
  <2>1. Slots = 1 .. Len(jobs)
    BY Types DEF IInv, Table, Slots
  <2>2. pc' = "objects" => /\ UNCHANGED <<jobs, list>>
                           /\ \/ At \in Slots /\ ~ Used(At)
                              \/ At > Len(jobs)
    BY <1>4 DEF Walk, GetJobs, ReadRunning, ReadState, ReadFreeSlot, ReadPastTable, MakeObjects, Goto
  <2>3. list \in Seq(Entry) /\ jobs \in Seq(Job \cup {NoJob}) /\ At \in Nat /\ Len(jobs) \in Nat
    BY Types DEF IInv, Table, At
  <2> QED
    BY <2>1, <2>2, <2>3 DEF WalkOver, At, Slots, Used
<1> QED
  BY <1>1, <1>2, <1>3, <1>4 DEF Next

THEOREM ListsUpToFreeSlot == Spec => []ListedUpToFreeSlot
<1>1. Init => WalkOver
  BY DEF Init, WalkOver
<1>2. IInv /\ WalkOver => ListedUpToFreeSlot
  <2> SUFFICES ASSUME IInv, WalkOver, pc = "objects", NEW i \in Slots, \A j \in 1 .. i : Used(j)
               PROVE  \E k \in DOMAIN list : list[k].id = jobs[i].id
    BY DEF ListedUpToFreeSlot
  <2>1. /\ Slots = 1 .. Len(jobs) /\ Len(jobs) \in Nat /\ i \in Nat
        /\ DOMAIN list = 1 .. Len(list) /\ Len(list) \in Nat
    BY Types DEF IInv, Table, Slots
  <2>2. i <= Len(list)
    <3> SUFFICES ASSUME i > Len(list) PROVE FALSE
      BY <2>1
    <3>1. At \in 1 .. i /\ At \in Slots
      BY <2>1 DEF At
    <3> QED
      BY <3>1 DEF WalkOver
  <2>3. i \in DOMAIN list
    BY <2>1, <2>2
  <2> QED
    BY <2>3 DEF IInv, ReadSoFar, InWalk
<1> QED
  BY <1>1, <1>2, WalkOverKept, Inductive, PTL DEF Spec

(***************************************************************************)
(* Once a script waits with job number 1 in the table, it waits for ever,  *)
(* also when all jobs are over, however many there are: Jobs.md's loop     *)
(* over getJobs (libbash.c:445) has no end of its own.                     *)
(***************************************************************************)
THEOREM LoopNeverEnds == Spec => [](Waiting => []Waiting)
<1>1. Init => FirstSlot
  BY DEF Init, FirstSlot
<1> QED
  BY <1>1, FirstSlotKept, WaitingKept, Inductive, PTL DEF Spec

===============================================================================
