----------------------------- MODULE TaskScheduler -----------------------------
(***************************************************************************)
(* The run queues of src/impl/kernel/core/sched.c.  A task is the number   *)
(* sched_create_task gives it; a run queue is the sequence of the tasks    *)
(* found along the next pointers.  Tasks stay TASK_READY: no code changes  *)
(* the state of a task, and none switches to one.                          *)
(***************************************************************************)
EXTENDS Integers, Sequences, FiniteSets

CONSTANTS
  MaxTasks,     \* MAX_TASKS (256)
  MaxCpus,      \* MAX_CPUS (64)
  Slice,        \* ticks of a time slice (10)
  Reported,     \* what acpi_cpu_count may be when sched_init runs
  ApicIds       \* what acpi_cpu_apic_ids may hold then

ASSUME TaskSchedulerAssumption ==
  /\ MaxTasks \in Nat /\ MaxCpus \in Nat \ {0} /\ Slice \in Nat \ {0}
  /\ Reported \subseteq Nat
  /\ ApicIds \subseteq [0 .. MaxCpus - 1 -> Nat]

VARIABLES
  cpuCount,     \* cpu_count, 0 before sched_init
  smt,          \* the CPUs with is_smt set
  online,       \* the CPUs with online set
  smtAware,     \* smt_aware
  created,      \* next_task_id
  runQueue,     \* runQueue[c]: run_queue of CPU c
  current,      \* current[c]: 0 for NULL, or a task, or Idle
  slice,        \* slice[t]: time_slice of task t
  wait          \* wait[t]: rounds of sched_schedule since t was created or picked

tsVars == << cpuCount, smt, online, smtAware, created, runQueue, current, slice, wait >>

Task == 1 .. MaxTasks
Cpu  == 0 .. MaxCpus - 1
Idle == MaxTasks + 1       \* the idle task of a CPU, whose slice is 0

TsInit ==
  /\ cpuCount = 0
  /\ smt = {} /\ online = {}
  /\ smtAware = TRUE
  /\ created = 0
  /\ runQueue = [c \in Cpu |-> << >>]
  /\ current = [c \in Cpu |-> 0]
  /\ slice = [t \in Task |-> 0]
  /\ wait = [t \in Task |-> 0]

\* sched_init, once, at boot.
SchedInit(count, ids) ==
  /\ cpuCount = 0
  /\ cpuCount' = IF count = 0 THEN 1 ELSE IF count > MaxCpus THEN MaxCpus ELSE count
  /\ smt' = { c \in 0 .. cpuCount' - 1 : ids[c] % 2 = 1 /\ cpuCount' > 1 }
  /\ online' = {0}
  /\ UNCHANGED << smtAware, created, runQueue, current, slice, wait >>

Eligible == { c \in online : ~(smtAware /\ c \in smt) }

\* The first of the least loaded CPUs a task may go to, CPU 0 if there is none.
TargetCpu ==
  IF Eligible = {} THEN 0
  ELSE CHOOSE c \in Eligible : \A d \in Eligible :
         \/ Len(runQueue[c]) < Len(runQueue[d])
         \/ Len(runQueue[c]) = Len(runQueue[d]) /\ c <= d

\* sched_create_task puts the new task at the head.
CreateTask ==
  /\ cpuCount > 0
  /\ created < MaxTasks
  /\ created' = created + 1
  /\ runQueue' = [runQueue EXCEPT ![TargetCpu] = << created' >> \o @]
  /\ slice' = [slice EXCEPT ![created'] = Slice]
  /\ wait' = [wait EXCEPT ![created'] = 0]
  /\ UNCHANGED << cpuCount, smt, online, smtAware, current >>

\* Mutant: the task that ran is put back in the second place.
Rotated_Second(q) ==
  IF Len(q) < 2 THEN q ELSE << q[2], q[1] >> \o SubSeq(q, 3, Len(q))

\* The head is picked and goes behind the others.
Rotated(q) == Append(Tail(q), Head(q))

\* sched_schedule (and sched_yield), on the boot processor only.
Schedule ==
  /\ cpuCount > 0
  /\ IF runQueue[0] = << >>
     THEN current' = [current EXCEPT ![0] = Idle] /\ UNCHANGED << runQueue, wait >>
     ELSE /\ current' = [current EXCEPT ![0] = Head(runQueue[0])]
          /\ runQueue' = [runQueue EXCEPT ![0] = Rotated(@)]
          /\ wait' = [t \in Task |-> IF t = Head(runQueue[0]) \/ t > created THEN 0
                                     ELSE wait[t] + 1]
  /\ UNCHANGED << cpuCount, smt, online, smtAware, created, slice >>

\* One tick of a slice; the slice is renewed when it is used up.
Used(s) == IF s = 1 THEN Slice ELSE s - 1

\* sched_tick, which no interrupt handler calls.
SchedTick ==
  /\ \E c \in online : current[c] \in Task
  /\ slice' = [t \in Task |-> IF slice[t] > 0 /\ \E c \in online : current[c] = t
                              THEN Used(slice[t]) ELSE slice[t]]
  /\ UNCHANGED << cpuCount, smt, online, smtAware, created, runQueue, current, wait >>

\* sched_set_smt_aware
SetSmtAware(enabled) ==
  /\ smtAware' = enabled
  /\ UNCHANGED << cpuCount, smt, online, created, runQueue, current, slice, wait >>

TsNext ==
  \/ \E count \in Reported, ids \in ApicIds : SchedInit(count, ids)
  \/ CreateTask
  \/ Schedule
  \/ SchedTick
  \/ \E enabled \in BOOLEAN : SetSmtAware(enabled)

TsSpec == TsInit /\ [][TsNext]_tsVars

-----------------------------------------------------------------------------
(* Properties.                                                             *)

TsTypeOK ==
  /\ cpuCount \in 0 .. MaxCpus
  /\ smt \subseteq Cpu /\ online \subseteq {0}
  /\ smtAware \in BOOLEAN
  /\ created \in 0 .. MaxTasks
  /\ runQueue \in [Cpu -> Seq(Task)]
  /\ current \in [Cpu -> Task \cup {0, Idle}]
  /\ slice \in [Task -> 0 .. Slice]
  /\ \A t \in 1 .. created : slice[t] > 0
  /\ wait \in [Task -> Nat]

\* No task is left out: each created task is in the boot processor's queue,
\* exactly once and in no other, and sched_schedule picks it after fewer
\* rounds than there are tasks, although new tasks go to the head of the
\* queue and push the others back.
WaitBounded ==
  /\ \A c \in Cpu \ {0} : runQueue[c] = << >>
  /\ Len(runQueue[0]) = created
  /\ \A t \in 1 .. created :
       /\ \E i \in 1 .. Len(runQueue[0]) : runQueue[0][i] = t
       /\ wait[t] < created
=============================================================================
