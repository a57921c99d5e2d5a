-------------------------- MODULE BoschExperiment ---------------------------
(***************************************************************************)
(* The experiment exp/bosch1.cpp on one node: the workload of module       *)
(* Benchmark is deployed once per CPU, as tasks of kzh15.cpp around a      *)
(* store of their own, and run for exp_duration.                           *)
(*                                                                         *)
(* The driver divides the smallest period between the CPUs, gives the      *)
(* tasks of a period a slot of preset length in the part of their CPU, and *)
(* starts the store after the last slot.  A task reads what was published  *)
(* for its release point and publishes for the end of its period; that     *)
(* everything is there in time rests on these offsets alone.               *)
(*                                                                         *)
(* The replicas of a node run the same tasks on the same clock, so a job   *)
(* of the store commits what the tasks of this node have written           *)
(* (ReplicatedStore!UnanimousCommits); a label is published or it is not,  *)
(* its value is left out.  Jobs of tasks end within the slot of their      *)
(* period.  Times are in ms and count from the release of all tasks, which *)
(* is a multiple of all periods.                                           *)
(***************************************************************************)
EXTENDS Benchmark, FiniteSetsExt

CONSTANTS
  ConfigFiles,     \* names of benchmark_cfg
  CpusUsed,        \* what cpus_used may be
  max_rounds,
  keep_n_values,
  NtStep,          \* NT is a multiple of NtStep, 100 in the code
  NtMax,           \* the largest NT there is a type for, 2000 in the code
  Ignored,         \* reads do not count for so long, 2 s in the code
  exp_duration,
  WordSize         \* size of uint64_t

ASSUME BoschAssumption ==
  /\ CpusUsed \subseteq Nat \ {0}
  /\ max_rounds \in Nat \ {0} /\ keep_n_values \in Nat \ {0}
  /\ NtStep \in Nat \ {0} /\ NtMax \in Nat
  /\ Ignored \in Nat /\ exp_duration \in Nat
  /\ WordSize \in Nat \ {0}

VARIABLES
  cpus_used,
  wcet,           \* the preset wcets: 50, 100, 200 or 1000 -> ms
  now,
  task,           \* <<cpu, index in tasks>> -> state of the KZH15Task
  kvs,            \* cpu -> state of the thread of its BFTKVS
  unpublished,    \* cpu -> set of <<label, publish_time>>
  store,          \* cpu -> label -> set of times
  failed_reads,
  failed_writes

xvars == <<cpus_used, wcet, now, task, kvs, unpublished, store, failed_reads, failed_writes>>
vars == <<bvars, xvars>>

Cpu == 0..(cpus_used - 1)

-----------------------------------------------------------------------------
(* main                                                                    *)

\* The wcets for periods 50, 100, 200 and 1000; the first is 0 if there is no
\* such task.
get_preset_wcets(file) ==
  LET w50 == IF file \in {"kzh15_105pcu_2965l.cfg", "kzh15_105pcu_3476l.cfg"} THEN 3 ELSE 2
      w100 ==
        CASE file \in {"kzh15_113pcu_1018l.cfg", "kzh15_109pcu_1479l.cfg"} -> 2
          [] file \in {"kzh15_108pcu_1557l.cfg", "kzh15_94pcu_1891l.cfg", "kzh15_140pcu_2017l.cfg",
                       "kzh15_115pcu_2062l.cfg", "kzh15_125pcu_2541l.cfg"} -> 3
          [] file = "kzh15_105pcu_3476l.cfg" -> 5
          [] OTHER -> 4
      w1000 == IF file \in {"kzh15_140pcu_2017l.cfg", "kzh15_105pcu_2965l.cfg",
                            "kzh15_105pcu_3476l.cfg"} THEN 3 ELSE 2
  IN  [p \in {50, 100, 200, 1000} |->
         CASE p = 50 -> IF smallest_period_ms > 50 THEN 0 ELSE w50
           [] p = 100 -> w100
           [] p = 200 -> 2
           [] p = 1000 -> w1000]

Init ==
  /\ BenchmarkInit
  /\ cpus_used \in CpusUsed
  /\ wcet \in {get_preset_wcets(file) : file \in ConfigFiles}
  /\ now = 0
  /\ task = <<>> /\ kvs = <<>>
  /\ unpublished = <<>> /\ store = <<>>
  /\ failed_reads = 0 /\ failed_writes = 0

Prepare == BenchmarkStep /\ UNCHANGED xvars

\* The slots that precede the one of period p, of the wcets w.
Preceding(w, p) ==
  CASE p = 100  -> w[50]
    [] p = 200  -> w[50] + w[100]
    [] p = 1000 -> w[50] + w[100] + w[200]
    [] OTHER    -> 0

bosch_task_wcet_total(w) == w[50] + w[100] + w[200] + w[1000]

nmr_specific_offset(cpu) == cpu * (smallest_period_ms \div cpus_used)

\* offset_ns of a task of period p.
task_offset(cpu, p) == nmr_specific_offset(cpu) + Preceding(wcet, p)

\* Variant: every CPU after all slots of the CPUs before it and of its own.
kvs_offset_summed(cpu) ==
  nmr_specific_offset(cpu) + (cpu + 1) * bosch_task_wcet_total(wcet)

\* offset_ns of the store: after all slots.
kvs_offset(cpu) == nmr_specific_offset(cpu) + bosch_task_wcet_total(wcet)

\* one_round_us of a store: the subtraction is unsigned.
one_round(cpu) == (((smallest_period_ms - kvs_offset(cpu)) % WordSize) \div 2) \div max_rounds

\* The type that bftkvs_init_from_config chooses.
NT == ((Cardinality(label_sizes) \div NtStep) + 1) * NtStep

\* PeriodicTimer::get_next_release
get_next_release(t, period, offset) == ((t \div period) + 1) * period + offset

Period(k) == tasks[k[2]].period_ms

next_release(k) == get_next_release(now, Period(k), task_offset(k[1], Period(k)))
next_kvs_release(cpu) == get_next_release(now, smallest_period_ms, kvs_offset(cpu))

\* The labels in one kind of list of task k: the *_keys of KZH15Task.
keys(k, kind) == {a[3] : a \in {b \in access : b[1] = kind /\ b[2] \in tasks[k].runnables}}

\* The freshness constraints that main adds to task k for label l: the periods
\* of all tasks, on all CPUs, that write it.
Constraints(l) == {j \in Cpu \X DOMAIN tasks : l \in keys(j[2], "inter_written")}

\* assert: as many constraints as keys.
ConstraintsMatch ==
  \A k \in DOMAIN tasks :
    LET read == keys(k, "inter_read")
        pushed == {e \in read \X (Cpu \X DOMAIN tasks) : e[2] \in Constraints(e[1])}
    IN  Cardinality(pushed) = Cardinality(read)

\* main stops at an assertion: the labels do not fit into any type, or the
\* freshness constraints do not match.
Abort ==
  /\ phase = "trimmed"
  /\ NT > NtMax \/ ~ConstraintsMatch
  /\ phase' = "aborted"
  /\ UNCHANGED <<merge_runnables, idx, counter, max, runnables, tasks, labels, todo, access,
                 label_sizes, xvars>>

\* main constructs the stores and the tasks and spawns them.
Deploy ==
  /\ phase = "trimmed"
  /\ NT <= NtMax /\ ConstraintsMatch
  /\ task' = [k \in Cpu \X DOMAIN tasks |->
                [pc |-> "waiting", num_jobs |-> 0,
                 publish_time |-> 0, release |-> next_release(k)]]
  /\ kvs' = [cpu \in Cpu |->
               [pc |-> "waiting", num_jobs |-> 0, root |-> {},
                release |-> next_kvs_release(cpu)]]
  /\ unpublished' = [cpu \in Cpu |-> {}]
  /\ store' = [cpu \in Cpu |-> [l \in label_sizes |-> {}]]
  /\ phase' = "running"
  /\ UNCHANGED <<merge_runnables, idx, counter, max, runnables, tasks, labels, todo, access,
                 label_sizes, cpus_used, wcet, now, failed_reads, failed_writes>>

-----------------------------------------------------------------------------
(* The CPU: SCHED_FIFO, with the store at the lowest priority.             *)

get_period_based_priority(p) ==
  17 + Cardinality({bound \in {1, 2, 5, 10, 20, 50, 100, 200} : p <= bound})

max_jobs(period) == exp_duration \div period

\* Released and not finished.
Active(k) ==
  \/ task[k].pc = "running"
  \/ task[k].num_jobs < max_jobs(Period(k)) /\ task[k].release <= now

OnCpu(cpu) == {k \in DOMAIN task : k[1] = cpu}

\* Nobody on its CPU goes before task k: those of its own priority wait until
\* it has finished, once it runs.
Scheduled(k) ==
  \A j \in OnCpu(k[1]) \ {k} :
    Active(j) =>
      LET mine == get_period_based_priority(Period(k))
          other == get_period_based_priority(Period(j))
      IN  other < mine \/ (other = mine /\ task[j].pc = "waiting")

Idle(cpu) == \A k \in OnCpu(cpu) : ~Active(k)

-----------------------------------------------------------------------------
(* KZH15Task::job                                                          *)

\* BFTKVS::try_read
try_read(cpu, l, no_earlier_than) ==
  \E t \in store[cpu][l] : no_earlier_than <= t /\ t <= now

\* my_release_time_without_offset, others_release_time_without_offset
release_time_without_offset(period) == (now \div period) * period

\* How old the value of an inter-task label may be: from the current period of
\* its writer, if that is longer than the one of the reader.
freshness_constraint(k, l) ==
  LET constraint == Period(CHOOSE j \in Constraints(l) : TRUE) IN
  release_time_without_offset(IF constraint > Period(k) THEN constraint ELSE Period(k))

\* job() up to the end of the reads.  Failures of the first jobs do not count.
StartJob(k) ==
  LET release_time == release_time_without_offset(Period(k))
      own == keys(k[2], "ro_read") \cup keys(k[2], "intra_read")
      failures == {l \in own : ~try_read(k[1], l, release_time)}
                    \cup {l \in keys(k[2], "inter_read") :
                            ~try_read(k[1], l, freshness_constraint(k, l))}
      num_jobs_to_ignore == Ignored \div Period(k)
  IN  /\ phase = "running"
      /\ task[k].pc = "waiting" /\ Active(k) /\ Scheduled(k)
      /\ failed_reads' = failed_reads + (IF task[k].num_jobs <= num_jobs_to_ignore
                                           THEN 0 ELSE Cardinality(failures))
      /\ task' = [task EXCEPT ![k].pc = "running", ![k].publish_time = release_time + Period(k)]
      /\ UNCHANGED <<bvars, cpus_used, wcet, now, kvs, unpublished, store, failed_writes>>

\* The rest of job(): four times try_write_batch.  What does not fit or comes
\* too late fails; which labels that are depends on the order of the lists.
EndJob(k) ==
  LET written == UNION {keys(k[2], kind) :
                          kind \in {"wo_written", "inter_written", "intra_written", "ro_read"}}
      room == NT - Cardinality(unpublished[k[1]])
      fit == IF task[k].publish_time <= now THEN 0 ELSE Min({room, Cardinality(written)})
  IN  /\ phase = "running"
      /\ task[k].pc = "running" /\ Scheduled(k)
      /\ \E done \in kSubset(fit, written) :
           unpublished' = [unpublished EXCEPT ![k[1]] = @ \cup {<<l, task[k].publish_time>> : l \in done}]
      /\ failed_writes' = failed_writes + Cardinality(written) - fit
      /\ task' = [task EXCEPT ![k] = [pc |-> "waiting", num_jobs |-> @.num_jobs + 1,
                                      publish_time |-> 0, release |-> next_release(k)]]
      /\ UNCHANGED <<bvars, cpus_used, wcet, now, kvs, store, failed_reads>>

-----------------------------------------------------------------------------
(* BFTKVS::job                                                             *)

\* Variant: the proposal is not cleared.
BeginKvsJobKeep(cpu) ==
  /\ phase = "running"
  /\ kvs[cpu].pc = "waiting" /\ kvs[cpu].num_jobs < max_jobs(smallest_period_ms)
  /\ kvs[cpu].release <= now /\ Idle(cpu)
  /\ kvs' = [kvs EXCEPT ![cpu].pc = "running", ![cpu].root = unpublished[cpu]]
  /\ UNCHANGED <<bvars, cpus_used, wcet, now, task, unpublished, store, failed_reads, failed_writes>>

BeginKvsJob(cpu) ==
  /\ phase = "running"
  /\ kvs[cpu].pc = "waiting" /\ kvs[cpu].num_jobs < max_jobs(smallest_period_ms)
  /\ kvs[cpu].release <= now /\ Idle(cpu)
  /\ kvs' = [kvs EXCEPT ![cpu].pc = "running", ![cpu].root = unpublished[cpu]]
  /\ unpublished' = [unpublished EXCEPT ![cpu] = {}]
  /\ UNCHANGED <<bvars, cpus_used, wcet, now, task, store, failed_reads, failed_writes>>

\* Variant: one more.
newest_and_one(times) == {t \in times : Cardinality({u \in times : u > t}) <= keep_n_values}

\* The oldest goes when there are too many.
newest(times) == {t \in times : Cardinality({u \in times : u > t}) < keep_n_values}

\* After max_rounds rounds, each of which ends when everything has arrived or
\* its timer expires.
EndKvsJob(cpu) ==
  /\ phase = "running"
  /\ kvs[cpu].pc = "running" /\ Idle(cpu)
  /\ store' = [store EXCEPT ![cpu] =
                 [l \in DOMAIN @ |-> newest(@[l] \cup {e[2] : e \in {f \in kvs[cpu].root : f[1] = l}})]]
  /\ kvs' = [kvs EXCEPT ![cpu] = [pc |-> "waiting", num_jobs |-> @.num_jobs + 1, root |-> {},
                                  release |-> next_kvs_release(cpu)]]
  /\ UNCHANGED <<bvars, cpus_used, wcet, now, task, unpublished, failed_reads, failed_writes>>

-----------------------------------------------------------------------------
(* Time passes from event to event: the release points, the ends of the    *)
(* slots and the last ends of the jobs of the stores.                      *)

Slot(k) == IF Period(k) \in DOMAIN wcet THEN wcet[Period(k)] ELSE 0

\* When task k or the store of a cpu has to be done with what it is at.
Deadlines ==
  {task[k].release + Slot(k) : k \in {j \in DOMAIN task : Active(j)}}
    \cup {kvs[c].release + max_rounds * one_round(c) : c \in {d \in Cpu : kvs[d].pc = "running"}}
    \cup {kvs[c].release : c \in {d \in Cpu : /\ kvs[d].pc = "waiting"
                                              /\ kvs[d].num_jobs < max_jobs(smallest_period_ms)}}

Releases == {task[k].release : k \in {j \in DOMAIN task : task[j].num_jobs < max_jobs(Period(j))}}

Tick ==
  /\ phase = "running"
  /\ \A t \in Deadlines : now < t
  /\ \E t \in Deadlines \cup Releases : now < t
  /\ now' = Min({t \in Deadlines \cup Releases : now < t})
  /\ UNCHANGED <<bvars, cpus_used, wcet, task, kvs, unpublished, store, failed_reads, failed_writes>>

\* main has joined all threads and writes the statistics.
Finish ==
  /\ phase = "running"
  /\ \A k \in DOMAIN task : task[k].num_jobs >= max_jobs(Period(k))
  /\ \A c \in Cpu : kvs[c].num_jobs >= max_jobs(smallest_period_ms)
  /\ phase' = "done"
  /\ UNCHANGED <<merge_runnables, idx, counter, max, runnables, tasks, labels, todo, access,
                 label_sizes, xvars>>

\* Where the programs stop, or spin.
Halt == phase \in {"spins", "aborted", "done"} /\ UNCHANGED vars

Next ==
  \/ Prepare
  \/ Abort
  \/ Deploy
  \/ \E k \in DOMAIN task : StartJob(k)
  \/ \E k \in DOMAIN task : EndJob(k)
  \/ \E c \in DOMAIN kvs : BeginKvsJob(c)
  \/ \E c \in DOMAIN kvs : EndKvsJob(c)
  \/ Tick
  \/ Finish
  \/ Halt

Spec == Init /\ [][Next]_vars

-----------------------------------------------------------------------------
(* Properties.                                                             *)

\* What the schedule rests on: on every CPU the store starts within the smallest
\* period, for the division of main leaves enough for all slots.
OffsetsFit ==
  \A n \in CpusUsed : \A cpu \in 0..(n - 1) :
    \A w \in {get_preset_wcets(file) : file \in ConfigFiles} :
      cpu * (smallest_period_ms \div n) + bosch_task_wcet_total(w) < smallest_period_ms

TypeOK ==
  /\ phase \in {"runnables", "tasks", "labels", "spins", "imported", "resolved", "trimmed",
                "running", "aborted", "done"}
  /\ runnables \in [DOMAIN runnables -> [period_ms : Nat, wcet : Nat]]
  /\ DOMAIN runnables \subseteq 1..max /\ idx \in Nat /\ counter \in 0..max
  /\ tasks \in [DOMAIN tasks -> [period_ms : Nat, wcet : Nat, runnables : SUBSET (1..max)]]
  /\ DOMAIN tasks \subseteq 1..max
  /\ access \subseteq (Reading \cup Writing) \X (1..max) \X LabelIds
  /\ label_sizes \subseteq LabelIds
  /\ phase \in {"running", "done"} =>
       /\ task \in [Cpu \X DOMAIN tasks -> [pc : {"waiting", "running"}, num_jobs : 0..exp_duration,
                                            publish_time : Nat, release : Nat]]
       /\ \A c \in Cpu : /\ kvs[c].num_jobs \in 0..max_jobs(smallest_period_ms)
                         /\ kvs[c].root \cup unpublished[c] \subseteq label_sizes \X Nat
       /\ \A c \in Cpu, l \in label_sizes : Cardinality(store[c][l]) <= keep_n_values

\* Once a task has run for Ignored, every label it reads has been published for
\* the release point it reads for: the offsets and slots of main, the rounds of
\* BFTKVS and the freshness constraints fit together, on every CPU and however
\* long the jobs take.
ReadsSucceed == failed_reads = 0

\* The type chosen by the number of labels has room for everything the tasks of
\* a CPU write between two jobs of its store, and nothing is written too late.
WritesFit == failed_writes = 0

\* The assertions of main hold on one CPU: after resolve_label_dependencies every
\* inter-task label has one writer, so there is one constraint per key.
AssertHolds == phase = "aborted" => cpus_used > 1
=============================================================================
