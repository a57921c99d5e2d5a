---------------------------- MODULE BoschProofs -----------------------------
(***************************************************************************)
(* Proofs about module BoschExperiment.                                    *)
(***************************************************************************)
EXTENDS BoschExperiment, BenchmarkProofs, OrderLemmas, FiniteSetTheorems

\* What runs in the experiment leaves the workload as it is.
LEMMA RunStep ==
  ASSUME BInv, phase \in Late, phase' \in Late, UNCHANGED <<access, label_sizes>>
  PROVE  BInv'
<1>1. \A kind, l : Who(kind, l)' = Who(kind, l)
  BY DEF Who
<1>2. LabelsPaired'
  BY <1>1 DEF BInv, LabelsPaired, Late
<1> QED
  BY <1>2 DEF BInv, Late, Phase, Generating, Early, Placed, Imported

LEMMA ExperimentStep == ASSUME BInv, Next PROVE BInv'
<1>1. CASE Prepare
  BY <1>1, StepBInv DEF Prepare
<1>2. CASE Abort \/ Deploy \/ Finish
  BY <1>2, RunStep DEF Abort, Deploy, Finish, Late
<1>3. CASE \/ \E k \in DOMAIN task : StartJob(k) \/ EndJob(k)
           \/ \E c \in DOMAIN kvs : BeginKvsJob(c) \/ EndKvsJob(c)
           \/ Tick \/ Halt
  <2>1. UNCHANGED bvars
    BY <1>3 DEF StartJob, EndJob, BeginKvsJob, EndKvsJob, Tick, Halt, vars
  <2> QED
    BY <2>1, StutterBInv
<1> QED
  BY <1>1, <1>2, <1>3 DEF Next

\* However the workload was generated, and from the moment the driver has cut it
\* to the end of the experiment, no task reads a label that nobody writes any
\* more, and the store is sized by the labels that are left.
THEOREM LabelsAlwaysPaired == Spec => []LabelsPaired
<1>1. Init => BInv
  BY InitBInv DEF Init
<1>2. BInv /\ [Next]_vars => BInv'
  BY ExperimentStep, StutterBInv DEF vars
<1>3. BInv => LabelsPaired
  BY DEF BInv
<1> QED
  BY <1>1, <1>2, <1>3, PTL DEF Spec

LEMMA ExperimentPInv == ASSUME BInv, PInv, [Next]_vars PROVE PInv'
<1>1. CASE Prepare
  BY <1>1, StepPInv DEF Prepare
<1>2. CASE Abort \/ Deploy \/ Finish
  BY <1>2, KeptPInv DEF Abort, Deploy, Finish, Late
<1>3. CASE \/ \E k \in DOMAIN task : StartJob(k) \/ EndJob(k)
           \/ \E c \in DOMAIN kvs : BeginKvsJob(c) \/ EndKvsJob(c)
           \/ Tick \/ Halt \/ UNCHANGED vars
  <2>1. UNCHANGED bvars
    BY <1>3 DEF StartJob, EndJob, BeginKvsJob, EndKvsJob, Tick, Halt, vars
  <2> QED BY <2>1, KeptPInv DEF bvars
<1> QED BY <1>1, <1>2, <1>3 DEF Next

\* Both invariants of the workload, in the whole experiment.
THEOREM WorkloadInvariant == Spec => [](BInv /\ PInv)
<1>1. Init => BInv /\ PInv
  BY InitBInv, InitPInv DEF Init
<1>2. BInv /\ PInv /\ [Next]_vars => BInv' /\ PInv'
  BY ExperimentStep, StutterBInv, ExperimentPInv DEF vars
<1> QED BY <1>1, <1>2, PTL DEF Spec

\* The tasks that the driver deploys have all runnables that are left, each in
\* one task.
THEOREM TasksAlwaysPartition == Spec => []TasksPartition
BY WorkloadInvariant, PartitionImplied, PTL

-----------------------------------------------------------------------------
(* The assertions of main.                                                 *)

\* On one CPU the one runnable that writes a label is in one task, so every key
\* read from another task has one freshness constraint.
LEMMA OneConstraintPerKey ==
  ASSUME BInv, PInv, phase = "trimmed", cpus_used = 1
  PROVE  ConstraintsMatch
<1> SUFFICES ASSUME NEW k \in DOMAIN tasks
             PROVE  Cardinality({e \in keys(k, "inter_read") \X (Cpu \X DOMAIN tasks) : e[2] \in Constraints(e[1])})
                      = Cardinality(keys(k, "inter_read"))
  BY DEF ConstraintsMatch
<1> DEFINE read == keys(k, "inter_read")
           pushed == {e \in read \X (Cpu \X DOMAIN tasks) : e[2] \in Constraints(e[1])}
           Writers(l) == {j \in DOMAIN tasks : l \in keys(j, "inter_written")}
<1>1. Cpu = {0}
  BY DEF Cpu
<1>2. Partitioned /\ Known /\ LabelsPaired /\ Pending = {}
  BY DEF BInv, PInv, Pending
<1>3. /\ label_sizes = {a[3] : a \in access}
      /\ \A l \in label_sizes : /\ \A r1, r2 \in Who("inter_written", l) : r1 = r2
                                /\ Who("inter_read", l) = {} <=> Who("inter_written", l) = {}
  BY <1>2 DEF LabelsPaired
<1>4. \A j, kind, l : l \in keys(j, kind) <=> \E r \in tasks[j].runnables : r \in Who(kind, l)
  BY DEF keys, Who
<1>5. \A kind, l, r : r \in Who(kind, l) => l \in label_sizes /\ r \in DOMAIN runnables
  BY <1>2, <1>3 DEF Who, Known
<1>6. ASSUME NEW l \in read
      PROVE  \E j \in DOMAIN tasks : Writers(l) = {j}
  <2>1. PICK r : r \in Who("inter_written", l)
    BY <1>3, <1>4, <1>5
  <2>2. PICK j \in DOMAIN tasks : r \in tasks[j].runnables
    BY <1>2, <1>5, <2>1 DEF Partitioned
  <2>3. ASSUME NEW i \in Writers(l) PROVE i = j
    <3>1. PICK q \in tasks[i].runnables : q \in Who("inter_written", l)
      BY <1>4
    <3>2. q = r
      BY <1>3, <1>5, <2>1, <3>1
    <3> QED BY <1>2, <2>2, <3>1, <3>2 DEF Partitioned
  <2>4. j \in Writers(l)
    BY <1>4, <2>1, <2>2
  <2> HIDE DEF Writers
  <2> QED BY <2>2, <2>3, <2>4
<1> DEFINE writer(l) == CHOOSE j \in DOMAIN tasks : Writers(l) = {j}
           f == [l \in read |-> <<l, <<0, writer(l)>>>>]
<1>7. ASSUME NEW l \in read PROVE writer(l) \in DOMAIN tasks /\ Writers(l) = {writer(l)}
  BY <1>6
<1>8. ASSUME NEW l \in read, NEW e \in Cpu \X DOMAIN tasks
      PROVE  e \in Constraints(l) <=> e = <<0, writer(l)>>
  <2>1. e[1] = 0 /\ e[2] \in DOMAIN tasks /\ e = <<e[1], e[2]>>
    BY <1>1
  <2>2. e \in Constraints(l) <=> e[2] \in Writers(l)
    BY <2>1 DEF Constraints
  <2> HIDE DEF Writers, writer
  <2> QED BY <1>7, <2>1, <2>2
<1> HIDE DEF writer, Writers, read
<1>9. f \in Bijection(read, pushed)
  <2>1. ASSUME NEW l \in read PROVE f[l] \in pushed /\ f[l] = <<l, <<0, writer(l)>>>>
    <3>1. <<0, writer(l)>> \in Cpu \X DOMAIN tasks
      BY <1>1, <1>7
    <3>2. <<0, writer(l)>> \in Constraints(l)
      BY <1>8, <3>1
    <3> QED BY <3>1, <3>2
  <2>2. ASSUME NEW e \in pushed PROVE \E l \in read : f[l] = e
    <3>1. e[1] \in read /\ e[2] \in Cpu \X DOMAIN tasks /\ e = <<e[1], e[2]>> /\ e[2] \in Constraints(e[1])
      OBVIOUS
    <3>2. e[2] = <<0, writer(e[1])>>
      BY <1>8, <3>1
    <3> QED BY <3>1, <3>2
  <2>3. \A l, m \in read : f[l] = f[m] => l = m
    BY <2>1
  <2>4. f \in [read -> pushed]
    BY <2>1
  <2> HIDE DEF f, pushed
  <2> QED BY <2>2, <2>3, <2>4 DEF Bijection, Injection, Surjection, IsInjective
<1>10. IsFiniteSet(read)
  <2>1. read \in SUBSET LabelIds
    BY <1>2, <1>4, <1>5 DEF read, Known
  <2> QED BY <2>1, BenchmarkAssumption, FS_Subset
<1>11. Cardinality(read) = Cardinality(pushed)
  <2> HIDE DEF f, pushed
  <2>1. ExistsBijection(read, pushed)
    BY <1>9 DEF ExistsBijection
  <2> QED BY <1>10, <2>1, FS_Bijection
<1> QED BY <1>11 DEF read

\* The first type that is large enough.
LEMMA TypeFits ==
  ASSUME PInv, Cardinality(LabelIds) + NtStep <= NtMax
  PROVE  NT <= NtMax
<1> DEFINE c == Cardinality(label_sizes)
<1>1. c \in Nat /\ c <= Cardinality(LabelIds) /\ Cardinality(LabelIds) \in Nat
  <2>1. label_sizes \in SUBSET LabelIds /\ IsFiniteSet(LabelIds)
    BY BenchmarkAssumption DEF PInv, Known
  <2> QED BY <2>1, FS_Subset, FS_CardinalityType
<1>2. /\ (c \div NtStep) * NtStep \in Nat /\ (c \div NtStep) * NtStep <= c
      /\ ((c \div NtStep) + 1) * NtStep = (c \div NtStep) * NtStep + NtStep
  BY <1>1, BoschAssumption, LastMultiple
<1>3. NT = ((c \div NtStep) + 1) * NtStep
  BY DEF NT
<1> HIDE DEF c
<1> QED BY <1>1, <1>2, <1>3, BoschAssumption

\* With one CPU the only assertion that may end main is the one about the number
\* of labels.
OnlyTooManyLabels ==
  /\ cpus_used \in CpusUsed
  /\ phase = "aborted" /\ cpus_used = 1 => NT > NtMax

\* Whatever was generated and wherever it was cut, on one CPU the assertion about
\* the freshness constraints never fails.
THEOREM FreshnessConstraintsMatch == Spec => []OnlyTooManyLabels
<1>1. Init => OnlyTooManyLabels
  BY DEF Init, BenchmarkInit, OnlyTooManyLabels
<1>2. ASSUME BInv, PInv, OnlyTooManyLabels, [Next]_vars PROVE OnlyTooManyLabels'
  <2>0. cpus_used' = cpus_used /\ cpus_used \in CpusUsed
    BY <1>2 DEF OnlyTooManyLabels, Next, Prepare, Abort, Deploy, StartJob, EndJob, BeginKvsJob, EndKvsJob,
         Tick, Finish, Halt, vars, xvars
  <2>1. CASE phase' # "aborted"
    BY <2>0, <2>1 DEF OnlyTooManyLabels
  <2>2. CASE phase = "aborted" /\ phase' = "aborted"
    <3>1. UNCHANGED label_sizes
      <4>1. CASE Prepare
        BY <2>2, <4>1 DEF Prepare, BenchmarkStep, GenerateRunnable, RunnablesDone, GenerateTask, GenerateLabels,
             MapLabel, Spin, MapInterTaskMsg, DeleteLabel, AtLabel, AtInterTaskMsg, ExportImport,
             ResolveLabelDependencies, TrimBenchmark
      <4>2. CASE Abort \/ Deploy \/ Finish \/ Halt \/ UNCHANGED vars
        BY <4>2 DEF Abort, Deploy, Finish, Halt, vars, bvars
      <4>3. CASE \/ \E k \in DOMAIN task : StartJob(k) \/ EndJob(k)
                 \/ \E c \in DOMAIN kvs : BeginKvsJob(c) \/ EndKvsJob(c)
                 \/ Tick
        BY <4>3 DEF StartJob, EndJob, BeginKvsJob, EndKvsJob, Tick, bvars
      <4> QED BY <1>2, <4>1, <4>2, <4>3 DEF Next
    <3> QED BY <1>2, <2>0, <2>2, <3>1 DEF OnlyTooManyLabels, NT
  <2>3. CASE phase # "aborted" /\ phase' = "aborted"
    <3>1. Abort
      <4>1. ~ Prepare
        BY <2>3 DEF Prepare, BenchmarkStep, GenerateRunnable, RunnablesDone, GenerateTask, GenerateLabels,
             MapLabel, Spin, MapInterTaskMsg, DeleteLabel, AtLabel, AtInterTaskMsg, ExportImport,
             ResolveLabelDependencies, TrimBenchmark
      <4>2. ~ (Deploy \/ Finish \/ Halt \/ UNCHANGED vars)
        BY <2>3 DEF Deploy, Finish, Halt, vars, bvars
      <4>3. ~ (\/ \E k \in DOMAIN task : StartJob(k) \/ EndJob(k)
               \/ \E c \in DOMAIN kvs : BeginKvsJob(c) \/ EndKvsJob(c)
               \/ Tick)
        BY <2>3 DEF StartJob, EndJob, BeginKvsJob, EndKvsJob, Tick, bvars
      <4> QED BY <1>2, <4>1, <4>2, <4>3 DEF Next
    <3>2. cpus_used = 1 => NT > NtMax
      BY <1>2, <3>1, OneConstraintPerKey DEF Abort
    <3>3. NT' = NT
      BY <3>1 DEF Abort, NT
    <3> QED BY <2>0, <3>2, <3>3 DEF OnlyTooManyLabels
  <2> QED BY <2>1, <2>2, <2>3
<1> QED BY <1>1, <1>2, WorkloadInvariant, PTL DEF Spec

\* No assertion of main fails on one CPU, for every workload whose labels fit
\* into the largest type there is.
THEOREM AssertionsHold ==
  ASSUME Cardinality(LabelIds) + NtStep <= NtMax
  PROVE  Spec => []AssertHolds
<1>1. ASSUME PInv, OnlyTooManyLabels PROVE AssertHolds
  <2> SUFFICES ASSUME phase = "aborted" PROVE cpus_used > 1
    BY DEF AssertHolds
  <2>1. NT <= NtMax
    BY <1>1, TypeFits
  <2>2. NT \in Int /\ NtMax \in Int
    <3>1. Cardinality(label_sizes) \in Nat
      <4>1. label_sizes \in SUBSET LabelIds /\ IsFiniteSet(LabelIds)
        BY <1>1, BenchmarkAssumption DEF PInv, Known
      <4> QED BY <4>1, FS_Subset, FS_CardinalityType
    <3> QED BY <3>1, BoschAssumption, LastMultiple DEF NT
  <2>3. cpus_used # 1
    BY <1>1, <2>1, <2>2 DEF OnlyTooManyLabels
  <2> QED BY <1>1, <2>3, BoschAssumption DEF OnlyTooManyLabels
<1> QED BY <1>1, WorkloadInvariant, FreshnessConstraintsMatch, PTL

-----------------------------------------------------------------------------
(* Types.                                                                  *)

LEMMA ExperimentGInv == ASSUME BInv, PInv, GInv, [Next]_vars PROVE GInv'
<1>1. CASE Prepare
  BY <1>1, StepGInv DEF Prepare
<1>2. CASE Abort \/ Deploy \/ Finish
  BY <1>2, KeptGInv DEF Abort, Deploy, Finish, Late
<1>3. CASE \/ \E k \in DOMAIN task : StartJob(k) \/ EndJob(k)
           \/ \E c \in DOMAIN kvs : BeginKvsJob(c) \/ EndKvsJob(c)
           \/ Tick \/ Halt \/ UNCHANGED vars
  <2>1. UNCHANGED bvars
    BY <1>3 DEF StartJob, EndJob, BeginKvsJob, EndKvsJob, Tick, Halt, vars
  <2> QED BY <2>1, KeptGInv DEF bvars
<1> QED BY <1>1, <1>2, <1>3 DEF Next

Deployed == {"running", "done"}

TaskState == [pc : {"waiting", "running"}, num_jobs : Nat, publish_time : Nat, release : Nat]
KvsState == [pc : {"waiting", "running"}, num_jobs : Nat, root : SUBSET (label_sizes \X Nat), release : Nat]

Presets == {get_preset_wcets(file) : file \in ConfigFiles}

\* What main has read and the clock.
Config ==
  /\ cpus_used \in CpusUsed /\ wcet \in Presets
  /\ now \in Nat
  /\ phase \notin Deployed => now = 0

TaskTypes ==
  /\ task \in [Cpu \X DOMAIN tasks -> TaskState]
  /\ \A k \in Cpu \X DOMAIN tasks :
       /\ task[k].num_jobs <= max_jobs(Period(k))
       /\ task[k].pc = "running" => task[k].num_jobs < max_jobs(Period(k))

KvsTypes ==
  /\ kvs \in [Cpu -> KvsState]
  /\ \A c \in Cpu :
       /\ kvs[c].num_jobs <= max_jobs(smallest_period_ms)
       /\ kvs[c].pc = "running" => kvs[c].num_jobs < max_jobs(smallest_period_ms)
       /\ IsFiniteSet(kvs[c].root)

StoreTypes ==
  /\ unpublished \in [Cpu -> SUBSET (label_sizes \X Nat)]
  /\ store \in [Cpu -> [label_sizes -> SUBSET Nat]]
  /\ \A c \in Cpu :
       /\ IsFiniteSet(unpublished[c])
       /\ \A l \in label_sizes : IsFiniteSet(store[c][l]) /\ Cardinality(store[c][l]) <= keep_n_values

XInv == Config /\ (phase \in Deployed => TaskTypes /\ KvsTypes /\ StoreTypes)

LEMMA PresetFacts ==
  ASSUME Config
  PROVE  /\ DOMAIN wcet = {50, 100, 200, 1000}
         /\ wcet[50] \in Nat /\ wcet[100] \in Nat /\ wcet[200] \in Nat /\ wcet[1000] \in Nat
<1>1. PICK file \in ConfigFiles : wcet = get_preset_wcets(file)
  BY DEF Config, Presets
<1> DEFINE w50 == IF file \in {"kzh15_105pcu_2965l.cfg", "kzh15_105pcu_3476l.cfg"} THEN 3 ELSE 2
           w100 == CASE file \in {"kzh15_113pcu_1018l.cfg", "kzh15_109pcu_1479l.cfg"} -> 2
                     [] file \in {"kzh15_108pcu_1557l.cfg", "kzh15_94pcu_1891l.cfg", "kzh15_140pcu_2017l.cfg",
                                  "kzh15_115pcu_2062l.cfg", "kzh15_125pcu_2541l.cfg"} -> 3
                     [] file = "kzh15_105pcu_3476l.cfg" -> 5
                     [] OTHER -> 4
           w1000 == IF file \in {"kzh15_140pcu_2017l.cfg", "kzh15_105pcu_2965l.cfg",
                                 "kzh15_105pcu_3476l.cfg"} THEN 3 ELSE 2
<1>2. wcet = [p \in {50, 100, 200, 1000} |->
                CASE p = 50 -> IF smallest_period_ms > 50 THEN 0 ELSE w50
                  [] p = 100 -> w100
                  [] p = 200 -> 2
                  [] p = 1000 -> w1000]
  BY <1>1 DEF get_preset_wcets
<1>3. w50 \in Nat /\ w100 \in Nat /\ w1000 \in Nat
  OBVIOUS
<1> HIDE DEF w50, w100, w1000
<1>4. wcet[50] = (IF smallest_period_ms > 50 THEN 0 ELSE w50) /\ wcet[100] = w100 /\ wcet[200] = 2 /\ wcet[1000] = w1000
  BY <1>2
<1> QED BY <1>2, <1>3, <1>4

SlotOf(p) == IF p \in DOMAIN wcet THEN wcet[p] ELSE 0

\* The slot of a period ends before the store starts.
LEMMA OffsetFacts ==
  ASSUME Config, NEW c \in Cpu, NEW p
  PROVE  /\ task_offset(c, p) \in Nat /\ SlotOf(p) \in Nat /\ kvs_offset(c) \in Nat
         /\ task_offset(c, p) + SlotOf(p) <= kvs_offset(c)
<1>1. cpus_used \in Nat \ {0} /\ smallest_period_ms \in Nat /\ c \in Nat
  BY BoschAssumption, BenchmarkAssumption DEF Config, Cpu
<1>2. smallest_period_ms \div cpus_used \in Nat
  BY <1>1, Quotient
<1>3. nmr_specific_offset(c) \in Nat
  BY <1>1, <1>2 DEF nmr_specific_offset
<1>4. /\ DOMAIN wcet = {50, 100, 200, 1000}
      /\ wcet[50] \in Nat /\ wcet[100] \in Nat /\ wcet[200] \in Nat /\ wcet[1000] \in Nat
  BY PresetFacts
<1>5. /\ Preceding(wcet, p) \in Nat /\ SlotOf(p) \in Nat /\ bosch_task_wcet_total(wcet) \in Nat
      /\ Preceding(wcet, p) + SlotOf(p) <= bosch_task_wcet_total(wcet)
  <2>1. CASE p = 50
    BY <1>4, <2>1 DEF Preceding, SlotOf, bosch_task_wcet_total
  <2>2. CASE p = 100
    BY <1>4, <2>2 DEF Preceding, SlotOf, bosch_task_wcet_total
  <2>3. CASE p = 200
    BY <1>4, <2>3 DEF Preceding, SlotOf, bosch_task_wcet_total
  <2>4. CASE p = 1000
    BY <1>4, <2>4 DEF Preceding, SlotOf, bosch_task_wcet_total
  <2>5. CASE p \notin {50, 100, 200, 1000}
    <3>1. Preceding(wcet, p) = 0
      BY <2>5 DEF Preceding
    <3> QED BY <1>4, <2>5, <3>1 DEF SlotOf, bosch_task_wcet_total
  <2> QED BY <2>1, <2>2, <2>3, <2>4, <2>5
<1> QED BY <1>3, <1>5 DEF task_offset, kvs_offset

\* The periods of what is deployed.
LEMMA PeriodFacts ==
  ASSUME GInv, phase \in Late, NEW k \in Cpu \X DOMAIN tasks
  PROVE  Period(k) \in Nat \ {0} /\ Period(k) >= smallest_period_ms /\ k[1] \in Cpu /\ k[2] \in DOMAIN tasks
<1>1. k[2] \in DOMAIN tasks /\ k[1] \in Cpu
  OBVIOUS
<1>2. tasks[k[2]] \in NewTask /\ tasks[k[2]].period_ms >= smallest_period_ms
  BY <1>1 DEF GInv, Typed, Trimmed
<1> QED BY <1>1, <1>2, BenchmarkAssumption DEF Period, NewTask

LEMMA MaxJobs ==
  ASSUME NEW p \in Nat \ {0}
  PROVE  /\ max_jobs(p) \in 0..exp_duration /\ max_jobs(p) * p \in Nat
         /\ max_jobs(p) * p <= exp_duration /\ exp_duration < max_jobs(p) * p + p
<1>1. exp_duration \in Nat
  BY BoschAssumption
<1> DEFINE q == exp_duration \div p
<1>2. q \in Nat /\ q * p <= exp_duration /\ exp_duration < q * p + p
  BY <1>1, Quotient
<1> HIDE DEF q
<1>3. q * p \in Nat /\ q <= q * p
  BY <1>2, Z3
<1>4. max_jobs(p) = q
  BY DEF max_jobs, q
<1> QED BY <1>1, <1>2, <1>3, <1>4

LEMMA NextReleaseNat ==
  ASSUME NEW t \in Nat, NEW p \in Nat \ {0}, NEW o \in Nat
  PROVE  get_next_release(t, p, o) \in Nat
<1>1. t \div p \in Nat
  BY Quotient
<1>2. ((t \div p) + 1) * p \in Nat
  BY <1>1, Z3
<1> QED BY <1>2 DEF get_next_release

LEMMA FiniteImage ==
  ASSUME NEW S, IsFiniteSet(S), NEW f, DOMAIN f = S, f \in [S -> {f[x] : x \in S}]
  PROVE  IsFiniteSet({f[x] : x \in S})
<1>1. f \in Surjection(S, {f[x] : x \in S})
  BY DEF Surjection
<1> QED BY <1>1, FS_Surjection

\* The labels that a job of task k publishes.
Publishes(k) == UNION {keys(k, kind) : kind \in {"wo_written", "inter_written", "intra_written", "ro_read"}}

LEMMA PublishedLabels ==
  ASSUME BInv, phase \in Late
  PROVE  /\ \A k, l : l \in Publishes(k) <=>
              \E a \in access : a[1] \in Published /\ a[2] \in tasks[k].runnables /\ a[3] = l
         /\ \A k : Publishes(k) \subseteq label_sizes
<1>1. ASSUME NEW k, NEW l
      PROVE  l \in Publishes(k) <=> \E a \in access : a[1] \in Published /\ a[2] \in tasks[k].runnables /\ a[3] = l
  BY DEF Publishes, keys, Published
<1>2. label_sizes = {a[3] : a \in access}
  BY DEF BInv, LabelsPaired, Late
<1> QED BY <1>1, <1>2

LEMMA LabelsFinite ==
  ASSUME PInv
  PROVE  IsFiniteSet(label_sizes) /\ Cardinality(label_sizes) \in Nat
<1>1. label_sizes \in SUBSET LabelIds /\ IsFiniteSet(LabelIds)
  BY BenchmarkAssumption DEF PInv, Known
<1> QED BY <1>1, FS_Subset, FS_CardinalityType

\* The number of the newest times is bounded.
LEMMA NewestFew ==
  ASSUME NEW T \in SUBSET Nat, IsFiniteSet(T)
  PROVE  newest(T) \in SUBSET T /\ IsFiniteSet(newest(T)) /\ Cardinality(newest(T)) <= keep_n_values
<1> DEFINE N == newest(T)
           Later(t) == {u \in T : u > t}
<1>0. keep_n_values \in Nat \ {0}
  BY BoschAssumption
<1>1. N \in SUBSET T /\ \A t \in N : Cardinality(Later(t)) < keep_n_values
  BY DEF newest
<1>2. IsFiniteSet(N)
  BY <1>1, FS_Subset
<1>3. CASE N = {}
  BY <1>0, <1>1, <1>2, <1>3, FS_EmptySet
<1>4. CASE N # {}
  <2>0. N \in SUBSET Nat
    BY <1>1
  <2> HIDE DEF N
  <2>1. PICK t \in N : \A u \in N : t <= u
    BY <1>4, <2>0, LeastNatural
  <2>2. N \ {t} \in SUBSET Later(t)
    <3> SUFFICES ASSUME NEW u \in N, u # t PROVE u \in T /\ u > t
      OBVIOUS
    <3>1. u \in Nat /\ t \in Nat /\ t <= u /\ u \in T
      BY <1>1, <2>0, <2>1
    <3> QED BY <3>1
  <2>3. Later(t) \in SUBSET T
    OBVIOUS
  <2> HIDE DEF Later
  <2>4. IsFiniteSet(Later(t)) /\ Cardinality(Later(t)) \in Nat
    BY <2>3, FS_Subset, FS_CardinalityType
  <2>5. Cardinality(N \ {t}) <= Cardinality(Later(t))
    BY <2>2, <2>4, FS_Subset
  <2>6. Cardinality(N \ {t}) = Cardinality(N) - 1 /\ Cardinality(N) \in Nat
    BY <1>2, <2>1, FS_RemoveElement, FS_CardinalityType
  <2>7. Cardinality(Later(t)) < keep_n_values
    BY <1>1, <2>1
  <2>8. Cardinality(N) <= keep_n_values
    BY <1>0, <2>4, <2>5, <2>6, <2>7
  <2> QED BY <1>1, <1>2, <2>8 DEF N
<1> QED BY <1>3, <1>4

LEMMA InitXInv == Init => XInv
<1> SUFFICES ASSUME Init PROVE XInv
  OBVIOUS
<1>1. phase = "runnables"
  BY DEF Init, BenchmarkInit
<1> QED BY <1>1 DEF Init, XInv, Config, Deployed, Presets

\* Until main has deployed the tasks nothing of the experiment moves.
LEMMA PrepareFacts ==
  ASSUME Prepare
  PROVE  phase \notin Late /\ phase' \notin Deployed /\ UNCHANGED xvars
<1>1. phase \notin Late /\ phase' \notin Deployed
  BY DEF Prepare, BenchmarkStep, GenerateRunnable, RunnablesDone, GenerateTask, GenerateLabels,
         MapLabel, Spin, MapInterTaskMsg, DeleteLabel, AtLabel, AtInterTaskMsg, ExportImport,
         ResolveLabelDependencies, TrimBenchmark, Late, Deployed
<1> QED BY <1>1 DEF Prepare

LEMMA KeptXInv ==
  ASSUME XInv, UNCHANGED <<tasks, label_sizes, xvars>>, phase' \in Deployed <=> phase \in Deployed
  PROVE  XInv'
<1>0. Cpu' = Cpu /\ \A k : Period(k)' = Period(k)
  BY DEF Cpu, Period, xvars
<1>1. Config'
  BY DEF XInv, Config, xvars
<1>2. ASSUME TaskTypes PROVE TaskTypes'
  BY <1>0, <1>2 DEF TaskTypes, xvars, max_jobs, TaskState
<1>3. ASSUME KvsTypes PROVE KvsTypes'
  BY <1>0, <1>3 DEF KvsTypes, xvars, max_jobs, KvsState
<1>4. ASSUME StoreTypes PROVE StoreTypes'
  BY <1>0, <1>4 DEF StoreTypes, xvars
<1> QED BY <1>1, <1>2, <1>3, <1>4 DEF XInv

LEMMA DeployX == ASSUME BInv, PInv, GInv, XInv, Deploy PROVE XInv'
<1>0. /\ phase = "trimmed" /\ phase' = "running" /\ phase \in Late /\ Config
      /\ UNCHANGED <<tasks, label_sizes, cpus_used, wcet, now, failed_writes>>
  BY DEF Deploy, XInv, Late
<1>1. Cpu' = Cpu /\ \A k : Period(k)' = Period(k)
  BY <1>0 DEF Cpu, Period
<1>2. now = 0 /\ smallest_period_ms \in Nat \ {0}
  BY <1>0, BenchmarkAssumption DEF Config, Deployed
<1>3. Config'
  BY <1>0, <1>2 DEF Config, Deployed
<1>4. TaskTypes'
  <2>1. ASSUME NEW k \in Cpu \X DOMAIN tasks
        PROVE  next_release(k) \in Nat /\ max_jobs(Period(k)) \in Nat
    <3>1. Period(k) \in Nat \ {0} /\ k[1] \in Cpu
      BY <1>0, PeriodFacts
    <3>2. task_offset(k[1], Period(k)) \in Nat
      BY <1>0, <3>1, OffsetFacts
    <3>3. now \in Nat
      BY <1>2
    <3>4. next_release(k) \in Nat
      BY <3>1, <3>2, <3>3, NextReleaseNat DEF next_release
    <3> QED BY <3>1, <3>4, MaxJobs
  <2>2. task' = [k \in Cpu \X DOMAIN tasks |->
                   [pc |-> "waiting", num_jobs |-> 0, publish_time |-> 0, release |-> next_release(k)]]
    BY DEF Deploy
  <2>3. task' \in [Cpu \X DOMAIN tasks -> TaskState]
    BY <2>1, <2>2 DEF TaskState
  <2>4. \A k \in Cpu \X DOMAIN tasks : task'[k].num_jobs = 0 /\ task'[k].pc = "waiting"
    BY <2>2
  <2> QED BY <1>0, <1>1, <2>1, <2>3, <2>4 DEF TaskTypes, max_jobs
<1>5. KvsTypes'
  <2>1. ASSUME NEW c \in Cpu PROVE next_kvs_release(c) \in Nat
    BY <1>0, <1>2, OffsetFacts, NextReleaseNat DEF next_kvs_release
  <2>2. kvs' = [c \in Cpu |-> [pc |-> "waiting", num_jobs |-> 0, root |-> {}, release |-> next_kvs_release(c)]]
    BY DEF Deploy
  <2>3. kvs' \in [Cpu -> KvsState]
    BY <2>1, <2>2 DEF KvsState
  <2>4. \A c \in Cpu : kvs'[c].num_jobs = 0 /\ kvs'[c].pc = "waiting" /\ kvs'[c].root = {}
    BY <2>2
  <2>5. max_jobs(smallest_period_ms) \in Nat
    BY <1>2, MaxJobs
  <2> QED BY <1>0, <1>1, <2>3, <2>4, <2>5, FS_EmptySet DEF KvsTypes, KvsState, max_jobs
<1>6. StoreTypes'
  <2>1. unpublished' = [c \in Cpu |-> {}] /\ store' = [c \in Cpu |-> [l \in label_sizes |-> {}]]
    BY DEF Deploy
  <2>2. IsFiniteSet({}) /\ Cardinality({}) <= keep_n_values
    BY FS_EmptySet, BoschAssumption
  <2> QED BY <1>0, <1>1, <2>1, <2>2 DEF StoreTypes
<1> QED BY <1>3, <1>4, <1>5, <1>6 DEF XInv

\* A job of a task begins.
LEMMA StartJobFacts ==
  ASSUME XInv, NEW k \in DOMAIN task, StartJob(k)
  PROVE  /\ phase = "running" /\ TaskTypes /\ KvsTypes /\ StoreTypes /\ Config /\ k \in Cpu \X DOMAIN tasks
         /\ task[k].pc = "waiting" /\ Active(k)
         /\ UNCHANGED <<bvars, cpus_used, wcet, now, kvs, unpublished, store, failed_writes>>
         /\ DOMAIN task' = DOMAIN task /\ task' \in [DOMAIN task -> {task'[j] : j \in DOMAIN task}]
         /\ \A j \in DOMAIN task : j # k => task'[j] = task[j]
         /\ task'[k] = [task[k] EXCEPT !.pc = "running",
                                       !.publish_time = release_time_without_offset(Period(k)) + Period(k)]
<1>1. phase = "running" /\ TaskTypes /\ KvsTypes /\ StoreTypes /\ Config
  BY DEF StartJob, XInv, Deployed
<1>2. task \in [Cpu \X DOMAIN tasks -> TaskState]
  BY <1>1 DEF TaskTypes
<1>3. task' = [task EXCEPT ![k].pc = "running",
                           ![k].publish_time = release_time_without_offset(Period(k)) + Period(k)]
  BY DEF StartJob
<1>4. /\ DOMAIN task' = DOMAIN task /\ task' \in [DOMAIN task -> {task'[j] : j \in DOMAIN task}]
      /\ \A j \in DOMAIN task : j # k => task'[j] = task[j]
      /\ task'[k] = [task[k] EXCEPT !.pc = "running",
                                    !.publish_time = release_time_without_offset(Period(k)) + Period(k)]
  BY <1>2, <1>3, Zenon
<1>5. /\ task[k].pc = "waiting" /\ Active(k)
      /\ UNCHANGED <<bvars, cpus_used, wcet, now, kvs, unpublished, store, failed_writes>>
  BY DEF StartJob
<1> QED BY <1>1, <1>2, <1>4, <1>5

\* The rest of the job: what it published is a part of the labels of the task.
LEMMA EndJobFacts ==
  ASSUME XInv, NEW k \in DOMAIN task, EndJob(k)
  PROVE  /\ phase = "running" /\ TaskTypes /\ KvsTypes /\ StoreTypes /\ Config /\ k \in Cpu \X DOMAIN tasks
         /\ task[k].pc = "running"
         /\ UNCHANGED <<bvars, cpus_used, wcet, now, kvs, store>>
         /\ DOMAIN task' = DOMAIN task /\ task' \in [DOMAIN task -> {task'[j] : j \in DOMAIN task}]
         /\ \A j \in DOMAIN task : j # k => task'[j] = task[j]
         /\ task'[k] = [pc |-> "waiting", num_jobs |-> task[k].num_jobs + 1, publish_time |-> 0, release |-> next_release(k)]
         /\ \E done \in SUBSET Publishes(k[2]) :
              unpublished' = [unpublished EXCEPT ![k[1]] = @ \cup {<<l, task[k].publish_time>> : l \in done}]
         /\ failed_writes' = failed_writes + (Cardinality(Publishes(k[2])) -
              (IF task[k].publish_time <= now THEN 0
               ELSE Min({NT - Cardinality(unpublished[k[1]]), Cardinality(Publishes(k[2]))})))
<1>1. phase = "running" /\ TaskTypes /\ KvsTypes /\ StoreTypes /\ Config
  BY DEF EndJob, XInv, Deployed
<1>2. task \in [Cpu \X DOMAIN tasks -> TaskState]
  BY <1>1 DEF TaskTypes
<1>3. task' = [task EXCEPT ![k] = [pc |-> "waiting", num_jobs |-> task[k].num_jobs + 1,
                                   publish_time |-> 0, release |-> next_release(k)]]
  BY DEF EndJob
<1>4. /\ DOMAIN task' = DOMAIN task /\ task' \in [DOMAIN task -> {task'[j] : j \in DOMAIN task}]
      /\ \A j \in DOMAIN task : j # k => task'[j] = task[j]
      /\ task'[k] = [pc |-> "waiting", num_jobs |-> task[k].num_jobs + 1, publish_time |-> 0, release |-> next_release(k)]
  BY <1>2, <1>3, Zenon
<1>5. task[k].pc = "running" /\ UNCHANGED <<bvars, cpus_used, wcet, now, kvs, store>>
  BY DEF EndJob
<1>6. \E done \in SUBSET Publishes(k[2]) :
        unpublished' = [unpublished EXCEPT ![k[1]] = @ \cup {<<l, task[k].publish_time>> : l \in done}]
  BY Zenon DEF EndJob, Publishes, kSubset
<1>7. failed_writes' = failed_writes + (Cardinality(Publishes(k[2])) -
        (IF task[k].publish_time <= now THEN 0
         ELSE Min({NT - Cardinality(unpublished[k[1]]), Cardinality(Publishes(k[2]))})))
  BY Zenon DEF EndJob, Publishes
<1> QED BY <1>1, <1>2, <1>4, <1>5, <1>6, <1>7

LEMMA BeginKvsFacts ==
  ASSUME XInv, NEW c \in DOMAIN kvs, BeginKvsJob(c)
  PROVE  /\ phase = "running" /\ TaskTypes /\ KvsTypes /\ StoreTypes /\ Config /\ c \in Cpu
         /\ kvs[c].pc = "waiting" /\ kvs[c].num_jobs < max_jobs(smallest_period_ms) /\ kvs[c].release <= now /\ Idle(c)
         /\ UNCHANGED <<bvars, cpus_used, wcet, now, task, store, failed_writes>>
         /\ DOMAIN kvs' = DOMAIN kvs /\ kvs' \in [DOMAIN kvs -> {kvs'[d] : d \in DOMAIN kvs}]
         /\ \A d \in DOMAIN kvs : d # c => kvs'[d] = kvs[d]
         /\ kvs'[c] = [kvs[c] EXCEPT !.pc = "running", !.root = unpublished[c]]
         /\ unpublished' = [unpublished EXCEPT ![c] = {}]
<1>1. phase = "running" /\ TaskTypes /\ KvsTypes /\ StoreTypes /\ Config
  BY DEF BeginKvsJob, XInv, Deployed
<1>2. kvs \in [Cpu -> KvsState]
  BY <1>1 DEF KvsTypes
<1>3. kvs' = [kvs EXCEPT ![c].pc = "running", ![c].root = unpublished[c]]
  BY DEF BeginKvsJob
<1>4. /\ DOMAIN kvs' = DOMAIN kvs /\ kvs' \in [DOMAIN kvs -> {kvs'[d] : d \in DOMAIN kvs}]
      /\ \A d \in DOMAIN kvs : d # c => kvs'[d] = kvs[d]
      /\ kvs'[c] = [kvs[c] EXCEPT !.pc = "running", !.root = unpublished[c]]
  BY <1>2, <1>3, Zenon
<1>5. /\ kvs[c].pc = "waiting" /\ kvs[c].num_jobs < max_jobs(smallest_period_ms) /\ kvs[c].release <= now /\ Idle(c)
      /\ UNCHANGED <<bvars, cpus_used, wcet, now, task, store, failed_writes>>
      /\ unpublished' = [unpublished EXCEPT ![c] = {}]
  BY DEF BeginKvsJob
<1> QED BY <1>1, <1>2, <1>4, <1>5

LEMMA EndKvsFacts ==
  ASSUME XInv, NEW c \in DOMAIN kvs, EndKvsJob(c)
  PROVE  /\ phase = "running" /\ TaskTypes /\ KvsTypes /\ StoreTypes /\ Config /\ c \in Cpu
         /\ kvs[c].pc = "running" /\ Idle(c)
         /\ UNCHANGED <<bvars, cpus_used, wcet, now, task, unpublished, failed_writes>>
         /\ DOMAIN kvs' = DOMAIN kvs /\ kvs' \in [DOMAIN kvs -> {kvs'[d] : d \in DOMAIN kvs}]
         /\ \A d \in DOMAIN kvs : d # c => kvs'[d] = kvs[d]
         /\ kvs'[c] = [pc |-> "waiting", num_jobs |-> kvs[c].num_jobs + 1, root |-> {}, release |-> next_kvs_release(c)]
         /\ store' = [store EXCEPT ![c] =
              [l \in DOMAIN store[c] |-> newest(store[c][l] \cup {e[2] : e \in {f \in kvs[c].root : f[1] = l}})]]
<1>1. phase = "running" /\ TaskTypes /\ KvsTypes /\ StoreTypes /\ Config
  BY DEF EndKvsJob, XInv, Deployed
<1>2. kvs \in [Cpu -> KvsState]
  BY <1>1 DEF KvsTypes
<1>3. kvs' = [kvs EXCEPT ![c] = [pc |-> "waiting", num_jobs |-> kvs[c].num_jobs + 1, root |-> {},
                                 release |-> next_kvs_release(c)]]
  BY DEF EndKvsJob
<1>4. /\ DOMAIN kvs' = DOMAIN kvs /\ kvs' \in [DOMAIN kvs -> {kvs'[d] : d \in DOMAIN kvs}]
      /\ \A d \in DOMAIN kvs : d # c => kvs'[d] = kvs[d]
      /\ kvs'[c] = [pc |-> "waiting", num_jobs |-> kvs[c].num_jobs + 1, root |-> {}, release |-> next_kvs_release(c)]
  BY <1>2, <1>3, Zenon
<1>5. /\ kvs[c].pc = "running" /\ Idle(c)
      /\ UNCHANGED <<bvars, cpus_used, wcet, now, task, unpublished, failed_writes>>
  BY DEF EndKvsJob
<1>6. store' = [store EXCEPT ![c] =
        [l \in DOMAIN store[c] |-> newest(store[c][l] \cup {e[2] : e \in {f \in kvs[c].root : f[1] = l}})]]
  BY DEF EndKvsJob
<1> QED BY <1>1, <1>2, <1>4, <1>5, <1>6

\* The deadlines and releases are times.
LEMMA TimesNat ==
  ASSUME GInv, XInv, phase = "running"
  PROVE  Deadlines \cup Releases \in SUBSET Nat
<1>1. TaskTypes /\ KvsTypes /\ Config /\ phase \in Late
  BY DEF XInv, Deployed, Late
<1>2. DOMAIN task = Cpu \X DOMAIN tasks /\ \A k \in DOMAIN task : task[k].release \in Nat
  BY <1>1 DEF TaskTypes, TaskState
<1>3. \A c \in Cpu : kvs[c].release \in Nat
  BY <1>1 DEF KvsTypes, KvsState
<1>4. ASSUME NEW k \in DOMAIN task PROVE Slot(k) \in Nat
  <2>1. k[1] \in Cpu
    BY <1>2
  <2>2. SlotOf(Period(k)) \in Nat
    BY <1>1, <2>1, OffsetFacts
  <2> QED BY <2>2 DEF Slot, SlotOf
<1>5. ASSUME NEW c \in Cpu PROVE max_rounds * one_round(c) \in Nat
  <2>1. max_rounds \in Nat \ {0} /\ WordSize \in Nat \ {0} /\ smallest_period_ms \in Nat
    BY BoschAssumption, BenchmarkAssumption
  <2>2. kvs_offset(c) \in Nat
    BY <1>1, OffsetFacts
  <2>3. (smallest_period_ms - kvs_offset(c)) % WordSize \in Nat
    BY <2>1, <2>2
  <2>4. ((smallest_period_ms - kvs_offset(c)) % WordSize) \div 2 \in Nat
    BY <2>3, Quotient
  <2>5. one_round(c) \in Nat
    BY <2>1, <2>4, Quotient DEF one_round
  <2> QED BY <2>1, <2>5
<1>6. Releases \in SUBSET Nat
  BY <1>2 DEF Releases
<1>7. Deadlines \in SUBSET Nat
  BY <1>2, <1>3, <1>4, <1>5 DEF Deadlines
<1> QED BY <1>6, <1>7

LEMMA TickFacts ==
  ASSUME GInv, XInv, Tick
  PROVE  /\ phase = "running" /\ TaskTypes /\ KvsTypes /\ StoreTypes /\ Config
         /\ UNCHANGED <<bvars, cpus_used, wcet, task, kvs, unpublished, store, failed_writes>>
         /\ now' \in Nat /\ now < now' /\ (\A t \in Deadlines : now < t /\ now' <= t)
         /\ \A t \in Releases : now < t => now' <= t
<1>1. phase = "running" /\ TaskTypes /\ KvsTypes /\ StoreTypes /\ Config
  BY DEF Tick, XInv, Deployed
<1>2. Deadlines \cup Releases \in SUBSET Nat
  BY <1>1, TimesNat
<1> DEFINE T == {t \in Deadlines \cup Releases : now < t}
<1>3. T \in SUBSET Nat /\ T # {} /\ now' = Min(T) /\ \A t \in Deadlines : now < t
  BY <1>2 DEF Tick
<1>4. \A t \in Deadlines : t \in T
  BY <1>3
<1>5. \A t \in Releases : now < t => t \in T
  OBVIOUS
<1>6. \A t \in T : now < t
  OBVIOUS
<1> HIDE DEF T
<1>7. now' \in T /\ \A t \in T : now' <= t
  BY <1>3, MinIsLeast
<1> QED BY <1>1, <1>3, <1>4, <1>5, <1>6, <1>7 DEF Tick

LEMMA StartJobX ==
  ASSUME GInv, XInv, NEW k \in DOMAIN task, StartJob(k)
  PROVE  XInv'
<1>1. /\ phase = "running" /\ TaskTypes /\ KvsTypes /\ StoreTypes /\ Config /\ k \in Cpu \X DOMAIN tasks
      /\ task[k].pc = "waiting" /\ Active(k)
      /\ UNCHANGED <<bvars, cpus_used, wcet, now, kvs, unpublished, store>>
      /\ DOMAIN task' = DOMAIN task /\ task' \in [DOMAIN task -> {task'[j] : j \in DOMAIN task}]
      /\ \A j \in DOMAIN task : j # k => task'[j] = task[j]
      /\ task'[k] = [task[k] EXCEPT !.pc = "running",
                                    !.publish_time = release_time_without_offset(Period(k)) + Period(k)]
  BY StartJobFacts
<1>2. UNCHANGED <<phase, tasks, label_sizes>> /\ Cpu' = Cpu /\ \A j : Period(j)' = Period(j)
  BY <1>1 DEF bvars, Cpu, Period
<1>3. Period(k) \in Nat \ {0}
  BY <1>1, PeriodFacts DEF Late
<1>4. release_time_without_offset(Period(k)) + Period(k) \in Nat
  <2>1. now \div Period(k) \in Nat
    BY <1>1, <1>3, Quotient DEF Config
  <2>2. (now \div Period(k)) * Period(k) \in Nat
    BY <1>3, <2>1, Z3
  <2> QED BY <1>3, <2>2 DEF release_time_without_offset
<1>5. task[k] \in TaskState /\ DOMAIN task = Cpu \X DOMAIN tasks
  BY <1>1 DEF TaskTypes
<1>6. task'[k] \in TaskState /\ task'[k].num_jobs = task[k].num_jobs
  BY <1>1, <1>4, <1>5 DEF TaskState
<1>7. task[k].num_jobs < max_jobs(Period(k))
  BY <1>1 DEF Active
<1>8. task' \in [Cpu \X DOMAIN tasks -> TaskState]
  <2>1. \A j \in DOMAIN task : task'[j] \in TaskState
    BY <1>1, <1>6 DEF TaskTypes
  <2> QED BY <1>1, <1>5, <2>1
<1>9. TaskTypes'
  BY <1>1, <1>2, <1>5, <1>6, <1>7, <1>8 DEF TaskTypes, max_jobs, TaskState
<1>10. KvsTypes' /\ StoreTypes' /\ Config'
  BY <1>1, <1>2 DEF KvsTypes, KvsState, StoreTypes, Config, max_jobs
<1> QED BY <1>9, <1>10 DEF XInv

LEMMA EndJobX ==
  ASSUME BInv, PInv, GInv, XInv, NEW k \in DOMAIN task, EndJob(k)
  PROVE  XInv'
<1>1. /\ phase = "running" /\ TaskTypes /\ KvsTypes /\ StoreTypes /\ Config /\ k \in Cpu \X DOMAIN tasks
      /\ task[k].pc = "running"
      /\ UNCHANGED <<bvars, cpus_used, wcet, now, kvs, store>>
      /\ DOMAIN task' = DOMAIN task /\ task' \in [DOMAIN task -> {task'[j] : j \in DOMAIN task}]
      /\ \A j \in DOMAIN task : j # k => task'[j] = task[j]
      /\ task'[k] = [pc |-> "waiting", num_jobs |-> task[k].num_jobs + 1, publish_time |-> 0, release |-> next_release(k)]
  BY EndJobFacts
<1>2. UNCHANGED <<phase, tasks, label_sizes>> /\ Cpu' = Cpu /\ (\A j : Period(j)' = Period(j)) /\ phase \in Late
  BY <1>1 DEF bvars, Cpu, Period, Late
<1>3. Period(k) \in Nat \ {0} /\ k[1] \in Cpu /\ now \in Nat
  BY <1>1, <1>2, PeriodFacts DEF Config
<1>4. next_release(k) \in Nat
  <2>1. task_offset(k[1], Period(k)) \in Nat
    BY <1>1, <1>3, OffsetFacts
  <2> QED BY <1>3, <2>1, NextReleaseNat DEF next_release
<1>5. task[k] \in TaskState /\ DOMAIN task = Cpu \X DOMAIN tasks /\ max_jobs(Period(k)) \in Nat
  BY <1>1, <1>3, MaxJobs DEF TaskTypes
<1>6. /\ task'[k] \in TaskState /\ task'[k].num_jobs = task[k].num_jobs + 1 /\ task'[k].pc = "waiting"
      /\ task[k].num_jobs \in Nat
  BY <1>1, <1>4, <1>5 DEF TaskState
<1>7. task[k].num_jobs + 1 <= max_jobs(Period(k))
  BY <1>1, <1>5, <1>6 DEF TaskTypes
<1>8. task' \in [Cpu \X DOMAIN tasks -> TaskState]
  <2>1. \A j \in DOMAIN task : task'[j] \in TaskState
    BY <1>1, <1>6 DEF TaskTypes
  <2> QED BY <1>1, <1>5, <2>1
<1>9. TaskTypes'
  BY <1>1, <1>2, <1>5, <1>6, <1>7, <1>8 DEF TaskTypes, max_jobs, TaskState
<1>10. KvsTypes' /\ Config'
  BY <1>1, <1>2 DEF KvsTypes, KvsState, Config, max_jobs
<1>11. StoreTypes'
  <2>1. PICK done \in SUBSET Publishes(k[2]) :
          unpublished' = [unpublished EXCEPT ![k[1]] = @ \cup {<<l, task[k].publish_time>> : l \in done}]
    BY EndJobFacts
  <2> DEFINE new == {<<l, task[k].publish_time>> : l \in done}
  <2>2. done \in SUBSET label_sizes /\ IsFiniteSet(label_sizes)
    BY <1>2, <2>1, PublishedLabels, LabelsFinite
  <2>3. IsFiniteSet(done)
    BY <2>2, FS_Subset
  <2>4. IsFiniteSet(new)
    <3>1. PICK f : f = [l \in done |-> <<l, task[k].publish_time>>]
      OBVIOUS
    <3>2. DOMAIN f = done /\ f \in [done -> {f[l] : l \in done}] /\ {f[l] : l \in done} = new
      BY <3>1
    <3> QED BY <2>3, <3>2, FiniteImage
  <2>5. new \in SUBSET (label_sizes \X Nat)
    BY <1>5, <2>2 DEF TaskState
  <2> HIDE DEF new
  <2>6. unpublished[k[1]] \in SUBSET (label_sizes \X Nat) /\ IsFiniteSet(unpublished[k[1]])
    BY <1>1, <1>3 DEF StoreTypes
  <2>7. IsFiniteSet(unpublished[k[1]] \cup new)
    BY <2>4, <2>6, FS_Union
  <2>8. unpublished' = [unpublished EXCEPT ![k[1]] = unpublished[k[1]] \cup new]
    BY <2>1 DEF new
  <2>9. unpublished' \in [Cpu -> SUBSET (label_sizes \X Nat)] /\ \A c \in Cpu : IsFiniteSet(unpublished'[c])
    BY <1>1, <1>3, <2>5, <2>6, <2>7, <2>8 DEF StoreTypes
  <2> QED BY <1>1, <1>2, <2>9 DEF StoreTypes
<1> QED BY <1>9, <1>10, <1>11 DEF XInv

LEMMA BeginKvsX ==
  ASSUME GInv, XInv, NEW c \in DOMAIN kvs, BeginKvsJob(c)
  PROVE  XInv'
<1>1. /\ phase = "running" /\ TaskTypes /\ KvsTypes /\ StoreTypes /\ Config /\ c \in Cpu
      /\ kvs[c].num_jobs < max_jobs(smallest_period_ms)
      /\ UNCHANGED <<bvars, cpus_used, wcet, now, task, store>>
      /\ DOMAIN kvs' = DOMAIN kvs /\ kvs' \in [DOMAIN kvs -> {kvs'[d] : d \in DOMAIN kvs}]
      /\ \A d \in DOMAIN kvs : d # c => kvs'[d] = kvs[d]
      /\ kvs'[c] = [kvs[c] EXCEPT !.pc = "running", !.root = unpublished[c]]
      /\ unpublished' = [unpublished EXCEPT ![c] = {}]
  BY BeginKvsFacts
<1>2. UNCHANGED <<phase, tasks, label_sizes>> /\ Cpu' = Cpu /\ \A j : Period(j)' = Period(j)
  BY <1>1 DEF bvars, Cpu, Period
<1>3. kvs[c] \in KvsState /\ DOMAIN kvs = Cpu
  BY <1>1 DEF KvsTypes
<1>4. unpublished[c] \in SUBSET (label_sizes \X Nat) /\ IsFiniteSet(unpublished[c])
  BY <1>1 DEF StoreTypes
<1>5. kvs'[c] \in KvsState /\ kvs'[c].num_jobs = kvs[c].num_jobs /\ kvs'[c].root = unpublished[c]
  BY <1>1, <1>3, <1>4 DEF KvsState
<1>6. kvs' \in [Cpu -> KvsState]
  <2>1. \A d \in DOMAIN kvs : kvs'[d] \in KvsState
    BY <1>1, <1>5 DEF KvsTypes
  <2> QED BY <1>1, <1>3, <2>1
<1>7. KvsTypes'
  BY <1>1, <1>2, <1>3, <1>4, <1>5, <1>6 DEF KvsTypes, KvsState, max_jobs
<1>8. StoreTypes'
  BY <1>1, <1>2, FS_EmptySet DEF StoreTypes
<1>9. TaskTypes' /\ Config'
  BY <1>1, <1>2 DEF TaskTypes, TaskState, Config, max_jobs
<1> QED BY <1>7, <1>8, <1>9 DEF XInv

LEMMA EndKvsX ==
  ASSUME GInv, XInv, NEW c \in DOMAIN kvs, EndKvsJob(c)
  PROVE  XInv'
<1> DEFINE added(l) == {e[2] : e \in {f \in kvs[c].root : f[1] = l}}
<1>1. /\ phase = "running" /\ TaskTypes /\ KvsTypes /\ StoreTypes /\ Config /\ c \in Cpu
      /\ kvs[c].pc = "running"
      /\ UNCHANGED <<bvars, cpus_used, wcet, now, task, unpublished>>
      /\ DOMAIN kvs' = DOMAIN kvs /\ kvs' \in [DOMAIN kvs -> {kvs'[d] : d \in DOMAIN kvs}]
      /\ \A d \in DOMAIN kvs : d # c => kvs'[d] = kvs[d]
      /\ kvs'[c] = [pc |-> "waiting", num_jobs |-> kvs[c].num_jobs + 1, root |-> {}, release |-> next_kvs_release(c)]
      /\ store' = [store EXCEPT ![c] = [l \in DOMAIN store[c] |-> newest(store[c][l] \cup added(l))]]
  BY EndKvsFacts
<1>2. UNCHANGED <<phase, tasks, label_sizes>> /\ Cpu' = Cpu /\ \A j : Period(j)' = Period(j)
  BY <1>1 DEF bvars, Cpu, Period
<1>3. kvs[c] \in KvsState /\ DOMAIN kvs = Cpu
  BY <1>1 DEF KvsTypes
<1>4. smallest_period_ms \in Nat \ {0} /\ max_jobs(smallest_period_ms) \in Nat /\ now \in Nat
  BY <1>1, BenchmarkAssumption, MaxJobs DEF Config
<1>5. next_kvs_release(c) \in Nat
  <2>1. kvs_offset(c) \in Nat
    BY <1>1, OffsetFacts
  <2> QED BY <1>4, <2>1, NextReleaseNat DEF next_kvs_release
<1>6. /\ kvs'[c] \in KvsState /\ kvs'[c].num_jobs = kvs[c].num_jobs + 1 /\ kvs'[c].root = {} /\ kvs'[c].pc = "waiting"
      /\ kvs[c].num_jobs \in Nat
  BY <1>1, <1>3, <1>5 DEF KvsState
<1>7. kvs[c].num_jobs + 1 <= max_jobs(smallest_period_ms)
  BY <1>1, <1>4, <1>6 DEF KvsTypes
<1>8. kvs' \in [Cpu -> KvsState]
  <2>1. \A d \in DOMAIN kvs : kvs'[d] \in KvsState
    BY <1>1, <1>6 DEF KvsTypes
  <2> QED BY <1>1, <1>3, <2>1
<1>9. KvsTypes'
  BY <1>1, <1>2, <1>3, <1>6, <1>7, <1>8, FS_EmptySet DEF KvsTypes, KvsState, max_jobs
<1>10. StoreTypes'
  <2>1. ASSUME NEW l \in label_sizes
        PROVE  LET n == newest(store[c][l] \cup added(l))
               IN  n \in SUBSET Nat /\ IsFiniteSet(n) /\ Cardinality(n) <= keep_n_values
    <3>1. IsFiniteSet({f \in kvs[c].root : f[1] = l})
      BY <1>1, FS_Subset DEF KvsTypes
    <3>2. IsFiniteSet(added(l))
      <4> DEFINE S == {f \in kvs[c].root : f[1] = l}
      <4>1. PICK g : g = [e \in S |-> e[2]]
        OBVIOUS
      <4>2. DOMAIN g = S /\ g \in [S -> {g[e] : e \in S}] /\ {g[e] : e \in S} = added(l)
        BY <4>1
      <4> HIDE DEF S
      <4>3. IsFiniteSet({g[e] : e \in S})
        BY <3>1, <4>2, FiniteImage DEF S
      <4> QED BY <4>2, <4>3
    <3>3. added(l) \in SUBSET Nat
      BY <1>3 DEF KvsState
    <3> HIDE DEF added
    <3>4. store[c][l] \in SUBSET Nat /\ IsFiniteSet(store[c][l])
      BY <1>1 DEF StoreTypes
    <3>5. store[c][l] \cup added(l) \in SUBSET Nat /\ IsFiniteSet(store[c][l] \cup added(l))
      BY <3>2, <3>3, <3>4, FS_Union
    <3> QED BY <3>5, NewestFew
  <2> DEFINE new == [l \in label_sizes |-> newest(store[c][l] \cup added(l))]
  <2>2. new \in [label_sizes -> SUBSET Nat]
    BY <2>1
  <2>3. \A l \in label_sizes : IsFiniteSet(new[l]) /\ Cardinality(new[l]) <= keep_n_values
    BY <2>1
  <2>4. DOMAIN store[c] = label_sizes
    BY <1>1 DEF StoreTypes
  <2>5. store' = [store EXCEPT ![c] = new]
    BY <1>1, <2>4
  <2> HIDE DEF new
  <2>6. store' \in [Cpu -> [label_sizes -> SUBSET Nat]]
    BY <1>1, <2>2, <2>5 DEF StoreTypes
  <2>7. \A d \in Cpu : store'[d] = IF d = c THEN new ELSE store[d]
    BY <1>1, <2>5 DEF StoreTypes
  <2> QED BY <1>1, <1>2, <2>3, <2>6, <2>7 DEF StoreTypes
<1>11. TaskTypes' /\ Config'
  BY <1>1, <1>2 DEF TaskTypes, TaskState, Config, max_jobs
<1> QED BY <1>9, <1>10, <1>11 DEF XInv

LEMMA TickX == ASSUME GInv, XInv, Tick PROVE XInv'
<1>1. /\ phase = "running" /\ TaskTypes /\ KvsTypes /\ StoreTypes /\ Config
      /\ UNCHANGED <<bvars, cpus_used, wcet, task, kvs, unpublished, store>>
      /\ now' \in Nat
  BY TickFacts
<1>2. UNCHANGED <<phase, tasks, label_sizes>> /\ Cpu' = Cpu /\ \A j : Period(j)' = Period(j)
  BY <1>1 DEF bvars, Cpu, Period
<1>3. TaskTypes'
  BY <1>1, <1>2 DEF TaskTypes, TaskState, max_jobs
<1>4. KvsTypes' /\ StoreTypes'
  BY <1>1, <1>2 DEF KvsTypes, KvsState, StoreTypes, max_jobs
<1>5. Config'
  BY <1>1, <1>2 DEF Config, Deployed
<1> QED BY <1>3, <1>4, <1>5 DEF XInv

\* The parts of a step that leave the experiment alone.
LEMMA QuietFacts ==
  ASSUME [Next]_vars,
         ~ Deploy, \A k \in DOMAIN task : ~ StartJob(k) /\ ~ EndJob(k),
         \A c \in DOMAIN kvs : ~ BeginKvsJob(c) /\ ~ EndKvsJob(c), ~ Tick
  PROVE  /\ UNCHANGED xvars /\ (phase' \in Deployed <=> phase \in Deployed)
         /\ phase \in Deployed => UNCHANGED <<tasks, label_sizes, access>>
<1>1. CASE Prepare
  BY <1>1, PrepareFacts DEF Late, Deployed
<1>2. CASE Abort \/ Finish
  BY <1>2 DEF Abort, Finish, Deployed
<1>3. CASE Halt \/ UNCHANGED vars
  BY <1>3 DEF Halt, vars, bvars
<1> QED BY <1>1, <1>2, <1>3 DEF Next

LEMMA StepXInv == ASSUME BInv, PInv, GInv, XInv, [Next]_vars PROVE XInv'
<1>1. CASE /\ ~ Deploy /\ ~ Tick
           /\ \A k \in DOMAIN task : ~ StartJob(k) /\ ~ EndJob(k)
           /\ \A c \in DOMAIN kvs : ~ BeginKvsJob(c) /\ ~ EndKvsJob(c)
  <2>1. /\ UNCHANGED xvars /\ (phase' \in Deployed <=> phase \in Deployed)
        /\ phase \in Deployed => UNCHANGED <<tasks, label_sizes>>
    BY <1>1, QuietFacts
  <2>2. CASE phase \in Deployed
    BY <2>1, <2>2, KeptXInv
  <2>3. CASE phase \notin Deployed
    BY <2>1, <2>3 DEF XInv, Config, xvars
  <2> QED BY <2>2, <2>3
<1> QED BY <1>1, DeployX, StartJobX, EndJobX, BeginKvsX, EndKvsX, TickX

LEMMA XInvTypes == ASSUME BInv, PInv, GInv, XInv PROVE TypeOK
<1>1. phase \in {"runnables", "tasks", "labels", "spins", "imported", "resolved", "trimmed", "running", "aborted", "done"}
  BY DEF BInv, Phase, Generating, Late
<1>2. /\ runnables \in [DOMAIN runnables -> [period_ms : Nat, wcet : Nat]]
      /\ DOMAIN runnables \subseteq 1..max /\ idx \in Nat /\ counter \in 0..max
      /\ tasks \in [DOMAIN tasks -> [period_ms : Nat, wcet : Nat, runnables : SUBSET (1..max)]]
      /\ DOMAIN tasks \subseteq 1..max
      /\ access \subseteq (Reading \cup Writing) \X (1..max) \X LabelIds
  BY DEF GInv, Typed, Counted, RunnableRecord, NewTask
<1>3. label_sizes \subseteq LabelIds
  BY DEF PInv, Known
<1>4. ASSUME phase \in Deployed
      PROVE  /\ task \in [Cpu \X DOMAIN tasks -> [pc : {"waiting", "running"}, num_jobs : 0..exp_duration,
                                                  publish_time : Nat, release : Nat]]
             /\ \A c \in Cpu : /\ kvs[c].num_jobs \in 0..max_jobs(smallest_period_ms)
                               /\ kvs[c].root \cup unpublished[c] \subseteq label_sizes \X Nat
             /\ \A c \in Cpu, l \in label_sizes : Cardinality(store[c][l]) <= keep_n_values
  <2>1. TaskTypes /\ KvsTypes /\ StoreTypes /\ phase \in Late
    BY <1>4 DEF XInv, Deployed, Late
  <2>2. ASSUME NEW k \in Cpu \X DOMAIN tasks
        PROVE  task[k] \in [pc : {"waiting", "running"}, num_jobs : 0..exp_duration, publish_time : Nat, release : Nat]
    <3>1. max_jobs(Period(k)) \in 0..exp_duration /\ exp_duration \in Nat
      BY <2>1, PeriodFacts, MaxJobs, BoschAssumption
    <3>2. task[k] \in TaskState /\ task[k].num_jobs <= max_jobs(Period(k))
      BY <2>1 DEF TaskTypes
    <3>3. task[k].num_jobs \in 0..exp_duration
      BY <3>1, <3>2 DEF TaskState
    <3> QED BY <3>2, <3>3 DEF TaskState
  <2>3. task \in [Cpu \X DOMAIN tasks -> [pc : {"waiting", "running"}, num_jobs : 0..exp_duration,
                                          publish_time : Nat, release : Nat]]
    BY <2>1, <2>2 DEF TaskTypes
  <2>4. ASSUME NEW c \in Cpu
        PROVE  kvs[c].num_jobs \in 0..max_jobs(smallest_period_ms) /\ kvs[c].root \cup unpublished[c] \subseteq label_sizes \X Nat
    <3>1. max_jobs(smallest_period_ms) \in Nat
      BY MaxJobs, BenchmarkAssumption
    <3>2. kvs[c] \in KvsState /\ kvs[c].num_jobs <= max_jobs(smallest_period_ms)
      BY <2>1 DEF KvsTypes
    <3>3. unpublished[c] \subseteq label_sizes \X Nat
      BY <2>1 DEF StoreTypes
    <3> QED BY <3>1, <3>2, <3>3 DEF KvsState
  <2>5. \A c \in Cpu, l \in label_sizes : Cardinality(store[c][l]) <= keep_n_values
    BY <2>1 DEF StoreTypes
  <2> QED BY <2>3, <2>4, <2>5
<1> QED BY <1>1, <1>2, <1>3, <1>4 DEF TypeOK, Deployed

\* All invariants of the workload and of the types, in the whole experiment.
LEMMA ExperimentInvariant == Spec => [](BInv /\ PInv /\ GInv /\ XInv)
<1>1. Init => GInv /\ XInv
  BY InitGInv, InitXInv DEF Init
<1>2. BInv /\ PInv /\ GInv /\ XInv /\ [Next]_vars => GInv' /\ XInv'
  BY ExperimentGInv, StepXInv
<1> QED BY <1>1, <1>2, WorkloadInvariant, PTL DEF Spec

\* From the first runnable that is drawn to the last job of the experiment all
\* variables have their types: in particular no task and no store runs more
\* often than exp_duration allows, the stores hold known labels only, and
\* eviction bounds every bucket.
THEOREM ExperimentTypes == Spec => []TypeOK
BY ExperimentInvariant, XInvTypes, PTL

-----------------------------------------------------------------------------
(* The schedule.                                                           *)

\* The job after n others is released in the period that starts here.
At(n, p) == (n + 1) * p

\* The point that the last job of a store was released at.
LastRelease(c) ==
  IF kvs[c].pc = "running" THEN At(kvs[c].num_jobs, smallest_period_ms) + kvs_offset(c)
  ELSE (At(kvs[c].num_jobs, smallest_period_ms) - smallest_period_ms) + kvs_offset(c)

\* A task misses no period and its jobs stay in their slots.
TasksOnTime ==
  \A k \in Cpu \X DOMAIN tasks :
    /\ task[k].release = At(task[k].num_jobs, Period(k)) + task_offset(k[1], Period(k))
    /\ Active(k) => now <= task[k].release + Slot(k)
    /\ task[k].pc = "running" =>
         /\ task[k].release <= now
         /\ task[k].publish_time = At(task[k].num_jobs, Period(k)) + Period(k)

\* Nor does a store, and its job ends before the next period.
StoresOnTime ==
  \A c \in Cpu :
    /\ kvs[c].release = At(kvs[c].num_jobs, smallest_period_ms) + kvs_offset(c)
    /\ kvs[c].pc = "waiting" /\ kvs[c].num_jobs < max_jobs(smallest_period_ms) => now <= kvs[c].release
    /\ kvs[c].pc = "running" =>
         kvs[c].release <= now /\ now < At(kvs[c].num_jobs, smallest_period_ms) + smallest_period_ms

\* A store comes after all jobs that were released before it.
StoresLast ==
  \A k \in Cpu \X DOMAIN tasks :
    task[k].num_jobs < max_jobs(Period(k)) => LastRelease(k[1]) < task[k].release

\* What waits for a store has one time per label, and a task that has published
\* does not do it again before the store has taken it.
OncePerJob ==
  /\ \A c \in Cpu : \A e, f \in unpublished[c] : e[1] = f[1] => e = f
  /\ \A k \in Cpu \X DOMAIN tasks : \A e \in unpublished[k[1]] :
       e[1] \in Publishes(k[2]) =>
         /\ task[k].pc = "waiting"
         /\ task[k].num_jobs < max_jobs(Period(k)) => LastRelease(k[1]) + smallest_period_ms < task[k].release

\* The inductive invariant.
ScheduleInv ==
  /\ WritesFit
  /\ phase \in Deployed => TasksOnTime /\ StoresOnTime /\ StoresLast /\ OncePerJob

LEMMA AtFacts ==
  ASSUME NEW n \in Nat, NEW p \in Nat \ {0}
  PROVE  /\ At(n, p) \in Nat /\ At(n, p) >= p /\ At(n + 1, p) = At(n, p) + p
         /\ n < max_jobs(p) => At(n, p) <= exp_duration
         /\ n = max_jobs(p) => exp_duration < At(n, p)
<1>1. n * p \in Nat /\ (n + 1) * p = n * p + p /\ (n + 1 + 1) * p = n * p + p + p
  BY Z3
<1>2. At(n, p) = n * p + p /\ At(n + 1, p) = n * p + p + p
  BY <1>1 DEF At
<1>3. /\ max_jobs(p) \in 0..exp_duration /\ max_jobs(p) * p \in Nat /\ exp_duration \in Nat
      /\ max_jobs(p) * p <= exp_duration /\ exp_duration < max_jobs(p) * p + p
  BY MaxJobs, BoschAssumption
<1>4. ASSUME n < max_jobs(p) PROVE n * p + p <= max_jobs(p) * p
  BY <1>3, <1>4, ProductOrder
<1>5. ASSUME n = max_jobs(p) PROVE exp_duration < n * p + p
  BY <1>3, <1>5
<1> QED BY <1>1, <1>2, <1>3, <1>4, <1>5

\* get_next_release, and the release time of a job, in the period of job n.
LEMMA InPeriod ==
  ASSUME NEW n \in Nat, NEW p \in Nat \ {0}, NEW o, NEW t \in Nat, At(n, p) <= t, t < At(n, p) + p
  PROVE  get_next_release(t, p, o) = At(n + 1, p) + o /\ (t \div p) * p = At(n, p)
<1>1. t \div p = n + 1
  BY QuotientIs DEF At
<1> QED BY <1>1 DEF get_next_release, At

LEMMA FirstPeriod ==
  ASSUME NEW p \in Nat \ {0}, NEW o
  PROVE  get_next_release(0, p, o) = At(0, p) + o
<1>1. 0 \div p = 0
  BY QuotientIs
<1> QED BY <1>1 DEF get_next_release, At

LEMMA StoreOffset ==
  ASSUME OffsetsFit, Config, NEW c \in Cpu
  PROVE  kvs_offset(c) \in Nat /\ kvs_offset(c) < smallest_period_ms /\ smallest_period_ms \in Nat \ {0}
<1>1. kvs_offset(c) \in Nat
  BY OffsetFacts
<1>2. c * (smallest_period_ms \div cpus_used) + bosch_task_wcet_total(wcet) < smallest_period_ms
  BY Zenon DEF OffsetsFit, Config, Cpu, Presets
<1> QED BY <1>1, <1>2, BenchmarkAssumption DEF kvs_offset, nmr_specific_offset

\* The rounds take half of what is left of the period.
LEMMA RoundsFit ==
  ASSUME OffsetsFit, Config, NEW c \in Cpu
  PROVE  max_rounds * one_round(c) \in Nat /\ kvs_offset(c) + max_rounds * one_round(c) < smallest_period_ms
<1>1. kvs_offset(c) \in Nat /\ kvs_offset(c) < smallest_period_ms /\ smallest_period_ms \in Nat \ {0}
  BY StoreOffset
<1>2. max_rounds \in Nat \ {0} /\ WordSize \in Nat \ {0}
  BY BoschAssumption
<1>3. PICK d \in Nat \ {0} : d = smallest_period_ms - kvs_offset(c)
  BY <1>1
<1>4. PICK m \in Nat : m = d % WordSize /\ m <= d
  <2>1. \A a \in Nat, b \in Nat \ {0} : a % b = a - (a \div b) * b /\ a \div b \in Nat /\ (a \div b) * b <= a
    BY Z3
  <2>2. (d \div WordSize) * WordSize \in Nat
    BY <1>2, <2>1, Z3
  <2>3. d % WordSize = d - (d \div WordSize) * WordSize /\ (d \div WordSize) * WordSize <= d
    BY <1>2, <2>1
  <2>4. d % WordSize \in Nat /\ d % WordSize <= d
    BY <2>2, <2>3
  <2> QED BY <2>4
<1>5. PICK h \in Nat : h = m \div 2 /\ h < d
  BY <1>3, <1>4
<1>6. one_round(c) = h \div max_rounds
  BY <1>3, <1>4, <1>5 DEF one_round
<1>7. (h \div max_rounds) * max_rounds \in Nat /\ (h \div max_rounds) * max_rounds <= h /\ h \div max_rounds \in Nat
  BY <1>2, <1>5, LastMultiple
<1>8. max_rounds * one_round(c) = (h \div max_rounds) * max_rounds
  BY <1>2, <1>6, <1>7, Z3
<1> QED BY <1>1, <1>3, <1>5, <1>7, <1>8

\* The numbers of a task and of a store.
LEMMA TaskNumbers ==
  ASSUME OffsetsFit, GInv, phase \in Late, Config, TaskTypes, NEW k \in Cpu \X DOMAIN tasks
  PROVE  /\ Period(k) \in Nat \ {0} /\ Period(k) >= smallest_period_ms /\ k[1] \in Cpu /\ k[2] \in DOMAIN tasks
         /\ task_offset(k[1], Period(k)) \in Nat /\ Slot(k) \in Nat /\ kvs_offset(k[1]) \in Nat
         /\ task_offset(k[1], Period(k)) + Slot(k) <= kvs_offset(k[1])
         /\ kvs_offset(k[1]) < smallest_period_ms /\ smallest_period_ms \in Nat \ {0}
         /\ task[k].num_jobs \in Nat /\ task[k].release \in Nat /\ task[k].pc \in {"waiting", "running"}
         /\ task[k].num_jobs <= max_jobs(Period(k)) /\ max_jobs(Period(k)) \in Nat
         /\ At(task[k].num_jobs, Period(k)) \in Nat /\ now \in Nat
<1>1. Period(k) \in Nat \ {0} /\ Period(k) >= smallest_period_ms /\ k[1] \in Cpu /\ k[2] \in DOMAIN tasks
  BY PeriodFacts
<1>2. /\ task_offset(k[1], Period(k)) \in Nat /\ SlotOf(Period(k)) \in Nat /\ kvs_offset(k[1]) \in Nat
      /\ task_offset(k[1], Period(k)) + SlotOf(Period(k)) <= kvs_offset(k[1])
  BY <1>1, OffsetFacts
<1>3. Slot(k) = SlotOf(Period(k))
  BY DEF Slot, SlotOf
<1>4. /\ task[k].num_jobs \in Nat /\ task[k].release \in Nat /\ task[k].pc \in {"waiting", "running"}
      /\ task[k].num_jobs <= max_jobs(Period(k)) /\ now \in Nat
  BY DEF TaskTypes, TaskState, Config
<1>5. max_jobs(Period(k)) \in Nat
  BY <1>1, MaxJobs
<1>6. At(task[k].num_jobs, Period(k)) \in Nat
  BY <1>1, <1>4, AtFacts
<1>7. kvs_offset(k[1]) < smallest_period_ms /\ smallest_period_ms \in Nat \ {0}
  BY <1>1, StoreOffset
<1> QED BY <1>1, <1>2, <1>3, <1>4, <1>5, <1>6, <1>7

LEMMA StoreNumbers ==
  ASSUME OffsetsFit, Config, KvsTypes, NEW c \in Cpu
  PROVE  /\ kvs_offset(c) \in Nat /\ kvs_offset(c) < smallest_period_ms /\ smallest_period_ms \in Nat \ {0}
         /\ kvs[c].num_jobs \in Nat /\ kvs[c].release \in Nat /\ kvs[c].pc \in {"waiting", "running"}
         /\ kvs[c].num_jobs <= max_jobs(smallest_period_ms) /\ max_jobs(smallest_period_ms) \in Nat
         /\ At(kvs[c].num_jobs, smallest_period_ms) \in Nat
         /\ At(kvs[c].num_jobs, smallest_period_ms) >= smallest_period_ms
         /\ LastRelease(c) \in Nat
<1>1. kvs_offset(c) \in Nat /\ kvs_offset(c) < smallest_period_ms /\ smallest_period_ms \in Nat \ {0}
  BY StoreOffset
<1>2. /\ kvs[c].num_jobs \in Nat /\ kvs[c].release \in Nat /\ kvs[c].pc \in {"waiting", "running"}
      /\ kvs[c].num_jobs <= max_jobs(smallest_period_ms)
  BY DEF KvsTypes, KvsState
<1>3. max_jobs(smallest_period_ms) \in Nat
  BY <1>1, MaxJobs
<1>4. At(kvs[c].num_jobs, smallest_period_ms) \in Nat /\ At(kvs[c].num_jobs, smallest_period_ms) >= smallest_period_ms
  BY <1>1, <1>2, AtFacts
<1> QED BY <1>1, <1>2, <1>3, <1>4 DEF LastRelease

\* A task that is released again finds the store past its next job.
LEMMA NotBeforeTheStore ==
  ASSUME OffsetsFit, GInv, phase \in Late, Config, TaskTypes, KvsTypes, TasksOnTime, StoresOnTime,
         NEW k \in Cpu \X DOMAIN tasks, task[k].num_jobs < max_jobs(Period(k)), task[k].release <= now
  PROVE  task[k].release <= LastRelease(k[1]) + smallest_period_ms
<1> DEFINE c == k[1]
           S == smallest_period_ms
           at == At(kvs[c].num_jobs, S)
<1>1. /\ Period(k) \in Nat \ {0} /\ c \in Cpu /\ task_offset(c, Period(k)) \in Nat /\ Slot(k) \in Nat
      /\ task_offset(c, Period(k)) + Slot(k) <= kvs_offset(c)
      /\ task[k].num_jobs \in Nat /\ task[k].release \in Nat /\ now \in Nat /\ At(task[k].num_jobs, Period(k)) \in Nat
  BY TaskNumbers
<1>2. /\ kvs_offset(c) \in Nat /\ S \in Nat \ {0} /\ kvs[c].num_jobs \in Nat /\ kvs[c].release \in Nat
      /\ kvs[c].pc \in {"waiting", "running"} /\ kvs[c].num_jobs <= max_jobs(S) /\ max_jobs(S) \in Nat /\ at \in Nat
  BY <1>1, StoreNumbers
<1>3. kvs[c].release = at + kvs_offset(c)
  BY <1>1 DEF StoresOnTime
<1>4. CASE kvs[c].pc = "running"
  <2>1. now < at + S /\ LastRelease(c) = at + kvs_offset(c)
    BY <1>1, <1>4 DEF StoresOnTime, LastRelease
  <2> HIDE DEF at
  <2> QED BY <1>1, <1>2, <2>1
<1>5. CASE kvs[c].pc = "waiting" /\ kvs[c].num_jobs < max_jobs(S)
  <2>1. now <= kvs[c].release /\ LastRelease(c) = (at - S) + kvs_offset(c)
    BY <1>1, <1>5 DEF StoresOnTime, LastRelease
  <2> HIDE DEF at
  <2> QED BY <1>1, <1>2, <1>3, <2>1
<1>6. CASE kvs[c].pc = "waiting" /\ kvs[c].num_jobs = max_jobs(S)
  <2>1. exp_duration < at /\ LastRelease(c) = (at - S) + kvs_offset(c)
    BY <1>2, <1>6, AtFacts DEF LastRelease
  <2>2. At(task[k].num_jobs, Period(k)) <= exp_duration /\ exp_duration \in Nat
    BY <1>1, AtFacts, BoschAssumption
  <2>3. task[k].release = At(task[k].num_jobs, Period(k)) + task_offset(c, Period(k))
    BY DEF TasksOnTime
  <2> HIDE DEF at
  <2> QED BY <1>1, <1>2, <2>1, <2>2, <2>3
<1> QED BY <1>2, <1>4, <1>5, <1>6

\* Labels wait for the store of their CPU: together with those of a task that has
\* none waiting they are not more than there are labels, and so fit.
LEMMA RoomLeft ==
  ASSUME BInv, PInv, phase \in Late, NEW U \in SUBSET (label_sizes \X Nat), NEW k,
         \A e, f \in U : e[1] = f[1] => e = f, \A e \in U : e[1] \notin Publishes(k)
  PROVE  /\ Cardinality(Publishes(k)) \in Nat /\ Cardinality(U) \in Nat /\ NT \in Nat
         /\ Cardinality(Publishes(k)) <= NT - Cardinality(U)
<1> DEFINE W == Publishes(k)
<1>1. PICK f : f = [e \in U |-> e[1]]
  OBVIOUS
<1>2. PICK L : L = {e[1] : e \in U}
  OBVIOUS
<1>3. IsFiniteSet(label_sizes) /\ Cardinality(label_sizes) \in Nat /\ W \in SUBSET label_sizes
  BY LabelsFinite, PublishedLabels
<1>4. L \in SUBSET label_sizes /\ L \cap W = {}
  BY <1>2
<1> HIDE DEF W
<1>5. f \in Injection(U, label_sizes)
  BY <1>1 DEF Injection, IsInjective
<1>6. IsFiniteSet(U) /\ Cardinality(U) \in Nat
  BY <1>3, <1>5, FS_Injection, FS_CardinalityType
<1>7. f \in Injection(U, L) /\ f \in Surjection(U, L)
  BY <1>1, <1>2 DEF Injection, IsInjective, Surjection
<1>8. Cardinality(U) = Cardinality(L)
  BY <1>6, <1>7, FS_Surjection
<1>9. IsFiniteSet(L) /\ IsFiniteSet(W) /\ Cardinality(L) \in Nat /\ Cardinality(W) \in Nat
  BY <1>3, <1>4, FS_Subset, FS_CardinalityType
<1>10. Cardinality(L \cup W) = Cardinality(L) + Cardinality(W)
  <2>1. Cardinality(L \cap W) = 0
    BY <1>4, FS_EmptySet
  <2>2. Cardinality(L \cup W) = Cardinality(L) + Cardinality(W) - Cardinality(L \cap W)
    BY <1>9, FS_Union
  <2> QED BY <1>9, <2>1, <2>2
<1>11. Cardinality(L \cup W) <= Cardinality(label_sizes)
  BY <1>3, <1>4, FS_Subset
<1>12. NT \in Nat /\ Cardinality(label_sizes) < NT
  <2> DEFINE n == Cardinality(label_sizes)
             q == n \div NtStep
  <2>1. NtStep \in Nat \ {0} /\ n \in Nat
    BY <1>3, BoschAssumption
  <2>2. q \in Nat /\ n < q * NtStep + NtStep /\ q * NtStep \in Nat /\ (q + 1) * NtStep = q * NtStep + NtStep
    BY <2>1, Quotient, LastMultiple
  <2>3. NT = (q + 1) * NtStep
    BY DEF NT
  <2> HIDE DEF q
  <2> QED BY <2>1, <2>2, <2>3
<1>13. Cardinality(W) <= NT - Cardinality(U)
  BY <1>3, <1>6, <1>8, <1>9, <1>10, <1>11, <1>12
<1> QED BY <1>6, <1>9, <1>12, <1>13 DEF W

\* Every label is published by one task.
LEMMA OneTaskPerLabel ==
  ASSUME BInv, PInv, GInv, phase \in Late, NEW j \in DOMAIN tasks, NEW k \in DOMAIN tasks, NEW l,
         l \in Publishes(j), l \in Publishes(k)
  PROVE  j = k
<1>1. PICK a \in access : a[1] \in Published /\ a[2] \in tasks[j].runnables /\ a[3] = l
  BY PublishedLabels
<1>2. PICK b \in access : b[1] \in Published /\ b[2] \in tasks[k].runnables /\ b[3] = l
  BY PublishedLabels
<1>3. a[2] = b[2]
  BY <1>1, <1>2 DEF GInv, Trimmed, OneWriter
<1>4. Partitioned
  BY DEF PInv, Late
<1> QED BY <1>1, <1>2, <1>3, <1>4 DEF Partitioned

LEMMA InitSchedule == Init => ScheduleInv
<1> SUFFICES ASSUME Init PROVE ScheduleInv
  OBVIOUS
<1>1. phase = "runnables"
  BY DEF Init, BenchmarkInit
<1> QED BY <1>1 DEF Init, ScheduleInv, WritesFit, Deployed

\* What the schedule is made of stays.
LEMMA SameTerms ==
  ASSUME UNCHANGED <<tasks, access, cpus_used, wcet>>
  PROVE  /\ Cpu' = Cpu /\ (\A k : Period(k)' = Period(k)) /\ (\A k : Publishes(k)' = Publishes(k))
         /\ (\A c, p : task_offset(c, p)' = task_offset(c, p)) /\ (\A c : kvs_offset(c)' = kvs_offset(c))
         /\ (\A k : Slot(k)' = Slot(k)) /\ (\A c : one_round(c)' = one_round(c))
<1>1. Cpu' = Cpu /\ (\A k : Period(k)' = Period(k)) /\ (\A k : Slot(k)' = Slot(k))
  BY DEF Cpu, Period, Slot
<1>2. \A k : Publishes(k)' = Publishes(k)
  BY DEF Publishes, keys
<1>3. (\A c, p : task_offset(c, p)' = task_offset(c, p)) /\ (\A c : kvs_offset(c)' = kvs_offset(c))
  BY DEF task_offset, kvs_offset, nmr_specific_offset, Preceding, bosch_task_wcet_total
<1>4. \A c : one_round(c)' = one_round(c)
  BY <1>3 DEF one_round
<1> QED BY <1>1, <1>2, <1>3, <1>4

LEMMA DeploySchedule ==
  ASSUME OffsetsFit, BInv, PInv, GInv, XInv, ScheduleInv, Deploy
  PROVE  ScheduleInv'
<1>0. /\ phase = "trimmed" /\ phase' = "running" /\ phase \in Late /\ Config /\ now = 0 /\ now' = 0
      /\ UNCHANGED <<tasks, access, cpus_used, wcet, failed_writes>>
  BY DEF Deploy, XInv, Config, Deployed, Late
<1>1. /\ Cpu' = Cpu /\ (\A k : Period(k)' = Period(k))
      /\ (\A c, p : task_offset(c, p)' = task_offset(c, p)) /\ (\A c : kvs_offset(c)' = kvs_offset(c))
      /\ (\A k : Slot(k)' = Slot(k))
  BY <1>0, SameTerms
<1>2. WritesFit'
  BY <1>0 DEF ScheduleInv, WritesFit
<1>3. ASSUME NEW k \in Cpu \X DOMAIN tasks
      PROVE  /\ Period(k) \in Nat \ {0} /\ Period(k) >= smallest_period_ms /\ k[1] \in Cpu
             /\ task_offset(k[1], Period(k)) \in Nat /\ kvs_offset(k[1]) \in Nat /\ kvs_offset(k[1]) < smallest_period_ms
             /\ smallest_period_ms \in Nat \ {0} /\ At(0, Period(k)) \in Nat /\ At(0, Period(k)) >= Period(k)
             /\ task'[k].num_jobs = 0 /\ task'[k].pc = "waiting"
             /\ task'[k].release = At(0, Period(k)) + task_offset(k[1], Period(k))
  <2>1. Period(k) \in Nat \ {0} /\ Period(k) >= smallest_period_ms /\ k[1] \in Cpu
    BY <1>0, PeriodFacts
  <2>2. task_offset(k[1], Period(k)) \in Nat
    BY <1>0, <2>1, OffsetFacts
  <2>3. kvs_offset(k[1]) \in Nat /\ kvs_offset(k[1]) < smallest_period_ms /\ smallest_period_ms \in Nat \ {0}
    BY <1>0, <2>1, StoreOffset
  <2>4. At(0, Period(k)) \in Nat /\ At(0, Period(k)) >= Period(k)
    BY <2>1, AtFacts
  <2>5. task'[k] = [pc |-> "waiting", num_jobs |-> 0, publish_time |-> 0, release |-> next_release(k)]
    BY DEF Deploy
  <2>6. next_release(k) = At(0, Period(k)) + task_offset(k[1], Period(k))
    BY <1>0, <2>1, FirstPeriod DEF next_release
  <2> QED BY <2>1, <2>2, <2>3, <2>4, <2>5, <2>6
<1>4. ASSUME NEW c \in Cpu
      PROVE  /\ kvs_offset(c) \in Nat /\ smallest_period_ms \in Nat \ {0}
             /\ At(0, smallest_period_ms) = smallest_period_ms
             /\ kvs'[c].num_jobs = 0 /\ kvs'[c].pc = "waiting"
             /\ kvs'[c].release = At(0, smallest_period_ms) + kvs_offset(c)
  <2>1. kvs_offset(c) \in Nat /\ smallest_period_ms \in Nat \ {0}
    BY <1>0, StoreOffset
  <2>2. kvs'[c] = [pc |-> "waiting", num_jobs |-> 0, root |-> {}, release |-> next_kvs_release(c)]
    BY DEF Deploy
  <2>3. next_kvs_release(c) = At(0, smallest_period_ms) + kvs_offset(c)
    BY <1>0, <2>1, FirstPeriod DEF next_kvs_release
  <2> QED BY <2>1, <2>2, <2>3 DEF At
<1>5. TasksOnTime'
  <2> SUFFICES ASSUME NEW k \in Cpu \X DOMAIN tasks
               PROVE  /\ task'[k].release = At(task'[k].num_jobs, Period(k)) + task_offset(k[1], Period(k))
                      /\ ~ Active(k)' /\ task'[k].pc # "running"
    BY <1>0, <1>1 DEF TasksOnTime
  <2>1. task'[k].release > 0
    BY <1>3
  <2> QED BY <1>0, <1>3, <2>1 DEF Active
<1>6. StoresOnTime'
  BY <1>0, <1>1, <1>4 DEF StoresOnTime
<1>7. ASSUME NEW c \in Cpu PROVE LastRelease(c)' = kvs_offset(c)
  BY <1>1, <1>4 DEF LastRelease
<1>8. StoresLast'
  <2> SUFFICES ASSUME NEW k \in Cpu \X DOMAIN tasks PROVE LastRelease(k[1])' < task'[k].release
    BY <1>0, <1>1 DEF StoresLast
  <2>1. LastRelease(k[1])' = kvs_offset(k[1])
    BY <1>3, <1>7
  <2> QED BY <1>3, <2>1
<1>9. OncePerJob'
  <2>1. \A c \in Cpu : unpublished'[c] = {}
    BY DEF Deploy
  <2>2. \A k \in Cpu \X DOMAIN tasks : unpublished'[k[1]] = {}
    BY <1>3, <2>1
  <2> QED BY <1>0, <1>1, <2>1, <2>2 DEF OncePerJob
<1> QED BY <1>2, <1>5, <1>6, <1>8, <1>9 DEF ScheduleInv

LEMMA StartJobSchedule ==
  ASSUME OffsetsFit, BInv, PInv, GInv, XInv, ScheduleInv, NEW k \in DOMAIN task, StartJob(k)
  PROVE  ScheduleInv'
<1>1. /\ phase = "running" /\ TaskTypes /\ KvsTypes /\ StoreTypes /\ Config /\ k \in Cpu \X DOMAIN tasks
      /\ task[k].pc = "waiting" /\ Active(k)
      /\ UNCHANGED <<bvars, cpus_used, wcet, now, kvs, unpublished, store, failed_writes>>
      /\ DOMAIN task' = DOMAIN task
      /\ \A j \in DOMAIN task : j # k => task'[j] = task[j]
      /\ task'[k] = [task[k] EXCEPT !.pc = "running",
                                    !.publish_time = release_time_without_offset(Period(k)) + Period(k)]
  BY StartJobFacts
<1>2. UNCHANGED <<phase, tasks, access>> /\ phase \in Late /\ phase \in Deployed
  BY <1>1 DEF bvars, Late, Deployed
<1>3. /\ Cpu' = Cpu /\ (\A j : Period(j)' = Period(j)) /\ (\A j : Publishes(j)' = Publishes(j))
      /\ (\A c, p : task_offset(c, p)' = task_offset(c, p)) /\ (\A c : kvs_offset(c)' = kvs_offset(c))
      /\ (\A j : Slot(j)' = Slot(j)) /\ \A c : LastRelease(c)' = LastRelease(c)
  BY <1>1, <1>2, SameTerms DEF LastRelease
<1>4. WritesFit /\ TasksOnTime /\ StoresOnTime /\ StoresLast /\ OncePerJob /\ DOMAIN task = Cpu \X DOMAIN tasks
  BY <1>1, <1>2 DEF ScheduleInv, TaskTypes
<1>5. /\ task'[k].num_jobs = task[k].num_jobs /\ task'[k].release = task[k].release /\ task'[k].pc = "running"
      /\ task'[k].publish_time = release_time_without_offset(Period(k)) + Period(k)
  BY <1>1 DEF TaskTypes, TaskState
<1>6. task[k].num_jobs < max_jobs(Period(k)) /\ task[k].release <= now /\ now <= task[k].release + Slot(k)
  BY <1>1, <1>4 DEF Active, TasksOnTime
<1>7. release_time_without_offset(Period(k)) = At(task[k].num_jobs, Period(k))
  <2>1. /\ Period(k) \in Nat \ {0} /\ Period(k) >= smallest_period_ms
        /\ task_offset(k[1], Period(k)) \in Nat /\ Slot(k) \in Nat /\ kvs_offset(k[1]) \in Nat
        /\ task_offset(k[1], Period(k)) + Slot(k) <= kvs_offset(k[1])
        /\ kvs_offset(k[1]) < smallest_period_ms /\ smallest_period_ms \in Nat \ {0}
        /\ task[k].num_jobs \in Nat /\ task[k].release \in Nat
        /\ At(task[k].num_jobs, Period(k)) \in Nat /\ now \in Nat
    BY <1>1, <1>2, TaskNumbers
  <2>2. task[k].release = At(task[k].num_jobs, Period(k)) + task_offset(k[1], Period(k))
    BY <1>1, <1>4 DEF TasksOnTime
  <2>3. At(task[k].num_jobs, Period(k)) <= now /\ now < At(task[k].num_jobs, Period(k)) + Period(k)
    BY <1>6, <2>1, <2>2
  <2>4. (now \div Period(k)) * Period(k) = At(task[k].num_jobs, Period(k))
    BY <2>1, <2>3, InPeriod
  <2> QED BY <2>4 DEF release_time_without_offset
<1>8. \A e \in unpublished[k[1]] : e[1] \notin Publishes(k[2])
  <2> SUFFICES ASSUME NEW e \in unpublished[k[1]], e[1] \in Publishes(k[2]) PROVE FALSE
    OBVIOUS
  <2>1. LastRelease(k[1]) + smallest_period_ms < task[k].release
    BY <1>1, <1>4, <1>6 DEF OncePerJob
  <2>2. task[k].release <= LastRelease(k[1]) + smallest_period_ms
    BY <1>1, <1>2, <1>4, <1>6, NotBeforeTheStore
  <2>3. LastRelease(k[1]) \in Nat /\ smallest_period_ms \in Nat /\ task[k].release \in Nat
    BY <1>1, <1>2, TaskNumbers, StoreNumbers
  <2> QED BY <2>1, <2>2, <2>3
<1>9. TasksOnTime'
  <2> SUFFICES ASSUME NEW j \in Cpu \X DOMAIN tasks
               PROVE  /\ task'[j].release = At(task'[j].num_jobs, Period(j)) + task_offset(j[1], Period(j))
                      /\ Active(j)' => now <= task'[j].release + Slot(j)
                      /\ task'[j].pc = "running" =>
                           /\ task'[j].release <= now
                           /\ task'[j].publish_time = At(task'[j].num_jobs, Period(j)) + Period(j)
    BY <1>1, <1>2, <1>3 DEF TasksOnTime
  <2>1. CASE j = k
    BY <1>1, <1>4, <1>5, <1>6, <1>7, <2>1 DEF TasksOnTime
  <2>2. CASE j # k
    <3>1. task'[j] = task[j]
      BY <1>1, <1>4, <2>2
    <3>2. Active(j)' = Active(j)
      BY <1>1, <1>3, <3>1 DEF Active, max_jobs
    <3> QED BY <1>4, <3>1, <3>2 DEF TasksOnTime
  <2> QED BY <2>1, <2>2
<1>10. StoresOnTime'
  BY <1>1, <1>3, <1>4 DEF StoresOnTime, max_jobs
<1>11. StoresLast'
  BY <1>1, <1>2, <1>3, <1>4, <1>5 DEF StoresLast, max_jobs
<1>12. OncePerJob'
  <2> SUFFICES ASSUME NEW j \in Cpu \X DOMAIN tasks, NEW e \in unpublished[j[1]], e[1] \in Publishes(j[2])
               PROVE  /\ task'[j].pc = "waiting"
                      /\ task'[j].num_jobs < max_jobs(Period(j)) => LastRelease(j[1]) + smallest_period_ms < task'[j].release
    BY <1>1, <1>2, <1>3, <1>4 DEF OncePerJob, max_jobs
  <2>1. j # k
    BY <1>8
  <2>2. task'[j] = task[j]
    BY <1>1, <1>4, <2>1
  <2> QED BY <1>4, <2>2 DEF OncePerJob
<1> QED BY <1>1, <1>4, <1>9, <1>10, <1>11, <1>12 DEF ScheduleInv, WritesFit

LEMMA EndJobSchedule ==
  ASSUME OffsetsFit, BInv, PInv, GInv, XInv, ScheduleInv, NEW k \in DOMAIN task, EndJob(k)
  PROVE  ScheduleInv'
<1> DEFINE n == task[k].num_jobs
           P == Period(k)
           to == task_offset(k[1], P)
           S == smallest_period_ms
<1>1. /\ phase = "running" /\ TaskTypes /\ KvsTypes /\ StoreTypes /\ Config /\ k \in Cpu \X DOMAIN tasks
      /\ task[k].pc = "running"
      /\ UNCHANGED <<bvars, cpus_used, wcet, now, kvs, store>>
      /\ DOMAIN task' = DOMAIN task
      /\ \A j \in DOMAIN task : j # k => task'[j] = task[j]
      /\ task'[k] = [pc |-> "waiting", num_jobs |-> n + 1, publish_time |-> 0, release |-> next_release(k)]
      /\ \E done \in SUBSET Publishes(k[2]) :
           unpublished' = [unpublished EXCEPT ![k[1]] = @ \cup {<<l, task[k].publish_time>> : l \in done}]
      /\ failed_writes' = failed_writes + (Cardinality(Publishes(k[2])) -
           (IF task[k].publish_time <= now THEN 0
            ELSE Min({NT - Cardinality(unpublished[k[1]]), Cardinality(Publishes(k[2]))})))
  BY EndJobFacts
<1>2. UNCHANGED <<phase, tasks, access>> /\ phase \in Late /\ phase \in Deployed
  BY <1>1 DEF bvars, Late, Deployed
<1>3. /\ Cpu' = Cpu /\ (\A j : Period(j)' = Period(j)) /\ (\A j : Publishes(j)' = Publishes(j))
      /\ (\A c, p : task_offset(c, p)' = task_offset(c, p)) /\ (\A c : kvs_offset(c)' = kvs_offset(c))
      /\ (\A j : Slot(j)' = Slot(j)) /\ \A c : LastRelease(c)' = LastRelease(c)
  BY <1>1, <1>2, SameTerms DEF LastRelease
<1>4. WritesFit /\ TasksOnTime /\ StoresOnTime /\ StoresLast /\ OncePerJob /\ DOMAIN task = Cpu \X DOMAIN tasks
  BY <1>1, <1>2 DEF ScheduleInv, TaskTypes
<1>5. /\ P \in Nat \ {0} /\ P >= S /\ k[1] \in Cpu /\ k[2] \in DOMAIN tasks
      /\ to \in Nat /\ Slot(k) \in Nat /\ kvs_offset(k[1]) \in Nat
      /\ to + Slot(k) <= kvs_offset(k[1]) /\ kvs_offset(k[1]) < S /\ S \in Nat \ {0}
      /\ n \in Nat /\ task[k].release \in Nat /\ At(n, P) \in Nat /\ now \in Nat
  BY <1>1, <1>2, TaskNumbers
<1>6. /\ task[k].release = At(n, P) + to /\ now <= task[k].release + Slot(k) /\ task[k].release <= now
      /\ task[k].publish_time = At(n, P) + P /\ n < max_jobs(P)
  BY <1>1, <1>4 DEF TasksOnTime, Active, TaskTypes
<1>7. At(n, P) <= now /\ now < At(n, P) + P
  <2> HIDE DEF n, P, to, S
  <2> QED BY <1>5, <1>6
<1>8. /\ task'[k].pc = "waiting" /\ task'[k].num_jobs = n + 1 /\ task'[k].release = At(n + 1, P) + to
      /\ task'[k].release = task[k].release + P /\ now < task'[k].release
  <2>1. next_release(k) = At(n + 1, P) + to /\ At(n + 1, P) = At(n, P) + P
    <3>1. next_release(k) = get_next_release(now, P, to)
      BY DEF next_release
    <3> HIDE DEF n, P, to
    <3>2. get_next_release(now, P, to) = At(n + 1, P) + to
      BY <1>5, <1>7, InPeriod
    <3>3. At(n + 1, P) = At(n, P) + P
      BY <1>5, AtFacts
    <3> QED BY <3>1, <3>2, <3>3
  <2>2. task'[k].pc = "waiting" /\ task'[k].num_jobs = n + 1 /\ task'[k].release = next_release(k)
    BY <1>1
  <2> HIDE DEF n, P, to, S
  <2> QED BY <1>5, <1>6, <1>7, <2>1, <2>2
<1>9. \A e \in unpublished[k[1]] : e[1] \notin Publishes(k[2])
  BY <1>1, <1>4 DEF OncePerJob
<1>10. \A e, f \in unpublished[k[1]] : e[1] = f[1] => e = f
  BY <1>4, <1>5 DEF OncePerJob
<1>11. WritesFit'
  <2> DEFINE W == Publishes(k[2])
             room == NT - Cardinality(unpublished[k[1]])
  <2>1. unpublished[k[1]] \in SUBSET (label_sizes \X Nat)
    BY <1>1, <1>5 DEF StoreTypes
  <2>2. Cardinality(W) \in Nat /\ Cardinality(unpublished[k[1]]) \in Nat /\ NT \in Nat /\ Cardinality(W) <= room
    BY <1>2, <1>9, <1>10, <2>1, RoomLeft
  <2>3. ~ (task[k].publish_time <= now)
    <3> HIDE DEF n, P, to, S
    <3> QED BY <1>5, <1>6, <1>7
  <2>4. failed_writes' = failed_writes + (Cardinality(W) - Min({room, Cardinality(W)}))
    BY <1>1, <2>3
  <2> HIDE DEF W
  <2>5. room \in Nat
    BY <2>2
  <2> HIDE DEF room
  <2>6. Min({room, Cardinality(W)}) \in {room, Cardinality(W)} /\ Min({room, Cardinality(W)}) <= Cardinality(W)
    BY <2>2, <2>5, MinIsLeast
  <2>7. Min({room, Cardinality(W)}) = Cardinality(W)
    BY <2>2, <2>5, <2>6
  <2>8. failed_writes' = failed_writes
    BY <1>4, <2>2, <2>4, <2>7 DEF WritesFit
  <2> QED BY <1>4, <2>8 DEF WritesFit
<1>12. TasksOnTime'
  <2> SUFFICES ASSUME NEW j \in Cpu \X DOMAIN tasks
               PROVE  /\ task'[j].release = At(task'[j].num_jobs, Period(j)) + task_offset(j[1], Period(j))
                      /\ Active(j)' => now <= task'[j].release + Slot(j)
                      /\ task'[j].pc = "running" =>
                           /\ task'[j].release <= now
                           /\ task'[j].publish_time = At(task'[j].num_jobs, Period(j)) + Period(j)
    BY <1>1, <1>2, <1>3 DEF TasksOnTime
  <2>1. CASE j = k
    <3>1. task'[k].release \in Nat
      <4> HIDE DEF n, P, to, S
      <4> QED BY <1>5, <1>8
    <3>2. ~ Active(k)'
      BY <1>1, <1>5, <1>8, <3>1 DEF Active
    <3> QED BY <1>8, <2>1, <3>2
  <2>2. CASE j # k
    <3>1. task'[j] = task[j]
      BY <1>1, <1>4, <2>2
    <3>2. Active(j)' = Active(j)
      BY <1>1, <1>3, <3>1 DEF Active, max_jobs
    <3> QED BY <1>4, <3>1, <3>2 DEF TasksOnTime
  <2> QED BY <2>1, <2>2
<1>13. StoresOnTime'
  BY <1>1, <1>3, <1>4 DEF StoresOnTime, max_jobs
<1>14. LastRelease(k[1]) < task[k].release /\ LastRelease(k[1]) \in Nat
  BY <1>1, <1>4, <1>5, <1>6, StoreNumbers DEF StoresLast
<1>15. LastRelease(k[1]) < task'[k].release /\ LastRelease(k[1]) + S < task'[k].release
  <2> HIDE DEF n, P, to, S
  <2> QED BY <1>5, <1>8, <1>14
<1>16. StoresLast'
  <2> SUFFICES ASSUME NEW j \in Cpu \X DOMAIN tasks, task'[j].num_jobs < max_jobs(Period(j))
               PROVE  LastRelease(j[1]) < task'[j].release
    BY <1>2, <1>3 DEF StoresLast, max_jobs
  <2>1. CASE j = k
    BY <1>15, <2>1
  <2>2. CASE j # k
    BY <1>1, <1>4, <2>2 DEF StoresLast
  <2> QED BY <2>1, <2>2
<1>17. PICK done \in SUBSET Publishes(k[2]) :
         unpublished' = [unpublished EXCEPT ![k[1]] = @ \cup {<<l, task[k].publish_time>> : l \in done}]
  BY <1>1
<1>18. /\ \A c \in Cpu : c # k[1] => unpublished'[c] = unpublished[c]
       /\ unpublished'[k[1]] = unpublished[k[1]] \cup {<<l, task[k].publish_time>> : l \in done}
  BY <1>1, <1>5, <1>17 DEF StoreTypes
<1>19. ASSUME NEW e \in unpublished'[k[1]], e \notin unpublished[k[1]]
       PROVE  e[1] \in Publishes(k[2]) /\ e = <<e[1], task[k].publish_time>>
  BY <1>18, <1>19
<1>20. OncePerJob'
  <2>1. ASSUME NEW c \in Cpu, NEW e \in unpublished'[c], NEW f \in unpublished'[c], e[1] = f[1] PROVE e = f
    <3>1. CASE c # k[1]
      BY <1>4, <1>18, <2>1, <3>1 DEF OncePerJob
    <3>2. CASE c = k[1] /\ e \in unpublished[c] /\ f \in unpublished[c]
      BY <1>10, <2>1, <3>2
    <3>3. CASE c = k[1] /\ (e \in unpublished[c] <=> f \notin unpublished[c])
      BY <1>9, <1>19, <2>1, <3>3
    <3>4. CASE c = k[1] /\ e \notin unpublished[c] /\ f \notin unpublished[c]
      BY <1>19, <2>1, <3>4
    <3> QED BY <3>1, <3>2, <3>3, <3>4
  <2>2. ASSUME NEW j \in Cpu \X DOMAIN tasks, NEW e \in unpublished'[j[1]], e[1] \in Publishes(j[2])
        PROVE  /\ task'[j].pc = "waiting"
               /\ task'[j].num_jobs < max_jobs(Period(j)) => LastRelease(j[1]) + S < task'[j].release
    <3>1. CASE j = k
      BY <1>8, <1>15, <3>1
    <3>2. CASE j # k
      <4>1. j[1] \in Cpu /\ j[2] \in DOMAIN tasks /\ j = <<j[1], j[2]>> /\ k = <<k[1], k[2]>>
        BY <1>1
      <4>2. e \in unpublished[j[1]]
        <5>1. CASE j[1] # k[1]
          BY <1>18, <4>1, <5>1
        <5>2. CASE j[1] = k[1]
          <6>1. j[2] # k[2]
            BY <3>2, <4>1, <5>2
          <6> QED BY <1>2, <1>5, <1>19, <2>2, <4>1, <5>2, <6>1, OneTaskPerLabel
        <5> QED BY <5>1, <5>2
      <4>3. task'[j] = task[j]
        BY <1>1, <1>4, <3>2
      <4> QED BY <1>4, <2>2, <4>2, <4>3 DEF OncePerJob
    <3> QED BY <3>1, <3>2
  <2> QED BY <1>2, <1>3, <2>1, <2>2 DEF OncePerJob, max_jobs
<1> QED BY <1>11, <1>12, <1>13, <1>16, <1>20 DEF ScheduleInv

LEMMA BeginKvsSchedule ==
  ASSUME OffsetsFit, BInv, PInv, GInv, XInv, ScheduleInv, NEW c \in DOMAIN kvs, BeginKvsJob(c)
  PROVE  ScheduleInv'
<1> DEFINE S == smallest_period_ms
           at == At(kvs[c].num_jobs, S)
<1>1. /\ phase = "running" /\ TaskTypes /\ KvsTypes /\ StoreTypes /\ Config /\ c \in Cpu
      /\ kvs[c].pc = "waiting" /\ kvs[c].num_jobs < max_jobs(S) /\ kvs[c].release <= now /\ Idle(c)
      /\ UNCHANGED <<bvars, cpus_used, wcet, now, task, store, failed_writes>>
      /\ DOMAIN kvs' = DOMAIN kvs
      /\ \A d \in DOMAIN kvs : d # c => kvs'[d] = kvs[d]
      /\ kvs'[c] = [kvs[c] EXCEPT !.pc = "running", !.root = unpublished[c]]
      /\ unpublished' = [unpublished EXCEPT ![c] = {}]
  BY BeginKvsFacts
<1>2. UNCHANGED <<phase, tasks, access>> /\ phase \in Late /\ phase \in Deployed
  BY <1>1 DEF bvars, Late, Deployed
<1>3. /\ Cpu' = Cpu /\ (\A j : Period(j)' = Period(j)) /\ (\A j : Publishes(j)' = Publishes(j))
      /\ (\A d, p : task_offset(d, p)' = task_offset(d, p)) /\ (\A d : kvs_offset(d)' = kvs_offset(d))
      /\ (\A j : Slot(j)' = Slot(j))
  BY <1>1, <1>2, SameTerms
<1>4. /\ WritesFit /\ TasksOnTime /\ StoresOnTime /\ StoresLast /\ OncePerJob
      /\ DOMAIN task = Cpu \X DOMAIN tasks /\ DOMAIN kvs = Cpu
  BY <1>1, <1>2 DEF ScheduleInv, TaskTypes, KvsTypes
<1>5. /\ kvs_offset(c) \in Nat /\ kvs_offset(c) < S /\ S \in Nat \ {0} /\ at \in Nat
      /\ kvs[c].release \in Nat /\ now \in Nat
  BY <1>1, StoreNumbers DEF Config
<1>6. kvs[c].release = at + kvs_offset(c) /\ now = kvs[c].release
  BY <1>1, <1>4, <1>5 DEF StoresOnTime
<1>7. kvs'[c].pc = "running" /\ kvs'[c].num_jobs = kvs[c].num_jobs /\ kvs'[c].release = kvs[c].release
  BY <1>1 DEF KvsTypes, KvsState
<1>8. LastRelease(c)' = now
  BY <1>3, <1>6, <1>7 DEF LastRelease
<1>9. \A d \in Cpu : d # c => kvs'[d] = kvs[d] /\ LastRelease(d)' = LastRelease(d) /\ unpublished'[d] = unpublished[d]
  BY <1>1, <1>3, <1>4 DEF LastRelease, StoreTypes
<1>10. unpublished'[c] = {}
  BY <1>1 DEF StoreTypes
<1>11. TasksOnTime'
  BY <1>1, <1>2, <1>3, <1>4 DEF TasksOnTime, Active, max_jobs
<1>12. StoresOnTime'
  <2> SUFFICES ASSUME NEW d \in Cpu
               PROVE  /\ kvs'[d].release = At(kvs'[d].num_jobs, S) + kvs_offset(d)
                      /\ kvs'[d].pc = "waiting" /\ kvs'[d].num_jobs < max_jobs(S) => now <= kvs'[d].release
                      /\ kvs'[d].pc = "running" =>
                           kvs'[d].release <= now /\ now < At(kvs'[d].num_jobs, S) + S
    BY <1>1, <1>3 DEF StoresOnTime, max_jobs
  <2>1. CASE d = c
    <3>1. now < at + S /\ now <= now
      <4> HIDE DEF at, S
      <4> QED BY <1>5, <1>6
    <3> QED BY <1>6, <1>7, <2>1, <3>1
  <2>2. CASE d # c
    BY <1>4, <1>9, <2>2 DEF StoresOnTime
  <2> QED BY <2>1, <2>2
<1>13. StoresLast'
  <2> SUFFICES ASSUME NEW k \in Cpu \X DOMAIN tasks, task[k].num_jobs < max_jobs(Period(k))
               PROVE  LastRelease(k[1])' < task[k].release
    BY <1>1, <1>2, <1>3 DEF StoresLast, max_jobs
  <2>1. k[1] \in Cpu /\ task[k].release \in Nat
    BY <1>1 DEF TaskTypes, TaskState
  <2>2. CASE k[1] = c
    <3>1. ~ Active(k)
      BY <1>1, <1>4, <2>2 DEF Idle, OnCpu
    <3>2. ~ (task[k].release <= now)
      BY <3>1 DEF Active
    <3> QED BY <1>5, <1>8, <2>1, <2>2, <3>2
  <2>3. CASE k[1] # c
    BY <1>4, <1>9, <2>1, <2>3 DEF StoresLast
  <2> QED BY <2>2, <2>3
<1>14. OncePerJob'
  <2>1. ASSUME NEW d \in Cpu, NEW e \in unpublished'[d], NEW f \in unpublished'[d], e[1] = f[1] PROVE e = f
    <3>1. d # c
      BY <1>10
    <3>2. unpublished'[d] = unpublished[d]
      BY <1>9, <3>1
    <3> QED BY <1>4, <2>1, <3>2 DEF OncePerJob
  <2>2. ASSUME NEW k \in Cpu \X DOMAIN tasks, NEW e \in unpublished'[k[1]], e[1] \in Publishes(k[2])
        PROVE  /\ task[k].pc = "waiting"
               /\ task[k].num_jobs < max_jobs(Period(k)) => LastRelease(k[1])' + S < task[k].release
    <3>1. k[1] # c /\ k[1] \in Cpu
      BY <1>10
    <3>2. unpublished'[k[1]] = unpublished[k[1]] /\ LastRelease(k[1])' = LastRelease(k[1])
      BY <1>9, <3>1
    <3> QED BY <1>4, <2>2, <3>2 DEF OncePerJob
  <2> QED BY <1>1, <1>2, <1>3, <2>1, <2>2 DEF OncePerJob, max_jobs
<1> QED BY <1>1, <1>4, <1>11, <1>12, <1>13, <1>14 DEF ScheduleInv, WritesFit

LEMMA EndKvsSchedule ==
  ASSUME OffsetsFit, BInv, PInv, GInv, XInv, ScheduleInv, NEW c \in DOMAIN kvs, EndKvsJob(c)
  PROVE  ScheduleInv'
<1> DEFINE S == smallest_period_ms
           n == kvs[c].num_jobs
<1>1. /\ phase = "running" /\ TaskTypes /\ KvsTypes /\ StoreTypes /\ Config /\ c \in Cpu
      /\ kvs[c].pc = "running"
      /\ UNCHANGED <<bvars, cpus_used, wcet, now, task, unpublished, failed_writes>>
      /\ DOMAIN kvs' = DOMAIN kvs
      /\ \A d \in DOMAIN kvs : d # c => kvs'[d] = kvs[d]
      /\ kvs'[c] = [pc |-> "waiting", num_jobs |-> n + 1, root |-> {}, release |-> next_kvs_release(c)]
  BY EndKvsFacts
<1>2. UNCHANGED <<phase, tasks, access>> /\ phase \in Late /\ phase \in Deployed
  BY <1>1 DEF bvars, Late, Deployed
<1>3. /\ Cpu' = Cpu /\ (\A j : Period(j)' = Period(j)) /\ (\A j : Publishes(j)' = Publishes(j))
      /\ (\A d, p : task_offset(d, p)' = task_offset(d, p)) /\ (\A d : kvs_offset(d)' = kvs_offset(d))
      /\ (\A j : Slot(j)' = Slot(j))
  BY <1>1, <1>2, SameTerms
<1>4. /\ WritesFit /\ TasksOnTime /\ StoresOnTime /\ StoresLast /\ OncePerJob /\ DOMAIN kvs = Cpu
  BY <1>1, <1>2 DEF ScheduleInv, KvsTypes
<1>5. /\ kvs_offset(c) \in Nat /\ S \in Nat \ {0} /\ n \in Nat /\ At(n, S) \in Nat
      /\ kvs[c].release \in Nat /\ now \in Nat
  BY <1>1, StoreNumbers DEF Config
<1>6. kvs[c].release = At(n, S) + kvs_offset(c) /\ kvs[c].release <= now /\ now < At(n, S) + S
  BY <1>1, <1>4 DEF StoresOnTime
<1>7. At(n, S) <= now
  <2> HIDE DEF n, S
  <2> QED BY <1>5, <1>6
<1>8. next_kvs_release(c) = At(n + 1, S) + kvs_offset(c) /\ At(n + 1, S) = At(n, S) + S
  <2>1. next_kvs_release(c) = get_next_release(now, S, kvs_offset(c))
    BY DEF next_kvs_release
  <2> HIDE DEF n, S
  <2>2. get_next_release(now, S, kvs_offset(c)) = At(n + 1, S) + kvs_offset(c)
    BY <1>5, <1>6, <1>7, InPeriod
  <2>3. At(n + 1, S) = At(n, S) + S
    BY <1>5, AtFacts
  <2> QED BY <2>1, <2>2, <2>3
<1>9. kvs'[c].pc = "waiting" /\ kvs'[c].num_jobs = n + 1 /\ kvs'[c].release = At(n + 1, S) + kvs_offset(c)
  BY <1>1, <1>8
<1>10. LastRelease(c)' = LastRelease(c)
  <2>1. LastRelease(c) = At(n, S) + kvs_offset(c)
    BY <1>1 DEF LastRelease
  <2>2. LastRelease(c)' = (At(n + 1, S) - S) + kvs_offset(c)
    BY <1>3, <1>9 DEF LastRelease
  <2> HIDE DEF n, S
  <2> QED BY <1>5, <1>8, <2>1, <2>2
<1>11. \A d \in Cpu : LastRelease(d)' = LastRelease(d)
  BY <1>1, <1>3, <1>4, <1>10 DEF LastRelease
<1>12. TasksOnTime'
  BY <1>1, <1>2, <1>3, <1>4 DEF TasksOnTime, Active, max_jobs
<1>13. StoresOnTime'
  <2> SUFFICES ASSUME NEW d \in Cpu
               PROVE  /\ kvs'[d].release = At(kvs'[d].num_jobs, S) + kvs_offset(d)
                      /\ kvs'[d].pc = "waiting" /\ kvs'[d].num_jobs < max_jobs(S) => now <= kvs'[d].release
                      /\ kvs'[d].pc = "running" =>
                           kvs'[d].release <= now /\ now < At(kvs'[d].num_jobs, S) + S
    BY <1>1, <1>3 DEF StoresOnTime, max_jobs
  <2>1. CASE d = c
    <3>1. now <= At(n + 1, S) + kvs_offset(c)
      <4> HIDE DEF n, S
      <4> QED BY <1>5, <1>6, <1>8
    <3> QED BY <1>9, <2>1, <3>1
  <2>2. CASE d # c
    BY <1>1, <1>4, <2>2 DEF StoresOnTime
  <2> QED BY <2>1, <2>2
<1>14. StoresLast'
  <2>1. \A k \in Cpu \X DOMAIN tasks : LastRelease(k[1])' = LastRelease(k[1])
    BY <1>11
  <2> QED BY <1>1, <1>2, <1>3, <1>4, <2>1 DEF StoresLast, max_jobs
<1>15. OncePerJob'
  <2>1. \A k \in Cpu \X DOMAIN tasks : LastRelease(k[1])' = LastRelease(k[1])
    BY <1>11
  <2> QED BY <1>1, <1>2, <1>3, <1>4, <2>1 DEF OncePerJob, max_jobs
<1> QED BY <1>1, <1>4, <1>12, <1>13, <1>14, <1>15 DEF ScheduleInv, WritesFit

LEMMA TickSchedule ==
  ASSUME OffsetsFit, BInv, PInv, GInv, XInv, ScheduleInv, Tick
  PROVE  ScheduleInv'
<1> DEFINE S == smallest_period_ms
<1>1. /\ phase = "running" /\ TaskTypes /\ KvsTypes /\ StoreTypes /\ Config
      /\ UNCHANGED <<bvars, cpus_used, wcet, task, kvs, unpublished, store, failed_writes>>
      /\ now' \in Nat /\ now < now' /\ (\A t \in Deadlines : now < t /\ now' <= t)
      /\ \A t \in Releases : now < t => now' <= t
  BY TickFacts
<1>2. UNCHANGED <<phase, tasks, access>> /\ phase \in Late /\ phase \in Deployed
  BY <1>1 DEF bvars, Late, Deployed
<1>3. /\ Cpu' = Cpu /\ (\A j : Period(j)' = Period(j)) /\ (\A j : Publishes(j)' = Publishes(j))
      /\ (\A d, p : task_offset(d, p)' = task_offset(d, p)) /\ (\A d : kvs_offset(d)' = kvs_offset(d))
      /\ (\A j : Slot(j)' = Slot(j)) /\ \A c : LastRelease(c)' = LastRelease(c)
  BY <1>1, <1>2, SameTerms DEF LastRelease
<1>4. /\ WritesFit /\ TasksOnTime /\ StoresOnTime /\ StoresLast /\ OncePerJob
      /\ DOMAIN task = Cpu \X DOMAIN tasks /\ now \in Nat
  BY <1>1, <1>2 DEF ScheduleInv, TaskTypes, Config
<1>5. TasksOnTime'
  <2> SUFFICES ASSUME NEW k \in Cpu \X DOMAIN tasks
               PROVE  /\ Active(k)' => now' <= task[k].release + Slot(k)
                      /\ task[k].pc = "running" => task[k].release <= now'
    BY <1>1, <1>2, <1>3, <1>4 DEF TasksOnTime
  <2>1. task[k].release \in Nat /\ Slot(k) \in Nat
    BY <1>1, <1>2, TaskNumbers
  <2>2. ASSUME Active(k) PROVE now' <= task[k].release + Slot(k)
    <3>1. task[k].release + Slot(k) \in Deadlines
      BY <1>4, <2>2 DEF Deadlines
    <3> QED BY <1>1, <3>1
  <2>3. ASSUME ~ Active(k), Active(k)' PROVE now' <= task[k].release + Slot(k)
    <3>1. task[k].num_jobs < max_jobs(Period(k)) /\ ~ (task[k].release <= now)
      BY <1>1, <1>3, <2>3 DEF Active, max_jobs
    <3>2. task[k].release \in Releases
      BY <1>4, <3>1 DEF Releases
    <3>3. now < task[k].release
      BY <1>4, <2>1, <3>1
    <3>4. now' <= task[k].release
      BY <1>1, <3>2, <3>3
    <3> QED BY <1>1, <2>1, <3>4
  <2>4. ASSUME task[k].pc = "running" PROVE task[k].release <= now'
    <3>1. task[k].release <= now
      BY <1>4, <2>4 DEF TasksOnTime
    <3> QED BY <1>1, <1>4, <2>1, <3>1
  <2> QED BY <2>2, <2>3, <2>4
<1>6. StoresOnTime'
  <2> SUFFICES ASSUME NEW c \in Cpu
               PROVE  /\ kvs[c].pc = "waiting" /\ kvs[c].num_jobs < max_jobs(S) => now' <= kvs[c].release
                      /\ kvs[c].pc = "running" =>
                           kvs[c].release <= now' /\ now' < At(kvs[c].num_jobs, S) + S
    BY <1>1, <1>3, <1>4 DEF StoresOnTime, max_jobs
  <2>1. ASSUME kvs[c].pc = "waiting", kvs[c].num_jobs < max_jobs(S) PROVE now' <= kvs[c].release
    <3>1. kvs[c].release \in Deadlines
      BY <2>1 DEF Deadlines
    <3> QED BY <1>1, <3>1
  <2>2. ASSUME kvs[c].pc = "running"
        PROVE  kvs[c].release <= now' /\ now' < At(kvs[c].num_jobs, S) + S
    <3>1. kvs[c].release + max_rounds * one_round(c) \in Deadlines
      BY <2>2 DEF Deadlines
    <3>2. now' <= kvs[c].release + max_rounds * one_round(c)
      BY <1>1, <3>1
    <3>3. max_rounds * one_round(c) \in Nat /\ kvs_offset(c) + max_rounds * one_round(c) < S
      BY <1>1, RoundsFit
    <3>4. /\ kvs_offset(c) \in Nat /\ S \in Nat \ {0} /\ kvs[c].release \in Nat
          /\ At(kvs[c].num_jobs, S) \in Nat
      BY <1>1, StoreNumbers
    <3>5. kvs[c].release = At(kvs[c].num_jobs, S) + kvs_offset(c) /\ kvs[c].release <= now
      BY <1>4, <2>2 DEF StoresOnTime
    <3> DEFINE r == max_rounds * one_round(c)
               a == At(kvs[c].num_jobs, S)
    <3>6. now' <= kvs[c].release + r /\ r \in Nat /\ kvs_offset(c) + r < S
      BY <3>2, <3>3
    <3>7. a \in Nat /\ kvs[c].release = a + kvs_offset(c)
      BY <3>4, <3>5
    <3> HIDE DEF r, a, S
    <3>8. kvs[c].release <= now' /\ now' < a + S
      BY <1>1, <1>4, <3>4, <3>5, <3>6, <3>7
    <3> QED BY <3>8 DEF a, S
  <2> QED BY <2>1, <2>2
<1>7. StoresLast'
  BY <1>1, <1>2, <1>3, <1>4 DEF StoresLast, max_jobs
<1>8. OncePerJob'
  BY <1>1, <1>2, <1>3, <1>4 DEF OncePerJob, max_jobs
<1> QED BY <1>1, <1>4, <1>5, <1>6, <1>7, <1>8 DEF ScheduleInv, WritesFit

LEMMA KeptSchedule ==
  ASSUME ScheduleInv, phase' \in Deployed <=> phase \in Deployed, UNCHANGED xvars,
         phase \in Deployed => UNCHANGED <<tasks, access>>
  PROVE  ScheduleInv'
<1>1. UNCHANGED <<cpus_used, wcet, now, task, kvs, unpublished, failed_writes>>
  BY DEF xvars
<1>2. WritesFit'
  BY <1>1 DEF ScheduleInv, WritesFit
<1>3. CASE phase \in Deployed
  <2>1. /\ Cpu' = Cpu /\ (\A j : Period(j)' = Period(j)) /\ (\A j : Publishes(j)' = Publishes(j))
        /\ (\A d, p : task_offset(d, p)' = task_offset(d, p)) /\ (\A d : kvs_offset(d)' = kvs_offset(d))
        /\ (\A j : Slot(j)' = Slot(j)) /\ (\A c : LastRelease(c)' = LastRelease(c)) /\ tasks' = tasks
    BY <1>1, <1>3, SameTerms DEF LastRelease
  <2>2. TasksOnTime' /\ StoresOnTime'
    BY <1>1, <1>3, <2>1 DEF ScheduleInv, TasksOnTime, StoresOnTime, Active, max_jobs
  <2>3. StoresLast' /\ OncePerJob'
    BY <1>1, <1>3, <2>1 DEF ScheduleInv, StoresLast, OncePerJob, max_jobs
  <2> QED BY <1>2, <2>2, <2>3 DEF ScheduleInv
<1>4. CASE phase \notin Deployed
  BY <1>2, <1>4 DEF ScheduleInv
<1> QED BY <1>3, <1>4

LEMMA StepSchedule ==
  ASSUME OffsetsFit, BInv, PInv, GInv, XInv, ScheduleInv, [Next]_vars
  PROVE  ScheduleInv'
<1>1. CASE /\ ~ Deploy /\ ~ Tick
           /\ \A k \in DOMAIN task : ~ StartJob(k) /\ ~ EndJob(k)
           /\ \A c \in DOMAIN kvs : ~ BeginKvsJob(c) /\ ~ EndKvsJob(c)
  BY <1>1, QuietFacts, KeptSchedule
<1> QED BY <1>1, DeploySchedule, StartJobSchedule, EndJobSchedule, BeginKvsSchedule, EndKvsSchedule, TickSchedule

\* With the offsets and slots of main the whole run keeps its schedule: no task
\* and no store misses a period, every job of a task ends in its slot, the rounds
\* of a store end in the period they began in, and a store begins when everything
\* released before it has been published.
THEOREM ScheduleKept == ASSUME OffsetsFit PROVE Spec => []ScheduleInv
<1>1. BInv /\ PInv /\ GInv /\ XInv /\ ScheduleInv /\ [Next]_vars => ScheduleInv'
  BY StepSchedule
<1> QED BY <1>1, InitSchedule, ExperimentInvariant, PTL DEF Spec

\* No write of a task fails in the whole run: try_write_batch never finds its
\* publishing time passed, and between two jobs of a store every label is
\* published at most once, so the type that bftkvs_init_from_config chooses by the
\* number of labels has room for all of them, whatever the workload is.
THEOREM WritesAlwaysFit == ASSUME OffsetsFit PROVE Spec => []WritesFit
<1>1. ScheduleInv => WritesFit
  BY DEF ScheduleInv
<1> QED BY <1>1, ScheduleKept, PTL
=============================================================================
