----------------------------- MODULE Benchmark ------------------------------
(***************************************************************************)
(* The workload of the experiment exp/bosch1.cpp, from                     *)
(* kzh15_benchmark_generator.cpp.                                          *)
(*                                                                         *)
(* The generator draws runnables, merges those of one period into tasks,   *)
(* draws labels and gives each a reader, a writer or both, and exports the *)
(* instance to a file.  The driver imports the file, removes the labels    *)
(* that runnables below smallest_period_ms access, and then these          *)
(* runnables and their tasks.                                              *)
(*                                                                         *)
(* What the generator draws at random is any value of the ranges: the      *)
(* distributions are left out, and of the execution times the largest is   *)
(* kept.  Labels keep their identity and not their size.  The six lists of *)
(* labels of a runnable are one set: <<kind, runnable, label>>.            *)
(***************************************************************************)
EXTENDS Integers, Sequences, FiniteSets

CONSTANTS
  periods_ms,            \* sequence of periods, 0 for angle-synchronous runnables
  period_shares,         \* their shares, in percent
  RunnableCounts,        \* what estimate_total_number_of_runnables may return
  Wcets,                 \* worst-case execution times of runnables, in ms
  LabelIds,              \* the labels, estimate_total_number_of_labels of them
  smallest_period_ms

ASSUME BenchmarkAssumption ==
  /\ periods_ms \in Seq(Nat)
  /\ period_shares \in [DOMAIN periods_ms -> Nat]
  /\ RunnableCounts \subseteq Nat \ {0}
  /\ Wcets \subseteq Nat
  /\ LabelIds \subseteq Nat /\ IsFiniteSet(LabelIds)
  /\ smallest_period_ms \in Nat \ {0}

\* LabelType, with MessageType for those that are read and written.
LabelKind == {"ro", "wo", "fwd", "bwd", "inter"}

\* The list of a runnable that a label is in.
Reading == {"ro_read", "intra_read", "inter_read"}
Writing == {"wo_written", "intra_written", "inter_written"}

VARIABLES
  phase,         \* where generator and driver are
  merge_runnables,
  idx,           \* of generate_runnable_instances: the period it is at,
  counter,       \*   the runnables that period has,
  max,           \*   and the number of runnables to generate
  runnables,     \* id -> period_ms and wcet
  tasks,         \* sequence of period_ms, wcet and runnables, until some are trimmed
  labels,        \* label -> kind
  todo,          \* runnables to put into a task, then labels to map
  access,        \* the lists of the runnables
  label_sizes    \* the labels label_sizes has an entry for

bvars == <<phase, merge_runnables, idx, counter, max, runnables, tasks, labels,
           todo, access, label_sizes>>

BenchmarkInit ==
  /\ phase = "runnables"
  /\ merge_runnables \in BOOLEAN
  /\ idx = 1 /\ counter = 0
  /\ max \in RunnableCounts
  /\ runnables = <<>> /\ tasks = <<>> /\ labels = <<>>
  /\ todo = {} /\ access = {} /\ label_sizes = {}

-----------------------------------------------------------------------------
(* BenchmarkInstance::BenchmarkInstance                                    *)

\* Runnable::get_min_period_ms: 120 * 1000 / (3000 * 8) for angle-synchronous
\* runnables.
get_min_period_ms(p) == IF p > 0 THEN p ELSE 5

\* One turn of the loop of generate_runnable_instances, with the execution time
\* that generate_runnable_acets_bcets_and_wcets draws.  Beyond the last period
\* the behaviour is undefined: if the shares let it come there, the model is in
\* a deadlock.
GenerateRunnable(wcet) ==
  LET p == periods_ms[idx]
      full == (counter + 1) * 100 >= period_shares[idx] * max
  IN  /\ phase = "runnables"
      /\ Len(runnables) < max
      /\ idx \in DOMAIN periods_ms
      /\ runnables' = Append(runnables, [period_ms |-> p, wcet |-> wcet])
      /\ idx' = IF full THEN idx + 1 ELSE idx
      /\ counter' = IF full THEN 0 ELSE counter + 1
      /\ UNCHANGED <<phase, merge_runnables, max, tasks, labels, todo, access, label_sizes>>

\* The loop ends and generate_task_instances_from_runnables begins.
RunnablesDone ==
  /\ phase = "runnables"
  /\ Len(runnables) = max
  /\ phase' = "tasks"
  /\ todo' = DOMAIN runnables
  /\ UNCHANGED <<merge_runnables, idx, counter, max, runnables, tasks, labels, access, label_sizes>>

\* Variant: without the execution time of the runnable to come.
does_runnable_fit_alone(t, r) == 2 * t.wcet <= get_min_period_ms(t.period_ms)

\* Task::does_runnable_fit for a task with runnables; kMaxUtilPerCPU is 0.5.
does_runnable_fit(t, r) ==
  2 * (t.wcet + runnables[r].wcet) <= get_min_period_ms(t.period_ms)

\* One turn of generate_task_instances_from_runnables.  The runnables are
\* ordered by period, as the loop over the periods visits them.
GenerateTask(r) ==
  LET last == tasks[Len(tasks)]
      p == runnables[r].period_ms
      joins == /\ merge_runnables
               /\ tasks # <<>> /\ last.period_ms = p
               /\ does_runnable_fit(last, r)
  IN  /\ phase = "tasks"
      /\ r \in todo /\ \A q \in todo : r <= q
      /\ tasks' =
           IF joins
             THEN [tasks EXCEPT ![Len(tasks)] =
                     [period_ms |-> p, wcet |-> last.wcet + runnables[r].wcet,
                      runnables |-> last.runnables \cup {r}]]
             ELSE Append(tasks, [period_ms |-> p, wcet |-> runnables[r].wcet, runnables |-> {r}])
      /\ todo' = todo \ {r}
      /\ UNCHANGED <<phase, merge_runnables, idx, counter, max, runnables, labels, access, label_sizes>>

\* generate_label_instances
GenerateLabels ==
  /\ phase = "tasks" /\ todo = {}
  /\ labels' \in [LabelIds -> LabelKind]
  /\ todo' = LabelIds
  /\ phase' = "labels"
  /\ UNCHANGED <<merge_runnables, idx, counter, max, runnables, tasks, access, label_sizes>>

\* Two runnables of a task that has two, the smaller id first.
intra_pairs ==
  UNION {{q \in t.runnables \X t.runnables : q[1] < q[2]} : t \in {tasks[k] : k \in DOMAIN tasks}}

\* The accesses that map_labels_to_runnables may draw for a label.
Placements(l) ==
  CASE labels[l] = "ro"  -> {{<<"ro_read", r, l>>} : r \in DOMAIN runnables}
    [] labels[l] = "wo"  -> {{<<"wo_written", r, l>>} : r \in DOMAIN runnables}
    [] labels[l] = "fwd" -> {{<<"intra_written", q[1], l>>, <<"intra_read", q[2], l>>} : q \in intra_pairs}
    [] labels[l] = "bwd" -> {{<<"intra_read", q[1], l>>, <<"intra_written", q[2], l>>} : q \in intra_pairs}

\* The loop of map_labels_to_runnables is at label l: it skips inter-task labels.
AtLabel(l) ==
  /\ phase = "labels"
  /\ l \in todo /\ labels[l] # "inter"
  /\ \A m \in todo : labels[m] # "inter" => l <= m

\* One turn of map_labels_to_runnables.
MapLabel(l) ==
  /\ AtLabel(l)
  /\ \E new \in Placements(l) : access' = access \cup new
  /\ todo' = todo \ {l}
  /\ UNCHANGED <<phase, merge_runnables, idx, counter, max, runnables, tasks, labels, label_sizes>>

\* No task has two runnables: map_labels_to_runnables looks for one forever.
Spin(l) ==
  /\ AtLabel(l)
  /\ Placements(l) = {}
  /\ phase' = "spins"
  /\ UNCHANGED <<merge_runnables, idx, counter, max, runnables, tasks, labels, todo, access, label_sizes>>

p_to_r(p) == {r \in DOMAIN runnables : runnables[r].period_ms = p}

\* The loop of map_inter_task_msgs_to_runnables is at label l.
AtInterTaskMsg(l) ==
  /\ phase = "labels"
  /\ l \in todo
  /\ \A m \in todo : labels[m] = "inter" /\ l <= m

\* One turn of that loop: from a runnable of one period to another, perhaps of
\* the same period and perhaps of the same task.
MapInterTaskMsg(l) ==
  /\ AtInterTaskMsg(l)
  /\ \E i1 \in DOMAIN periods_ms, i2 \in DOMAIN periods_ms :
       \E r1 \in p_to_r(periods_ms[i1]), r2 \in p_to_r(periods_ms[i2]) :
         /\ r1 # r2
         /\ access' = access \cup {<<"inter_written", r1, l>>, <<"inter_read", r2, l>>}
  /\ todo' = todo \ {l}
  /\ UNCHANGED <<phase, merge_runnables, idx, counter, max, runnables, tasks, labels, label_sizes>>

\* There are no two runnables of these periods: the label is deleted.
DeleteLabel(l) ==
  /\ AtInterTaskMsg(l)
  /\ \E i1 \in DOMAIN periods_ms, i2 \in DOMAIN periods_ms :
       \A r1 \in p_to_r(periods_ms[i1]), r2 \in p_to_r(periods_ms[i2]) : r1 = r2
  /\ labels' = [m \in DOMAIN labels \ {l} |-> labels[m]]
  /\ todo' = todo \ {l}
  /\ UNCHANGED <<phase, merge_runnables, idx, counter, max, runnables, tasks, access, label_sizes>>

-----------------------------------------------------------------------------
(* The driver.                                                             *)

\* export_to_file, and BenchmarkInstanceBasic::BenchmarkInstanceBasic of the
\* driver: angle-synchronous runnables get a period, and the kinds of the labels
\* are not in the file.  The execution times are, but nothing asks for them any
\* more than the loop variables of the generator: the model forgets all these.
ExportImport ==
  /\ phase = "labels" /\ todo = {}
  /\ runnables' = [r \in DOMAIN runnables |->
                     [period_ms |-> get_min_period_ms(runnables[r].period_ms), wcet |-> 0]]
  /\ tasks' = [k \in DOMAIN tasks |->
                 [tasks[k] EXCEPT !.period_ms = get_min_period_ms(@), !.wcet = 0]]
  /\ label_sizes' = DOMAIN labels
  /\ labels' = <<>>
  /\ phase' = "imported"
  /\ merge_runnables' = FALSE
  /\ idx' = 1 /\ counter' = 0
  /\ UNCHANGED <<max, todo, access>>

Dropped(r) == runnables[r].period_ms < smallest_period_ms

\* Variants: only the labels that a dropped runnable reads; the lists are
\* forgotten.
ResolveRead ==
  LET delete_set == {a[3] : a \in {b \in access : Dropped(b[2]) /\ b[1] \in Reading}} IN
  /\ phase = "imported"
  /\ access' = {a \in access : ~(a[1] \in {"inter_read", "inter_written"} /\ a[3] \in delete_set)}
  /\ label_sizes' = label_sizes \ delete_set
  /\ phase' = "resolved"
  /\ UNCHANGED <<merge_runnables, idx, counter, max, runnables, tasks, labels, todo>>

ResolveSizes ==
  LET delete_set == {a[3] : a \in {b \in access : Dropped(b[2])}} IN
  /\ phase = "imported"
  /\ label_sizes' = label_sizes \ delete_set
  /\ phase' = "resolved"
  /\ UNCHANGED <<merge_runnables, idx, counter, max, runnables, tasks, labels, todo, access>>

\* resolve_label_dependencies
ResolveLabelDependencies ==
  LET delete_set == {a[3] : a \in {b \in access : Dropped(b[2])}} IN
  /\ phase = "imported"
  /\ access' = {a \in access : ~(a[1] \in {"inter_read", "inter_written"} /\ a[3] \in delete_set)}
  /\ label_sizes' = label_sizes \ delete_set
  /\ phase' = "resolved"
  /\ UNCHANGED <<merge_runnables, idx, counter, max, runnables, tasks, labels, todo>>

\* trim_benchmark.  Tasks and runnables that stay keep their names.
TrimBenchmark ==
  /\ phase = "resolved"
  /\ tasks' = [k \in {k \in DOMAIN tasks : tasks[k].period_ms >= smallest_period_ms} |-> tasks[k]]
  /\ runnables' = [r \in {r \in DOMAIN runnables : ~Dropped(r)} |-> runnables[r]]
  /\ access' = {a \in access : ~Dropped(a[2])}
  /\ phase' = "trimmed"
  /\ UNCHANGED <<merge_runnables, idx, counter, max, labels, todo, label_sizes>>

BenchmarkStep ==
  \/ \E w \in Wcets : GenerateRunnable(w)
  \/ RunnablesDone
  \/ \E r \in DOMAIN runnables : GenerateTask(r)
  \/ GenerateLabels
  \/ \E l \in todo : MapLabel(l)
  \/ \E l \in todo : Spin(l)
  \/ \E l \in todo : MapInterTaskMsg(l)
  \/ \E l \in todo : DeleteLabel(l)
  \/ ExportImport
  \/ ResolveLabelDependencies
  \/ TrimBenchmark

BenchmarkSpec == BenchmarkInit /\ [][BenchmarkStep]_bvars

-----------------------------------------------------------------------------
(* Properties.                                                             *)

\* Every runnable is in exactly one task, of its own period, and the runnables
\* that generate_task_instances_from_runnables merges need at most half of it;
\* so the driver drops a task exactly with all its runnables.
TasksPartition ==
  phase \notin {"runnables", "tasks"} =>
    \A r \in DOMAIN runnables :
      \E k \in DOMAIN tasks :
        /\ r \in tasks[k].runnables
        /\ tasks[k].period_ms = runnables[r].period_ms
        /\ tasks[k].runnables \subseteq DOMAIN runnables
        /\ tasks[k].runnables = {r} \/ 2 * tasks[k].wcet <= get_min_period_ms(tasks[k].period_ms)
        /\ \A j \in DOMAIN tasks : r \in tasks[j].runnables => j = k

\* Who reads (writes) label l in a list of the given kind.
Who(kind, l) == {a[2] : a \in {b \in access : b[1] = kind /\ b[3] = l}}

\* After resolve_label_dependencies and trim_benchmark every label that a task
\* is left to read from another has one runnable that still writes it, and the
\* other way round, the labels of a task included; and label_sizes, which sizes
\* the store, holds the labels that are still accessed and no other.
LabelsPaired ==
  phase \notin {"runnables", "tasks", "labels", "spins", "imported", "resolved"} =>
    /\ label_sizes = {a[3] : a \in access}
    /\ \A l \in label_sizes :
         /\ \A r1, r2 \in Who("inter_written", l) : r1 = r2
         /\ \A r1, r2 \in Who("intra_written", l) : r1 = r2
         /\ Who("inter_read", l) = {} <=> Who("inter_written", l) = {}
         /\ Who("intra_read", l) = {} <=> Who("intra_written", l) = {}
=============================================================================
