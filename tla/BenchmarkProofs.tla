-------------------------- MODULE BenchmarkProofs ---------------------------
(***************************************************************************)
(* Proofs about module Benchmark, for all periods, shares, numbers of      *)
(* runnables and labels, and every smallest_period_ms.                     *)
(***************************************************************************)
EXTENDS Benchmark, SequenceTheorems, TLAPS

Generating == {"runnables", "tasks", "labels", "spins"}
Early == {"runnables", "tasks"}
Late == {"trimmed", "running", "aborted", "done"}
Phase == Generating \cup {"imported", "resolved"} \cup Late

RunnableRecord == [period_ms : Nat, wcet : Nat]
TaskRecord == [period_ms : Nat, wcet : Nat, runnables : SUBSET Nat]

\* Runnables have periods, and those of a task have the period of the task.
Grouped ==
  /\ \A r \in DOMAIN runnables : runnables[r].period_ms \in Nat
  /\ \A k \in DOMAIN tasks : \A r \in tasks[k].runnables :
       r \in DOMAIN runnables /\ runnables[r].period_ms = tasks[k].period_ms

\* The accesses of a label.
Of(l) == {a \in access : a[3] = l}

\* What the accesses of a label are once it is mapped.
IsShape(A, l) ==
  \/ \E r \in DOMAIN runnables : A = {<<"ro_read", r, l>>}
  \/ \E r \in DOMAIN runnables : A = {<<"wo_written", r, l>>}
  \/ \E r1, r2 \in DOMAIN runnables :
       /\ A = {<<"intra_written", r1, l>>, <<"intra_read", r2, l>>}
       /\ runnables[r1].period_ms = runnables[r2].period_ms
  \/ \E r1, r2 \in DOMAIN runnables :
       A = {<<"inter_written", r1, l>>, <<"inter_read", r2, l>>}

Shape(l) == IsShape(Of(l), l)

\* Before there are labels nothing is accessed; then every label is still to be
\* mapped or has its shape, and nobody accesses one that was deleted.
Placed ==
  /\ phase \in Early => access = {}
  /\ phase \in {"labels", "spins"} =>
       /\ todo \subseteq DOMAIN labels
       /\ \A l \in DOMAIN labels : labels[l] \in LabelKind
       /\ \A a \in access : a[3] \in DOMAIN labels \ todo
       /\ \A l \in DOMAIN labels \ todo : Shape(l)

\* The labels the driver has left have their shape; accesses to others are those
\* of dropped runnables to labels of their own or of their own task.
Imported ==
  /\ phase = "imported" =>
       /\ \A a \in access : a[3] \in label_sizes
       /\ \A l \in label_sizes : Shape(l)
  /\ phase = "resolved" =>
       /\ \A l \in label_sizes : Shape(l) /\ \A a \in Of(l) : ~Dropped(a[2])
       /\ \A a \in access : a[3] \notin label_sizes => Dropped(a[2])

\* The inductive invariant.
BInv ==
  /\ phase \in Phase
  /\ phase = "runnables" => tasks = <<>>
  /\ phase \notin Late =>
       /\ runnables \in Seq(RunnableRecord)
       /\ tasks \in Seq(TaskRecord)
       /\ Grouped
  /\ Placed
  /\ Imported
  /\ LabelsPaired

-----------------------------------------------------------------------------

\* The elements of a sequence.
LEMMA SeqElement ==
  ASSUME NEW S, NEW s \in Seq(S), NEW k \in DOMAIN s
  PROVE  s[k] \in S /\ k \in Nat
BY ElementOfSeq, LenProperties

\* The runnables in a sequence have an id, a period and an execution time.
LEMMA RunnableElement ==
  ASSUME NEW s \in Seq(RunnableRecord), NEW r \in DOMAIN s
  PROVE  r \in Nat /\ s[r].period_ms \in Nat /\ s[r].wcet \in Nat
<1>1. s[r] \in RunnableRecord /\ r \in Nat
  BY SeqElement
<1> QED
  BY <1>1 DEF RunnableRecord

LEMMA InitBInv == BenchmarkInit => BInv
BY BenchmarkAssumption DEF BenchmarkInit, BInv, Phase, Generating, Late, Early, Grouped, Placed, Imported, LabelsPaired

\* Shape depends on the accesses and the runnables alone.
LEMMA ShapeKept ==
  ASSUME NEW l, Shape(l), UNCHANGED <<access, runnables>>
  PROVE  Shape(l)'
BY DEF Shape, Of, IsShape

\* In the phases in which runnables and tasks are generated nothing is accessed.
LEMMA EarlyStep ==
  ASSUME BInv, phase \in Early, phase' \in Early, UNCHANGED access,
         phase' = "runnables" => tasks' = <<>>,
         runnables' \in Seq(RunnableRecord),
         tasks' \in Seq(TaskRecord),
         Grouped'
  PROVE  BInv'
BY DEF BInv, Early, Phase, Generating, Late, Placed, Imported, LabelsPaired

LEMMA GenerateRunnableStep ==
  ASSUME BInv, NEW w \in Wcets, GenerateRunnable(w)
  PROVE  BInv'
<1> USE DEF GenerateRunnable
<1>1. runnables' \in Seq(RunnableRecord)
  <2>1. periods_ms[idx] \in Nat
    BY BenchmarkAssumption, SeqElement
  <2>2. [period_ms |-> periods_ms[idx], wcet |-> w] \in RunnableRecord
    BY <2>1, BenchmarkAssumption DEF RunnableRecord
  <2> QED
    BY <2>2, AppendProperties DEF BInv, Late
<1>2. \A r \in DOMAIN runnables' : runnables'[r].period_ms \in Nat
  BY <1>1, RunnableElement
<1>3. tasks = <<>> /\ Grouped'
  BY <1>2 DEF BInv, Late, Grouped
<1> QED
  BY <1>1, <1>3, EarlyStep DEF BInv, Late, Early

LEMMA RunnablesDoneStep == ASSUME BInv, RunnablesDone PROVE BInv'
<1>1. Grouped'
  BY DEF BInv, Late, Grouped, RunnablesDone
<1> QED
  BY <1>1, EarlyStep DEF BInv, Late, Early, RunnablesDone

LEMMA GenerateTaskStep ==
  ASSUME BInv, NEW r \in DOMAIN runnables, GenerateTask(r)
  PROVE  BInv'
<1> DEFINE last == tasks[Len(tasks)]
           joined == [period_ms |-> runnables[r].period_ms, wcet |-> last.wcet + runnables[r].wcet,
                      runnables |-> last.runnables \cup {r}]
           alone == [period_ms |-> runnables[r].period_ms, wcet |-> runnables[r].wcet, runnables |-> {r}]
<1>1. /\ runnables \in Seq(RunnableRecord) /\ tasks \in Seq(TaskRecord)
      /\ Grouped /\ phase = "tasks" /\ phase' = "tasks" /\ UNCHANGED <<runnables, access>>
  BY DEF BInv, Late, GenerateTask
<1>2. r \in Nat /\ runnables[r].period_ms \in Nat /\ runnables[r].wcet \in Nat
  BY <1>1, RunnableElement
<1>3. CASE /\ tasks # <<>> /\ last.period_ms = runnables[r].period_ms
           /\ tasks' = [tasks EXCEPT ![Len(tasks)] = joined]
  <2>1. last \in TaskRecord /\ Len(tasks) \in DOMAIN tasks
    BY <1>1, <1>3, LenProperties, EmptySeq, SeqElement
  <2>2. joined \in TaskRecord
    BY <1>2, <2>1 DEF TaskRecord
  <2>3. tasks' \in Seq(TaskRecord) /\ DOMAIN tasks' = DOMAIN tasks
    BY <1>1, <1>3, <2>1, <2>2, ExceptSeq
  <2>4. Grouped'
    BY <1>1, <1>2, <1>3, <2>1, <2>3 DEF Grouped
  <2> QED
    BY <1>1, <2>3, <2>4, EarlyStep DEF Early
<1>4. CASE tasks' = Append(tasks, alone)
  <2>1. alone \in TaskRecord
    BY <1>2 DEF TaskRecord
  <2>2. tasks' \in Seq(TaskRecord)
    BY <1>1, <1>4, <2>1, AppendProperties
  <2>3. Grouped'
    <3>1. \A k \in DOMAIN tasks' : (k \in DOMAIN tasks /\ tasks'[k] = tasks[k]) \/ tasks'[k] = alone
      BY <1>1, <1>4, <2>1, AppendProperties, LenProperties
    <3> QED
      BY <1>1, <1>2, <3>1 DEF Grouped
  <2> QED
    BY <1>1, <2>2, <2>3, EarlyStep DEF Early
<1> QED
  BY <1>3, <1>4 DEF GenerateTask

LEMMA GenerateLabelsStep == ASSUME BInv, GenerateLabels PROVE BInv'
<1>1. Grouped'
  BY DEF BInv, Late, GenerateLabels, Grouped
<1>2. /\ access' = {} /\ DOMAIN labels' = LabelIds /\ todo' = LabelIds
      /\ \A l \in LabelIds : labels'[l] \in LabelKind
  BY DEF BInv, GenerateLabels, Placed, Early
<1> QED
  BY <1>1, <1>2 DEF BInv, GenerateLabels, Phase, Generating, Late, Early, Placed, Imported, LabelsPaired

\* A label gets its accesses: the others keep theirs.
LEMMA MapStep ==
  ASSUME BInv, phase = "labels", NEW l \in todo, NEW new, IsShape(new, l),
         access' = access \cup new, todo' = todo \ {l},
         UNCHANGED <<phase, runnables, tasks, labels>>
  PROVE  BInv'
<1>1. \A a \in new : a[3] = l
  BY DEF IsShape
<1>2. /\ todo \subseteq DOMAIN labels
      /\ \A a \in access : a[3] \in DOMAIN labels \ todo
      /\ \A m \in DOMAIN labels \ todo : Shape(m)
  BY DEF BInv, Placed
<1>3. Of(l)' = new
  BY <1>1, <1>2 DEF Of
<1>4. \A m : m # l => Of(m)' = Of(m)
  BY <1>1 DEF Of
<1>5. \A m, A : IsShape(A, m)' <=> IsShape(A, m)
  BY DEF IsShape
<1>6. \A m \in DOMAIN labels' \ todo' : Shape(m)'
  BY <1>2, <1>3, <1>4, <1>5 DEF Shape
<1>7. \A a \in access' : a[3] \in DOMAIN labels' \ todo'
  BY <1>1, <1>2
<1>8. Grouped'
  BY DEF BInv, Late, Grouped
<1> QED
  BY <1>2, <1>6, <1>7, <1>8 DEF BInv, Phase, Generating, Late, Early, Placed, Imported, LabelsPaired

LEMMA MapLabelStep ==
  ASSUME BInv, NEW l \in todo, MapLabel(l)
  PROVE  BInv'
<1>1. PICK new \in Placements(l) : access' = access \cup new
  BY DEF MapLabel
<1>2. phase = "labels" /\ Grouped /\ labels[l] \in LabelKind
  BY DEF BInv, Late, MapLabel, AtLabel, Placed
<1>3. \A q \in intra_pairs : /\ q[1] \in DOMAIN runnables /\ q[2] \in DOMAIN runnables
                             /\ runnables[q[1]].period_ms = runnables[q[2]].period_ms
  BY <1>2 DEF Grouped, intra_pairs
<1>4. labels[l] \in {"ro", "wo", "fwd", "bwd"}
  BY <1>2 DEF MapLabel, AtLabel, LabelKind
<1>5. IsShape(new, l)
  <2>1. CASE labels[l] = "ro"
    BY <1>1, <2>1 DEF Placements, IsShape
  <2>2. CASE labels[l] = "wo"
    BY <1>1, <2>2 DEF Placements, IsShape
  <2>3. CASE labels[l] = "fwd"
    BY <1>1, <1>3, <2>3 DEF Placements, IsShape
  <2>4. CASE labels[l] = "bwd"
    <3>1. PICK q \in intra_pairs : new = {<<"intra_read", q[1], l>>, <<"intra_written", q[2], l>>}
      BY <1>1, <2>4 DEF Placements
    <3>2. new = {<<"intra_written", q[2], l>>, <<"intra_read", q[1], l>>}
      BY <3>1
    <3> QED
      BY <1>3, <3>2 DEF IsShape
  <2> QED
    BY <1>4, <2>1, <2>2, <2>3, <2>4
<1> QED
  BY <1>1, <1>2, <1>5, MapStep DEF MapLabel

LEMMA SpinStep == ASSUME BInv, NEW l \in todo, Spin(l) PROVE BInv'
<1>1. UNCHANGED <<access, runnables, tasks, labels, todo>> /\ phase = "labels" /\ phase' = "spins"
  BY DEF Spin, AtLabel
<1>2. \A m : Shape(m)' <=> Shape(m)
  BY <1>1 DEF Shape, IsShape, Of
<1>3. Grouped'
  BY <1>1 DEF BInv, Late, Grouped
<1> QED
  BY <1>1, <1>2, <1>3 DEF BInv, Phase, Generating, Late, Early, Placed, Imported, LabelsPaired

LEMMA MapInterTaskMsgStep ==
  ASSUME BInv, NEW l \in todo, MapInterTaskMsg(l)
  PROVE  BInv'
<1>1. PICK r1 \in DOMAIN runnables, r2 \in DOMAIN runnables :
        access' = access \cup {<<"inter_written", r1, l>>, <<"inter_read", r2, l>>}
  BY DEF MapInterTaskMsg, p_to_r
<1>2. IsShape({<<"inter_written", r1, l>>, <<"inter_read", r2, l>>}, l)
  BY DEF IsShape
<1> QED
  BY <1>1, <1>2, MapStep DEF MapInterTaskMsg, AtInterTaskMsg

LEMMA DeleteLabelStep == ASSUME BInv, NEW l \in todo, DeleteLabel(l) PROVE BInv'
<1>1. /\ UNCHANGED <<phase, access, runnables, tasks>> /\ phase = "labels"
      /\ DOMAIN labels' = DOMAIN labels \ {l} /\ todo' = todo \ {l}
      /\ \A m \in DOMAIN labels' : labels'[m] = labels[m]
  BY DEF DeleteLabel, AtInterTaskMsg
<1>2. \A m : Shape(m)' <=> Shape(m)
  BY <1>1 DEF Shape, IsShape, Of
<1>3. Grouped'
  BY <1>1 DEF BInv, Late, Grouped
<1> QED
  BY <1>1, <1>2, <1>3 DEF BInv, Phase, Generating, Late, Early, Placed, Imported, LabelsPaired

\* Runnables of equal periods keep equal periods.
LEMMA ExportImportStep == ASSUME BInv, ExportImport PROVE BInv'
<1> USE DEF ExportImport
<1>1. /\ phase = "labels" /\ phase' = "imported" /\ todo = {} /\ Grouped /\ Placed
      /\ runnables \in Seq(RunnableRecord) /\ tasks \in Seq(TaskRecord)
      /\ DOMAIN runnables' = DOMAIN runnables
      /\ label_sizes' = DOMAIN labels /\ access' = access
  BY DEF BInv, Late
<1>2. \A p \in Nat : get_min_period_ms(p) \in Nat
  BY DEF get_min_period_ms
<1>3. \A r \in DOMAIN runnables : /\ runnables[r].period_ms \in Nat
                                  /\ runnables'[r].period_ms = get_min_period_ms(runnables[r].period_ms)
                                  /\ runnables'[r] \in RunnableRecord
  BY <1>1, <1>2, RunnableElement DEF RunnableRecord
<1>4. runnables' \in Seq(RunnableRecord)
  <2>1. DOMAIN runnables = 1..Len(runnables) /\ Len(runnables) \in Nat
    BY <1>1, LenProperties
  <2>2. runnables' \in [1..Len(runnables) -> RunnableRecord]
    BY <1>3, <2>1
  <2> QED
    BY <2>1, <2>2, SeqDef
<1>5. \A k \in DOMAIN tasks : tasks[k] \in TaskRecord /\ k \in Nat
  BY <1>1, SeqElement
<1>6. \A k \in DOMAIN tasks : /\ tasks'[k].period_ms = get_min_period_ms(tasks[k].period_ms)
                              /\ tasks'[k].runnables = tasks[k].runnables
                              /\ tasks'[k] \in TaskRecord
  BY <1>2, <1>5 DEF TaskRecord
<1>7. tasks' \in Seq(TaskRecord) /\ DOMAIN tasks' = DOMAIN tasks
  <2>1. DOMAIN tasks = 1..Len(tasks) /\ Len(tasks) \in Nat
    BY <1>1, LenProperties
  <2>2. tasks' \in [1..Len(tasks) -> TaskRecord]
    BY <1>6, <2>1
  <2> QED
    BY <2>1, <2>2, SeqDef
<1>8. Grouped'
  <2>1. \A r \in DOMAIN runnables' : runnables'[r].period_ms \in Nat
    BY <1>4, RunnableElement
  <2>2. \A k \in DOMAIN tasks' : \A r \in tasks'[k].runnables :
          r \in DOMAIN runnables' /\ runnables'[r].period_ms = tasks'[k].period_ms
    <3> HIDE DEF ExportImport
    <3> SUFFICES ASSUME NEW k \in DOMAIN tasks, NEW r \in tasks[k].runnables
                 PROVE  r \in DOMAIN runnables' /\ runnables'[r].period_ms = tasks'[k].period_ms
      BY <1>6, <1>7
    <3>1. r \in DOMAIN runnables /\ runnables[r].period_ms = tasks[k].period_ms
      BY <1>1 DEF Grouped
    <3> QED
      BY <1>1, <1>3, <1>6, <3>1
  <2> QED
    BY <2>1, <2>2 DEF Grouped
<1>9. ASSUME NEW l, Shape(l)
      PROVE  Shape(l)'
  <2>1. \A r1, r2 \in DOMAIN runnables :
          runnables[r1].period_ms = runnables[r2].period_ms =>
            runnables'[r1].period_ms = runnables'[r2].period_ms
    BY <1>3
  <2>2. Of(l)' = Of(l)
    BY <1>1 DEF Of
  <2> HIDE DEF ExportImport
  <2> QED
    BY <1>1, <1>9, <2>1, <2>2 DEF Shape, IsShape
<1>10. \A l \in label_sizes' : Shape(l)'
  BY <1>1, <1>9 DEF Placed
<1> QED
  BY <1>1, <1>4, <1>7, <1>8, <1>10 DEF BInv, Phase, Generating, Late, Early, Placed, Imported, LabelsPaired

\* A label that a dropped runnable accesses goes from label_sizes; an inter-task
\* label also goes from the lists, and whoever else accesses the others has the
\* same period and is dropped too.
LEMMA ResolveStep == ASSUME BInv, ResolveLabelDependencies PROVE BInv'
<1> DEFINE delete_set == {a[3] : a \in {b \in access : Dropped(b[2])}}
           inter(a) == a[1] \in {"inter_read", "inter_written"}
<1>1. /\ phase = "imported" /\ phase' = "resolved" /\ UNCHANGED <<runnables, tasks>>
      /\ access' = {a \in access : ~(inter(a) /\ a[3] \in delete_set)}
      /\ label_sizes' = label_sizes \ delete_set
  BY DEF ResolveLabelDependencies
<1>2. /\ \A a \in access : a[3] \in label_sizes
      /\ \A l \in label_sizes : Shape(l)
  BY <1>1 DEF BInv, Imported
<1>3. \A l \in label_sizes' : Of(l)' = Of(l)
  BY <1>1 DEF Of
<1>4. \A l \in label_sizes' : Shape(l)'
  BY <1>1, <1>2, <1>3 DEF Shape, IsShape
<1>5. \A l \in label_sizes' : \A a \in Of(l)' : ~Dropped(a[2])'
  BY <1>1, <1>3 DEF Of, Dropped
<1>6. ASSUME NEW a \in access', a[3] \notin label_sizes'
      PROVE  Dropped(a[2])'
  <2>1. a \in access /\ a[3] \in delete_set /\ a[3] \in label_sizes /\ ~inter(a) /\ a \in Of(a[3])
    BY <1>1, <1>2, <1>6 DEF Of
  <2>2. PICK b \in access : b[3] = a[3] /\ Dropped(b[2])
    BY <2>1
  <2>3. b \in Of(a[3]) /\ IsShape(Of(a[3]), a[3])
    BY <1>2, <2>1, <2>2 DEF Of, Shape
  <2>4. b[2] = a[2] \/ runnables[b[2]].period_ms = runnables[a[2]].period_ms
    BY <2>1, <2>3 DEF IsShape
  <2> QED
    BY <1>1, <2>2, <2>4 DEF Dropped
<1>7. Grouped'
  BY <1>1 DEF BInv, Late, Grouped
<1> QED
  BY <1>1, <1>4, <1>5, <1>6, <1>7 DEF BInv, Phase, Generating, Late, Early, Placed, Imported, LabelsPaired

\* What is left are labels with their shape.
LEMMA TrimStep == ASSUME BInv, TrimBenchmark PROVE BInv'
<1>1. /\ phase = "resolved" /\ phase' = "trimmed" /\ UNCHANGED label_sizes
      /\ access' = {a \in access : ~Dropped(a[2])}
  BY DEF TrimBenchmark
<1>2. /\ \A l \in label_sizes : Shape(l) /\ \A a \in Of(l) : ~Dropped(a[2])
      /\ \A a \in access : a[3] \notin label_sizes => Dropped(a[2])
  BY <1>1 DEF BInv, Imported
<1>3. \A l \in label_sizes : Of(l)' = Of(l)
  BY <1>1, <1>2 DEF Of
<1>4. \A a \in access' : a[3] \in label_sizes
  BY <1>1, <1>2
<1>5. \A l \in label_sizes : \E a \in Of(l) : TRUE
  BY <1>2 DEF Shape, IsShape
<1>6. label_sizes' = {a[3] : a \in access'}
  BY <1>1, <1>3, <1>4, <1>5 DEF Of
<1>7. ASSUME NEW l \in label_sizes', NEW kind
      PROVE  Who(kind, l)' = {a[2] : a \in {b \in Of(l) : b[1] = kind}}
  BY <1>1, <1>3, <1>7 DEF Who, Of
<1>8. ASSUME NEW l \in label_sizes'
      PROVE  /\ \A r1, r2 \in Who("inter_written", l)' : r1 = r2
             /\ \A r1, r2 \in Who("intra_written", l)' : r1 = r2
             /\ Who("inter_read", l)' = {} <=> Who("inter_written", l)' = {}
             /\ Who("intra_read", l)' = {} <=> Who("intra_written", l)' = {}
  <2> DEFINE W(kind) == {a[2] : a \in {b \in Of(l) : b[1] = kind}}
  <2>1. IsShape(Of(l), l)
    BY <1>1, <1>2, <1>8 DEF Shape
  <2>2. /\ \A r1, r2 \in W("inter_written") : r1 = r2
        /\ \A r1, r2 \in W("intra_written") : r1 = r2
        /\ W("inter_read") = {} <=> W("inter_written") = {}
        /\ W("intra_read") = {} <=> W("intra_written") = {}
    <3>1. \A kind, r : r \in W(kind) <=> \E a \in Of(l) : a[1] = kind /\ a[2] = r
      OBVIOUS
    <3>2. CASE \E r : Of(l) = {<<"ro_read", r, l>>} \/ Of(l) = {<<"wo_written", r, l>>}
      BY <3>1, <3>2
    <3>3. CASE \E r1, r2 : Of(l) = {<<"intra_written", r1, l>>, <<"intra_read", r2, l>>}
      <4>1. PICK r1, r2 : Of(l) = {<<"intra_written", r1, l>>, <<"intra_read", r2, l>>}
        BY <3>3
      <4>2. /\ \A r : r \in W("intra_written") <=> r = r1
            /\ \A r : r \in W("intra_read") <=> r = r2
            /\ \A r : r \notin W("inter_written") /\ r \notin W("inter_read")
        BY <3>1, <4>1
      <4> HIDE DEF W
      <4> QED
        BY <4>2
    <3>4. CASE \E r1, r2 : Of(l) = {<<"inter_written", r1, l>>, <<"inter_read", r2, l>>}
      <4>1. PICK r1, r2 : Of(l) = {<<"inter_written", r1, l>>, <<"inter_read", r2, l>>}
        BY <3>4
      <4>2. /\ \A r : r \in W("inter_written") <=> r = r1
            /\ \A r : r \in W("inter_read") <=> r = r2
            /\ \A r : r \notin W("intra_written") /\ r \notin W("intra_read")
        BY <3>1, <4>1
      <4> HIDE DEF W
      <4> QED
        BY <4>2
    <3> QED
      BY <2>1, <3>2, <3>3, <3>4 DEF IsShape
  <2> QED
    BY <1>7, <1>8, <2>2
<1>9. LabelsPaired'
  BY <1>6, <1>8 DEF LabelsPaired
<1> QED
  BY <1>1, <1>9 DEF BInv, Phase, Generating, Late, Early, Placed, Imported

-----------------------------------------------------------------------------

LEMMA StutterBInv == ASSUME BInv, UNCHANGED bvars PROVE BInv'
<1>1. UNCHANGED <<phase, runnables, tasks, labels, todo, access, label_sizes>>
  BY DEF bvars
<1>2. \A l : /\ Shape(l)' <=> Shape(l)
             /\ Of(l)' = Of(l)
  BY <1>1 DEF Shape, IsShape, Of
<1>3. Grouped' <=> Grouped
  BY <1>1 DEF Grouped
<1>4. LabelsPaired'
  <2>1. \A kind, l : Who(kind, l)' = Who(kind, l)
    BY <1>1 DEF Who
  <2> QED
    BY <1>1, <2>1 DEF BInv, LabelsPaired
<1> QED
  BY <1>1, <1>2, <1>3, <1>4 DEF BInv, Placed, Imported, Dropped

LEMMA StepBInv == ASSUME BInv, BenchmarkStep PROVE BInv'
BY GenerateRunnableStep, RunnablesDoneStep, GenerateTaskStep, GenerateLabelsStep, MapLabelStep,
   SpinStep, MapInterTaskMsgStep, DeleteLabelStep, ExportImportStep, ResolveStep, TrimStep
   DEF BenchmarkStep

\* resolve_label_dependencies and trim_benchmark leave no label with half of its
\* readers and writers, whatever was generated and wherever they cut.
THEOREM GeneratedLabelsPaired == BenchmarkSpec => []LabelsPaired
<1>1. BInv /\ [BenchmarkStep]_bvars => BInv'
  BY StepBInv, StutterBInv
<1>2. BInv => LabelsPaired
  BY DEF BInv
<1> QED
  BY <1>1, <1>2, InitBInv, PTL DEF BenchmarkSpec

-----------------------------------------------------------------------------
(* Tasks and runnables.                                                    *)

\* Runnables that wait for a task.
Pending == IF phase = "tasks" THEN todo ELSE {}

\* One runnable, which may be as long as it likes, or half of the period.
Light(t) == (\E r \in t.runnables : t.runnables = {r}) \/ 2 * t.wcet <= get_min_period_ms(t.period_ms)

\* Every runnable that is not pending is in a task, and in one only.
Partitioned ==
  /\ \A k \in DOMAIN tasks :
       /\ tasks[k].runnables \subseteq DOMAIN runnables \ Pending
       /\ Light(tasks[k])
       /\ \A r \in tasks[k].runnables : runnables[r].period_ms = tasks[k].period_ms
  /\ \A r \in DOMAIN runnables \ Pending : \E k \in DOMAIN tasks : r \in tasks[k].runnables
  /\ \A j, k \in DOMAIN tasks : \A r \in tasks[j].runnables : r \in tasks[k].runnables => j = k

\* Only runnables access labels, and only labels that were generated.
Known ==
  /\ \A a \in access : a[2] \in DOMAIN runnables
  /\ phase \in {"labels", "spins"} => DOMAIN labels \subseteq LabelIds
  /\ label_sizes \subseteq LabelIds

PInv == (phase # "runnables" => Partitioned) /\ Known

LEMMA PartitionImplied == ASSUME PInv PROVE TasksPartition
<1> SUFFICES ASSUME phase \notin {"runnables", "tasks"}, NEW r \in DOMAIN runnables
             PROVE  \E k \in DOMAIN tasks :
                      /\ r \in tasks[k].runnables
                      /\ tasks[k].period_ms = runnables[r].period_ms
                      /\ tasks[k].runnables \subseteq DOMAIN runnables
                      /\ tasks[k].runnables = {r} \/ 2 * tasks[k].wcet <= get_min_period_ms(tasks[k].period_ms)
                      /\ \A j \in DOMAIN tasks : r \in tasks[j].runnables => j = k
  BY DEF TasksPartition
<1>1. Partitioned /\ Pending = {}
  BY DEF PInv, Pending
<1>2. PICK k \in DOMAIN tasks : r \in tasks[k].runnables
  BY <1>1 DEF Partitioned
<1>3. tasks[k].runnables = {r} \/ 2 * tasks[k].wcet <= get_min_period_ms(tasks[k].period_ms)
  BY <1>1, <1>2 DEF Partitioned, Light
<1>4. \A j \in DOMAIN tasks : r \in tasks[j].runnables => j = k
  BY <1>1, <1>2 DEF Partitioned
<1> QED BY <1>1, <1>2, <1>3, <1>4 DEF Partitioned

LEMMA InitPInv == BenchmarkInit => PInv
BY DEF BenchmarkInit, PInv, Known

\* The runnable goes into the last task or into one of its own.
LEMMA GenerateTaskPartition ==
  ASSUME BInv, PInv, NEW r \in DOMAIN runnables, GenerateTask(r)
  PROVE  Partitioned'
<1> DEFINE n == Len(tasks)
           last == tasks[n]
           joined == [period_ms |-> runnables[r].period_ms, wcet |-> last.wcet + runnables[r].wcet,
                      runnables |-> last.runnables \cup {r}]
           alone == [period_ms |-> runnables[r].period_ms, wcet |-> runnables[r].wcet, runnables |-> {r}]
<1>1. /\ runnables \in Seq(RunnableRecord) /\ tasks \in Seq(TaskRecord) /\ Partitioned
      /\ phase = "tasks" /\ phase' = "tasks" /\ UNCHANGED runnables /\ r \in todo /\ todo' = todo \ {r}
  BY DEF BInv, PInv, Late, GenerateTask
<1>2. Pending = todo /\ Pending' = todo \ {r} /\ \A k \in DOMAIN tasks : r \notin tasks[k].runnables
  BY <1>1 DEF Pending, Partitioned
<1>3. CASE /\ tasks # <<>> /\ last.period_ms = runnables[r].period_ms
           /\ does_runnable_fit(last, r)
           /\ tasks' = [tasks EXCEPT ![n] = joined]
  <2>1. n \in DOMAIN tasks /\ DOMAIN tasks' = DOMAIN tasks
    BY <1>1, <1>3, LenProperties, EmptySeq
  <2>2. tasks'[n] = joined /\ \A k \in DOMAIN tasks : k # n => tasks'[k] = tasks[k]
    BY <1>3, <2>1
  <2>3. Light(joined)
    BY <1>3 DEF Light, does_runnable_fit
  <2>4. /\ joined.runnables = last.runnables \cup {r} /\ joined.period_ms = runnables[r].period_ms
        /\ last.runnables \subseteq DOMAIN runnables \ todo
        /\ \A q \in last.runnables : runnables[q].period_ms = last.period_ms
    BY <1>1, <1>2, <2>1 DEF Partitioned
  <2>5. ASSUME NEW k \in DOMAIN tasks
        PROVE  /\ tasks'[k].runnables \subseteq DOMAIN runnables \ (todo \ {r})
               /\ Light(tasks'[k])
               /\ \A q \in tasks'[k].runnables : runnables[q].period_ms = tasks'[k].period_ms
    <3>1. CASE k = n
      <4> HIDE DEF joined
      <4> QED BY <1>3, <2>2, <2>3, <2>4, <3>1
    <3>2. CASE k # n
      <4>1. tasks'[k] = tasks[k]
        BY <2>2, <3>2
      <4> QED BY <1>1, <1>2, <4>1 DEF Partitioned
    <3> QED BY <3>1, <3>2
  <2>6. \A k \in DOMAIN tasks : \A q : q \in tasks'[k].runnables <=> q \in tasks[k].runnables \/ (k = n /\ q = r)
    <3> HIDE DEF joined
    <3> QED BY <2>2, <2>4
  <2>7. ASSUME NEW q \in DOMAIN runnables \ (todo \ {r})
        PROVE  \E k \in DOMAIN tasks : q \in tasks'[k].runnables
    <3>1. CASE q = r
      BY <2>1, <2>6, <3>1
    <3>2. CASE q # r
      BY <1>1, <1>2, <2>6, <3>2 DEF Partitioned
    <3> QED BY <3>1, <3>2
  <2>8. ASSUME NEW j \in DOMAIN tasks, NEW k \in DOMAIN tasks, NEW q \in tasks'[j].runnables, q \in tasks'[k].runnables
        PROVE  j = k
    BY <1>1, <1>2, <2>6, <2>8 DEF Partitioned
  <2>9. \A t : Light(t)' <=> Light(t)
    BY DEF Light, get_min_period_ms
  <2> HIDE DEF joined, n
  <2> QED BY <1>1, <1>2, <2>1, <2>5, <2>7, <2>8, <2>9 DEF Partitioned, Light, get_min_period_ms
<1>4. CASE tasks' = Append(tasks, alone)
  <2>1. /\ n \in Nat /\ DOMAIN tasks = 1..n /\ DOMAIN tasks' = 1..(n + 1)
        /\ tasks'[n + 1] = alone /\ \A k \in 1..n : tasks'[k] = tasks[k]
    BY <1>1, <1>4, LenProperties, AppendProperties
  <2>2. alone.runnables = {r} /\ alone.period_ms = runnables[r].period_ms
    OBVIOUS
  <2> HIDE DEF n, alone
  <2>3. \A k \in 1..(n + 1) : k \in 1..n \/ k = n + 1
    BY <2>1
  <2>4. n + 1 \in 1..(n + 1) /\ n + 1 \notin 1..n /\ 1..n \subseteq 1..(n + 1)
    BY <2>1
  <2>5. ASSUME NEW k \in 1..(n + 1)
        PROVE  /\ tasks'[k].runnables \subseteq DOMAIN runnables \ (todo \ {r})
               /\ Light(tasks'[k])
               /\ \A q \in tasks'[k].runnables : runnables[q].period_ms = tasks'[k].period_ms
    <3>1. CASE k = n + 1
      BY <1>1, <2>1, <2>2, <3>1 DEF Light
    <3>2. CASE k \in 1..n
      BY <1>1, <1>2, <2>1, <3>2 DEF Partitioned
    <3> QED BY <2>3, <3>1, <3>2
  <2>6. ASSUME NEW q \in DOMAIN runnables \ (todo \ {r})
        PROVE  \E k \in 1..(n + 1) : q \in tasks'[k].runnables
    <3>1. CASE q = r
      BY <2>1, <2>2, <2>4, <3>1
    <3>2. CASE q # r
      <4>1. PICK k \in 1..n : q \in tasks[k].runnables
        BY <1>1, <1>2, <2>1, <3>2 DEF Partitioned
      <4> QED BY <2>1, <2>4, <4>1
    <3> QED BY <3>1, <3>2
  <2>7. ASSUME NEW j \in 1..(n + 1), NEW k \in 1..(n + 1), NEW q \in tasks'[j].runnables, q \in tasks'[k].runnables
        PROVE  j = k
    <3>1. CASE j \in 1..n /\ k \in 1..n
      BY <1>1, <2>1, <2>7, <3>1 DEF Partitioned
    <3>2. CASE j = n + 1 /\ k \in 1..n
      BY <1>2, <2>1, <2>2, <2>7, <3>2
    <3>3. CASE k = n + 1 /\ j \in 1..n
      BY <1>2, <2>1, <2>2, <2>7, <3>3
    <3> QED BY <2>3, <3>1, <3>2, <3>3
  <2> QED BY <1>1, <1>2, <2>1, <2>5, <2>6, <2>7 DEF Partitioned, Light, get_min_period_ms
<1> QED BY <1>3, <1>4 DEF GenerateTask

LEMMA ExportImportPartition ==
  ASSUME BInv, PInv, ExportImport
  PROVE  Partitioned'
<1>1. /\ phase = "labels" /\ phase' = "imported" /\ Partitioned
      /\ tasks \in Seq(TaskRecord) /\ runnables \in Seq(RunnableRecord)
      /\ DOMAIN runnables' = DOMAIN runnables /\ DOMAIN tasks' = DOMAIN tasks
      /\ \A r \in DOMAIN runnables : runnables'[r] = [period_ms |-> get_min_period_ms(runnables[r].period_ms), wcet |-> 0]
      /\ \A k \in DOMAIN tasks : tasks'[k] = [tasks[k] EXCEPT !.period_ms = get_min_period_ms(@), !.wcet = 0]
  BY DEF BInv, PInv, Late, ExportImport
<1>2. Pending = {} /\ Pending' = {}
  BY <1>1 DEF Pending
<1>3. ASSUME NEW k \in DOMAIN tasks
      PROVE  /\ tasks'[k].runnables = tasks[k].runnables
             /\ tasks'[k].period_ms = get_min_period_ms(tasks[k].period_ms)
             /\ Light(tasks'[k])
  <2>1. tasks[k] \in TaskRecord
    BY <1>1, SeqElement
  <2>2. /\ tasks'[k].runnables = tasks[k].runnables /\ tasks'[k].wcet = 0
        /\ tasks'[k].period_ms = get_min_period_ms(tasks[k].period_ms) /\ tasks[k].period_ms \in Nat
    BY <1>1, <2>1 DEF TaskRecord
  <2>3. 2 * tasks'[k].wcet <= get_min_period_ms(tasks'[k].period_ms)
    BY <2>2 DEF get_min_period_ms
  <2> QED BY <2>2, <2>3 DEF Light
<1>4. ASSUME NEW r \in DOMAIN runnables
      PROVE  runnables'[r].period_ms = get_min_period_ms(runnables[r].period_ms)
  <2>1. runnables'[r] = [period_ms |-> get_min_period_ms(runnables[r].period_ms), wcet |-> 0]
    BY <1>1
  <2>2. \A x : [period_ms |-> x, wcet |-> 0].period_ms = x
    OBVIOUS
  <2> QED BY <2>1, <2>2
<1>5. ASSUME NEW k \in DOMAIN tasks
      PROVE  /\ tasks'[k].runnables \subseteq DOMAIN runnables
             /\ Light(tasks'[k])
             /\ \A r \in tasks'[k].runnables : runnables'[r].period_ms = tasks'[k].period_ms
  <2>1. tasks[k].runnables \subseteq DOMAIN runnables /\ \A r \in tasks[k].runnables : runnables[r].period_ms = tasks[k].period_ms
    BY <1>1 DEF Partitioned
  <2>2. ASSUME NEW r \in tasks[k].runnables PROVE runnables'[r].period_ms = tasks'[k].period_ms
    <3>1. runnables[r].period_ms = tasks[k].period_ms /\ r \in DOMAIN runnables
      BY <2>1
    <3>2. runnables'[r].period_ms = get_min_period_ms(runnables[r].period_ms)
      BY <1>4, <3>1
    <3>3. tasks'[k].period_ms = get_min_period_ms(tasks[k].period_ms)
      BY <1>3
    <3> QED BY <3>1, <3>2, <3>3
  <2> QED BY <1>3, <2>1, <2>2
<1>6. \A r \in DOMAIN runnables : \E k \in DOMAIN tasks : r \in tasks'[k].runnables
  BY <1>1, <1>2, <1>3 DEF Partitioned
<1>7. \A j, k \in DOMAIN tasks : \A r \in tasks'[j].runnables : r \in tasks'[k].runnables => j = k
  BY <1>1, <1>3 DEF Partitioned
<1>8. DOMAIN runnables' \ Pending' = DOMAIN runnables
  BY <1>1, <1>2
<1> QED BY <1>1, <1>5, <1>6, <1>7, <1>8 DEF Partitioned, Light, get_min_period_ms

\* A task is trimmed exactly with its runnables.
LEMMA TrimPartition ==
  ASSUME BInv, PInv, TrimBenchmark
  PROVE  Partitioned' /\ Known'
<1> DEFINE T == {k \in DOMAIN tasks : tasks[k].period_ms >= smallest_period_ms}
           R == {r \in DOMAIN runnables : ~Dropped(r)}
<1>1. /\ phase = "resolved" /\ phase' = "trimmed" /\ Partitioned /\ Known /\ label_sizes' = label_sizes
      /\ runnables \in Seq(RunnableRecord)
      /\ DOMAIN tasks' = T /\ \A k \in T : tasks'[k] = tasks[k]
      /\ DOMAIN runnables' = R /\ \A r \in R : runnables'[r] = runnables[r]
      /\ access' = {a \in access : ~Dropped(a[2])}
  BY DEF BInv, PInv, Late, TrimBenchmark
<1>2. Pending = {} /\ Pending' = {}
  BY <1>1 DEF Pending
<1>3. ASSUME NEW k \in DOMAIN tasks, NEW r \in tasks[k].runnables
      PROVE  r \in DOMAIN runnables /\ (k \in T <=> r \in R)
  <2>1. r \in DOMAIN runnables /\ runnables[r].period_ms = tasks[k].period_ms
    BY <1>1 DEF Partitioned
  <2>2. runnables[r].period_ms \in Nat
    BY <1>1, <2>1, RunnableElement
  <2> QED BY <2>1, <2>2, BenchmarkAssumption DEF Dropped
<1> HIDE DEF T
<1>4. T \subseteq DOMAIN tasks
  BY DEF T
<1>5. ASSUME NEW k \in T
      PROVE  /\ tasks'[k].runnables \subseteq R
             /\ Light(tasks'[k])
             /\ \A r \in tasks'[k].runnables : runnables'[r].period_ms = tasks'[k].period_ms
  <2>1. tasks'[k] = tasks[k] /\ Light(tasks[k]) /\ \A r \in tasks[k].runnables : runnables[r].period_ms = tasks[k].period_ms
    BY <1>1, <1>4 DEF Partitioned
  <2>2. tasks[k].runnables \subseteq R
    BY <1>3, <1>4
  <2> HIDE DEF R
  <2> QED BY <1>1, <2>1, <2>2
<1>6. ASSUME NEW r \in R PROVE \E k \in T : r \in tasks'[k].runnables
  <2>1. PICK k \in DOMAIN tasks : r \in tasks[k].runnables
    BY <1>1, <1>2 DEF Partitioned
  <2> QED BY <1>1, <1>3, <2>1
<1>7. \A j, k \in T : \A r \in tasks'[j].runnables : r \in tasks'[k].runnables => j = k
  BY <1>1, <1>4 DEF Partitioned
<1>8. Known'
  BY <1>1 DEF Known
<1> HIDE DEF R
<1> QED BY <1>1, <1>2, <1>5, <1>6, <1>7, <1>8 DEF Partitioned, Light, get_min_period_ms

LEMMA StepPInv == ASSUME BInv, PInv, BenchmarkStep PROVE PInv'
<1>1. ASSUME NEW w \in Wcets, GenerateRunnable(w) PROVE PInv'
  <2>1. access = {} /\ phase = "runnables"
    BY <1>1 DEF GenerateRunnable, BInv, Placed, Early
  <2> QED BY <1>1, <2>1 DEF GenerateRunnable, PInv, Known
<1>2. CASE RunnablesDone
  <2>1. tasks' = <<>> /\ phase' = "tasks" /\ todo' = DOMAIN runnables /\ UNCHANGED <<runnables, access, label_sizes>>
    BY <1>2 DEF RunnablesDone, BInv
  <2>2. Partitioned'
    BY <2>1 DEF Partitioned, Pending
  <2> QED BY <2>1, <2>2 DEF PInv, Known
<1>3. ASSUME NEW r \in DOMAIN runnables, GenerateTask(r) PROVE PInv'
  <2>1. Partitioned'
    BY <1>3, GenerateTaskPartition
  <2> QED BY <1>3, <2>1 DEF PInv, Known, GenerateTask
<1>4. CASE GenerateLabels
  <2>1. Partitioned'
    BY <1>4 DEF GenerateLabels, PInv, Partitioned, Pending, Light, get_min_period_ms
  <2>2. Known'
    BY <1>4 DEF GenerateLabels, PInv, Known
  <2> QED BY <2>1, <2>2 DEF PInv
<1>5. ASSUME NEW l \in todo, MapLabel(l) \/ Spin(l) \/ MapInterTaskMsg(l) \/ DeleteLabel(l) PROVE PInv'
  <2>0. /\ phase = "labels" /\ phase' \in {"labels", "spins"} /\ UNCHANGED <<runnables, tasks, label_sizes>>
        /\ DOMAIN labels' \subseteq DOMAIN labels
    BY <1>5 DEF MapLabel, Spin, MapInterTaskMsg, DeleteLabel, AtLabel, AtInterTaskMsg
  <2>1. Partitioned'
    BY <2>0 DEF PInv, Partitioned, Pending, Light, get_min_period_ms
  <2>2. \A a \in access' : a \in access \/ a[2] \in DOMAIN runnables
    <3>1. CASE MapLabel(l)
      <4>1. labels[l] \in {"ro", "wo", "fwd", "bwd"}
        BY <3>1 DEF BInv, Placed, MapLabel, AtLabel, LabelKind
      <4>2. \A q \in intra_pairs : q[1] \in DOMAIN runnables /\ q[2] \in DOMAIN runnables
        BY <2>0 DEF intra_pairs, BInv, Late, Grouped
      <4>3. PICK new \in Placements(l) : access' = access \cup new
        BY <3>1 DEF MapLabel
      <4>4. \A a \in new : a[2] \in DOMAIN runnables
        BY <4>1, <4>2 DEF Placements
      <4> QED BY <4>3, <4>4
    <3>2. CASE MapInterTaskMsg(l)
      BY <3>2 DEF MapInterTaskMsg, p_to_r
    <3> QED BY <1>5, <3>1, <3>2 DEF Spin, DeleteLabel
  <2> QED BY <2>0, <2>1, <2>2 DEF PInv, Known
<1>6. CASE ExportImport
  <2>1. Partitioned'
    BY <1>6, ExportImportPartition
  <2>2. Known'
    BY <1>6 DEF ExportImport, PInv, Known
  <2> QED BY <2>1, <2>2 DEF PInv
<1>7. CASE ResolveLabelDependencies
  <2>1. Partitioned'
    BY <1>7 DEF ResolveLabelDependencies, PInv, Partitioned, Pending, Light, get_min_period_ms
  <2>2. Known'
    BY <1>7 DEF ResolveLabelDependencies, PInv, Known
  <2> QED BY <2>1, <2>2 DEF PInv
<1>8. CASE TrimBenchmark
  BY <1>8, TrimPartition DEF PInv
<1> QED BY <1>1, <1>2, <1>3, <1>4, <1>5, <1>6, <1>7, <1>8 DEF BenchmarkStep

\* Tasks, runnables, accesses and labels alone matter to it.
LEMMA KeptPInv ==
  ASSUME PInv, UNCHANGED <<runnables, tasks, labels, todo, access, label_sizes>>,
         phase' = phase \/ (phase \in Late /\ phase' \in Late)
  PROVE  PInv'
<1>1. phase' # "runnables" => Partitioned'
  BY DEF PInv, Partitioned, Pending, Light, get_min_period_ms, Late
<1>2. Known'
  BY DEF PInv, Known, Late
<1> QED BY <1>1, <1>2 DEF PInv

\* Every runnable is in exactly one task, of its own period and with at most half
\* of it taken, through merging, export, import and trimming: the driver never
\* drops a task without its runnables or a runnable without its task.
THEOREM GeneratedTasksPartition == BenchmarkSpec => []TasksPartition
<1>1. BInv /\ PInv /\ [BenchmarkStep]_bvars => BInv' /\ PInv'
  BY StepBInv, StutterBInv, StepPInv, KeptPInv DEF bvars
<1>2. PInv => TasksPartition
  BY PartitionImplied
<1> QED BY <1>1, <1>2, InitBInv, InitPInv, PTL DEF BenchmarkSpec

-----------------------------------------------------------------------------
(* Types, and who writes a label.                                          *)

NewTask == [period_ms : Nat, wcet : Nat, runnables : SUBSET (1..max)]

\* How far the loops of the generator are.
Counted ==
  /\ max \in Nat \ {0} /\ idx \in Nat /\ counter \in 0..max
  /\ DOMAIN runnables \subseteq 1..max /\ DOMAIN tasks \subseteq 1..max
  /\ phase = "runnables" => counter <= Len(runnables)
  /\ phase = "tasks" => \E n \in 0..max : todo = (n + 1)..max /\ Len(tasks) <= n

Typed ==
  /\ runnables \in [DOMAIN runnables -> RunnableRecord]
  /\ tasks \in [DOMAIN tasks -> NewTask]
  /\ access \subseteq (Reading \cup Writing) \X (1..max) \X LabelIds

\* A task publishes what it writes and, so that it finds it again, what is
\* constant: the lists its job ends with.
Published == {"wo_written", "inter_written", "intra_written", "ro_read"}

\* No label is published by two runnables, and the tasks that are left have long
\* periods.
OneWriter == \A a, b \in access : a[1] \in Published /\ b[1] \in Published /\ a[3] = b[3] => a[2] = b[2]

Trimmed == phase \in Late => OneWriter /\ \A k \in DOMAIN tasks : tasks[k].period_ms >= smallest_period_ms

GInv == Counted /\ Typed /\ Trimmed

LEMMA InitGInv == BenchmarkInit => GInv
<1> SUFFICES ASSUME BenchmarkInit PROVE GInv
  OBVIOUS
<1>1. max \in Nat \ {0}
  BY BenchmarkAssumption DEF BenchmarkInit
<1>2. DOMAIN <<>> = {} /\ Len(<<>>) = 0
  OBVIOUS
<1>3. Counted
  BY <1>1, <1>2 DEF BenchmarkInit, Counted
<1>4. Typed
  BY <1>2 DEF BenchmarkInit, Typed
<1> QED BY <1>3, <1>4 DEF BenchmarkInit, GInv, Trimmed, Late

\* Everything but the phase stays.
LEMMA KeptGInv ==
  ASSUME GInv, UNCHANGED <<idx, counter, max, runnables, tasks, todo, access>>,
         phase' = phase \/ (phase \in Late /\ phase' \in Late) \/ phase' = "spins"
  PROVE  GInv'
<1>1. Counted'
  BY DEF GInv, Counted, Late
<1>2. Typed'
  BY DEF GInv, Typed, NewTask
<1> QED BY <1>1, <1>2 DEF GInv, Trimmed, OneWriter, Late

LEMMA GenerateRunnableG ==
  ASSUME BInv, GInv, NEW w \in Wcets, GenerateRunnable(w)
  PROVE  GInv'
<1>1. /\ phase = "runnables" /\ phase' = "runnables" /\ runnables \in Seq(RunnableRecord) /\ idx \in DOMAIN periods_ms
      /\ Len(runnables) < max /\ UNCHANGED <<max, tasks, todo, access>>
      /\ runnables' = Append(runnables, [period_ms |-> periods_ms[idx], wcet |-> w])
      /\ idx' \in {idx, idx + 1} /\ counter' \in {0, counter + 1}
  BY DEF GenerateRunnable, BInv, Late
<1>2. [period_ms |-> periods_ms[idx], wcet |-> w] \in RunnableRecord
  <2>1. periods_ms[idx] \in Nat
    BY <1>1, BenchmarkAssumption, SeqElement
  <2> QED BY <2>1, BenchmarkAssumption DEF RunnableRecord
<1>3. /\ runnables' \in Seq(RunnableRecord) /\ Len(runnables') = Len(runnables) + 1
      /\ Len(runnables) \in Nat /\ DOMAIN runnables' = 1..Len(runnables')
  BY <1>1, <1>2, AppendProperties, LenProperties
<1>4. Counted'
  <2>1. max \in Nat \ {0} /\ idx \in Nat /\ counter \in 0..max /\ counter <= Len(runnables) /\ DOMAIN tasks \subseteq 1..max
    BY <1>1 DEF GInv, Counted
  <2>2. counter' \in 0..max /\ counter' <= Len(runnables') /\ DOMAIN runnables' \subseteq 1..max /\ idx' \in Nat
    BY <1>1, <1>3, <2>1
  <2> QED BY <1>1, <2>1, <2>2 DEF Counted
<1>5. Typed'
  <2>1. \A r \in DOMAIN runnables' : runnables'[r] \in RunnableRecord
    BY <1>3, SeqElement
  <2>2. runnables' \in [DOMAIN runnables' -> RunnableRecord]
    BY <1>3, <2>1
  <2> QED BY <1>1, <2>2 DEF GInv, Typed, NewTask
<1> QED BY <1>1, <1>4, <1>5 DEF GInv, Trimmed, Late

LEMMA RunnablesDoneG == ASSUME BInv, GInv, RunnablesDone PROVE GInv'
<1>1. /\ phase = "runnables" /\ phase' = "tasks" /\ runnables \in Seq(RunnableRecord) /\ tasks = <<>>
      /\ Len(runnables) = max /\ todo' = DOMAIN runnables /\ UNCHANGED <<idx, counter, max, runnables, tasks, access>>
  BY DEF RunnablesDone, BInv, Late
<1>2. DOMAIN runnables = 1..max /\ Len(tasks) = 0 /\ max \in Nat
  BY <1>1, LenProperties
<1>3. todo' = (0 + 1)..max' /\ Len(tasks') <= 0 /\ 0 \in 0..max'
  BY <1>1, <1>2
<1>4. Counted'
  BY <1>1, <1>3 DEF GInv, Counted
<1> QED BY <1>1, <1>4 DEF GInv, Typed, NewTask, Trimmed, Late

LEMMA GenerateTaskG ==
  ASSUME BInv, GInv, NEW r \in DOMAIN runnables, GenerateTask(r)
  PROVE  GInv'
<1>1. /\ phase = "tasks" /\ phase' = "tasks" /\ runnables \in Seq(RunnableRecord) /\ tasks \in Seq(TaskRecord)
      /\ r \in todo /\ (\A q \in todo : r <= q) /\ todo' = todo \ {r} /\ UNCHANGED <<idx, counter, max, runnables, access>>
  BY DEF GenerateTask, BInv, Late
<1>2. max \in Nat \ {0} /\ DOMAIN runnables \subseteq 1..max /\ DOMAIN tasks \subseteq 1..max
  BY DEF GInv, Counted
<1>3. PICK n \in 0..max : todo = (n + 1)..max /\ Len(tasks) <= n
  BY <1>1 DEF GInv, Counted
<1>4. r = n + 1 /\ n + 1 \in 1..max
  <2>1. n \in Nat /\ max \in Nat /\ r \in Nat /\ n + 1 <= r /\ r <= max
    BY <1>1, <1>2, <1>3
  <2>2. n + 1 \in todo
    BY <1>3, <2>1
  <2>3. r <= n + 1
    BY <1>1, <2>2
  <2> QED BY <2>1, <2>3
<1>5. todo' = ((n + 1) + 1)..max
  BY <1>1, <1>2, <1>3, <1>4
<1>6. runnables[r].period_ms \in Nat /\ runnables[r].wcet \in Nat
  BY <1>1, RunnableElement
<1> DEFINE last == tasks[Len(tasks)]
           joined == [period_ms |-> runnables[r].period_ms, wcet |-> last.wcet + runnables[r].wcet,
                      runnables |-> last.runnables \cup {r}]
           alone == [period_ms |-> runnables[r].period_ms, wcet |-> runnables[r].wcet, runnables |-> {r}]
<1>7. \/ tasks # <<>> /\ tasks' = [tasks EXCEPT ![Len(tasks)] = joined]
      \/ tasks' = Append(tasks, alone)
  BY DEF GenerateTask
<1>8. Len(tasks) \in Nat /\ DOMAIN tasks = 1..Len(tasks) /\ tasks \in [DOMAIN tasks -> NewTask]
  BY <1>1, LenProperties DEF GInv, Typed
<1>9. alone \in NewTask
  BY <1>2, <1>6 DEF NewTask
<1>10. CASE tasks # <<>> /\ tasks' = [tasks EXCEPT ![Len(tasks)] = joined]
  <2>1. Len(tasks) \in DOMAIN tasks
    BY <1>1, <1>8, <1>10, EmptySeq
  <2>2. last \in NewTask
    BY <1>8, <2>1
  <2>3. joined \in NewTask
    BY <1>2, <1>6, <2>2 DEF NewTask
  <2> HIDE DEF joined
  <2>4. DOMAIN tasks' = DOMAIN tasks /\ tasks' \in [DOMAIN tasks -> NewTask]
    BY <1>8, <1>10, <2>1, <2>3
  <2>5. tasks' \in Seq(NewTask) /\ Len(tasks') = Len(tasks)
    BY <1>8, <2>4, LenProperties, IsASeq
  <2>6. Counted'
    BY <1>1, <1>2, <1>3, <1>4, <1>5, <1>8, <2>4, <2>5 DEF GInv, Counted
  <2>7. Typed'
    BY <1>1, <2>4 DEF GInv, Typed, NewTask
  <2> QED BY <1>1, <2>6, <2>7 DEF GInv, Trimmed, Late
<1>11. CASE tasks' = Append(tasks, alone)
  <2> HIDE DEF alone
  <2>0. tasks \in Seq(NewTask)
    BY <1>8, IsASeq
  <2>1. tasks' \in Seq(NewTask) /\ Len(tasks') = Len(tasks) + 1
    BY <1>9, <1>11, <2>0, AppendProperties
  <2>2. DOMAIN tasks' = 1..(Len(tasks) + 1) /\ tasks' \in [DOMAIN tasks' -> NewTask]
    BY <2>1, LenProperties
  <2>3. Len(tasks') <= n + 1 /\ DOMAIN tasks' \subseteq 1..max
    BY <1>2, <1>3, <1>4, <1>8, <2>1, <2>2
  <2>4. Counted'
    BY <1>1, <1>2, <1>4, <1>5, <2>3 DEF GInv, Counted
  <2>5. Typed'
    BY <1>1, <2>2 DEF GInv, Typed, NewTask
  <2> QED BY <1>1, <2>4, <2>5 DEF GInv, Trimmed, Late
<1> QED BY <1>7, <1>10, <1>11

LEMMA LabelG ==
  ASSUME BInv, PInv, GInv, NEW l \in todo, MapLabel(l) \/ Spin(l) \/ MapInterTaskMsg(l) \/ DeleteLabel(l)
  PROVE  GInv'
<1>1. /\ phase = "labels" /\ phase' \in {"labels", "spins"} /\ UNCHANGED <<idx, counter, max, runnables, tasks>>
  BY DEF MapLabel, Spin, MapInterTaskMsg, DeleteLabel, AtLabel, AtInterTaskMsg
<1>2. l \in LabelIds
  BY <1>1 DEF BInv, Placed, PInv, Known
<1>3. DOMAIN runnables \subseteq 1..max
  BY DEF GInv, Counted
<1>4. \A a \in access' : a \in access \/ a \in (Reading \cup Writing) \X (1..max) \X LabelIds
  <2>1. CASE MapLabel(l)
    <3>1. labels[l] \in {"ro", "wo", "fwd", "bwd"}
      BY <2>1 DEF BInv, Placed, MapLabel, AtLabel, LabelKind
    <3>2. \A q \in intra_pairs : q[1] \in 1..max /\ q[2] \in 1..max
      BY <1>1, <1>3 DEF intra_pairs, BInv, Late, Grouped
    <3>3. PICK new \in Placements(l) : access' = access \cup new
      BY <2>1 DEF MapLabel
    <3>4. \A a \in new : a \in (Reading \cup Writing) \X (1..max) \X LabelIds
      BY <1>2, <1>3, <3>1, <3>2 DEF Placements, Reading, Writing
    <3> QED BY <3>3, <3>4
  <2>2. CASE MapInterTaskMsg(l)
    BY <1>2, <1>3, <2>2 DEF MapInterTaskMsg, p_to_r, Reading, Writing
  <2> QED BY <2>1, <2>2 DEF Spin, DeleteLabel
<1>5. Counted'
  BY <1>1 DEF GInv, Counted
<1>6. Typed'
  BY <1>1, <1>4 DEF GInv, Typed, NewTask
<1> QED BY <1>1, <1>5, <1>6 DEF GInv, Trimmed, Late

LEMMA ExportImportG == ASSUME GInv, ExportImport PROVE GInv'
<1>1. /\ phase' = "imported" /\ idx' = 1 /\ counter' = 0 /\ UNCHANGED <<max, access>>
      /\ DOMAIN runnables' = DOMAIN runnables /\ DOMAIN tasks' = DOMAIN tasks
  BY DEF ExportImport
<1>2. Counted'
  BY <1>1 DEF GInv, Counted
<1>3. \A p \in Nat : get_min_period_ms(p) \in Nat
  BY DEF get_min_period_ms
<1>4. runnables' \in [DOMAIN runnables' -> RunnableRecord]
  BY <1>3 DEF ExportImport, GInv, Typed, RunnableRecord
<1>5. tasks' \in [DOMAIN tasks' -> NewTask]
  <2>1. ASSUME NEW k \in DOMAIN tasks
        PROVE  [tasks[k] EXCEPT !.period_ms = get_min_period_ms(@), !.wcet = 0] \in NewTask
    <3>1. tasks[k] \in NewTask
      BY DEF GInv, Typed
    <3>2. get_min_period_ms(tasks[k].period_ms) \in Nat
      BY <1>3, <3>1 DEF NewTask
    <3> QED BY <3>1, <3>2 DEF NewTask
  <2> QED BY <2>1 DEF ExportImport
<1>6. Typed'
  BY <1>1, <1>4, <1>5 DEF GInv, Typed, NewTask
<1> QED BY <1>1, <1>2, <1>6 DEF GInv, Trimmed, Late

\* A label that is left keeps the accesses it was given.
LEMMA TrimG == ASSUME BInv, GInv, TrimBenchmark PROVE GInv'
<1>1. /\ phase = "resolved" /\ phase' = "trimmed" /\ UNCHANGED <<idx, counter, max>>
      /\ access' = {a \in access : ~ Dropped(a[2])}
      /\ DOMAIN runnables' \subseteq DOMAIN runnables /\ DOMAIN tasks' \subseteq DOMAIN tasks
      /\ \A r \in DOMAIN runnables' : runnables'[r] = runnables[r]
      /\ \A k \in DOMAIN tasks' : tasks'[k] = tasks[k] /\ tasks[k].period_ms >= smallest_period_ms
  BY DEF TrimBenchmark
<1>2. Counted'
  BY <1>1 DEF GInv, Counted
<1>3. runnables' \in [DOMAIN runnables' -> RunnableRecord] /\ tasks' \in [DOMAIN tasks' -> NewTask]
  <2>1. \A r \in DOMAIN runnables' : runnables'[r] \in RunnableRecord
    BY <1>1 DEF GInv, Typed
  <2>2. \A k \in DOMAIN tasks' : tasks'[k] \in NewTask
    BY <1>1 DEF GInv, Typed
  <2> QED BY <2>1, <2>2 DEF TrimBenchmark
<1>4. Typed'
  BY <1>1, <1>3 DEF GInv, Typed, NewTask
<1>5. OneWriter'
  <2> SUFFICES ASSUME NEW a \in access', NEW b \in access', a[1] \in Published, b[1] \in Published, a[3] = b[3]
               PROVE  a[2] = b[2]
    BY DEF OneWriter
  <2>1. a \in access /\ b \in access /\ a[3] \in label_sizes
    BY <1>1 DEF BInv, Imported
  <2>2. IsShape(Of(a[3]), a[3]) /\ a \in Of(a[3]) /\ b \in Of(a[3])
    BY <1>1, <2>1 DEF BInv, Imported, Shape, Of
  <2> QED BY <2>2 DEF IsShape, Published
<1> QED BY <1>1, <1>2, <1>4, <1>5 DEF GInv, Trimmed

LEMMA StepGInv == ASSUME BInv, PInv, GInv, BenchmarkStep PROVE GInv'
<1>1. CASE GenerateLabels
  BY <1>1 DEF GenerateLabels, GInv, Counted, Typed, NewTask, Trimmed, Late
<1>2. CASE ResolveLabelDependencies
  BY <1>2 DEF ResolveLabelDependencies, GInv, Counted, Typed, NewTask, Trimmed, Late
<1> QED
  BY <1>1, <1>2, GenerateRunnableG, RunnablesDoneG, GenerateTaskG, LabelG, ExportImportG, TrimG DEF BenchmarkStep
=============================================================================
