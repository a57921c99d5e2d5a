--------------------------- MODULE IvpExperiment ----------------------------
(***************************************************************************)
(* The experiment exp/ivp1.cpp: every node starts a store and a replica of *)
(* the inverted pendulum task (inverted_pendulum_sim.cpp).                 *)
(*                                                                         *)
(* With BFTKVS the nodes first connect as in module Mesh; their store is   *)
(* module ReplicatedStore.  With RedisKVS2 every node has a server of its  *)
(* own: it writes to its own and reads from all, and constructing its      *)
(* store empties them.  With etcd the servers are one cluster.             *)
(*                                                                         *)
(* A replica reads the state of plant and controller from the store,       *)
(* computes, and writes it back for the next release.  All clocks are one. *)
(* Jobs may take any time; one that is not through before the next release *)
(* has slipped, and so has a replica that starts later than the others or  *)
(* crashes.                                                                *)
(***************************************************************************)
EXTENDS Mesh, ServerStore

CONSTANTS
  time_period,
  Delay,         \* from the construction to the release, 5 s in the code
  max_jobs,
  KvsTypes,      \* among "BFTKVS", "RedisKVS2" and "etcd"
  LateServers,   \* bound: servers that may come up after the first node starts
  LastStart,     \* bound: when the last node starts
  MaxTime,       \* bound: the clock
  MaxSlipped     \* bound: replicas that slip

ASSUME IvpAssumption ==
  /\ time_period \in Nat \ {0} /\ Delay \in Nat /\ max_jobs \in Nat
  /\ KvsTypes \subseteq {"BFTKVS", "RedisKVS2", "etcd"}
  /\ LastStart \in Nat /\ MaxTime \in Nat /\ MaxSlipped \in Nat
  /\ ttl >= 3 * time_period

\* One replica per node: the instances of the first CPU.
Replica == {e[1] : e \in Instance}

\* Of the 19 variables in the state one that every job changes and one that
\* none does.
Key == {"D:AP", "D:G"}

None == -1

VARIABLES
  kvs_type,
  use_simple_median,
  now,
  serving,    \* the servers that are up
  clients,    \* the servers a replica has a client for; null for the others
  bucket,     \* server -> key -> set of entries
  pc,         \* where a replica is in its job
  state,      \* state of the replica: key -> value
  release,    \* the release point it waits for or was released at
  published,  \* published_time + time_period: my_release_time when the job began
  num_jobs,
  inputs,     \* history: what it read in this job and in time, None if nothing
  slipped,    \* history: replicas that have missed a release
  written     \* history: entries the server was given since it was last emptied

ivars == <<kvs_type, use_simple_median, now, serving, clients, bucket, pc, state,
           release, published, num_jobs, inputs, slipped, written>>
vars == <<mvars, ivars>>

Nothing == [k \in Key |-> {}]
InitialState == [k \in Key |-> IF k = "D:AP" THEN 1 ELSE 10]

Init ==
  /\ MeshInit
  /\ kvs_type \in KvsTypes
  /\ use_simple_median \in BOOLEAN
  /\ now = 0
  /\ serving \in {Replica, Replica \ LateServers}
  /\ clients = [n \in Replica |-> {}]
  /\ bucket = [n \in Replica |-> Nothing]
  /\ pc = [n \in Replica |-> "off"]
  /\ state = [n \in Replica |-> InitialState]
  /\ release = [n \in Replica |-> 0]
  /\ published = [n \in Replica |-> 0]
  /\ num_jobs = [n \in Replica |-> 0]
  /\ inputs = [n \in Replica |-> [k \in Key |-> None]]
  /\ slipped = {}
  /\ written = [n \in Replica |-> Nothing]

\* PeriodicTimer::get_next_release and PeriodicTask::my_release_time, offset 0
next_release(t) == ((t \div time_period) + 1) * time_period
my_release_time == (now \div time_period) * time_period

-----------------------------------------------------------------------------
(* Start-up.                                                               *)

\* BFTKVS: the exchange begins where the mesh is complete.
ConnectMesh ==
  /\ kvs_type = "BFTKVS"
  /\ MeshNext
  /\ UNCHANGED ivars

StartServer(n) ==
  /\ kvs_type # "BFTKVS"
  /\ n \notin serving
  /\ serving' = serving \cup {n}
  /\ UNCHANGED <<mvars, kvs_type, use_simple_median, now, clients, bucket, pc, state,
                 release, published, num_jobs, inputs, slipped, written>>

\* Replicas that have started at another release than the one that comes next
\* for the first of them.
Released == {n \in Replica : pc[n] \notin {"off", "crashed"}}

\* get_redis_client: a server that answers is emptied, whoever uses it; one that
\* does not leaves a null pointer.
get_redis_clients(n) ==
  /\ clients' = [clients EXCEPT ![n] = serving]
  /\ bucket' = [s \in Replica |-> IF s \in serving THEN Nothing ELSE bucket[s]]
  /\ written' = [s \in Replica |-> IF s \in serving THEN Nothing ELSE written[s]]

\* get_etcd_client: nothing is emptied.
get_etcd_client(n) ==
  /\ clients' = [clients EXCEPT ![n] = Replica]
  /\ UNCHANGED <<bucket, written>>

\* Bound: no step makes more than MaxSlipped replicas late.
Bounded == slipped' = slipped \/ Cardinality(slipped') <= MaxSlipped

\* The constructors of the store and the task, and the release after Delay.
\* Without its own server the process ends in an assertion.
Start(n) ==
  /\ kvs_type # "BFTKVS"
  /\ pc[n] = "off" /\ now <= LastStart
  /\ IF n \in serving
       THEN /\ IF kvs_type = "etcd" THEN get_etcd_client(n) ELSE get_redis_clients(n)
            /\ pc' = [pc EXCEPT ![n] = "asleep"]
            /\ release' = [release EXCEPT ![n] = next_release(now + Delay)]
            /\ slipped' = slipped \cup {m \in {n} : \E o \in Released :
                                          num_jobs[o] > 0 \/ release[o] # release'[n]}
       ELSE /\ pc' = [pc EXCEPT ![n] = "crashed"]
            /\ slipped' = slipped \cup {n}
            /\ UNCHANGED <<clients, bucket, release, written>>
  /\ Bounded
  /\ UNCHANGED <<mvars, kvs_type, use_simple_median, now, serving, state, published,
                 num_jobs, inputs>>

-----------------------------------------------------------------------------
(* IvPSim::job                                                             *)

\* Variant: terminate() one job too late.
BeginJobTooOften(n) ==
  /\ pc[n] = "asleep" /\ num_jobs[n] <= max_jobs
  /\ now >= release[n]
  /\ published' = [published EXCEPT ![n] = my_release_time]
  /\ pc' = [pc EXCEPT ![n] = "read"]
  /\ inputs' = [inputs EXCEPT ![n] = [k \in Key |-> None]]
  /\ UNCHANGED <<mvars, kvs_type, use_simple_median, now, serving, clients, bucket, state,
                 release, num_jobs, slipped, written>>

BeginJob(n) ==
  /\ pc[n] = "asleep" /\ num_jobs[n] < max_jobs
  /\ now >= release[n]
  /\ published' = [published EXCEPT ![n] = my_release_time]
  /\ pc' = [pc EXCEPT ![n] = "read"]
  /\ inputs' = [inputs EXCEPT ![n] = [k \in Key |-> None]]
  /\ UNCHANGED <<mvars, kvs_type, use_simple_median, now, serving, clients, bucket, state,
                 release, num_jobs, slipped, written>>

\* try_read of RedisKVS2 and EtcdKVS: the candidates of all servers, fused.
try_read(n, k, no_earlier_than) ==
  LET Says(s) == due(bucket[s][k], no_earlier_than, now)
      votes == [s \in {s \in clients[n] : Says(s) # {}} |-> CHOOSE v \in Says(s) : TRUE]
  IN  IF no_earlier_than > now THEN {} ELSE fuse_redundant_values(votes, use_simple_median)

\* Variant: a read that fails clears the value.
read_cleared(old, values) == IF values = {} THEN 0 ELSE CHOOSE v \in values : TRUE

\* A value that cannot be read stays as the replica last computed it.
read_into(old, values) == IF values = {} THEN old ELSE CHOOSE v \in values : TRUE

\* The loop of reads; the first job reads nothing.  Reading through a null
\* client ends the process.
ReadState(n) ==
  LET values == [k \in Key |-> try_read(n, k, published[n] - time_period)]
      in_time == now < published[n] + time_period
  IN
  /\ pc[n] = "read"
  /\ CASE num_jobs[n] = 0 ->
            /\ pc' = [pc EXCEPT ![n] = "compute"]
            /\ UNCHANGED <<state, inputs, slipped>>
       [] num_jobs[n] > 0 /\ clients[n] # Replica ->
            /\ pc' = [pc EXCEPT ![n] = "crashed"]
            /\ slipped' = slipped \cup {n}
            /\ UNCHANGED <<state, inputs>>
       [] OTHER ->
            /\ state' = [state EXCEPT ![n] = [k \in Key |-> read_into(@[k], values[k])]]
            /\ inputs' = [inputs EXCEPT ![n] = [k \in Key |->
                            IF in_time /\ values[k] # {} THEN CHOOSE v \in values[k] : TRUE ELSE None]]
            /\ pc' = [pc EXCEPT ![n] = "compute"]
            /\ UNCHANGED slipped
  /\ UNCHANGED <<mvars, kvs_type, use_simple_median, now, serving, clients, bucket, release,
                 published, num_jobs, written>>

\* integrateForwardRungeKutta4 and compute_actr_cmds: a new state of what
\* changes, that depends on the old one.
Simulate(x) == [x EXCEPT !["D:AP"] = @ + 1]

\* try_write: into the own server, unless it is too late.
try_write(n, k, publish_time, v) ==
  IF publish_time <= now THEN bucket[n][k]
  ELSE IF kvs_type = "etcd" THEN etcd_set(bucket[n][k], v, publish_time, now)
  ELSE zadd(bucket[n][k], v, publish_time)

\* The rest of the job: compute, the loop of writes, num_jobs++; then the timer
\* is set.
WriteState(n) ==
  LET x == Simulate(state[n])
      publishing_time == published[n] + time_period
  IN
  /\ pc[n] = "compute"
  /\ state' = [state EXCEPT ![n] = x]
  /\ bucket' = [bucket EXCEPT ![n] = [k \in Key |-> try_write(n, k, publishing_time, x[k])]]
  /\ written' = [written EXCEPT ![n] = [k \in Key |->
                   @[k] \cup {[value |-> x[k], time |-> t] : t \in {publishing_time} \ 0..now}]]
  /\ pc' = [pc EXCEPT ![n] = "asleep"]
  /\ num_jobs' = [num_jobs EXCEPT ![n] = @ + 1]
  /\ release' = [release EXCEPT ![n] = next_release(now)]
  /\ UNCHANGED <<mvars, kvs_type, use_simple_median, now, serving, clients, published,
                 inputs, slipped>>

\* RedisKVS2::job on the own server; EtcdKVS::job does nothing.
CollectGarbage(n) ==
  /\ kvs_type = "RedisKVS2"
  /\ n \in Released
  /\ \E k \in Key : collect(bucket[n][k]) # bucket[n][k]
  /\ bucket' = [bucket EXCEPT ![n] = [k \in Key |-> collect(bucket[n][k])]]
  /\ UNCHANGED <<mvars, kvs_type, use_simple_median, now, serving, clients, pc, state,
                 release, published, num_jobs, inputs, slipped, written>>

\* The clock.
Tick ==
  /\ kvs_type # "BFTKVS"
  /\ now < MaxTime
  /\ now' = now + 1
  /\ slipped' = slipped \cup {n \in Released : num_jobs[n] < max_jobs /\ now' >= release[n] + time_period}
  /\ Bounded
  /\ UNCHANGED <<mvars, kvs_type, use_simple_median, serving, clients, bucket, pc, state,
                 release, published, num_jobs, inputs, written>>

Stop ==
  /\ IF kvs_type = "BFTKVS" THEN \A e \in Instance : at[e] = "connected" ELSE now = MaxTime
  /\ UNCHANGED vars

Next ==
  \/ ConnectMesh
  \/ Tick
  \/ Stop
  \/ \E n \in Replica :
       \/ StartServer(n) \/ Start(n)
       \/ BeginJob(n) \/ ReadState(n) \/ WriteState(n)
       \/ CollectGarbage(n)

Spec == Init /\ [][Next]_vars

\* A main that is not blocked goes on.
FairSpec == Spec /\ \A e \in Instance : WF_vars(kvs_type = "BFTKVS" /\ MeshStep(e) /\ UNCHANGED ivars)

-----------------------------------------------------------------------------
(* Properties.                                                             *)

\* Type invariant of both parts.
TypeOK ==
  /\ MeshTypeOK
  /\ kvs_type \in KvsTypes /\ use_simple_median \in BOOLEAN
  /\ now \in 0..MaxTime
  /\ serving \subseteq Replica /\ slipped \subseteq Replica
  /\ \A n \in Replica :
       /\ clients[n] \subseteq Replica
       /\ pc[n] \in {"off", "asleep", "read", "compute", "crashed"}
       /\ num_jobs[n] \in 0..max_jobs
       /\ DOMAIN state[n] = Key /\ Range(state[n]) \subseteq Nat
       /\ \A k \in Key : \A e \in bucket[n][k] : e.value \in Nat /\ e.time \in Nat

\* Replicas that read a key for the same release, each before the next one,
\* read the same value, whoever has already written, started, been collected or
\* crashed in between: what is published for later is not seen, and what is
\* seen was there before the release.
SameInputs ==
  \A m, n \in Replica, k \in Key :
    published[m] = published[n] /\ inputs[m][k] # None /\ inputs[n][k] # None =>
      inputs[m][k] = inputs[n][k]

\* Replicas that have never slipped are in the same state after the same number
\* of jobs, although the reads of some of them may have failed: one replica that
\* is late, restarts the servers' contents or crashes does not part the others.
Lockstep ==
  Cardinality(slipped) <= 1 =>
    \A m, n \in Released \ slipped :
      pc[m] = "asleep" /\ pc[n] = "asleep" /\ num_jobs[m] = num_jobs[n] => state[m] = state[n]

\* The timed register that try_read relies on: the newest entry that is due on
\* a server is the one that was written last for a time that has come, unless
\* the same value was written again for later (ZADD moves it).
Current ==
  \A n \in Replica, k \in Key : \A w \in written[n][k] :
    (w.time <= now /\ now < w.time + 2 * time_period
       /\ \A u \in written[n][k] : w.time < u.time => now < u.time /\ u.value # w.value)
      => due(bucket[n][k], w.time, now) = {w.value}

\* All processes of the experiment get past connecting and accepting although
\* each first connects to all others, in whatever order they start.
StartsUp == <>(kvs_type = "BFTKVS" => \A e \in Instance : at[e] = "connected")

=============================================================================
