-------------------------- MODULE ReplicatedStore ---------------------------
(***************************************************************************)
(* The key-value store of BFTKVS (bft_kvs.h) around the exchange: tasks    *)
(* write tuples into the unpublished node of their replica, a job proposes *)
(* the node, and every replica fuses the agreed vector of proposals into   *)
(* its store, which tasks read.                                            *)
(*                                                                         *)
(* The exchange is one step, Exchange, with the promise that module        *)
(* InteractiveConsistency states and EIGAgreement implements: all obeying  *)
(* replicas get the same vector, with the proposals of the obeying ones.   *)
(*                                                                         *)
(* Tasks have a higher fixed priority than the job of the store and run on *)
(* its core: a write is not interrupted by a job, but a job is by a write  *)
(* or a read, between any two of its statements: fusion is one step for    *)
(* each insertion.                                                         *)
(***************************************************************************)
EXTENDS Integers, Sequences, SequencesExt, FiniteSetsExt, Functions, TLC

CONSTANTS
  Replica,     \* the obeying processes
  Faulty,      \* the others
  max_rounds,
  Key, Value,  \* Value: numbers, what stod makes of the strings
  NT,          \* tuples of a node
  keep_n_values,
  Fusions,     \* among "default", "median" and "majority"
  MaxTime      \* bound: the clock, in periods

ASSUME StoreAssumption ==
  /\ Replica \cap Faulty = {} /\ Replica # {}
  /\ IsFiniteSet(Replica) /\ IsFiniteSet(Faulty)
  /\ Key # {} /\ Value # {} /\ Value \subseteq Nat
  /\ NT \in Nat \ {0} /\ keep_n_values \in Nat \ {0} /\ MaxTime \in Nat
  /\ max_rounds \in Nat \ {0}
  /\ Fusions \subseteq {"default", "median", "majority"}

Node == Replica \cup Faulty

\* The configurations in which the exchange keeps its promise, those of module
\* EIGAgreement.
ASSUME FaultBound ==
  /\ Cardinality(Faulty) < max_rounds
  /\ Cardinality(Node) >= 2 * Cardinality(Faulty) + max_rounds

Time == 0..(MaxTime + 1)

Tuple == [key : Key, time : Time, value : Value]

\* Double the values, so that a median of two of them is a number.
StoredValue == {v + w : v \in Value, w \in Value}

VARIABLES
  fuse_function,  \* set by update_fuse_function before the tasks start
  now,          \* get_time_now_ns, in periods
  unpublished,  \* of each replica
  root,         \* *tree.root(), the proposal
  stage,        \* where in job() a replica is
  vector,       \* the agreed vector of proposals
  store,        \* replica -> key -> time -> value, for the times in the bucket
  inserted,     \* replica -> the insertions it has made in this job
  honest,       \* history: tuples an obeying replica proposed
  committed     \* history: replica -> <<key, time>> -> value last inserted

vars == <<fuse_function, now, unpublished, root, stage, vector, store, inserted,
          honest, committed>>

EmptyBucket == [t \in {} |-> 0]

Init ==
  /\ fuse_function \in Fusions
  /\ now = 0
  /\ unpublished = [r \in Replica |-> <<>>]
  /\ root = [r \in Replica |-> <<>>]
  /\ stage = [r \in Replica |-> "idle"]
  /\ vector = [n \in Node |-> <<>>]
  /\ store = [r \in Replica |-> [k \in Key |-> EmptyBucket]]
  /\ inserted = [r \in Replica |-> {}]
  /\ honest = {}
  /\ committed = [r \in Replica |-> EmptyBucket]

-----------------------------------------------------------------------------
(* Tasks.                                                                  *)

\* try_write: publish_time must be in the future and there must be room.
try_write(r, k, publish_time, v) ==
  /\ publish_time > now
  /\ Len(unpublished[r]) < NT
  /\ unpublished' = [unpublished EXCEPT ![r] =
                       Append(@, [key |-> k, time |-> publish_time, value |-> v])]
  /\ UNCHANGED <<fuse_function, now, root, stage, vector, store, inserted, honest,
                 committed>>

\* Variant: the newest time alone is looked at.
try_read_newest(bucket, no_earlier_than) ==
  LET T == DOMAIN bucket IN
  IF no_earlier_than <= now /\ T # {} /\ Max(T) \in no_earlier_than..now
    THEN <<bucket[Max(T)]>>
    ELSE <<>>

\* The loop of try_read over a bucket, from the newest time on: the first time
\* that is not in the future, unless it is too old.
try_read(bucket, no_earlier_than) ==
  LET seen == {t \in DOMAIN bucket : t <= now \/ t < no_earlier_than} IN
  IF no_earlier_than <= now /\ seen # {} /\ Max(seen) >= no_earlier_than
    THEN <<bucket[Max(seen)]>>
    ELSE <<>>

-----------------------------------------------------------------------------
(* job()                                                                   *)

\* *tree.root() = unpublished
CopyRoot(r) ==
  /\ stage[r] = "idle"
  /\ root' = [root EXCEPT ![r] = unpublished[r]]
  /\ honest' = honest \cup Range(unpublished[r])
  /\ stage' = [stage EXCEPT ![r] = "copied"]
  /\ UNCHANGED <<fuse_function, now, unpublished, vector, store, inserted, committed>>

\* memset(&unpublished, 0, ...)
ClearUnpublished(r) ==
  /\ stage[r] = "copied"
  /\ unpublished' = [unpublished EXCEPT ![r] = <<>>]
  /\ stage' = [stage EXCEPT ![r] = "exchange"]
  /\ UNCHANGED <<fuse_function, now, root, vector, store, inserted, honest, committed>>

\* What a faulty process may bring everybody to believe that it proposed: a
\* node with more tuples than fit, none, or one.
Claim == {[i \in 1..(NT + 1) |-> CHOOSE t \in Tuple : TRUE], <<>>}
           \cup {<<t>> : t \in {u \in Tuple : u.time \in {now, now + 1}}}

Exchange(claims) ==
  /\ \A r \in Replica : stage[r] = "exchange"
  /\ vector' = [n \in Node |-> IF n \in Replica THEN root[n] ELSE claims[n]]
  /\ stage' = [r \in Replica |-> "fuse"]
  /\ UNCHANGED <<fuse_function, now, unpublished, root, store, inserted, honest, committed>>

-----------------------------------------------------------------------------
(* Fusion.                                                                 *)

\* f[x] = y, of a std::map.
Put(f, x, y) == [z \in DOMAIN f \cup {x} |-> IF z = x THEN y ELSE f[z]]

\* Variants: no limit; the oldest value goes before the new one comes.
insert_only(bucket, time, value) == Put(bucket, time, value)

insert_drop_first(bucket, time, value) ==
  IF Cardinality(DOMAIN bucket) >= keep_n_values
    THEN Put(Restrict(bucket, DOMAIN bucket \ {Min(DOMAIN bucket)}), time, value)
    ELSE Put(bucket, time, value)

\* bucket[time] = value, then the oldest value goes if there are too many.
insert(bucket, time, value) ==
  LET b == Put(bucket, time, value) IN
  IF Cardinality(DOMAIN b) > keep_n_values
    THEN Restrict(b, DOMAIN b \ {Min(DOMAIN b)})
    ELSE b

\* Variant: full nodes are ignored.
VotesOfShort(k, t) ==
  LET Says(n) == {i \in DOMAIN vector[n] : vector[n][i].key = k /\ vector[n][i].time = t}
      Voters == {n \in Node : Len(vector[n]) < NT /\ Says(n) # {}}
  IN  [n \in Voters |-> vector[n][Max(Says(n))].value]

\* map[key][time]: the last value of each process that gave one, of the nodes
\* with a plausible length.
Votes(k, t) ==
  LET Says(n) == {i \in DOMAIN vector[n] : vector[n][i].key = k /\ vector[n][i].time = t}
      Voters == {n \in Node : Len(vector[n]) <= NT /\ Says(n) # {}}
  IN  [n \in Voters |-> vector[n][Max(Says(n))].value]

\* Twice the mean of the two middle values.
Median(votes) ==
  LET n == Cardinality(DOMAIN votes)
      sorted == CHOOSE s \in SetToSeqs(DOMAIN votes) :
                  \A i \in 1..(n - 1) : votes[s[i]] <= votes[s[i + 1]]
  IN  votes[sorted[(n \div 2) + 1]] + votes[sorted[((n - 1) \div 2) + 1]]

\* Variant: no quorum.
median_of_any(k, t) ==
  LET votes == Votes(k, t) IN
  IF DOMAIN votes = {} THEN {} ELSE {Median(votes)}

\* The values to insert for key k and time t, none or one (twice the number).
median_of_doubles(k, t) ==
  LET votes == Votes(k, t) IN
  IF Cardinality(DOMAIN votes) < 3 THEN {} ELSE {Median(votes)}

strong_simple_majority_of_strings(k, t) ==
  LET votes == Votes(k, t) IN
  {2 * v : v \in {v \in Value :
     2 * Cardinality({n \in DOMAIN votes : votes[n] = v}) > Cardinality(Node)}}

fused(k, t) ==
  IF fuse_function = "median" THEN median_of_doubles(k, t)
                              ELSE strong_simple_majority_of_strings(k, t)

\* Variants: any proposal; one vote more than needed.
reduced_any ==
  LET winners == {vector[n] : n \in Node} \ {<<>>}
  IN  IF winners = {} THEN <<>> ELSE CHOOSE e \in winners : TRUE

reduced_strict ==
  LET count(e) == Cardinality({n \in Node : vector[n] = e})
      winners == {vector[n] : n \in {n \in Node :
                    count(vector[n]) > Cardinality(Node) - max_rounds + 1}}
  IN  IF winners = {} THEN <<>> ELSE CHOOSE e \in winners : TRUE

\* The root of the reduced tree: a node that more than degree - height
\* processes proposed, or the empty one.
reduced ==
  LET count(e) == Cardinality({n \in Node : vector[n] = e})
      winners == {vector[n] : n \in {n \in Node :
                    count(vector[n]) > Cardinality(Node) - max_rounds}}
  IN  IF winners = {} THEN <<>> ELSE CHOOSE e \in winners : TRUE

\* The insertions of one call.  The default takes the tuples of the root in
\* order; the others go through hash tables, in any order.
Insertions ==
  IF fuse_function = "default"
    THEN {[at |-> i, key |-> reduced[i].key, time |-> reduced[i].time, value |-> 2 * reduced[i].value] :
            i \in {i \in DOMAIN reduced : Len(reduced) <= NT}}
    ELSE UNION {{[at |-> 0, key |-> kt[1], time |-> kt[2], value |-> v] : v \in fused(kt[1], kt[2])} :
                  kt \in Key \X Time}

Left(r) == Insertions \ inserted[r]

\* One pass of the loop of a fusion.
Insert(r, e) ==
  /\ stage[r] = "fuse"
  /\ e \in Left(r) /\ \A f \in Left(r) : e.at <= f.at
  /\ store' = [store EXCEPT ![r][e.key] = insert(@, e.time, e.value)]
  /\ inserted' = [inserted EXCEPT ![r] = @ \cup {e}]
  /\ committed' = [committed EXCEPT ![r] = Put(@, <<e.key, e.time>>, e.value)]
  /\ UNCHANGED <<fuse_function, now, unpublished, root, stage, vector, honest>>

\* The rest of job(): clear, num_jobs++.  The proposals are kept for the
\* properties until the next release.
EndJob(r) ==
  /\ stage[r] = "fuse"
  /\ Left(r) = {}
  /\ stage' = [stage EXCEPT ![r] = "done"]
  /\ UNCHANGED <<fuse_function, now, unpublished, root, vector, store, inserted, honest,
                 committed>>

\* The next period.
Release ==
  /\ \A r \in Replica : stage[r] = "done"
  /\ now < MaxTime
  /\ now' = now + 1
  /\ stage' = [r \in Replica |-> "idle"]
  /\ root' = [r \in Replica |-> <<>>]
  /\ vector' = [n \in Node |-> <<>>]
  /\ inserted' = [r \in Replica |-> {}]
  /\ UNCHANGED <<fuse_function, unpublished, store, honest, committed>>

Stop == now = MaxTime /\ (\A r \in Replica : stage[r] = "done") /\ UNCHANGED vars

Next ==
  \/ \E r \in Replica : \/ \E k \in Key, t \in {now, now + 1}, v \in Value : try_write(r, k, t, v)
                        \/ CopyRoot(r)
                        \/ ClearUnpublished(r)
                        \/ \E e \in Insertions : Insert(r, e)
                        \/ EndJob(r)
  \/ \E claims \in [Faulty -> Claim] : Exchange(claims)
  \/ Release
  \/ Stop

Spec == Init /\ [][Next]_vars

-----------------------------------------------------------------------------
(* Properties.                                                             *)

\* Type invariant: nodes never exceed NT tuples (try_write) and buckets never
\* exceed keep_n_values entries after an insertion (the erase that follows it).
TypeOK ==
  /\ fuse_function \in Fusions
  /\ now \in 0..MaxTime
  /\ \A r \in Replica :
       /\ unpublished[r] \in BoundedSeq(Tuple, NT)
       /\ root[r] \in BoundedSeq(Tuple, NT)
       /\ stage[r] \in {"idle", "copied", "exchange", "fuse", "done"}
       /\ \A k \in Key : /\ DOMAIN store[r][k] \subseteq Time
                          /\ Range(store[r][k]) \subseteq StoredValue
                          /\ Cardinality(DOMAIN store[r][k]) <= keep_n_values

\* Replicas that have fused the same vectors hold the same data, in whatever
\* order their hash tables were walked and values were evicted.
StoresAgree ==
  \A r, s \in Replica : stage[r] = "done" /\ stage[s] = "done" => store[r] = store[s]

\* A bucket holds the newest of all times ever committed to its key, each with
\* the value committed last, although late times arrive after newer ones and one
\* value goes per insertion.
KeepsNewest ==
  \A r \in Replica, k \in Key :
    LET T == {t \in Time : <<k, t>> \in DOMAIN committed[r]} IN
    store[r][k] = [t \in {t \in T : Cardinality({u \in T : u > t}) < keep_n_values} |->
                     committed[r][<<k, t>>]]

\* No process can put a value into the stores that lies outside of what
\* obeying processes proposed for the same key and time.
NotForged ==
  \A r \in Replica, k \in Key : \A t \in DOMAIN store[r][k] :
    \E x, y \in honest :
      /\ x.key = k /\ y.key = k /\ x.time = t /\ y.time = t
      /\ 2 * x.value <= store[r][k][t] /\ store[r][k][t] <= 2 * y.value

\* A key committed for a time that has come can be read from that time on:
\* neither newer values nor values for the future make the read fail, not even
\* in the middle of a fusion.
Readable ==
  \A r \in Replica : \A kt \in DOMAIN committed[r] :
    kt[2] <= now => try_read(store[r][kt[1]], kt[2]) # <<>>

LastSaid(e, k, t) == {i \in DOMAIN e : e[i].key = k /\ e[i].time = t /\
                   \A j \in DOMAIN e : e[j].key = k /\ e[j].time = t => j <= i}

\* What all obeying replicas proposed for a key and a time is in the store
\* after the job, or was too old to be kept.  The default fusion asks for more:
\* that they proposed the same node.
UnanimousCommits ==
  \A r \in Replica :
    (stage[r] = "done" /\ (fuse_function = "default" => \A s \in Replica : root[s] = root[r])) =>
    \A k \in Key, t \in Time, v \in Value :
      (\A s \in Replica : \E i \in LastSaid(root[s], k, t) : root[s][i].value = v) =>
        \/ t \in DOMAIN store[r][k] /\ store[r][k][t] = 2 * v
        \/ Cardinality({u \in DOMAIN store[r][k] : u > t}) = keep_n_values

\* A tuple that try_write accepted is not lost: what the memset after the copy
\* is about to wipe out is in the proposal.
WritesSurvive ==
  \A r \in Replica :
    stage[r] = "copied" => Range(unpublished[r]) \subseteq Range(root[r])

=============================================================================
