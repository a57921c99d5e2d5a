----------------------------- MODULE ServerStore ----------------------------
(***************************************************************************)
(* The data of the stores that leave agreement to a server: the sorted     *)
(* sets of RedisKVS1 and RedisKVS2 (redis_kvs.cpp), the directories of     *)
(* EtcdKVS (etcd_kvs.cpp), and the fusion of redundant values              *)
(* (kvs_interface.h).  A bucket is the set of entries under one key.       *)
(***************************************************************************)
EXTENDS Integers, Sequences, SequencesExt, FiniteSets, FiniteSetsExt, Functions

CONSTANTS
  gc_keep,   \* entries that garbage collection leaves, 10 in the code
  ttl        \* ttl_sec

ASSUME ServerAssumption == gc_keep \in Nat \ {0} /\ ttl \in Nat

Forever == -1

\* Sorted sets order entries by score and then by member.
Earlier(e, f) == e.time < f.time \/ (e.time = f.time /\ e.value < f.value)

Rank(b, e) == Cardinality({f \in b : Earlier(f, e)})

\* Redis: ZADD.  A member occurs once; adding it again moves its score.
zadd(b, value, time) ==
  {e \in b : e.value # value} \cup {[value |-> value, time |-> time, until |-> Forever]}

\* etcd: set, with a time to live.  The time is part of the key.
etcd_set(b, value, time, now) ==
  {e \in b : e.time # time} \cup {[value |-> value, time |-> time, until |-> now + ttl]}

\* Variant: the highest ranks go.
collect_newest(b) ==
  IF Cardinality(b) > gc_keep THEN {e \in b : Rank(b, e) < gc_keep} ELSE b

\* The garbage collection of RedisKVS1::job and RedisKVS2::job for one key:
\* ZREMRANGEBYRANK from 0 to count - gc_keep - 1.
collect(b) ==
  IF Cardinality(b) > gc_keep
    THEN {e \in b : Rank(b, e) > Cardinality(b) - gc_keep - 1}
    ELSE b

\* Variant: what is not due yet is seen.
due_early(b, no_earlier_than, now) ==
  LET S == {e \in b : no_earlier_than <= e.time /\ (e.until = Forever \/ now < e.until)}
  IN  {e.value : e \in {e \in S : \A f \in S : ~ Earlier(e, f)}}

\* What one server contributes to try_read: the last entry from
\* no_earlier_than to now (ZRANGEBYSCORE; etcd lists keys in order).
due(b, no_earlier_than, now) ==
  LET S == {e \in b : no_earlier_than <= e.time /\ e.time <= now /\ (e.until = Forever \/ now < e.until)}
  IN  {e.value : e \in {e \in S : \A f \in S : ~ Earlier(e, f)}}

\* The mean of the two middle values, in the last digit that std::to_string
\* writes.
MedianOf(votes) ==
  LET n == Cardinality(DOMAIN votes)
      sorted == CHOOSE s \in SetToSeqs(DOMAIN votes) :
                  \A j \in 1..(n - 1) : votes[s[j]] <= votes[s[j + 1]]
  IN  (votes[sorted[(n \div 2) + 1]] + votes[sorted[((n - 1) \div 2) + 1]]) \div 2

\* fuse_redundant_values: the candidates, by server, to at most one value.  Of
\* two candidates both must agree, of three two, of four three; more than four
\* end in assert(false).
fuse_redundant_values(votes, use_simple_median) ==
  LET n == Cardinality(DOMAIN votes) IN
  IF use_simple_median
    THEN IF n <= 2 THEN {} ELSE {MedianOf(votes)}
    ELSE {v \in Range(votes) :
            n \in 2..4 /\ Cardinality({s \in DOMAIN votes : votes[s] = v}) >= (n \div 2) + 1}

=============================================================================
