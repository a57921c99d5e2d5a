------------------------- MODULE PeriodicTaskProofs -------------------------
(***************************************************************************)
(* Release points for every period, offset, number of jobs, latency and    *)
(* execution time (PeriodicTask).  Release points are the multiples of the *)
(* period shifted by the offset.                                           *)
(***************************************************************************)
EXTENDS PeriodicTask, OrderLemmas, TLAPS

-----------------------------------------------------------------------------
\* A release point: a multiple of the period, shifted by the offset.
IsReleasePoint(t) == \E q \in Nat : t = q * time_period + offset

\* The inductive invariant: what the thread sleeps for is the release point
\* computed from the clock, a job starts at or after its release point, and the
\* clock is read after the release point of the job that ended.
RInv ==
  /\ TypeOK
  /\ last_activation <= now
  /\ pc = "trigger" => num_jobs = 0
  /\ pc = "job" => num_jobs < max_jobs
  /\ pc = "sleep" => next_ts = get_next_release(asked)
  /\ pc = "sleep" /\ num_jobs > 0 => IsReleasePoint(release) /\ release <= asked
  /\ pc \in {"loop", "job"} => IsReleasePoint(release) /\ release <= now

\* get_next_release returns a release point.
LEMMA NextIsReleasePoint ==
  ASSUME NEW t \in Nat
  PROVE  get_next_release(t) \in Nat /\ IsReleasePoint(get_next_release(t))
  <1>1. (t \div time_period) + 1 \in Nat
    BY PeriodAssumption, Quotient
  <1>2. \A q \in Nat : q * time_period + offset \in Nat
    BY PeriodAssumption, Z3
  <1> QED BY <1>1, <1>2 DEF get_next_release, IsReleasePoint

\* From a release point on, the next release point is a period away or more.
LEMMA NextIsLater ==
  ASSUME NEW t \in Nat, NEW r \in Nat, IsReleasePoint(r), r <= t
  PROVE  get_next_release(t) >= r + time_period
  <1> DEFINE d == t \div time_period
  <1>1. PICK q \in Nat : r = q * time_period + offset
    BY DEF IsReleasePoint
  <1>2. time_period \in Nat \ {0} /\ offset \in Nat
    BY PeriodAssumption
  <1>3. d \in Nat /\ d * time_period <= t /\ t < d * time_period + time_period
    BY <1>2, Quotient
  <1>4. get_next_release(t) = (d + 1) * time_period + offset
    BY DEF get_next_release
  <1> HIDE DEF d
  <1>5. q * time_period \in Nat /\ d * time_period \in Nat
    BY <1>2, <1>3, Z3
  <1>6. ~ (d < q)
    <2> SUFFICES ASSUME d < q PROVE FALSE
      OBVIOUS
    <2>1. d * time_period + time_period <= q * time_period
      BY <1>2, <1>3, ProductOrder
    <2> QED BY <2>1, <1>1, <1>2, <1>3, <1>5
  <1>7. q < d + 1
    BY <1>3, <1>6
  <1>8. q * time_period + time_period <= (d + 1) * time_period
    BY <1>2, <1>3, <1>7, ProductOrder
  <1>9. (d + 1) * time_period \in Nat
    BY <1>2, <1>3, Z3
  <1> QED BY <1>1, <1>2, <1>4, <1>5, <1>8, <1>9

\* The invariant holds when the thread is spawned.
LEMMA RInvInit == Init => RInv
  BY PeriodAssumption DEF Init, RInv, TypeOK

\* Every step of the release loop keeps the invariant.
LEMMA RInvStep == RInv /\ [Next]_vars => RInv'
  <1> SUFFICES ASSUME RInv, [Next]_vars PROVE RInv'
    OBVIOUS
  <1> USE PeriodAssumption
  <1>1. ASSUME NEW ts \in Start, Trigger(ts) PROVE RInv'
    <2>1. now' \in Nat /\ now' >= now /\ num_jobs' = num_jobs
      BY <1>1 DEF Trigger, RInv, TypeOK
    <2>2. get_next_release(now') \in Nat
      BY <2>1, NextIsReleasePoint
    <2>3. TypeOK'
      BY <1>1, <2>1, <2>2 DEF Trigger, AskNextRelease, RInv, TypeOK
    <2> QED BY <1>1, <2>1, <2>3 DEF Trigger, AskNextRelease, RInv, TypeOK
  <1>2. ASSUME NEW d \in 0..MaxLatency, Wake(d) PROVE RInv'
    <2>1. now' \in Nat /\ now' >= now /\ now' >= next_ts
      BY <1>2 DEF Wake, RInv, TypeOK
    <2>2. IsReleasePoint(next_ts)
      BY <1>2, NextIsReleasePoint DEF Wake, RInv, TypeOK
    <2>3. last_inter_arrival' \in Nat
      BY <1>2, <2>1 DEF Wake, RInv, TypeOK
    <2>4. TypeOK'
      BY <1>2, <2>1, <2>3 DEF Wake, RInv, TypeOK
    <2>5. IsReleasePoint(release)' /\ release' <= now'
      BY <1>2, <2>1, <2>2 DEF Wake, IsReleasePoint
    <2> QED BY <1>2, <2>1, <2>4, <2>5 DEF Wake, RInv, TypeOK
  <1>3. CASE BeginJob
    BY <1>3 DEF BeginJob, RInv, TypeOK, IsReleasePoint
  <1>4. ASSUME NEW d \in 0..MaxExec, EndJob(d) PROVE RInv'
    <2>1. now' \in Nat /\ now' >= now
      BY <1>4 DEF EndJob, RInv, TypeOK
    <2>2. get_next_release(now') \in Nat
      BY <2>1, NextIsReleasePoint
    <2>3. num_jobs' \in 0..max_jobs
      BY <1>4 DEF EndJob, RInv, TypeOK
    <2>4. TypeOK'
      BY <1>4, <2>1, <2>2, <2>3 DEF EndJob, AskNextRelease, RInv, TypeOK
    <2>5. IsReleasePoint(release)' /\ release' <= asked'
      BY <1>4, <2>1 DEF EndJob, AskNextRelease, RInv, TypeOK, IsReleasePoint
    <2> QED BY <1>4, <2>1, <2>4, <2>5 DEF EndJob, AskNextRelease, RInv, TypeOK
  <1>5. CASE End
    BY <1>5 DEF End, RInv, TypeOK
  <1>6. CASE UNCHANGED vars
    BY <1>6 DEF vars, RInv, TypeOK, IsReleasePoint, get_next_release
  <1> QED BY <1>1, <1>2, <1>3, <1>4, <1>5, <1>6 DEF Next, Step, Ended

\* RInv, which the theorems below rest on, holds in every state of the release
\* loop (PeriodicTask::release).
THEOREM ReleaseInvariance == Spec => []RInv
  BY RInvInit, RInvStep, PTL DEF Spec

\* Type correctness of the release loop; in particular time never runs
\* backwards in the statistics and no task runs more than max_jobs jobs.
THEOREM TaskTypeCorrect == Spec => []TypeOK
  <1>1. RInv => TypeOK
    BY DEF RInv
  <1> QED BY <1>1, ReleaseInvariance, PTL

\* my_release_time returns the release point a job was released for until the
\* next one, for every period and offset and however late the job starts.
THEOREM OwnReleaseTimeHolds == Spec => []OwnReleaseTime
  <1>1. RInv => OwnReleaseTime
    <2> SUFFICES ASSUME RInv, pc = "job", now < release + time_period
                 PROVE  my_release_time(now) = release
      BY DEF OwnReleaseTime
    <2>1. PICK q \in Nat : release = q * time_period + offset
      BY DEF RInv, IsReleasePoint
    <2>2. time_period \in Nat \ {0} /\ offset \in Nat /\ now \in Nat /\ release <= now
      BY PeriodAssumption DEF RInv, TypeOK
    <2>3. q * time_period \in Nat
      BY <2>2, Z3
    <2>4. /\ now - offset \in Nat
          /\ q * time_period <= now - offset
          /\ now - offset < q * time_period + time_period
      BY <2>1, <2>2, <2>3
    <2>5. (now - offset) \div time_period = q
      BY <2>2, <2>4, QuotientIs
    <2> QED BY <2>1, <2>2, <2>3, <2>5 DEF my_release_time
  <1> QED BY <1>1, ReleaseInvariance, PTL

\* Successive jobs have release points at least a period apart, whatever the
\* jobs overrun and however late the thread wakes up.
THEOREM OneJobPerPeriodHolds == Spec => OneJobPerPeriod
  <1>1. RInv /\ [Next]_vars
          => [pc = "sleep" /\ num_jobs > 0 => release' >= release + time_period]_vars
    <2> SUFFICES ASSUME RInv, Next, pc = "sleep", num_jobs > 0
                 PROVE  release' >= release + time_period \/ UNCHANGED vars
      OBVIOUS
    <2>1. ASSUME NEW d \in 0..MaxLatency, Wake(d)
          PROVE  release' >= release + time_period
      <3>1. release' = get_next_release(asked)
        BY <2>1 DEF Wake, RInv
      <3>2. asked \in Nat /\ release \in Nat /\ IsReleasePoint(release) /\ release <= asked
        BY DEF RInv, TypeOK
      <3> QED BY <3>1, <3>2, NextIsLater
    <2> QED BY <2>1 DEF Next, Step, Ended, Trigger, BeginJob, EndJob, End
  <1> QED BY <1>1, ReleaseInvariance, PTL DEF Spec, OneJobPerPeriod

=============================================================================
