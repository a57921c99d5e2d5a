---------------------------- MODULE PeriodicTask ----------------------------
(***************************************************************************)
(* The release loop of PeriodicTask (periodic_task.cpp) on top of          *)
(* PeriodicTimer (periodic_timer.cpp): a task waits for a release point,   *)
(* runs a job, and waits for the next one, until terminate().  Stores and  *)
(* applications are such tasks and derive the times they read and write    *)
(* for from the clock, with my_release_time.                               *)
(*                                                                         *)
(* Time is a number of ticks.  It passes while a job runs and between the  *)
(* wake-up of a thread and its first instruction; both are chosen freely   *)
(* within bounds.                                                          *)
(***************************************************************************)
EXTENDS Integers

CONSTANTS
  time_period,   \* time_period_ns
  offset,        \* offset_ns
  max_jobs,
  Start,         \* times at which the thread may be spawned
  MaxExec,       \* bound: ticks from the start of a job to its end
  MaxLatency     \* bound: ticks from a release point to the start of the job

ASSUME PeriodAssumption ==
  /\ time_period \in Nat \ {0}
  /\ offset \in 0..(time_period - 1)
  /\ max_jobs \in Nat
  /\ Start \subseteq Nat
  /\ MaxExec \in Nat /\ MaxLatency \in Nat

VARIABLES
  now,                 \* the clock
  pc,                  \* "trigger", "sleep", "loop", "job" or "ended"
  next_ts,             \* what wait_until_ts sleeps for
  asked,               \* history: when get_next_release read the clock
  release,             \* history: the release point of the current job
  num_jobs,
  last_activation,     \* last_activation_ts, -1 while it is not set
  last_inter_arrival   \* last_inter_arrival_ns

vars == <<now, pc, next_ts, asked, release, num_jobs, last_activation, last_inter_arrival>>

\* Variant: the current period.
get_this_release(t) == (t \div time_period) * time_period + offset

\* PeriodicTimer::get_next_release
get_next_release(t) == ((t \div time_period) + 1) * time_period + offset

\* Variant: the offset is added but not taken off.
my_release_time_shifted(t) == offset + (t \div time_period) * time_period

\* PeriodicTask::my_release_time; t - offset does not wrap around after the
\* first release.
my_release_time(t) == offset + ((t - offset) \div time_period) * time_period

Init ==
  /\ now \in Start
  /\ pc = "trigger"
  /\ next_ts = 0 /\ asked = 0 /\ release = 0
  /\ num_jobs = 0
  /\ last_activation = -1
  /\ last_inter_arrival = 0

\* The entry of PeriodicTimer::wait
AskNextRelease(t) ==
  /\ asked' = t
  /\ next_ts' = get_next_release(t)
  /\ pc' = "sleep"

\* PeriodicTimer::trigger(ts): not before ts, then wait().
Trigger(ts) ==
  /\ pc = "trigger"
  /\ now' = IF ts > now THEN ts ELSE now
  /\ AskNextRelease(now')
  /\ UNCHANGED <<release, num_jobs, last_activation, last_inter_arrival>>

\* clock_nanosleep returns, a little late, or at once if the time has passed;
\* update_stats.
Wake(d) ==
  /\ pc = "sleep"
  /\ now' = (IF next_ts > now THEN next_ts ELSE now) + d
  /\ release' = next_ts
  /\ last_activation' = now'
  /\ last_inter_arrival' = IF last_activation = -1 THEN last_inter_arrival
                                                   ELSE now' - last_activation
  /\ pc' = "loop"
  /\ UNCHANGED <<next_ts, asked, num_jobs>>

\* Variant: one job too many.
BeginJobTooOften ==
  /\ pc = "loop"
  /\ num_jobs <= max_jobs
  /\ pc' = "job"
  /\ UNCHANGED <<now, next_ts, asked, release, num_jobs, last_activation, last_inter_arrival>>

BeginJob ==
  /\ pc = "loop"
  /\ num_jobs < max_jobs
  /\ pc' = "job"
  /\ UNCHANGED <<now, next_ts, asked, release, num_jobs, last_activation, last_inter_arrival>>

\* job() returns after d ticks; num_jobs++ is its last statement.
EndJob(d) ==
  /\ pc = "job"
  /\ now' = now + d
  /\ num_jobs' = num_jobs + 1
  /\ AskNextRelease(now')
  /\ UNCHANGED <<release, last_activation, last_inter_arrival>>

\* Variant: terminate() one job too late.
EndTooLate ==
  /\ pc = "loop"
  /\ num_jobs > max_jobs
  /\ pc' = "ended"
  /\ UNCHANGED <<now, next_ts, asked, release, num_jobs, last_activation, last_inter_arrival>>

\* terminate()
End ==
  /\ pc = "loop"
  /\ num_jobs >= max_jobs
  /\ pc' = "ended"
  /\ UNCHANGED <<now, next_ts, asked, release, num_jobs, last_activation, last_inter_arrival>>

Ended == pc = "ended" /\ UNCHANGED vars

Step ==
  \/ \E ts \in Start : Trigger(ts)
  \/ \E d \in 0..MaxLatency : Wake(d)
  \/ BeginJob
  \/ \E d \in 0..MaxExec : EndJob(d)
  \/ End

Next == Step \/ Ended

Spec == Init /\ [][Next]_vars

\* A thread that is not asleep runs, and sleeps end.
FairSpec == Spec /\ WF_vars(Step)

-----------------------------------------------------------------------------
(* Properties.                                                             *)

\* Type invariant: times are not negative (they are unsigned in the code) and a
\* task never runs more than max_jobs jobs (terminate).
TypeOK ==
  /\ now \in Nat /\ next_ts \in Nat /\ asked \in Nat /\ release \in Nat
  /\ pc \in {"trigger", "sleep", "loop", "job", "ended"}
  /\ num_jobs \in 0..max_jobs
  /\ last_activation \in Nat \cup {-1}
  /\ last_inter_arrival \in Nat

\* The release points of successive jobs are at least a period apart, whatever
\* the jobs overrun: no two jobs belong to one period.
OneJobPerPeriod ==
  [][pc = "sleep" /\ num_jobs > 0 => release' >= release + time_period]_vars

\* A job that computes its release time before the next release point gets the
\* one it was released for, however late it started.
OwnReleaseTime ==
  pc = "job" /\ now < release + time_period => my_release_time(now) = release

\* The release point a thread waits for is the next one after the time it asked.
NextReleasePoint ==
  pc = "sleep" => ~ \E t \in (asked + 1)..(next_ts - 1) : t % time_period = offset

\* The thread does come to its end after max_jobs jobs.
Terminates == <>(pc = "ended" /\ num_jobs = max_jobs)

=============================================================================
