------------------------------- MODULE JobLock -------------------------------
(***************************************************************************)
(* A recurring job of backend/app/services/scheduler.py in every worker    *)
(* process, the lock in Redis that is to give each of its times to one     *)
(* worker (distributed_job_lock of services/redis_client.py), and the      *)
(* clients of Redis a worker keeps: the asyncio client, the client of its  *)
(* threads, and the degraded mode in which the cache functions use neither.*)
(*                                                                         *)
(* Time is what the lock depends on.  phase counts from the job's last     *)
(* scheduled time, so nothing that happens in a period needs a name for    *)
(* the period and no clock grows.                                          *)
(***************************************************************************)
EXTENDS Integers, FiniteSets

CONSTANTS
    Workers,    \* worker processes
    Period,     \* between two scheduled times of the job
    Grace,      \* misfire_grace_time: 45 seconds
    Delay,      \* from the start of a job to the answer about its lock
    Ttl,        \* lock_ttl_seconds: 50
    Retries     \* attempts of _run_job_with_retry: 2 or 3

\* Redis calls give up after two seconds, so Delay is a few seconds; the jobs
\* are at least five minutes apart, but for the restart of the stream.
ASSUME ConstantsAssumption ==
    /\ Grace \in Nat /\ Delay \in Nat /\ Ttl \in Nat /\ Period \in Nat
    /\ Retries \in Nat \ {0}
    /\ Grace + Delay < Ttl
    /\ Grace + Delay + Ttl <= Period

VARIABLES
    phase,      \* time since the last scheduled time
    lock,       \* time the key of the lock still has, 0 if it is absent
    up,         \* whether Redis can be reached
    forgot,     \* whether Redis has lost a lock it gave in this period
    client,     \* _async_redis is set
    tried,      \* it was last to be opened less than two seconds ago
    degraded,   \* _degraded_mode_active
    inside,     \* a thread has found degraded unset and is calling Redis
    job,        \* what the job does in each worker
    waited,     \* how long the job has been asking for its lock
    attempt,    \* attempts of the job that have failed
    locked,     \* workers that were given the lock in this period
    bare        \* whether a worker has gone on without it in this period

redis == <<up, forgot>>
clients == <<client, tried, degraded, inside>>
period == <<locked, bare>>
vars == <<phase, lock, redis, clients, job, waited, attempt, period>>

Jobs == {"idle", "due", "asking", "running"}

TypeOK ==
    /\ phase \in 0 .. Period - 1
    /\ lock \in 0 .. Ttl
    /\ up \in BOOLEAN /\ forgot \in BOOLEAN
    /\ client \in [Workers -> BOOLEAN]
    /\ tried \in [Workers -> BOOLEAN]
    /\ degraded \in [Workers -> BOOLEAN]
    /\ inside \in [Workers -> BOOLEAN]
    /\ job \in [Workers -> Jobs]
    /\ waited \in [Workers -> 0 .. Delay]
    /\ attempt \in [Workers -> 0 .. Retries - 1]
    /\ locked \subseteq Workers /\ bare \in BOOLEAN

Init ==
    /\ phase = 0
    /\ lock = 0
    /\ up \in BOOLEAN /\ forgot = FALSE
    /\ client = [w \in Workers |-> FALSE]
    /\ tried = [w \in Workers |-> FALSE]
    /\ degraded = [w \in Workers |-> FALSE]
    /\ inside = [w \in Workers |-> FALSE]
    /\ job = [w \in Workers |-> "idle"]
    /\ waited = [w \in Workers |-> 0]
    /\ attempt = [w \in Workers |-> 0]
    /\ locked = {} /\ bare = FALSE

-----------------------------------------------------------------------------
(***************************************************************************)
(* Time.  At a scheduled time the job becomes due in every worker, unless  *)
(* it is still running there (max_instances is 1); one that is still due   *)
(* is due once (coalesce).                                                 *)
(***************************************************************************)

Timely == \A w \in Workers : job[w] = "asking" => waited[w] < Delay

Elapse ==
    /\ Timely
    /\ lock' = IF lock > 0 THEN lock - 1 ELSE 0
    /\ waited' = [w \in Workers |-> IF job[w] = "asking" THEN waited[w] + 1 ELSE 0]
    /\ tried' = [w \in Workers |-> FALSE]

Advance ==
    /\ Elapse
    /\ phase < Period - 1
    /\ phase' = phase + 1
    /\ UNCHANGED <<redis, client, degraded, inside, job, attempt, period>>

NextTime ==
    /\ Elapse
    /\ phase = Period - 1
    /\ phase' = 0
    /\ job' = [w \in Workers |-> IF job[w] = "idle" THEN "due" ELSE job[w]]
    /\ locked' = {} /\ bare' = FALSE
    /\ forgot' = FALSE
    /\ UNCHANGED <<up, client, degraded, inside, attempt>>

-----------------------------------------------------------------------------
(***************************************************************************)
(* Connecting.  _get_redis returns the client there is, or tries to open   *)
(* one unless it has just tried to; opening one ends the degraded mode.    *)
(***************************************************************************)

\* Mutant: the flag of the degraded mode is not taken back.
Connect_StaysDegraded(w) ==
    IF client[w] \/ tried[w] THEN UNCHANGED <<client, tried, degraded>>
    ELSE /\ client' = [client EXCEPT ![w] = up]
         /\ tried' = [tried EXCEPT ![w] = TRUE]
         /\ degraded' = [degraded EXCEPT ![w] = degraded[w] \/ ~up]

Connect(w) ==
    IF client[w] \/ tried[w] THEN UNCHANGED <<client, tried, degraded>>
    ELSE /\ client' = [client EXCEPT ![w] = up]
         /\ tried' = [tried EXCEPT ![w] = TRUE]
         /\ degraded' = [degraded EXCEPT ![w] = ~up]

\* The relay, its listener and the readiness route ask for the client.
GetRedis(w) ==
    /\ ~client[w]
    /\ Connect(w)
    /\ UNCHANGED <<phase, lock, redis, inside, job, waited, attempt, period>>

\* _trigger_circuit_breaker for a coroutine, whose call of the client raises:
\* one that was made before the worker was degraded may do so later.
AsyncCacheRaises(w) ==
    /\ client[w]
    /\ client' = [client EXCEPT ![w] = FALSE]
    /\ degraded' = [degraded EXCEPT ![w] = TRUE]
    /\ UNCHANGED <<phase, lock, redis, tried, inside, job, waited, attempt,
                   period>>

\* A thread in a cache function reads the flag first and calls Redis only
\* while it is unset.
SyncCache(w) ==
    /\ ~degraded[w] /\ ~inside[w]
    /\ inside' = [inside EXCEPT ![w] = TRUE]
    /\ UNCHANGED <<phase, lock, redis, client, tried, degraded, job, waited,
                   attempt, period>>

\* Connecting or the call raises, or neither; opening the threads' client
\* resets the flag, whatever has become of the other client meanwhile.
SyncCacheEnds(w) ==
    /\ inside[w]
    /\ inside' = [inside EXCEPT ![w] = FALSE]
    /\ \/ degraded' = [degraded EXCEPT ![w] = TRUE]
       \/ up /\ degraded' = [degraded EXCEPT ![w] = FALSE]
       \/ UNCHANGED degraded
    /\ UNCHANGED <<phase, lock, redis, client, tried, job, waited, attempt,
                   period>>

-----------------------------------------------------------------------------
(***************************************************************************)
(* The job.                                                                *)
(***************************************************************************)

Run(w) ==
    /\ job' = [job EXCEPT ![w] = "running"]
    /\ waited' = [waited EXCEPT ![w] = 0]

\* Without a client the lock counts as acquired.
Start(w) ==
    /\ Connect(w)
    /\ IF client'[w]
       THEN /\ job' = [job EXCEPT ![w] = "asking"]
            /\ UNCHANGED <<waited, bare>>
       ELSE /\ Run(w)
            /\ bare' = TRUE
    /\ UNCHANGED <<phase, lock, redis, inside, attempt, locked>>

\* Mutant: a job is started however late it is.
Fire_AnyTime(w) == job[w] = "due" /\ Start(w)

Fire(w) == job[w] = "due" /\ phase <= Grace /\ Start(w)

Misfire(w) ==
    /\ job[w] = "due" /\ phase > Grace
    /\ job' = [job EXCEPT ![w] = "idle"]
    /\ UNCHANGED <<phase, lock, redis, clients, waited, attempt, period>>

\* SET NX EX.  The key is never deleted: it lasts longer than a worker may be
\* late, so that a job that is over keeps its time to itself.
Acquire(w) ==
    /\ job[w] = "asking" /\ up /\ lock = 0
    /\ lock' = Ttl
    /\ locked' = locked \cup {w}
    /\ Run(w)
    /\ UNCHANGED <<phase, redis, clients, attempt, bare>>

Refuse(w) ==
    /\ job[w] = "asking" /\ up /\ lock > 0
    /\ job' = [job EXCEPT ![w] = "idle"]
    /\ waited' = [waited EXCEPT ![w] = 0]
    /\ UNCHANGED <<phase, lock, redis, clients, attempt, period>>

\* The call raises, done or not, and counts as acquired; neither the client
\* nor the degraded mode is touched.
AcquireRaises(w) ==
    /\ job[w] = "asking"
    /\ \/ up /\ lock = 0 /\ lock' = Ttl
       \/ UNCHANGED lock
    /\ bare' = TRUE
    /\ Run(w)
    /\ UNCHANGED <<phase, redis, clients, attempt, locked>>

End(w) ==
    /\ job' = [job EXCEPT ![w] = "idle"]
    /\ attempt' = [attempt EXCEPT ![w] = 0]

\* Mutant: the lock is released when the job is done.
Succeed_Releases(w) ==
    /\ job[w] = "running"
    /\ lock' = 0
    /\ End(w)
    /\ UNCHANGED <<phase, redis, clients, waited, period>>

Succeed(w) ==
    /\ job[w] = "running"
    /\ End(w)
    /\ UNCHANGED <<phase, lock, redis, clients, waited, period>>

\* An attempt raises or times out; wait_for leaves a thread it was waiting
\* for to itself.
AttemptFails(w) ==
    /\ job[w] = "running"
    /\ IF attempt[w] + 1 < Retries
       THEN attempt' = [attempt EXCEPT ![w] = @ + 1] /\ UNCHANGED job
       ELSE End(w)
    /\ UNCHANGED <<phase, lock, redis, clients, waited, period>>

-----------------------------------------------------------------------------
(***************************************************************************)
(* The environment: Redis comes and goes, with its keys or without, and    *)
(* workers die and are started again.                                      *)
(***************************************************************************)

RedisFails ==
    /\ up
    /\ up' = FALSE
    /\ \/ UNCHANGED <<lock, forgot>>
       \/ lock' = 0 /\ forgot' = (forgot \/ locked # {})
    /\ UNCHANGED <<phase, clients, job, waited, attempt, period>>

RedisReturns ==
    /\ ~up
    /\ up' = TRUE
    /\ UNCHANGED <<phase, lock, forgot, clients, job, waited, attempt, period>>

Restart(w) ==
    /\ client' = [client EXCEPT ![w] = FALSE]
    /\ tried' = [tried EXCEPT ![w] = FALSE]
    /\ degraded' = [degraded EXCEPT ![w] = FALSE]
    /\ inside' = [inside EXCEPT ![w] = FALSE]
    /\ job' = [job EXCEPT ![w] = "idle"]
    /\ waited' = [waited EXCEPT ![w] = 0]
    /\ attempt' = [attempt EXCEPT ![w] = 0]
    /\ UNCHANGED <<phase, lock, redis, period>>

Ask(w) == Acquire(w) \/ Refuse(w) \/ AcquireRaises(w)
Work(w) == Succeed(w) \/ AttemptFails(w)

Next ==
    \/ Advance \/ NextTime
    \/ \E w \in Workers :
          \/ GetRedis(w) \/ AsyncCacheRaises(w)
          \/ SyncCache(w) \/ SyncCacheEnds(w)
          \/ Fire(w) \/ Misfire(w) \/ Ask(w) \/ Work(w)
          \/ Restart(w)
    \/ RedisFails \/ RedisReturns

Spec == Init /\ [][Next]_vars

\* Time passes; a worker is not late for every scheduled time; calls of Redis
\* have timeouts, and so has each attempt of a job (wait_for).
Fairness ==
    /\ WF_vars(Advance \/ NextTime)
    /\ \A w \in Workers : SF_vars(Fire(w)) /\ WF_vars(Ask(w)) /\ WF_vars(Work(w))

FairSpec == Spec /\ Fairness

-----------------------------------------------------------------------------
(***************************************************************************)
(* Properties.                                                             *)
(***************************************************************************)

\* Each scheduled time is given to one worker at most, however late the others
\* ask and however soon the first is done, as long as Redis keeps its keys.
\* (A worker that cannot ask runs the job regardless: that is bare.)
TimeGivenOnce == ~forgot => \A v, w \in locked : v = w

\* No scheduled time is lost to the lock of an earlier one: a lock that can
\* refuse a worker was taken by one that started the job at this time.
LockMeansStarted == lock > 0 => locked # {} \/ bare

\* A degraded worker without a client uses Redis again once Redis is there to
\* stay: the jobs ask for the client, and connecting ends the degraded mode.
\* (A failure in a thread degrades a worker that has its client: then no call
\* connects, and the worker keeps to its local copies until it is restarted
\* or the thread of another call was already inside.)
LeavesDegraded ==
    \A w \in Workers : degraded[w] /\ ~client[w] ~> ~degraded[w] \/ ~up

-----------------------------------------------------------------------------
(***************************************************************************)
(* The strengthening under which the first two are inductive: how late it  *)
(* can be when a worker asks, and how long a lock then still lasts.        *)
(***************************************************************************)

AskedInTime == \A w \in Workers : job[w] = "asking" => phase <= Grace + waited[w]

LockTimes ==
    /\ locked # {} /\ ~forgot => phase + lock >= Ttl
    /\ lock > 0 => phase + lock <= Grace + Delay + Ttl

IInv == TypeOK /\ AskedInTime /\ LockTimes /\ TimeGivenOnce /\ LockMeansStarted
=============================================================================
