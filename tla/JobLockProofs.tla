---------------------------- MODULE JobLockProofs ----------------------------
(***************************************************************************)
(* The two safety invariants of JobLock for all workers and all times in   *)
(* the order ConstantsAssumption gives them.                               *)
(*                                                                         *)
(* A worker asks for the lock at most Grace + Delay after the scheduled    *)
(* time (AskedInTime).  The sum phase + lock does not change while a lock  *)
(* lasts; LockTimes keeps it at Ttl or more, so that a lock that was given *)
(* outlives every worker that may still ask, and at Period or less, so     *)
(* that none outlives the period.                                          *)
(***************************************************************************)
EXTENDS JobLock, TLAPS

\* When a worker is asking, a lock given in this period has not run out.
LEMMA AskingIsEarly ==
  ASSUME TypeOK, AskedInTime, LockTimes, NEW w \in Workers, job[w] = "asking"
  PROVE  /\ phase <= Grace + Delay
         /\ phase < Ttl
         /\ locked # {} /\ ~forgot => lock > 0
<1>1. waited[w] \in 0 .. Delay /\ phase \in Nat /\ lock \in Nat
  BY ConstantsAssumption DEF TypeOK
<1>2. phase <= Grace + waited[w]
  BY DEF AskedInTime
<1>3. phase <= Grace + Delay /\ phase < Ttl
  BY <1>1, <1>2, ConstantsAssumption
<1> QED BY <1>1, <1>3, ConstantsAssumption DEF LockTimes

\* Opening a client keeps the types of the three flags.
LEMMA ConnectType ==
  ASSUME TypeOK, NEW w \in Workers, Connect(w)
  PROVE  /\ client' \in [Workers -> BOOLEAN]
         /\ tried' \in [Workers -> BOOLEAN]
         /\ degraded' \in [Workers -> BOOLEAN]
  BY DEF TypeOK, Connect

\* Losing Redis may lose the lock, and then it is remembered.
LEMMA RedisFailsEffect ==
  ASSUME RedisFails
  PROVE  /\ phase' = phase /\ locked' = locked /\ bare' = bare
         /\ forgot => forgot'
         /\ lock' = lock \/ lock' = 0
         /\ locked # {} /\ ~forgot' => lock' = lock
<1>1. phase' = phase /\ locked' = locked /\ bare' = bare
  BY DEF RedisFails, period
<1>2. CASE UNCHANGED <<lock, forgot>>
  BY <1>1, <1>2
<1>3. CASE lock' = 0 /\ forgot' = (forgot \/ locked # {})
  <2>1. (forgot => forgot') /\ (locked # {} => forgot')
    BY <1>3, Zenon
  <2> QED BY <1>1, <1>3, <2>1, Zenon
<1> QED BY <1>2, <1>3 DEF RedisFails

\* The initial states satisfy the invariant.
LEMMA InitIInv == Init => IInv
<1> SUFFICES ASSUME Init PROVE IInv
  OBVIOUS
<1>1. 0 \in 0 .. Period - 1 /\ 0 \in 0 .. Ttl /\ 0 \in 0 .. Delay
      /\ 0 \in 0 .. Retries - 1
  BY ConstantsAssumption
<1>2. TypeOK
  BY <1>1 DEF Init, TypeOK, Jobs
<1> QED BY <1>2 DEF Init, IInv, AskedInTime, LockTimes, TimeGivenOnce,
                    LockMeansStarted

\* Every step keeps the types.
LEMMA TypeStep == TypeOK /\ [Next]_vars => TypeOK'
<1> SUFFICES ASSUME TypeOK, [Next]_vars PROVE TypeOK'
  OBVIOUS
<1> USE ConstantsAssumption DEF Jobs
<1>1. CASE Advance
  <2>1. lock' \in 0 .. Ttl
    BY <1>1 DEF Advance, Elapse, TypeOK
  <2>2. waited' \in [Workers -> 0 .. Delay]
    <3> SUFFICES ASSUME NEW w \in Workers, job[w] = "asking"
                 PROVE  waited[w] + 1 \in 0 .. Delay
      BY <1>1 DEF Advance, Elapse
    <3> QED BY <1>1 DEF Advance, Elapse, Timely, TypeOK
  <2>3. phase' \in 0 .. Period - 1
    BY <1>1 DEF Advance, TypeOK
  <2> QED BY <1>1, <2>1, <2>2, <2>3
          DEF Advance, Elapse, TypeOK, redis, period
<1>2. CASE NextTime
  <2>1. lock' \in 0 .. Ttl
    BY <1>2 DEF NextTime, Elapse, TypeOK
  <2>2. waited' \in [Workers -> 0 .. Delay]
    <3> SUFFICES ASSUME NEW w \in Workers, job[w] = "asking"
                 PROVE  waited[w] + 1 \in 0 .. Delay
      BY <1>2 DEF NextTime, Elapse
    <3> QED BY <1>2 DEF NextTime, Elapse, Timely, TypeOK
  <2>3. phase' \in 0 .. Period - 1 /\ job' \in [Workers -> Jobs]
    BY <1>2 DEF NextTime, TypeOK
  <2> QED BY <1>2, <2>1, <2>2, <2>3 DEF NextTime, Elapse, TypeOK
<1>3. CASE RedisFails
  <2>1. lock' \in 0 .. Ttl
    <3> lock \in 0 .. Ttl /\ (lock' = lock \/ lock' = 0)
      BY <1>3 DEF RedisFails, TypeOK
    <3> QED OBVIOUS
  <2>2. forgot' \in BOOLEAN
    BY <1>3 DEF RedisFails, TypeOK
  <2> QED BY <1>3, <2>1, <2>2 DEF RedisFails, TypeOK, clients, period
<1>4. CASE RedisReturns
  BY <1>4 DEF RedisReturns, TypeOK, clients, period
<1>5. ASSUME NEW w \in Workers, GetRedis(w) PROVE TypeOK'
  BY <1>5, ConnectType DEF GetRedis, TypeOK, redis, period
<1>6. ASSUME NEW w \in Workers, AsyncCacheRaises(w) PROVE TypeOK'
  BY <1>6 DEF AsyncCacheRaises, TypeOK, redis, period
<1>7. ASSUME NEW w \in Workers, SyncCache(w) PROVE TypeOK'
  BY <1>7 DEF SyncCache, TypeOK, redis, period
<1>8. ASSUME NEW w \in Workers, SyncCacheEnds(w) PROVE TypeOK'
  <2>1. degraded' \in [Workers -> BOOLEAN]
    BY <1>8 DEF SyncCacheEnds, TypeOK
  <2>2. inside' \in [Workers -> BOOLEAN]
    BY <1>8 DEF SyncCacheEnds, TypeOK
  <2> QED BY <1>8, <2>1, <2>2 DEF SyncCacheEnds, TypeOK, redis, period
<1>9. ASSUME NEW w \in Workers, Fire(w) PROVE TypeOK'
  <2>1. Connect(w)
    BY <1>9 DEF Fire, Start
  <2>2. CASE client'[w]
    BY <1>9, <2>1, <2>2, ConnectType DEF Fire, Start, TypeOK, redis
  <2>3. CASE ~client'[w]
    BY <1>9, <2>1, <2>3, ConnectType DEF Fire, Start, Run, TypeOK, redis
  <2> QED BY <2>2, <2>3
<1>10. ASSUME NEW w \in Workers, Misfire(w) PROVE TypeOK'
  BY <1>10 DEF Misfire, TypeOK, redis, clients, period
<1>11. ASSUME NEW w \in Workers, Ask(w) PROVE TypeOK'
  <2>1. job' \in [Workers -> Jobs] /\ waited' \in [Workers -> 0 .. Delay]
    BY <1>11 DEF Ask, Acquire, Refuse, AcquireRaises, Run, TypeOK
  <2>2. lock' \in 0 .. Ttl
    BY <1>11 DEF Ask, Acquire, Refuse, AcquireRaises, TypeOK
  <2>3. locked' \subseteq Workers /\ bare' \in BOOLEAN
    BY <1>11 DEF Ask, Acquire, Refuse, AcquireRaises, TypeOK, period
  <2> QED BY <1>11, <2>1, <2>2, <2>3
          DEF Ask, Acquire, Refuse, AcquireRaises, TypeOK, redis, clients, period
<1>12. ASSUME NEW w \in Workers, Work(w) PROVE TypeOK'
  <2>1. attempt' \in [Workers -> 0 .. Retries - 1]
    <3> attempt[w] \in 0 .. Retries - 1 /\ 0 \in 0 .. Retries - 1
      BY DEF TypeOK
    <3> QED BY <1>12 DEF Work, Succeed, AttemptFails, End, TypeOK
  <2>2. job' \in [Workers -> Jobs]
    BY <1>12 DEF Work, Succeed, AttemptFails, End, TypeOK
  <2> QED BY <1>12, <2>1, <2>2
          DEF Work, Succeed, AttemptFails, TypeOK, redis, clients, period
<1>13. ASSUME NEW w \in Workers, Restart(w) PROVE TypeOK'
  BY <1>13 DEF Restart, TypeOK, redis, period
<1>14. CASE UNCHANGED vars
  BY <1>14 DEF vars, TypeOK, redis, clients, period
<1> QED BY <1>1, <1>2, <1>3, <1>4, <1>5, <1>6, <1>7, <1>8, <1>9, <1>10, <1>11,
           <1>12, <1>13, <1>14 DEF Next

\* No worker asks later than it may be late.
LEMMA AskedStep == TypeOK /\ AskedInTime /\ [Next]_vars => AskedInTime'
<1> SUFFICES ASSUME TypeOK, AskedInTime, [Next]_vars,
                    NEW v \in Workers, job'[v] = "asking"
             PROVE  phase' <= Grace + waited'[v]
  BY DEF AskedInTime
<1> USE ConstantsAssumption
<1>0. /\ phase \in Nat /\ waited[v] \in Nat
      /\ job[v] = "asking" => phase <= Grace + waited[v]
  BY DEF TypeOK, AskedInTime
<1>1. CASE Advance
  BY <1>0, <1>1 DEF Advance, Elapse
<1>2. CASE NextTime
  <2>1. waited'[v] \in Nat
    BY <1>0, <1>2 DEF NextTime, Elapse
  <2> QED BY <1>2, <2>1 DEF NextTime
<1>3. CASE RedisFails \/ RedisReturns
  BY <1>0, <1>3 DEF RedisFails, RedisReturns
<1>4. ASSUME NEW w \in Workers,
             \/ GetRedis(w) \/ AsyncCacheRaises(w)
             \/ SyncCache(w) \/ SyncCacheEnds(w)
      PROVE  phase' <= Grace + waited'[v]
  BY <1>0, <1>4 DEF GetRedis, AsyncCacheRaises, SyncCache, SyncCacheEnds
<1>5. ASSUME NEW w \in Workers, Fire(w) PROVE phase' <= Grace + waited'[v]
  <2>1. CASE v = w
    BY <1>0, <1>5, <2>1 DEF Fire, Start, Run, TypeOK
  <2>2. CASE v # w
    BY <1>0, <1>5, <2>2 DEF Fire, Start, Run, TypeOK
  <2> QED BY <2>1, <2>2
<1>6. ASSUME NEW w \in Workers, Misfire(w) \/ Work(w) \/ Restart(w)
      PROVE  phase' <= Grace + waited'[v]
  BY <1>0, <1>6 DEF Misfire, Work, Succeed, AttemptFails, End, Restart, TypeOK
<1>7. ASSUME NEW w \in Workers, Ask(w) PROVE phase' <= Grace + waited'[v]
  BY <1>0, <1>7 DEF Ask, Acquire, Refuse, AcquireRaises, Run, TypeOK
<1>8. CASE UNCHANGED vars
  BY <1>0, <1>8 DEF vars
<1> QED BY <1>1, <1>2, <1>3, <1>4, <1>5, <1>6, <1>7, <1>8 DEF Next

\* A lock that was given lasts while workers may ask, and ends with the period.
LEMMA LockStep ==
  TypeOK /\ AskedInTime /\ LockTimes /\ [Next]_vars => LockTimes'
<1> SUFFICES ASSUME TypeOK, AskedInTime, LockTimes, [Next]_vars
             PROVE  LockTimes'
  OBVIOUS
<1> USE ConstantsAssumption
<1>0. phase \in Nat /\ lock \in Nat
  BY DEF TypeOK
<1>1. CASE Advance
  BY <1>0, <1>1 DEF Advance, Elapse, LockTimes, redis, period
<1>2. CASE NextTime
  <2>1. lock' = 0
    BY <1>0, <1>2 DEF NextTime, Elapse, LockTimes
  <2> QED BY <1>2, <2>1 DEF NextTime, LockTimes
<1>3. CASE RedisFails
  BY <1>0, <1>3, RedisFailsEffect DEF LockTimes
<1>10. CASE RedisReturns
  BY <1>10 DEF RedisReturns, LockTimes, period
<1>4. ASSUME NEW w \in Workers,
             \/ GetRedis(w) \/ AsyncCacheRaises(w)
             \/ SyncCache(w) \/ SyncCacheEnds(w)
             \/ Misfire(w) \/ Work(w) \/ Restart(w)
      PROVE  LockTimes'
  BY <1>4 DEF GetRedis, AsyncCacheRaises, SyncCache, SyncCacheEnds, Misfire,
              Work, Succeed, AttemptFails, Restart, LockTimes, redis, period
<1>5. ASSUME NEW w \in Workers, Fire(w) PROVE LockTimes'
  <2>1. UNCHANGED <<phase, lock, forgot, locked>> /\ (bare => bare')
    BY <1>5 DEF Fire, Start, redis
  <2> QED BY <2>1 DEF LockTimes
<1>6. ASSUME NEW w \in Workers, Acquire(w) PROVE LockTimes'
  <2>1. phase <= Grace + Delay
    BY <1>6, AskingIsEarly DEF Acquire
  <2> QED BY <1>0, <1>6, <2>1 DEF Acquire, LockTimes, redis
<1>7. ASSUME NEW w \in Workers, Refuse(w) PROVE LockTimes'
  BY <1>7 DEF Refuse, LockTimes, redis, period
<1>8. ASSUME NEW w \in Workers, AcquireRaises(w) PROVE LockTimes'
  <2>1. phase <= Grace + Delay
    BY <1>8, AskingIsEarly DEF AcquireRaises
  <2> QED BY <1>0, <1>8, <2>1 DEF AcquireRaises, LockTimes, redis
<1>9. CASE UNCHANGED vars
  BY <1>9 DEF vars, LockTimes, redis, period
<1> QED BY <1>1, <1>2, <1>3, <1>4, <1>5, <1>6, <1>7, <1>8, <1>9, <1>10 DEF Next, Ask

\* The lock goes to one worker: a second one that asks finds it there.
LEMMA GivenStep ==
  TypeOK /\ AskedInTime /\ LockTimes /\ TimeGivenOnce /\ [Next]_vars
      => TimeGivenOnce'
<1> SUFFICES ASSUME TypeOK, AskedInTime, LockTimes, TimeGivenOnce, [Next]_vars
             PROVE  TimeGivenOnce'
  OBVIOUS
<1>1. CASE NextTime
  BY <1>1 DEF NextTime, TimeGivenOnce
<1>2. ASSUME NEW w \in Workers, Acquire(w) PROVE TimeGivenOnce'
  <2>1. locked = {} \/ forgot
    BY <1>2, AskingIsEarly DEF Acquire
  <2> QED BY <1>2, <2>1 DEF Acquire, TimeGivenOnce, redis
<1>3. CASE UNCHANGED locked /\ (forgot => forgot')
  BY <1>3 DEF TimeGivenOnce
<1>4. ASSUME ~NextTime, ~\E w \in Workers : Acquire(w)
      PROVE  UNCHANGED locked /\ (forgot => forgot')
  <2>1. CASE Advance \/ RedisReturns \/ UNCHANGED vars
    BY <2>1 DEF Advance, RedisReturns, vars, redis, period
  <2>3. CASE RedisFails
    BY <2>3, RedisFailsEffect
  <2>2. ASSUME NEW w \in Workers,
               \/ GetRedis(w) \/ AsyncCacheRaises(w)
               \/ SyncCache(w) \/ SyncCacheEnds(w)
               \/ Fire(w) \/ Misfire(w) \/ Refuse(w) \/ AcquireRaises(w)
               \/ Work(w) \/ Restart(w)
        PROVE  UNCHANGED locked /\ (forgot => forgot')
    BY <2>2 DEF GetRedis, AsyncCacheRaises, SyncCache, SyncCacheEnds, Fire,
                Start, Misfire, Refuse, AcquireRaises, Work, Succeed,
                AttemptFails, Restart, redis, period
  <2> QED BY <1>4, <2>1, <2>2, <2>3 DEF Next, Ask
<1> QED BY <1>1, <1>2, <1>3, <1>4

\* No lock outlasts its period, and in a period one is set by a job's start.
LEMMA StartedStep ==
  TypeOK /\ LockTimes /\ LockMeansStarted /\ [Next]_vars => LockMeansStarted'
<1> SUFFICES ASSUME TypeOK, LockTimes, LockMeansStarted, [Next]_vars
             PROVE  LockMeansStarted'
  OBVIOUS
<1>1. CASE NextTime
  <2>1. phase \in Nat /\ lock \in Nat
    BY ConstantsAssumption DEF TypeOK
  <2>2. lock' = 0
    BY <1>1, <2>1, ConstantsAssumption DEF NextTime, Elapse, LockTimes
  <2> QED BY <2>2 DEF LockMeansStarted
<1>2. CASE Advance
  <2>1. lock' > 0 => lock > 0
    BY <1>2, ConstantsAssumption DEF Advance, Elapse, TypeOK
  <2> QED BY <1>2, <2>1 DEF Advance, period, LockMeansStarted
<1>3. CASE RedisFails \/ RedisReturns \/ UNCHANGED vars
  BY <1>3 DEF RedisFails, RedisReturns, vars, period, LockMeansStarted
<1>4. ASSUME NEW w \in Workers,
             \/ GetRedis(w) \/ AsyncCacheRaises(w)
             \/ SyncCache(w) \/ SyncCacheEnds(w)
             \/ Misfire(w) \/ Refuse(w) \/ Work(w) \/ Restart(w)
      PROVE  LockMeansStarted'
  BY <1>4 DEF GetRedis, AsyncCacheRaises, SyncCache, SyncCacheEnds, Misfire,
              Refuse, Work, Succeed, AttemptFails, Restart, period,
              LockMeansStarted
<1>5. ASSUME NEW w \in Workers, Fire(w) \/ Acquire(w) \/ AcquireRaises(w)
      PROVE  LockMeansStarted'
  BY <1>5 DEF Fire, Start, Acquire, AcquireRaises, LockMeansStarted
<1> QED BY <1>1, <1>2, <1>3, <1>4, <1>5 DEF Next, Ask

\* The whole invariant holds in every state of JobLock.
THEOREM Invariant == Spec => []IInv
<1>1. IInv /\ [Next]_vars => IInv'
  BY TypeStep, AskedStep, LockStep, GivenStep, StartedStep DEF IInv
<1> QED BY InitIInv, <1>1, PTL DEF Spec

\* distributed_job_lock gives each scheduled time to one worker at most, for
\* every number of workers and every grace, delay and ttl in that order.
THEOREM JobTimeGivenOnce == Spec => []TimeGivenOnce
<1>1. IInv => TimeGivenOnce
  BY DEF IInv
<1> QED BY Invariant, <1>1, PTL

\* The lock that makes distributed_job_lock refuse a worker was set by a job
\* started at the same scheduled time, for all values of the constants.
THEOREM JobLockMeansStarted == Spec => []LockMeansStarted
<1>1. IInv => LockMeansStarted
  BY DEF IInv
<1> QED BY Invariant, <1>1, PTL
=============================================================================
