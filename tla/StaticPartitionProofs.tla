----------------------- MODULE StaticPartitionProofs -----------------------
(***************************************************************************)
(* Theorems about StaticPartition: the uniform partition of a statically   *)
(* scheduled loop, for every length of the loop, every size of the team    *)
(* and every chunk size.  The arithmetic is that of blocks of equal size   *)
(* (chunks) and of blocks of which the first ones are longer by one.       *)
(***************************************************************************)
EXTENDS StaticPartition, TLAPS

-----------------------------------------------------------------------------
(* Integer division                                                        *)

LEMMA Division ==
  ASSUME NEW a \in Nat, NEW n \in Nat \ {0}
  PROVE  /\ a \div n \in Nat /\ a % n \in 0 .. n - 1
         /\ a = n * (a \div n) + (a % n)
OBVIOUS

LEMMA Quotient ==
  ASSUME NEW a \in Nat, NEW n \in Nat \ {0}
  PROVE  \E q \in Nat : q = a \div n /\ n * q <= a /\ a < n * q + n
<1>1. PICK q \in Nat, r \in 0 .. n - 1 : q = a \div n /\ a = n * q + r
  BY Division
<1>2. n * q \in Nat
  OBVIOUS
<1> QED
  BY <1>1, <1>2

LEMMA Remainder ==
  ASSUME NEW a \in Nat, NEW n \in Nat \ {0}
  PROVE  \E d \in Nat, r \in 0 .. n - 1 : r = a % n /\ a = n * d + r
BY Division

LEMMA Monotone ==
  ASSUME NEW a \in Int, NEW b \in Int, NEW c \in Nat, a <= b
  PROVE  a * c <= b * c
OBVIOUS

\* A number lies in one block of c only.
LEMMA OneBlock ==
  ASSUME NEW c \in Nat \ {0}, NEW p \in Int, NEW q \in Int, NEW i \in Int,
         c * p <= i, i < c * p + c, c * q <= i, i < c * q + c
  PROVE  p = q
<1>1. CASE p < q
  <2>1. (p + 1) * c <= q * c
    BY <1>1, Monotone
  <2> QED
    BY <2>1
<1>2. CASE q < p
  <2>1. (q + 1) * c <= p * c
    BY <1>2, Monotone
  <2> QED
    BY <2>1
<1> QED
  BY <1>1, <1>2


-----------------------------------------------------------------------------
(* Jobs                                                                    *)

JobType ==
  /\ job.nthreads \in Nat \ {0} /\ job.lb \in Int /\ job.ub \in Int /\ job.lb <= job.ub
  /\ job.chunk \in Nat /\ job.sched \in Schedules
  /\ job.het \in BOOLEAN /\ job.dispatch \in BOOLEAN

\* The schedule and chunk size for which each thread computes its part.
Schedule ==
  IF ~job.dispatch THEN job.sched ELSE IF job.chunk > 1 THEN "chunked" ELSE "static"
Chunk == IF job.chunk < 1 THEN 1 ELSE job.chunk

\* Each thread has computed its part from the job and nothing else.
PartsComputed ==
  /\ DOMAIN part \subseteq Team
  /\ ~job.het => \A t \in DOMAIN part : part[t] = Uniform(t, Schedule, Chunk)

IInv == JobType /\ PartsComputed

LEMMA JobTypes ==
  ASSUME job \in Jobs
  PROVE  JobType
BY JobsAssumption DEF JobType

\* The invariant of every state: a thread's part is that of the uniform
\* partition, unless the partition is skewed.
THEOREM InvariantHolds == Spec => []IInv
<1>1. Init => IInv
  <2> SUFFICES ASSUME Init PROVE IInv
    OBVIOUS
  <2>1. job \in Jobs /\ DOMAIN part = {}
    BY DEF Init
  <2>2. JobType
    BY <2>1, JobTypes
  <2> QED
    BY <2>1, <2>2 DEF IInv, PartsComputed
<1>2. IInv /\ [Next]_vars => IInv'
  <2> SUFFICES ASSUME IInv, [Next]_vars PROVE IInv'
    OBVIOUS
  <2>1. CASE UNCHANGED vars
    BY <2>1 DEF vars, IInv, JobType, PartsComputed, Schedule, Chunk, Team, Uniform, UniformShort,
                UniformLong, UniformChunked, Trips, Nothing
  <2>2. CASE Done
    BY <2>2, ZenonT(60) DEF Done, vars, IInv, JobType, PartsComputed, Schedule, Chunk, Team, Uniform,
                UniformShort, UniformLong, UniformChunked, Trips, Nothing
  <2>3. ASSUME NEW t \in Team, ForStaticInit(t) PROVE IInv'
    <3>1. job' = job /\ DOMAIN part' = DOMAIN part \cup {t} /\ t \notin DOMAIN part
      BY <2>3 DEF ForStaticInit
    <3>2. /\ \A u \in DOMAIN part : part'[u] = part[u]
          /\ ~job.het => part'[t] = Uniform(t, Schedule, Chunk)
      BY <2>3 DEF ForStaticInit, Schedule, Chunk
    <3>3. /\ Team' = Team /\ Schedule' = Schedule /\ Chunk' = Chunk
          /\ \A u : Uniform(u, Schedule, Chunk)' = Uniform(u, Schedule, Chunk)
      BY <3>1 DEF Team, Schedule, Chunk, Uniform, UniformShort, UniformLong, UniformChunked,
                  Trips, Nothing
    <3>4. JobType'
      BY <3>1 DEF IInv, JobType
    <3>5. DOMAIN part' \subseteq Team'
      BY <3>1, <3>3 DEF IInv, PartsComputed
    <3>6. ASSUME ~job'.het, NEW u \in DOMAIN part'
          PROVE  part'[u] = Uniform(u, Schedule, Chunk)'
      BY <3>1, <3>2, <3>3, <3>6 DEF IInv, PartsComputed
    <3> QED
      BY <3>4, <3>5, <3>6 DEF IInv, PartsComputed
  <2> QED
    BY <2>1, <2>2, <2>3 DEF Next
<1> QED
  BY <1>1, <1>2, PTL DEF Spec


-----------------------------------------------------------------------------
(* Blocks: the first e of them have c + 1 numbers, the others c            *)

First(t, c, e) == t * c + Least(t, e)

LEMMA FirstType ==
  ASSUME NEW c \in Nat, NEW e \in Nat, NEW t \in Nat
  PROVE  First(t, c, e) \in Nat
<1>1. t * c \in Nat
  OBVIOUS
<1> QED
  BY <1>1 DEF First, Least

LEMMA FirstMonotone ==
  ASSUME NEW c \in Nat, NEW e \in Nat, NEW t \in Nat, NEW u \in Nat, t <= u
  PROVE  First(t, c, e) <= First(u, c, e)
<1>1. t * c <= u * c /\ t * c \in Nat /\ u * c \in Nat
  BY Monotone
<1>2. Least(t, e) <= Least(u, e) /\ Least(t, e) \in Nat /\ Least(u, e) \in Nat
  BY DEF Least
<1> QED
  BY <1>1, <1>2 DEF First

LEMMA FirstNext ==
  ASSUME NEW c \in Nat, NEW e \in Nat, NEW t \in Nat
  PROVE  First(t + 1, c, e) = First(t, c, e) + c + (IF t < e THEN 1 ELSE 0)
<1>1. (t + 1) * c = t * c + c /\ t * c \in Nat
  OBVIOUS
<1> QED
  BY <1>1 DEF First, Least

\* Every number lies in a block.
LEMMA InSomeBlock ==
  ASSUME NEW n \in Nat \ {0}, NEW c \in Nat \ {0}, NEW e \in 0 .. n - 1,
         NEW k \in 0 .. n * c + e - 1
  PROVE  \E t \in 0 .. n - 1 : First(t, c, e) <= k /\ k < First(t + 1, c, e)
<1> DEFINE t == k \div (c + 1)
           m == k - e * (c + 1)
           u == e + m \div c
<1>0. k \in Nat
  OBVIOUS
<1>1. CASE k < e * (c + 1)
  <2>0. t \in Nat /\ k = (c + 1) * t + (k % (c + 1)) /\ k % (c + 1) \in 0 .. c
    <3>1. PICK n1 \in Nat \ {0} : n1 = c + 1
      OBVIOUS
    <3>2. k \div n1 \in Nat /\ k = n1 * (k \div n1) + (k % n1) /\ k % n1 \in 0 .. n1 - 1
      BY <1>0, Division
    <3> QED
      BY <3>1, <3>2
  <2>1. t \in Nat /\ t * (c + 1) <= k /\ k < t * (c + 1) + (c + 1)
    <3> HIDE DEF t
    <3>1. (c + 1) * t = t * (c + 1) /\ t * (c + 1) \in Nat
      BY <2>0
    <3> QED
      BY <2>0, <3>1
  <2>2. t < e
    <3>1. CASE e <= t
      <4>1. e * (c + 1) <= t * (c + 1)
        BY <3>1, <2>1, Monotone
      <4> QED
        BY <4>1, <2>1, <1>1
    <3> QED
      BY <3>1, <2>1
  <2> HIDE DEF t
  <2>3. t * (c + 1) = t * c + t /\ t * c \in Nat
    BY <2>1
  <2>4. First(t, c, e) = t * (c + 1) /\ First(t + 1, c, e) = t * (c + 1) + (c + 1)
    <3>1. First(t, c, e) = t * c + t
      BY <2>1, <2>2 DEF First, Least
    <3> QED
      BY <3>1, <2>1, <2>2, <2>3, FirstNext
  <2> QED
    BY <2>1, <2>2, <2>4
<1>2. CASE ~(k < e * (c + 1))
  <2>1. m \in Nat /\ k = m + e * (c + 1) /\ e * (c + 1) \in Nat
    BY <1>2
  <2> HIDE DEF m
  <2>2. m \div c \in Nat /\ c * (m \div c) <= m /\ m < c * (m \div c) + c
    BY <2>1, Division
  <2>3. PICK d \in Nat : u = e + d /\ c * d <= m /\ m < c * d + c
    BY <2>2
  <2> HIDE DEF u
  <2>4. e * (c + 1) = e * c + e /\ e * c \in Nat
    OBVIOUS
  <2>5. m < (n - e) * c
    <3>1. (n - e) * c = n * c - e * c /\ n * c \in Nat
      OBVIOUS
    <3> QED
      BY <2>1, <2>4, <3>1
  <2>6. d < n - e
    <3>1. CASE n - e <= d
      <4>1. (n - e) * c <= d * c
        BY <3>1, Monotone
      <4>2. d * c = c * d /\ c * d \in Nat /\ (n - e) * c \in Int
        OBVIOUS
      <4> QED
        BY <4>1, <4>2, <2>1, <2>3, <2>5
    <3> QED
      BY <3>1
  <2>7. First(u, c, e) = e * (c + 1) + c * d
    <3>1. u * c = e * c + d * c /\ d * c = c * d
      BY <2>3
    <3>2. Least(u, e) = e
      BY <2>3 DEF Least
    <3> QED
      BY <3>1, <3>2, <2>4 DEF First
  <2>8. First(u + 1, c, e) = e * (c + 1) + c * d + c
    BY <2>3, <2>7, FirstNext
  <2>9. u \in 0 .. n - 1
    BY <2>3, <2>6
  <2> QED
    BY <2>1, <2>3, <2>7, <2>8, <2>9
<1> QED
  BY <1>1, <1>2

\* It lies in one block only.
LEMMA InOneBlock ==
  ASSUME NEW c \in Nat, NEW e \in Nat, NEW t \in Nat, NEW u \in Nat, NEW k \in Int,
         First(t, c, e) <= k, k < First(t + 1, c, e),
         First(u, c, e) <= k, k < First(u + 1, c, e)
  PROVE  t = u
<1>0. First(t, c, e) \in Nat /\ First(t + 1, c, e) \in Nat /\ First(u, c, e) \in Nat
      /\ First(u + 1, c, e) \in Nat
  BY FirstType
<1>1. CASE t < u
  <2>1. First(t + 1, c, e) <= First(u, c, e)
    BY <1>1, FirstMonotone
  <2> QED
    BY <2>1, <1>0
<1>2. CASE u < t
  <2>1. First(u + 1, c, e) <= First(t, c, e)
    BY <1>2, FirstMonotone
  <2> QED
    BY <2>1, <1>0
<1> QED
  BY <1>1, <1>2


-----------------------------------------------------------------------------
(* Which iterations a thread executes                                      *)

\* The k-th iteration of the loop belongs to thread t of the uniform partition.
Owns(t, k) ==
  IF Schedule = "chunked" THEN (k \div Chunk) % job.nthreads = t
  ELSE IF Trips < job.nthreads THEN k = t
  ELSE LET c == Trips \div job.nthreads
           e == Trips % job.nthreads
       IN  First(t, c, e) <= k /\ k < First(t + 1, c, e)

\* The job is one that the uniform partition divides: __kmpc_dispatch_next gives
\* each thread one block, so that OMP_SCHEDULE=static,c with c > 1 is none.
Divided == ~job.het /\ (job.dispatch => job.chunk <= 1)

LEMMA TripsType ==
  ASSUME JobType
  PROVE  /\ Trips \in Nat \ {0} /\ Trips \div job.nthreads \in Nat
         /\ Trips % job.nthreads \in 0 .. job.nthreads - 1
         /\ Trips = job.nthreads * (Trips \div job.nthreads) + (Trips % job.nthreads)
         /\ Trips >= job.nthreads => Trips \div job.nthreads \in Nat \ {0}
<1>1. Trips \in Nat \ {0} /\ job.nthreads \in Nat \ {0}
  BY DEF JobType, Trips
<1>2. /\ Trips \div job.nthreads \in Nat
      /\ Trips % job.nthreads \in 0 .. job.nthreads - 1
      /\ Trips = job.nthreads * (Trips \div job.nthreads) + (Trips % job.nthreads)
  BY <1>1, Division
<1>3. Trips >= job.nthreads => Trips \div job.nthreads # 0
  <2>1. CASE Trips \div job.nthreads = 0
    <3>1. Trips = Trips % job.nthreads
      BY <1>1, <1>2, <2>1
    <3> QED
      BY <1>1, <1>2, <3>1
  <2> QED
    BY <2>1
<1> QED
  BY <1>1, <1>2, <1>3

\* Short loops: one iteration each.
LEMMA ShortExecutes ==
  ASSUME JobType, Divided, Schedule = "static", Trips < job.nthreads,
         NEW t \in Team, part[t] = Uniform(t, Schedule, Chunk), NEW i \in Int
  PROVE  i \in Executes(t) <=> i \in job.lb .. job.ub /\ Owns(t, i - job.lb)
<1>1. part[t] = UniformShort(t)
  BY DEF Uniform
<1>2. t \in Nat /\ job.lb \in Int /\ job.ub \in Int /\ Trips = job.ub - job.lb + 1
  BY DEF JobType, Team, Trips
<1>3. \/ /\ t < Trips /\ part[t].lower = job.lb + t /\ part[t].upper = job.lb + t
         /\ part[t].stride = 1
      \/ /\ t >= Trips /\ part[t].lower = job.ub + 1 /\ part[t].upper = job.ub
         /\ part[t].stride = 1
  BY <1>1, <1>2 DEF UniformShort, Nothing
<1>4. job.dispatch \/ job.sched = "static"
  BY DEF Schedule
<1>5. Owns(t, i - job.lb) <=> i - job.lb = t
  BY DEF Owns
<1>6. CASE job.dispatch
  <2>1. Executes(t) = part[t].lower .. part[t].upper
    BY <1>6 DEF Executes
  <2> QED
    BY <2>1, <1>2, <1>3, <1>5
<1>7. CASE ~job.dispatch /\ job.sched = "static"
  <2>1. Executes(t) = part[t].lower + 0 * part[t].stride
                        .. Least(part[t].upper + 0 * part[t].stride, job.ub)
    BY <1>7 DEF Executes
  <2>2. Executes(t) = part[t].lower .. part[t].upper
    BY <2>1, <1>2, <1>3 DEF Least
  <2> QED
    BY <2>2, <1>2, <1>3, <1>5, SMTT(60)
<1> QED
  BY <1>4, <1>6, <1>7

\* Long loops: one block each.
LEMMA LongExecutes ==
  ASSUME JobType, Divided, Schedule = "static", Trips >= job.nthreads,
         NEW t \in Team, part[t] = Uniform(t, Schedule, Chunk), NEW i \in Int
  PROVE  i \in Executes(t) <=> i \in job.lb .. job.ub /\ Owns(t, i - job.lb)
<1> DEFINE c == Trips \div job.nthreads
           e == Trips % job.nthreads
<1>1. part[t] = UniformLong(t)
  BY TripsType DEF Uniform, JobType
<1>2. /\ t \in Nat /\ t + 1 \in Nat /\ t + 1 <= job.nthreads /\ job.nthreads \in Nat
      /\ job.lb \in Int /\ job.ub \in Int /\ Trips = job.ub - job.lb + 1
  BY DEF JobType, Team, Trips
<1>3. c \in Nat \ {0} /\ e \in 0 .. job.nthreads - 1 /\ Trips = job.nthreads * c + e
  BY TripsType
<1>4. /\ part[t].lower = job.lb + t * c + Least(t, e)
      /\ part[t].upper = part[t].lower + c - (IF t < e THEN 0 ELSE 1)
      /\ part[t].stride = 1
  BY <1>1 DEF UniformLong
<1>5. Owns(t, i - job.lb) <=> First(t, c, e) <= i - job.lb /\ i - job.lb < First(t + 1, c, e)
  BY <1>2, <1>3 DEF Owns, Trips
<1> HIDE DEF c, e
<1>6. /\ First(t, c, e) \in Nat /\ First(t + 1, c, e) \in Nat
      /\ First(t + 1, c, e) = First(t, c, e) + c + (IF t < e THEN 1 ELSE 0)
  <2>1. c \in Nat /\ e \in Nat /\ t \in Nat
    BY <1>2, <1>3
  <2>2. First(t, c, e) \in Nat /\ First(t + 1, c, e) \in Nat
    <3>1. \A u \in Nat : First(u, c, e) \in Nat
      BY <2>1, FirstType
    <3> QED
      BY <3>1, <1>2
  <2>3. First(t + 1, c, e) = First(t, c, e) + c + (IF t < e THEN 1 ELSE 0)
    BY <2>1, FirstNext
  <2> QED
    BY <2>2, <2>3
<1>7. First(t + 1, c, e) <= Trips
  <2>1. First(t + 1, c, e) <= First(job.nthreads, c, e)
    BY <1>2, <1>3, FirstMonotone
  <2>2. First(job.nthreads, c, e) = Trips
    BY <1>2, <1>3 DEF First, Least
  <2> QED
    BY <2>1, <2>2
<1>8. part[t].lower = job.lb + First(t, c, e)
      /\ part[t].upper = job.lb + First(t + 1, c, e) - 1
  <2>1. t * c \in Nat /\ Least(t, e) \in Nat
    BY <1>2, <1>3 DEF Least
  <2>2. part[t].lower = job.lb + First(t, c, e)
    BY <2>1, <1>2, <1>4 DEF First
  <2> QED
    BY <2>2, <1>2, <1>3, <1>4, <1>6
<1>9. Executes(t) = part[t].lower .. part[t].upper
  <2>1. CASE job.dispatch
    BY <2>1 DEF Executes
  <2>2. CASE ~job.dispatch
    <3>1. job.sched = "static"
      BY <2>2 DEF Schedule
    <3>2. Executes(t) = part[t].lower + 0 * part[t].stride
                          .. Least(part[t].upper + 0 * part[t].stride, job.ub)
      BY <2>2, <3>1 DEF Executes
    <3>3. part[t].lower \in Int /\ part[t].upper \in Int /\ part[t].upper <= job.ub
      BY <1>2, <1>6, <1>7, <1>8
    <3>4. part[t].lower + 0 * part[t].stride = part[t].lower
          /\ part[t].upper + 0 * part[t].stride = part[t].upper
      BY <3>3, <1>4
    <3>5. Least(part[t].upper, job.ub) = part[t].upper
      BY <3>3, <1>2 DEF Least
    <3> QED
      BY <3>2, <3>4, <3>5
  <2> QED
    BY <2>1, <2>2
<1> QED
  BY <1>2, <1>5, <1>6, <1>7, <1>8, <1>9, SMTT(60)


\* Blocks of Chunk iterations, dealt out in turn.
LEMMA ChunkedExecutes ==
  ASSUME JobType, Divided, Schedule = "chunked",
         NEW t \in Team, part[t] = Uniform(t, Schedule, Chunk), NEW i \in Int
  PROVE  i \in Executes(t) <=> i \in job.lb .. job.ub /\ Owns(t, i - job.lb)
<1> DEFINE c == Chunk
           n == job.nthreads
           From(k) == c * (t + k * n)
<1>1. c \in Nat \ {0} /\ n \in Nat \ {0} /\ t \in 0 .. n - 1 /\ ~job.dispatch
      /\ job.lb \in Int /\ job.ub \in Int /\ Trips = job.ub - job.lb + 1 /\ Trips \in Nat \ {0}
      /\ job.sched = "chunked"
  BY DEF JobType, Chunk, Team, Trips, Schedule, Divided
<1>2. /\ part[t].lower = job.lb + c * t
      /\ part[t].upper = job.lb + c * t + c - 1
      /\ part[t].stride = c * n
  BY DEF Uniform, UniformChunked
<1>3. Owns(t, i - job.lb) <=> ((i - job.lb) \div c) % n = t
  BY DEF Owns
<1> HIDE DEF c, n
<1>4. Executes(t) = UNION {part[t].lower + k * part[t].stride
                             .. Least(part[t].upper + k * part[t].stride, job.ub) : k \in 0 .. Trips}
  BY <1>1 DEF Executes
<1>5. ASSUME NEW k \in Nat
      PROVE  /\ From(k) \in Nat
             /\ part[t].lower + k * part[t].stride = job.lb + From(k)
             /\ part[t].upper + k * part[t].stride = job.lb + From(k) + c - 1
  <2>1. k * (c * n) = c * (k * n) /\ c * (k * n) \in Nat /\ k * n \in Nat /\ c * t \in Nat
    BY <1>1
  <2>2. c * (t + k * n) = c * t + c * (k * n)
    BY <1>1, <2>1
  <2> QED
    BY <1>1, <1>2, <2>1, <2>2
<1> HIDE DEF From
<1>6. i \in Executes(t) <=>
        \E k \in 0 .. Trips : i \in job.lb .. job.ub /\ job.lb + From(k) <= i /\ i < job.lb + From(k) + c
  <2>1. ASSUME NEW k \in 0 .. Trips
        PROVE  i \in part[t].lower + k * part[t].stride
                       .. Least(part[t].upper + k * part[t].stride, job.ub)
               <=> i \in job.lb .. job.ub /\ job.lb + From(k) <= i /\ i < job.lb + From(k) + c
    <3>1. /\ From(k) \in Nat
          /\ part[t].lower + k * part[t].stride = job.lb + From(k)
          /\ part[t].upper + k * part[t].stride = job.lb + From(k) + c - 1
      BY <1>1, <1>5
    <3> QED
      BY <3>1, <1>1 DEF Least
  <2>2. i \in Executes(t) <=>
          \E k \in 0 .. Trips : i \in part[t].lower + k * part[t].stride
                                      .. Least(part[t].upper + k * part[t].stride, job.ub)
    BY <1>4
  <2> QED
    BY <2>1, <2>2
<1>7. ASSUME NEW k \in 0 .. Trips, i \in job.lb .. job.ub, job.lb + From(k) <= i,
             i < job.lb + From(k) + c
      PROVE  ((i - job.lb) \div c) % n = t
  <2>1. PICK j \in Nat : j = i - job.lb
    BY <1>1, <1>7
  <2>2. PICK q \in Nat : q = j \div c /\ c * q <= j /\ j < c * q + c
    BY <1>1, Quotient
  <2>3. PICK p \in Nat : p = t + k * n
    BY <1>1
  <2>4. c * p <= j /\ j < c * p + c
    BY <1>1, <1>7, <2>1, <2>3 DEF From
  <2>5. p = q
    <3>1. c \in Nat \ {0} /\ p \in Int /\ q \in Int /\ j \in Int
      BY <1>1
    <3> QED
      BY <3>1, <2>2, <2>4, OneBlock
  <2>6. q % n = t
    <3>1. PICK d \in Nat, r \in 0 .. n - 1 : r = q % n /\ q = n * d + r
      BY <1>1, Remainder
    <3>2. n * k <= q /\ q < n * k + n
      <4>1. k * n = n * k /\ n * k \in Nat
        BY <1>1
      <4> QED
        BY <1>1, <2>3, <2>5, <4>1
    <3>3. n * d <= q /\ q < n * d + n
      <4>1. n * d \in Nat
        BY <1>1
      <4> QED
        BY <1>1, <3>1, <4>1
    <3>4. d = k
      BY <1>1, <3>2, <3>3, OneBlock
    <3>5. k * n = n * k /\ n * k \in Nat
      BY <1>1
    <3> QED
      BY <1>1, <2>3, <2>5, <3>1, <3>4, <3>5
  <2> QED
    BY <2>1, <2>2, <2>6
<1>8. ASSUME i \in job.lb .. job.ub, ((i - job.lb) \div c) % n = t
      PROVE  \E k \in 0 .. Trips : job.lb + From(k) <= i /\ i < job.lb + From(k) + c
  <2>1. PICK j \in Nat : j = i - job.lb
    BY <1>1, <1>8
  <2>2. PICK q \in Nat : q = j \div c /\ c * q <= j /\ j < c * q + c
    BY <1>1, Quotient
  <2>3. PICK d \in Nat : q = n * d + t
    BY <1>1, <1>8, <2>1, <2>2, Division
  <2>4. n * d = d * n /\ d * n \in Nat
    BY <1>1
  <2>5. From(d) = c * q
    BY <2>3, <2>4, <1>1 DEF From
  <2>6. d <= Trips
    <3>1. d <= d * n
      <4>1. 1 * d <= n * d
        BY <1>1, Monotone
      <4> QED
        BY <4>1, <2>4
    <3>2. q <= c * q
      <4>1. 1 * q <= c * q
        BY <1>1, Monotone
      <4> QED
        BY <4>1
    <3>3. q <= j
      BY <1>1, <2>2, <3>2
    <3> QED
      BY <1>1, <1>8, <2>1, <2>3, <2>4, <3>1, <3>3
  <2> QED
    BY <1>1, <2>1, <2>2, <2>5, <2>6
<1> QED
  BY <1>3, <1>6, <1>7, <1>8


LEMMA ExecutesOwn ==
  ASSUME IInv, Divided, NEW t \in DOMAIN part, NEW i \in Int
  PROVE  i \in Executes(t) <=> i \in job.lb .. job.ub /\ Owns(t, i - job.lb)
<1>1. JobType /\ t \in Team /\ part[t] = Uniform(t, Schedule, Chunk)
  BY DEF IInv, PartsComputed, Divided
<1>2. Schedule \in {"static", "chunked"} /\ Trips \in Nat /\ job.nthreads \in Nat
  BY <1>1, TripsType DEF Schedule, JobType, Schedules
<1>3. CASE Schedule = "static" /\ Trips < job.nthreads
  BY <1>1, <1>3, ShortExecutes
<1>4. CASE Schedule = "static" /\ Trips >= job.nthreads
  BY <1>1, <1>4, LongExecutes
<1>5. CASE Schedule = "chunked"
  BY <1>1, <1>5, ChunkedExecutes
<1> QED
  BY <1>2, <1>3, <1>4, <1>5

\* Executes(t) holds numbers only.
LEMMA ExecutesInt ==
  ASSUME IInv, Divided, NEW t \in DOMAIN part
  PROVE  Executes(t) \subseteq Int
<1>1. CASE job.dispatch
  BY <1>1 DEF Executes
<1>2. CASE ~job.dispatch
  <2> SUFFICES ASSUME NEW i \in Executes(t) PROVE i \in Int
    OBVIOUS
  <2>1. PICK k : i \in part[t].lower + k * part[t].stride
                        .. Least(part[t].upper + k * part[t].stride, job.ub)
    BY <1>2 DEF Executes
  <2> QED
    BY <2>1
<1> QED
  BY <1>1, <1>2

\* Every iteration has an owner, and only one.
LEMMA OwnersExist ==
  ASSUME JobType, NEW k \in 0 .. Trips - 1
  PROVE  \E t \in Team : Owns(t, k)
<1>0. /\ Trips \in Nat \ {0} /\ job.nthreads \in Nat \ {0} /\ k \in Nat /\ k < Trips
      /\ Chunk \in Nat \ {0} /\ Team = 0 .. job.nthreads - 1
  BY TripsType, SMTT(60) DEF JobType, Chunk, Team
<1>1. CASE Schedule = "chunked"
  <2>1. PICK q \in Nat : q = k \div Chunk
    BY <1>0, Quotient
  <2>2. q % job.nthreads \in 0 .. job.nthreads - 1
    BY <1>0, Remainder
  <2> QED
    BY <1>0, <1>1, <2>1, <2>2 DEF Owns
<1>2. CASE Schedule # "chunked" /\ Trips < job.nthreads
  BY <1>0, <1>2 DEF Owns
<1>3. CASE Schedule # "chunked" /\ ~(Trips < job.nthreads)
  <2> DEFINE c == Trips \div job.nthreads
             e == Trips % job.nthreads
  <2>1. c \in Nat \ {0} /\ e \in 0 .. job.nthreads - 1 /\ Trips = job.nthreads * c + e
    BY <1>0, <1>3, TripsType
  <2>2. \A t : Owns(t, k) <=> First(t, c, e) <= k /\ k < First(t + 1, c, e)
    BY <1>3 DEF Owns
  <2> HIDE DEF c, e
  <2>3. k \in 0 .. job.nthreads * c + e - 1
    BY <1>0, <2>1
  <2>4. \E t \in 0 .. job.nthreads - 1 : First(t, c, e) <= k /\ k < First(t + 1, c, e)
    BY <1>0, <2>1, <2>3, InSomeBlock
  <2> QED
    BY <1>0, <2>2, <2>4
<1> QED
  BY <1>1, <1>2, <1>3

LEMMA OwnersUnique ==
  ASSUME JobType, NEW k \in 0 .. Trips - 1, NEW t \in Team, NEW u \in Team,
         Owns(t, k), Owns(u, k)
  PROVE  t = u
<1>0. Trips \in Nat \ {0} /\ job.nthreads \in Nat \ {0} /\ t \in Nat /\ u \in Nat /\ k \in Int
  BY TripsType DEF JobType, Team
<1>1. CASE Schedule = "chunked"
  BY <1>1 DEF Owns
<1>2. CASE Schedule # "chunked" /\ Trips < job.nthreads
  BY <1>2 DEF Owns
<1>3. CASE Schedule # "chunked" /\ ~(Trips < job.nthreads)
  <2> DEFINE c == Trips \div job.nthreads
             e == Trips % job.nthreads
  <2>1. c \in Nat /\ e \in Nat
    BY <1>0, TripsType
  <2>2. /\ First(t, c, e) <= k /\ k < First(t + 1, c, e)
        /\ First(u, c, e) <= k /\ k < First(u + 1, c, e)
    BY <1>3 DEF Owns
  <2> HIDE DEF c, e
  <2> QED
    BY <1>0, <2>1, <2>2, InOneBlock
<1> QED
  BY <1>1, <1>2, <1>3

\* The thread that is told it has the last iteration owns it.
LEMMA LastOwner ==
  ASSUME JobType, NEW t \in Team
  PROVE  Uniform(t, Schedule, Chunk).last <=> Owns(t, Trips - 1)
<1>0. /\ Trips \in Nat \ {0} /\ job.nthreads \in Nat \ {0} /\ t \in Nat
      /\ t + 1 <= job.nthreads /\ job.lb \in Int /\ job.ub \in Int
  BY TripsType DEF JobType, Team
<1>1. CASE Schedule = "chunked"
  BY <1>1 DEF Owns, Uniform, UniformChunked
<1>2. CASE Schedule # "chunked" /\ Trips < job.nthreads
  <2>1. Uniform(t, Schedule, Chunk) = UniformShort(t)
    BY <1>2 DEF Uniform
  <2>2. UniformShort(t).last <=> t = Trips - 1
    <3>1. CASE t < Trips
      BY <3>1 DEF UniformShort
    <3>2. CASE ~(t < Trips)
      BY <1>0, <3>2 DEF UniformShort, Nothing
    <3> QED
      BY <3>1, <3>2
  <2>3. Owns(t, Trips - 1) <=> Trips - 1 = t
    BY <1>2 DEF Owns
  <2> QED
    BY <2>1, <2>2, <2>3
<1>3. CASE Schedule # "chunked" /\ ~(Trips < job.nthreads)
  <2> DEFINE n == job.nthreads
             c == Trips \div n
             e == Trips % n
  <2>1. c \in Nat \ {0} /\ e \in 0 .. n - 1 /\ Trips = n * c + e /\ n \in Nat \ {0}
    BY <1>0, <1>3, TripsType
  <2>2. \A v : Owns(v, Trips - 1) <=> First(v, c, e) <= Trips - 1 /\ Trips - 1 < First(v + 1, c, e)
    BY <1>3 DEF Owns
  <2>3. Uniform(t, Schedule, Chunk).last <=> t = n - 1
    BY <1>3 DEF Uniform, UniformLong
  <2>4. n - 1 \in Team
    BY <1>0 DEF Team
  <2> HIDE DEF n, c, e
  <2>5. First(n - 1, c, e) \in Nat /\ First(n - 1, c, e) <= Trips - 1 /\ First(n, c, e) = Trips
    <3>1. n - 1 \in Nat /\ n = (n - 1) + 1 /\ e \in Nat /\ c \in Nat
      BY <2>1
    <3>2. First(n - 1, c, e) \in Nat
      BY <3>1, FirstType
    <3>3. First(n, c, e) = First(n - 1, c, e) + c + (IF n - 1 < e THEN 1 ELSE 0)
      BY <3>1, FirstNext
    <3>4. First(n, c, e) = n * c + e
      BY <2>1 DEF First, Least
    <3> QED
      BY <2>1, <3>1, <3>2, <3>3, <3>4
  <2>6. Owns(n - 1, Trips - 1)
    <3>1. (n - 1) + 1 = n
      BY <2>1
    <3> QED
      BY <1>0, <2>2, <2>5, <3>1
  <2>7. Owns(t, Trips - 1) => t = n - 1
    <3>1. Trips - 1 \in 0 .. Trips - 1
      BY <1>0
    <3> QED
      BY <2>4, <2>6, <3>1, OwnersUnique
  <2> QED
    BY <2>3, <2>6, <2>7
<1> QED
  BY <1>1, <1>2, <1>3

-----------------------------------------------------------------------------
(* The properties                                                          *)

\* The uniform partition executes every iteration exactly once, whatever the
\* length of the loop, the size of the team and the chunk size.
THEOREM UniformOnce == Spec => [](Divided => EachIterationOnce)
<1>1. IInv => (Divided => EachIterationOnce)
  <2> SUFFICES ASSUME IInv, Divided, DOMAIN part = Team
               PROVE  /\ UNION {Executes(t) : t \in Team} = job.lb .. job.ub
                      /\ \A t, u \in Team : t # u => Executes(t) \cap Executes(u) = {}
    BY DEF EachIterationOnce
  <2>1. JobType /\ job.lb \in Int /\ job.ub \in Int /\ Trips = job.ub - job.lb + 1
    BY DEF IInv, JobType, Trips
  <2>2. \A t \in Team : /\ Executes(t) \subseteq Int
                        /\ \A i \in Int : i \in Executes(t) <=>
                              i \in job.lb .. job.ub /\ Owns(t, i - job.lb)
    BY ExecutesOwn, ExecutesInt
  <2>3. \A i \in job.lb .. job.ub : i - job.lb \in 0 .. Trips - 1
    BY <2>1
  <2>4. ASSUME NEW i \in job.lb .. job.ub PROVE \E t \in Team : i \in Executes(t)
    BY <2>1, <2>2, <2>3, OwnersExist
  <2>5. \A t \in Team : Executes(t) \subseteq job.lb .. job.ub
    BY <2>2
  <2>6. ASSUME NEW t \in Team, NEW u \in Team, NEW i \in Executes(t), i \in Executes(u)
        PROVE  t = u
    <3>1. /\ i \in job.lb .. job.ub /\ Owns(t, i - job.lb) /\ Owns(u, i - job.lb)
          /\ i - job.lb \in 0 .. Trips - 1
      BY <2>2, <2>3, <2>6
    <3> QED
      BY <2>1, <3>1, OwnersUnique
  <2> QED
    BY <2>4, <2>5, <2>6
<1>2. Spec => []IInv
  BY InvariantHolds
<1> QED
  BY <1>1, <1>2, PTL

\* The uniform partition tells exactly the thread that executes the last
\* iteration that it does.
THEOREM UniformLast == Spec => [](Divided => LastIterationFlag)
<1>1. IInv => (Divided => LastIterationFlag)
  <2> SUFFICES ASSUME IInv, Divided, NEW t \in DOMAIN part
               PROVE  part[t].last <=> job.ub \in Executes(t)
    BY DEF LastIterationFlag
  <2>1. /\ JobType /\ t \in Team /\ part[t] = Uniform(t, Schedule, Chunk)
        /\ job.lb \in Int /\ job.ub \in Int /\ job.lb <= job.ub /\ Trips = job.ub - job.lb + 1
    BY DEF IInv, JobType, PartsComputed, Divided, Trips
  <2>2. job.ub \in Executes(t) <=> Owns(t, job.ub - job.lb)
    BY <2>1, ExecutesOwn
  <2>3. job.ub - job.lb = Trips - 1
    BY <2>1
  <2> QED
    BY <2>1, <2>2, <2>3, LastOwner
<1>2. Spec => []IInv
  BY InvariantHolds
<1> QED
  BY <1>1, <1>2, PTL
=============================================================================
