---------------------------- MODULE IntakeProofs ----------------------------
(***************************************************************************)
(* Proofs about Intake for any number of clients, requests, keys and       *)
(* schedules, any rates, bursts and due times, and any clock.              *)
(***************************************************************************)
EXTENDS Intake, TLAPS

-----------------------------------------------------------------------------
(* Arithmetic.                                                             *)

LEMMA RefillSign ==
    ASSUME NEW r \in Nat, NEW a \in Int, NEW b \in Int
    PROVE  r * (a - b) \in Int /\ (a >= b => r * (a - b) >= 0)
  OBVIOUS

\* What is refilled from c to b and from b to a is what is from c to a.
LEMMA RefillSplit ==
    ASSUME NEW r \in Nat, NEW a \in Int, NEW b \in Int, NEW c \in Int
    PROVE  r * (a - b) + r * (b - c) = r * (a - c)
  OBVIOUS

LEMMA RefillMonotone ==
    ASSUME NEW r \in Nat, NEW a \in Int, NEW b \in Int, NEW c \in Int, a <= b
    PROVE  r * (a - c) <= r * (b - c)
  BY RefillSign, RefillSplit

\* One more unit of time than it takes to reach a cost reaches it.
LEMMA WaitIsEnough ==
    ASSUME NEW r \in Nat \ {0}, NEW c \in Int
    PROVE  c \div r \in Int /\ r * ((c \div r) + 1) >= c
  OBVIOUS
-----------------------------------------------------------------------------
(* The clock.                                                              *)

\* However it is set back, the clock stays after the start of time, and
\* within what was seen of it.
ClockInv ==
    /\ time \in Nat /\ back \in 0..MaxBack /\ time >= PruneEvery + MaxBack
    /\ low \in Nat /\ high \in Nat
    /\ low <= clock /\ clock <= high /\ high <= time

LEMMA ClockStep == ClockInv /\ [Next]_vars => ClockInv'
<1> SUFFICES ASSUME ClockInv, [Next]_vars PROVE ClockInv'
  OBVIOUS
<1> USE IntakeAssumption DEF ClockInv, clock
<1>1. CASE UNCHANGED <<time, back, low, high>>
  BY <1>1
<1>2. CASE Pass
  BY <1>2 DEF Pass, Max2
<1>3. CASE SetBack
  BY <1>3 DEF SetBack
<1>4. CASE Restart
  BY <1>4 DEF Restart
<1> QED
  BY <1>1, <1>2, <1>3, <1>4 DEF Next, vars, Arrive, Drop, RefuseFlood, Unauthorized,
     RefuseBudget, Unprocessable, Accept, TogglePause, Scan
-----------------------------------------------------------------------------
(* The buckets.                                                            *)

BucketState == [units : Int, at : Int]

BucketType ==
    /\ bucket \in [Buckets -> BucketState]
    /\ \A k \in Buckets : bucket[k] # NoBucket =>
          bucket[k].units <= Capacity(k) /\ bucket[k].at \in Nat
    /\ pruned \in Nat
    /\ passed \in [Buckets -> Nat]
    /\ retry \in [Buckets -> Int]

LEMMA BucketFacts ==
    ASSUME NEW k \in Buckets
    PROVE  /\ Rate[k[1]] \in Nat /\ Rate[k[1]] # 0
           /\ Cost \in Nat \ {0} /\ Capacity(k) \in Nat /\ Capacity(k) >= Cost
<1>1. k[1] \in Scope
  BY DEF Buckets
<1>2. Rate[k[1]] \in Nat \ {0} /\ Burst[k[1]] \in Nat \ {0} /\ Cost \in Nat \ {0}
  BY <1>1, IntakeAssumption
<1>3. \A b \in Nat \ {0} : Cost * b \in Nat /\ Cost * b >= Cost
  BY <1>2
<1> QED
  BY <1>2, <1>3 DEF Capacity

\* What a bucket holds later: what it held and the refill, up to its burst.
LEMMA LevelOf ==
    ASSUME NEW b, NEW k \in Buckets, NEW n \in Int, b[k] \in BucketState
    PROVE  /\ Level(b, k, n) \in Int /\ Level(b, k, n) <= Capacity(k)
           /\ b[k] = NoBucket => Level(b, k, n) = Capacity(k)
           /\ b[k] # NoBucket =>
                /\ Level(b, k, n) <= b[k].units + Rate[k[1]] * (n - b[k].at)
                /\ \/ Level(b, k, n) = Capacity(k)
                   \/ Level(b, k, n) = b[k].units + Rate[k[1]] * (n - b[k].at)
<1>1. Rate[k[1]] \in Nat /\ Capacity(k) \in Nat
  BY BucketFacts
<1>2. b[k].units \in Int /\ b[k].at \in Int /\ Rate[k[1]] * (n - b[k].at) \in Int
  BY <1>1, RefillSign DEF BucketState
<1> QED
  BY <1>1, <1>2 DEF Level

LEMMA PruneOf ==
    ASSUME BucketType, NEW k \in Buckets
    PROVE  /\ Prune(bucket)[k] \in BucketState
           /\ \/ Prune(bucket)[k] = bucket[k]
              \/ /\ Prune(bucket)[k] = NoBucket /\ bucket[k] # NoBucket
                 /\ clock - bucket[k].at > PruneEvery
<1>1. NoBucket \in BucketState
  BY DEF NoBucket, BucketState, Never
<1> QED
  BY <1>1 DEF Prune, BucketType

\* The checks of one request: what they let through had the credit.
Checked ==
    /\ \E ks, refused \in SUBSET Buckets :
          /\ Take(ks, refused)
          /\ \A k \in ks : Passes(k)
          /\ \A k \in refused : ~Passes(k)
    /\ UNCHANGED <<time, back, low, high>>

\* Time passes, or the clock is set back, and no request is checked.
Unchecked ==
    /\ UNCHANGED limits
    /\ time' \in {time, time + 1} /\ back' \in {back, back + 1}
    /\ low' <= low /\ high' >= high

LEMMA StepKinds ==
    ASSUME ClockInv, [Next]_vars
    PROVE  Checked \/ Unchecked \/ Restart
<1> USE DEF ClockInv, clock
<1>1. ASSUME NEW q \in Requests PROVE Ip(q) \in Buckets /\ Budget(q) \in Buckets
  BY IntakeAssumption DEF Ip, Budget, Buckets, Scope
<1>a. ASSUME NEW ks \in SUBSET Buckets, NEW refused \in SUBSET Buckets,
             Take(ks, refused), \A k \in ks : Passes(k), \A k \in refused : ~Passes(k),
             UNCHANGED <<time, back, low, high>>
      PROVE  Checked
  BY <1>a, Zenon DEF Checked
<1>2. ASSUME NEW q \in Requests, RefuseFlood(q) PROVE Checked
  <2>1. Take({}, {Ip(q)}) /\ ~Passes(Ip(q)) /\ UNCHANGED <<time, back, low, high>>
    BY <1>2 DEF RefuseFlood
  <2> QED
    BY <1>1, <1>a, <2>1
<1>3. ASSUME NEW q \in Requests, Unauthorized(q) PROVE Checked
  <2>1. Take({Ip(q)}, {}) /\ Passes(Ip(q)) /\ UNCHANGED <<time, back, low, high>>
    BY <1>3 DEF Unauthorized
  <2> QED
    BY <1>1, <1>a, <2>1
<1>4. ASSUME NEW q \in Requests, RefuseBudget(q) PROVE Checked
  <2>1. Take({Ip(q)}, {Budget(q)}) /\ Passes(Ip(q)) /\ ~Passes(Budget(q))
        /\ UNCHANGED <<time, back, low, high>>
    BY <1>4 DEF RefuseBudget
  <2> QED
    BY <1>1, <1>a, <2>1
<1>5. ASSUME NEW q \in Requests, Accept(q) PROVE Checked
  <2>1. Take({Ip(q), Budget(q)}, {}) /\ Passes(Ip(q)) /\ Passes(Budget(q))
        /\ UNCHANGED <<time, back, low, high>>
    BY <1>5 DEF Accept
  <2> QED
    BY <1>1, <1>a, <2>1
<1>6. CASE Pass
  BY <1>6 DEF Pass, Unchecked, Max2
<1>7. CASE SetBack
  BY <1>7 DEF SetBack, Unchecked
<1>8. CASE UNCHANGED <<time, back, low, high, limits>>
  BY <1>8 DEF Unchecked
<1>9. ASSUME NEW q \in Requests, Unprocessable(q) PROVE Checked
  <2>1. Take({Ip(q), Budget(q)}, {}) /\ Passes(Ip(q)) /\ Passes(Budget(q))
        /\ UNCHANGED <<time, back, low, high>>
    BY <1>9 DEF Unprocessable
  <2> QED
    BY <1>1, <1>a, <2>1
<1> QED
  BY <1>2, <1>3, <1>4, <1>5, <1>6, <1>7, <1>8, <1>9 DEF Next, vars, Arrive, Drop,
     TogglePause, Scan

\* What the checks leave in bucket k.
LEMMA TakeOf ==
    ASSUME BucketType, ClockInv, NEW ks \in SUBSET Buckets,
           NEW refused \in SUBSET Buckets, Take(ks, refused), NEW k \in Buckets,
           \A j \in ks : Passes(j), \A j \in refused : ~Passes(j)
    PROVE  LET b == Prune(bucket)
               u == Level(b, k, clock)
           IN  \/ /\ bucket'[k] = [units |-> u - Cost, at |-> clock] /\ u >= Cost
                  /\ passed'[k] = passed[k] + 1 /\ retry'[k] = Never
               \/ /\ bucket'[k] = [units |-> u, at |-> clock] /\ u < Cost
                  /\ passed'[k] = passed[k]
                  /\ retry'[k] = clock + RetryAfter(k, u)
               \/ /\ bucket'[k] = b[k]
                  /\ passed'[k] = passed[k] /\ retry'[k] = retry[k]
<1> DEFINE b == Prune(bucket)
           u == Level(b, k, clock)
<1>0. clock \in Int
  BY DEF ClockInv, clock
<1>1. u \in Int /\ Cost \in Int
  BY <1>0, PruneOf, LevelOf, BucketFacts
<1>2. k \in ks => u >= Cost /\ k \notin refused
  BY DEF Passes
<1>3. k \in refused => u < Cost /\ k \notin ks
  BY <1>1 DEF Passes
<1>4. bucket'[k] = IF k \in ks THEN [units |-> u - Cost, at |-> clock]
                   ELSE IF k \in refused THEN [units |-> u, at |-> clock] ELSE b[k]
  BY DEF Take
<1>5. /\ passed'[k] = IF k \in ks THEN passed[k] + 1 ELSE passed[k]
      /\ retry'[k] = IF k \in refused THEN clock + RetryAfter(k, u)
                     ELSE IF k \in ks THEN Never ELSE retry[k]
  BY DEF Take
<1> QED
  BY <1>2, <1>3, <1>4, <1>5

LEMMA RetryType ==
    ASSUME NEW k \in Buckets, NEW u \in Int
    PROVE  RetryAfter(k, u) \in Int
  BY BucketFacts, WaitIsEnough DEF RetryAfter

LEMMA BucketTypeStep == ClockInv /\ BucketType /\ [Next]_vars => BucketType'
<1> SUFFICES ASSUME ClockInv, BucketType, [Next]_vars PROVE BucketType'
  OBVIOUS
<1>0. clock \in Nat
  BY IntakeAssumption DEF ClockInv, clock
<1>1. CASE Unchecked
  BY <1>1 DEF Unchecked, limits, BucketType, Capacity
<1>2. CASE Restart
  <2>1. /\ bucket' = [k \in Buckets |-> NoBucket] /\ pruned' = 0
        /\ passed' = [k \in Buckets |-> 0] /\ retry' = [k \in Buckets |-> Never]
    BY <1>2 DEF Restart, Fresh
  <2>2. NoBucket \in BucketState
    BY DEF NoBucket, BucketState, Never
  <2> QED
    BY <2>1, <2>2 DEF BucketType, Never
<1>3. ASSUME NEW ks \in SUBSET Buckets, NEW refused \in SUBSET Buckets,
             Take(ks, refused), \A k \in ks : Passes(k), \A k \in refused : ~Passes(k)
      PROVE  BucketType'
  <2>1. /\ bucket' = [k \in Buckets |-> bucket'[k]]
        /\ passed' = [k \in Buckets |-> passed'[k]]
        /\ retry' = [k \in Buckets |-> retry'[k]]
        /\ pruned' \in {pruned, clock}
    BY <1>3 DEF Take
  <2>2. ASSUME NEW k \in Buckets
        PROVE  /\ bucket'[k] \in BucketState
               /\ bucket'[k] # NoBucket =>
                    bucket'[k].units <= Capacity(k) /\ bucket'[k].at \in Nat
               /\ passed'[k] \in Nat /\ retry'[k] \in Int
    <3> DEFINE u == Level(Prune(bucket), k, clock)
    <3>1. u \in Int /\ u <= Capacity(k)
      BY <1>0, PruneOf, LevelOf
    <3>2. RetryAfter(k, u) \in Int /\ Cost \in Nat /\ Capacity(k) \in Nat
      BY <3>1, RetryType, BucketFacts
    <3>3. passed[k] \in Nat /\ retry[k] \in Int /\ Never \in Int
      BY DEF BucketType, Never
    <3> HIDE DEF u
    <3>4. \/ /\ bucket'[k] = [units |-> u - Cost, at |-> clock]
             /\ passed'[k] = passed[k] + 1 /\ retry'[k] = Never
          \/ /\ bucket'[k] = [units |-> u, at |-> clock]
             /\ passed'[k] = passed[k]
             /\ retry'[k] = clock + RetryAfter(k, u)
          \/ /\ bucket'[k] = Prune(bucket)[k]
             /\ passed'[k] = passed[k] /\ retry'[k] = retry[k]
      BY <1>3, TakeOf DEF u
    <3>5. CASE bucket'[k] = Prune(bucket)[k]
      BY <3>1, <3>2, <3>3, <3>4, <3>5, <1>0, PruneOf DEF BucketType
    <3> QED
      BY <3>1, <3>2, <3>3, <3>4, <3>5, <1>0 DEF BucketState
  <2> QED
    BY <1>0, <2>1, <2>2 DEF BucketType, Capacity
<1> QED
  BY <1>1, <1>2, <1>3, StepKinds DEF Checked

\* What a bucket has let through and still holds is its burst and what was
\* refilled since the earliest clock; what a bucket that was dropped has let
\* through was refilled by the earliest time the clock can go back to.
DebtOf(k) ==
    IF bucket[k] = NoBucket
    THEN RefillsWhenIdle(k[1]) =>
            \/ passed[k] = 0
            \/ Cost * passed[k] <= Rate[k[1]] * (time - MaxBack - low)
    ELSE /\ bucket[k].units + Rate[k[1]] * (high - bucket[k].at) >= 0
         /\ bucket[k].units + Rate[k[1]] * back >= 0
         /\ RefillsWhenIdle(k[1]) =>
              Cost * passed[k] + bucket[k].units
                  <= Capacity(k) + Rate[k[1]] * (bucket[k].at - low)

Debt == \A k \in Buckets : DebtOf(k)

\* Time, setting the clock back and widening the span keep the debt.
LEMMA DebtUnchecked ==
    ASSUME ClockInv, ClockInv', BucketType, Unchecked, NEW k \in Buckets, DebtOf(k)
    PROVE  DebtOf(k)'
<1> DEFINE r == Rate[k[1]]
<1>1. /\ bucket' = bucket /\ passed' = passed
      /\ time' >= time /\ back' >= back /\ low' <= low /\ high' >= high
  BY DEF Unchecked, limits, ClockInv
<1>2. /\ {time, back, low, high, time', back', low', high', MaxBack} \subseteq Int
      /\ r \in Nat /\ bucket[k] \in BucketState /\ passed[k] \in Nat /\ Cost \in Nat
      /\ Capacity(k) \in Nat
  BY BucketFacts, IntakeAssumption DEF ClockInv, BucketType
<1>3. RefillsWhenIdle(k[1])' = RefillsWhenIdle(k[1]) /\ Capacity(k)' = Capacity(k)
  BY DEF RefillsWhenIdle, Capacity
<1> HIDE DEF r
<1>4. CASE bucket[k] = NoBucket
  <2>1. r * (time - MaxBack - low) <= r * (time' - MaxBack - low')
    <3>1. r * ((time - MaxBack) - low) <= r * ((time' - MaxBack) - low)
      <4>1. /\ time - MaxBack \in Int /\ time' - MaxBack \in Int /\ low \in Int
            /\ time - MaxBack <= time' - MaxBack /\ r \in Nat
        BY <1>1, <1>2
      <4> QED
        BY <4>1, RefillMonotone
    <3>2. r * ((time' - MaxBack) - low) <= r * ((time' - MaxBack) - low')
      BY <1>1, <1>2
    <3>3. /\ r * ((time - MaxBack) - low) \in Int /\ r * ((time' - MaxBack) - low) \in Int
          /\ r * ((time' - MaxBack) - low') \in Int
      BY <1>2
    <3> QED
      BY <3>1, <3>2, <3>3
  <2>2. Cost * passed[k] \in Int /\ r * (time - MaxBack - low) \in Int
        /\ r * (time' - MaxBack - low') \in Int
    BY <1>2
  <2> QED
    BY <1>1, <1>3, <1>4, <2>1, <2>2 DEF DebtOf, r
<1>5. CASE bucket[k] # NoBucket
  <2>1. bucket[k].units \in Int /\ bucket[k].at \in Int
    BY <1>2 DEF BucketState
  <2>2. r * (high - bucket[k].at) <= r * (high' - bucket[k].at)
    BY <1>1, <1>2, <2>1, RefillMonotone
  <2>3. r * back <= r * back'
    BY <1>1, <1>2
  <2>4. r * (bucket[k].at - low) <= r * (bucket[k].at - low')
    BY <1>1, <1>2, <2>1
  <2>5. /\ r * (high - bucket[k].at) \in Int /\ r * (high' - bucket[k].at) \in Int
        /\ r * back \in Int /\ r * back' \in Int /\ Cost * passed[k] \in Int
        /\ r * (bucket[k].at - low) \in Int /\ r * (bucket[k].at - low') \in Int
    BY <1>2, <2>1
  <2> QED
    BY <1>1, <1>2, <1>3, <1>5, <2>1, <2>2, <2>3, <2>4, <2>5 DEF DebtOf, r
<1> QED
  BY <1>4, <1>5

\* A bucket that was idle for long is full by then, or would be: dropping it
\* gives nothing away.
LEMMA PruneDebt ==
    ASSUME ClockInv, BucketType, NEW k \in Buckets, DebtOf(k),
           Prune(bucket)[k] = NoBucket, RefillsWhenIdle(k[1])
    PROVE  \/ passed[k] = 0
           \/ Cost * passed[k] <= Rate[k[1]] * (time - MaxBack - low)
<1> DEFINE r == Rate[k[1]]
           at == bucket[k].at
           units == bucket[k].units
<1>1. CASE bucket[k] = NoBucket
  BY <1>1 DEF DebtOf
<1>2. CASE bucket[k] # NoBucket
  <2>1. clock - at > PruneEvery
    BY <1>2, PruneOf
  <2>2. /\ {time, back, low, MaxBack, PruneEvery} \subseteq Int
        /\ r \in Nat /\ at \in Int /\ units \in Int /\ Cost * passed[k] \in Int
        /\ Capacity(k) \in Int
    BY BucketFacts, IntakeAssumption DEF ClockInv, BucketType, BucketState
  <2>3. /\ units + r * back >= 0
        /\ Cost * passed[k] + units <= Capacity(k) + r * (at - low)
    BY <1>2 DEF DebtOf
  <2>4. r * (PruneEvery - MaxBack) >= Capacity(k)
    BY DEF RefillsWhenIdle, Capacity
  <2> HIDE DEF r, at, units
  <2>5. /\ r * back \in Int /\ r * (at - low) \in Int /\ r * (PruneEvery - MaxBack) \in Int
        /\ r * ((time - MaxBack) - at) \in Int /\ r * ((time - MaxBack) - low) \in Int
        /\ r * ((PruneEvery - MaxBack) - (0 - back)) \in Int
    BY <2>2
  <2>6. r * back + r * (PruneEvery - MaxBack) = r * ((PruneEvery - MaxBack) - (0 - back))
    BY <2>2
  <2>7. (PruneEvery - MaxBack) + back <= (time - MaxBack) - at
    BY <2>1, <2>2 DEF clock
  <2>8. r * ((PruneEvery - MaxBack) - (0 - back)) <= r * ((time - MaxBack) - at)
    BY <2>2, <2>7
  <2>9. r * ((time - MaxBack) - at) + r * (at - low) = r * ((time - MaxBack) - low)
    BY <2>2, RefillSplit
  <2> QED
    BY <2>2, <2>3, <2>4, <2>5, <2>6, <2>8, <2>9 DEF r
<1> QED
  BY <1>1, <1>2

\* What a check finds in a bucket is covered by the debt.
LEMMA LevelDebt ==
    ASSUME ClockInv, BucketType, NEW k \in Buckets, DebtOf(k)
    PROVE  LET u == Level(Prune(bucket), k, clock)
               r == Rate[k[1]]
           IN  /\ u + r * (high - clock) >= 0
               /\ u + r * back >= 0
               /\ RefillsWhenIdle(k[1]) =>
                    Cost * passed[k] + u <= Capacity(k) + r * (clock - low)
<1> DEFINE u == Level(Prune(bucket), k, clock)
           r == Rate[k[1]]
           at == bucket[k].at
           units == bucket[k].units
<1>1. /\ {time, back, low, high, clock, MaxBack} \subseteq Int
      /\ r \in Nat /\ Cost * passed[k] \in Int
      /\ Capacity(k) \in Nat /\ u \in Int
      /\ clock + back = time /\ low <= clock /\ clock <= high /\ high <= time
      /\ back \in 0..MaxBack
  <2>1. clock \in Int
    BY DEF ClockInv, clock
  <2>2. u \in Int
    BY <2>1, PruneOf, LevelOf
  <2> QED
    BY <2>1, <2>2, BucketFacts, IntakeAssumption DEF ClockInv, BucketType, clock
<1>2. /\ r * (high - clock) >= 0 /\ r * back >= 0 /\ r * (clock - low) >= 0
      /\ r * (high - clock) \in Int /\ r * back \in Int /\ r * (clock - low) \in Int
  BY <1>1
<1>3. CASE Prune(bucket)[k] = NoBucket
  <2>1. u = Capacity(k)
    BY <1>1, <1>3, PruneOf, LevelOf
  <2> HIDE DEF u, r
  <2>2. r * ((time - MaxBack) - low) <= r * (clock - low)
    BY <1>1, RefillMonotone
  <2>3. r * ((time - MaxBack) - low) \in Int
    BY <1>1
  <2>4. RefillsWhenIdle(k[1]) =>
            \/ passed[k] = 0
            \/ Cost * passed[k] <= r * ((time - MaxBack) - low)
    BY <1>3, PruneDebt DEF r
  <2>5. passed[k] = 0 => Cost * passed[k] = 0
    BY BucketFacts
  <2> QED
    BY <1>1, <1>2, <2>1, <2>2, <2>3, <2>4, <2>5 DEF u, r
<1>4. CASE Prune(bucket)[k] # NoBucket
  <2>1. Prune(bucket)[k] = bucket[k] /\ bucket[k] # NoBucket
    BY <1>4, PruneOf
  <2>2. at \in Int /\ units \in Int
    BY DEF BucketType, BucketState
  <2>3. /\ units + r * (high - at) >= 0
        /\ RefillsWhenIdle(k[1]) =>
              Cost * passed[k] + units <= Capacity(k) + r * (at - low)
    BY <2>1 DEF DebtOf
  <2>4. /\ u <= units + r * (clock - at)
        /\ u = Capacity(k) \/ u = units + r * (clock - at)
    BY <1>1, <2>1, PruneOf, LevelOf
  <2> HIDE DEF u, r, at, units
  <2>5. /\ r * (clock - at) + r * (high - clock) = r * (high - at)
        /\ r * (clock - at) + r * (at - low) = r * (clock - low)
        /\ r * (clock - at) + r * back = r * (time - at)
    BY <1>1, <2>2
  <2>6. r * (high - at) <= r * (time - at)
    BY <1>1, <2>2
  <2>7. /\ r * (clock - at) \in Int /\ r * (high - at) \in Int /\ r * (at - low) \in Int
        /\ r * (time - at) \in Int
    BY <1>1, <2>2
  <2> QED
    BY <1>1, <1>2, <2>2, <2>3, <2>4, <2>5, <2>6, <2>7 DEF u, r
<1> QED
  BY <1>3, <1>4

LEMMA DebtChecked ==
    ASSUME ClockInv, BucketType, Checked, NEW k \in Buckets, DebtOf(k)
    PROVE  DebtOf(k)'
<1> DEFINE u == Level(Prune(bucket), k, clock)
           r == Rate[k[1]]
<1>1. /\ UNCHANGED <<time, back, low, high>>
      /\ RefillsWhenIdle(k[1])' = RefillsWhenIdle(k[1]) /\ Capacity(k)' = Capacity(k)
  BY DEF Checked, RefillsWhenIdle, Capacity
<1>2. \/ /\ bucket'[k] = [units |-> u - Cost, at |-> clock] /\ u >= Cost
         /\ passed'[k] = passed[k] + 1
      \/ /\ bucket'[k] = [units |-> u, at |-> clock]
         /\ passed'[k] = passed[k]
      \/ /\ bucket'[k] = Prune(bucket)[k]
         /\ passed'[k] = passed[k]
  BY TakeOf DEF Checked
<1>3. /\ u + r * (high - clock) >= 0
      /\ u + r * back >= 0
      /\ RefillsWhenIdle(k[1]) =>
           Cost * passed[k] + u <= Capacity(k) + r * (clock - low)
  BY LevelDebt
<1>4. /\ clock \in Nat /\ u \in Int /\ r \in Nat /\ Cost \in Nat /\ passed[k] \in Nat
      /\ {back, low, high} \subseteq Int /\ back >= 0 /\ high >= clock
      /\ Capacity(k) \in Nat
  <2>1. clock \in Nat
    BY IntakeAssumption DEF ClockInv, clock
  <2>2. u \in Int
    BY <2>1, PruneOf, LevelOf
  <2> QED
    BY <2>1, <2>2, BucketFacts, IntakeAssumption DEF ClockInv, BucketType
<1>5. /\ r * (high - clock) >= 0 /\ r * back >= 0
      /\ r * (high - clock) \in Int /\ r * back \in Int /\ r * (clock - low) \in Int
  BY <1>4
<1>6. clock # Never
  BY <1>4 DEF Never
<1> HIDE DEF u, r
<1>7. ASSUME bucket'[k] = [units |-> u - Cost, at |-> clock], u >= Cost,
             passed'[k] = passed[k] + 1
      PROVE  DebtOf(k)'
  <2>1. bucket'[k] # NoBucket /\ bucket'[k].units = u - Cost /\ bucket'[k].at = clock
    BY <1>6, <1>7 DEF NoBucket
  <2>2. Cost * (passed[k] + 1) = Cost * passed[k] + Cost /\ Cost * passed[k] \in Int
    BY <1>4
  <2>3. u - Cost \in Nat
    BY <1>4, <1>7
  <2> QED
    BY <1>1, <1>3, <1>4, <1>5, <1>7, <2>1, <2>2, <2>3 DEF DebtOf, r
<1>8. ASSUME bucket'[k] = [units |-> u, at |-> clock], passed'[k] = passed[k]
      PROVE  DebtOf(k)'
  <2>1. bucket'[k] # NoBucket /\ bucket'[k].units = u /\ bucket'[k].at = clock
    BY <1>6, <1>8 DEF NoBucket
  <2> QED
    BY <1>1, <1>3, <1>8, <2>1 DEF DebtOf, r
<1>9. ASSUME bucket'[k] = Prune(bucket)[k], passed'[k] = passed[k]
      PROVE  DebtOf(k)'
  <2>1. CASE Prune(bucket)[k] = NoBucket
    BY <1>1, <1>9, <2>1, PruneDebt DEF DebtOf
  <2>2. CASE Prune(bucket)[k] # NoBucket
    BY <1>1, <1>9, <2>2, PruneOf DEF DebtOf
  <2> QED
    BY <2>1, <2>2
<1> QED
  BY <1>2, <1>7, <1>8, <1>9

LEMMA DebtStep == ClockInv /\ BucketType /\ Debt /\ [Next]_vars => Debt'
<1> SUFFICES ASSUME ClockInv, BucketType, Debt, [Next]_vars, NEW k \in Buckets
             PROVE  DebtOf(k)'
  BY DEF Debt
<1>1. DebtOf(k) /\ ClockInv'
  BY ClockStep DEF Debt
<1>2. CASE Restart
  <2>1. bucket'[k] = NoBucket /\ passed'[k] = 0
    BY <1>2 DEF Restart, Fresh
  <2> QED
    BY <2>1 DEF DebtOf
<1> QED
  BY <1>1, <1>2, StepKinds, DebtUnchecked, DebtChecked

LEMMA DebtImpliesBound == ClockInv /\ BucketType /\ Debt => RateBound
<1> SUFFICES ASSUME ClockInv, BucketType, Debt, NEW k \in Buckets, RefillsWhenIdle(k[1])
             PROVE  Cost * passed[k] <= Capacity(k) + Rate[k[1]] * (high - low)
  BY DEF RateBound
<1> DEFINE r == Rate[k[1]]
<1>1. /\ {time, back, low, high, MaxBack} \subseteq Int /\ back <= MaxBack
      /\ r \in Nat /\ Cost * passed[k] \in Int /\ Capacity(k) \in Nat
      /\ time - MaxBack <= high /\ low <= high
  BY BucketFacts, IntakeAssumption DEF ClockInv, BucketType, clock
<1>2. r * (high - low) >= 0 /\ r * (high - low) \in Int
  BY <1>1
<1>3. CASE bucket[k] = NoBucket
  <2>1. \/ passed[k] = 0
        \/ Cost * passed[k] <= r * ((time - MaxBack) - low)
    BY <1>3 DEF Debt, DebtOf
  <2> HIDE DEF r
  <2>2. /\ r * ((time - MaxBack) - low) <= r * (high - low)
        /\ r * ((time - MaxBack) - low) \in Int
    BY <1>1
  <2>3. passed[k] = 0 => Cost * passed[k] = 0
    BY BucketFacts
  <2> QED
    BY <1>1, <1>2, <2>1, <2>2, <2>3 DEF r
<1>4. CASE bucket[k] # NoBucket
  <2> DEFINE at == bucket[k].at
             units == bucket[k].units
  <2>1. at \in Int /\ units \in Int
    BY DEF BucketType, BucketState
  <2>2. /\ units + r * (high - at) >= 0
        /\ Cost * passed[k] + units <= Capacity(k) + r * (at - low)
    BY <1>4 DEF Debt, DebtOf
  <2> HIDE DEF r, at, units
  <2>3. r * (high - at) + r * (at - low) = r * (high - low)
    BY <1>1, <2>1
  <2>4. r * (high - at) \in Int /\ r * (at - low) \in Int
    BY <1>1, <2>1
  <2> QED
    BY <1>1, <1>2, <2>1, <2>2, <2>3, <2>4 DEF r
<1> QED
  BY <1>3, <1>4

\* A refusal promises what the bucket will hold by then.
LEMMA RetryStep == ClockInv /\ BucketType /\ RetryHolds /\ [Next]_vars => RetryHolds'
<1> SUFFICES ASSUME ClockInv, BucketType, RetryHolds, [Next]_vars,
                    NEW k \in Buckets, retry'[k] # Never
             PROVE  Level(bucket', k, retry'[k]) >= Cost
  BY DEF RetryHolds
<1> DEFINE u == Level(Prune(bucket), k, clock)
           r == Rate[k[1]]
<1>0. /\ BucketType' /\ retry'[k] \in Int /\ bucket'[k] \in BucketState
  BY BucketTypeStep DEF BucketType
<1>1. r \in Nat \ {0} /\ Cost \in Nat /\ Capacity(k) \in Nat /\ Capacity(k) >= Cost
  BY BucketFacts
<1>2. CASE Unchecked
  <2>1. bucket' = bucket /\ retry' = retry
    BY <1>2 DEF Unchecked, limits
  <2> QED
    BY <2>1 DEF RetryHolds
<1>3. CASE Restart
  BY <1>3 DEF Restart, Fresh
<1>4. ASSUME bucket'[k] = [units |-> u, at |-> clock], u < Cost,
             retry'[k] = clock + RetryAfter(k, u)
      PROVE  Level(bucket', k, retry'[k]) >= Cost
  <2>1. clock \in Nat /\ u \in Int
    <3>1. clock \in Nat
      BY IntakeAssumption DEF ClockInv, clock
    <3> QED
      BY <3>1, PruneOf, LevelOf
  <2>2. bucket'[k] # NoBucket /\ bucket'[k].units = u /\ bucket'[k].at = clock
    BY <1>4, <2>1 DEF NoBucket, Never
  <2> HIDE DEF u
  <2>3. (Cost - u) \div r \in Int /\ r * (((Cost - u) \div r) + 1) >= Cost - u
    <3>1. Cost - u \in Int
      BY <1>1, <2>1
    <3> QED
      BY <1>1, <3>1, WaitIsEnough
  <2>4. retry'[k] - clock = ((Cost - u) \div r) + 1
    BY <1>4, <2>1, <2>3 DEF RetryAfter
  <2>5. \/ Level(bucket', k, retry'[k]) = Capacity(k)
        \/ Level(bucket', k, retry'[k]) = u + r * (((Cost - u) \div r) + 1)
    BY <1>0, <2>2, <2>4, LevelOf
  <2>6. r * (((Cost - u) \div r) + 1) \in Int
    BY <1>1, <2>3
  <2> QED
    BY <1>1, <2>1, <2>3, <2>5, <2>6
<1>5. ASSUME bucket'[k] = Prune(bucket)[k], retry'[k] = retry[k]
      PROVE  Level(bucket', k, retry'[k]) >= Cost
  <2>1. CASE Prune(bucket)[k] = NoBucket
    BY <1>0, <1>1, <1>5, <2>1, LevelOf
  <2>2. CASE Prune(bucket)[k] # NoBucket
    <3>1. bucket'[k] = bucket[k]
      BY <1>5, <2>2, PruneOf
    <3>2. Level(bucket', k, retry'[k]) = Level(bucket, k, retry[k])
      BY <1>5, <3>1 DEF Level
    <3> QED
      BY <1>5, <3>2 DEF RetryHolds
  <2> QED
    BY <2>1, <2>2
<1>6. CASE Checked
  <2>1. \/ retry'[k] = Never
        \/ /\ bucket'[k] = [units |-> u, at |-> clock] /\ u < Cost
           /\ retry'[k] = clock + RetryAfter(k, u)
        \/ bucket'[k] = Prune(bucket)[k] /\ retry'[k] = retry[k]
    BY <1>6, TakeOf DEF Checked
  <2> QED
    BY <2>1, <1>4, <1>5
<1> QED
  BY <1>2, <1>3, <1>6, StepKinds

LEMMA LimitsInit == Init => ClockInv /\ BucketType /\ Debt /\ RetryHolds
<1> SUFFICES ASSUME Init PROVE ClockInv /\ BucketType /\ Debt /\ RetryHolds
  OBVIOUS
<1>1. ClockInv
  BY IntakeAssumption DEF Init, ClockInv, clock
<1>2. NoBucket \in BucketState /\ Never \in Int
  BY DEF NoBucket, BucketState, Never
<1>3. /\ bucket = [k \in Buckets |-> NoBucket] /\ passed = [k \in Buckets |-> 0]
      /\ retry = [k \in Buckets |-> Never] /\ pruned = 0
  BY DEF Init
<1>4. BucketType
  BY <1>2, <1>3 DEF BucketType
<1>5. Debt /\ RetryHolds
  BY <1>3 DEF Debt, DebtOf, RetryHolds
<1> QED
  BY <1>1, <1>4, <1>5

\* Whatever the clock does and whichever buckets are dropped on the way, a
\* client gets a burst and what is refilled between the earliest clock and
\* the latest (ratelimit.py:12), from any limit that refills within the time
\* an idle bucket is kept.
THEOREM RateBoundHolds == Spec => []RateBound
<1>1. ClockInv /\ BucketType /\ Debt /\ [Next]_vars => (ClockInv /\ BucketType /\ Debt)'
  BY ClockStep, BucketTypeStep, DebtStep
<1> QED
  BY LimitsInit, <1>1, DebtImpliesBound, PTL DEF Spec

\* A client that waits as long as the refusal said has the credit then
\* (ratelimit.py:56), for every rate and burst.
THEOREM RetryHoldsHolds == Spec => []RetryHolds
<1>1. ClockInv /\ BucketType /\ RetryHolds /\ [Next]_vars =>
        (ClockInv /\ BucketType /\ RetryHolds)'
  BY ClockStep, BucketTypeStep, RetryStep
<1> QED
  BY LimitsInit, <1>1, PTL DEF Spec
-----------------------------------------------------------------------------
(* Idempotency keys.                                                       *)

\* The lookup and the insert are in one turn of the event loop: however many
\* requests with a key are in progress, none meets the unique index.
THEOREM RetriesAnsweredHolds == Spec => []RetriesAnswered
<1>1. Init => RetriesAnswered
  BY DEF Init, RetriesAnswered
<1>2. RetriesAnswered /\ [Next]_vars => RetriesAnswered'
  <2> SUFFICES ASSUME ~clash, [Next]_vars PROVE ~clash'
    BY DEF RetriesAnswered
  <2>1. ASSUME NEW q \in Requests, Accept(q) PROVE ~clash'
    <3>1. CASE req[q].paused \/ Known(q)
      <4>1. clash' <=> clash
        BY <2>1, <3>1, Zenon DEF Accept
      <4> QED
        BY <4>1
    <3>2. CASE ~(req[q].paused \/ Known(q))
      <4>1. clash' <=> clash \/ made[req[q].key] > 0
        BY <2>1, <3>2, Zenon DEF Accept
      <4> QED
        BY <3>2, <4>1 DEF Known
    <3> QED
      BY <3>1, <3>2
  <2>2. CASE UNCHANGED clash
    BY <2>2
  <2> QED
    BY <2>1, <2>2 DEF Next, vars, Arrive, Drop, RefuseFlood, Unauthorized, RefuseBudget, Unprocessable,
       TogglePause, Scan, Pass, SetBack, Restart
<1> QED
  BY <1>1, <1>2, PTL DEF Spec
-----------------------------------------------------------------------------
(* The schedules.                                                          *)

\* What was served lies behind the latest firing, and all of it since the
\* first one was.
Firings ==
    /\ last \in [Schedules -> Nat \cup {Never}]
    /\ first \in [Schedules -> Nat \cup {Never}]
    /\ \A s \in Schedules :
        /\ first[s] = Never <=> last[s] = Never
        /\ first[s] # Never => first[s] <= last[s]
        /\ \A d \in Due[s] :
            /\ fired[s][d] \in {0, 1}
            /\ fired[s][d] = 1 => last[s] # Never /\ d <= last[s]
            /\ first[s] # Never /\ first[s] < d /\ d <= last[s] => fired[s][d] = 1

\* A scan serves what lies between the latest firing and the clock.
LEMMA ScanKeepsFirings ==
    ASSUME ClockInv, Firings, Scan PROVE Firings'
<1>0. clock \in Nat /\ Never \notin Nat /\ \A s \in Schedules : Due[s] \subseteq Nat
  BY IntakeAssumption DEF ClockInv, clock, Never
<1>1. PICK reached \in SUBSET Schedules :
        LET now == {s \in reached : ~paused /\ Covered(s) # {}} IN
         /\ last' = [s \in Schedules |-> IF s \in now THEN clock ELSE last[s]]
         /\ fired' = [s \in Schedules |-> [d \in Due[s] |->
                IF s \in now /\ d \in Covered(s) THEN fired[s][d] + 1
                ELSE fired[s][d]]]
         /\ first' = [s \in Schedules |->
                IF s \in now /\ first[s] = Never THEN clock ELSE first[s]]
  BY DEF Scan
<1> DEFINE now == {s \in reached : ~paused /\ Covered(s) # {}}
<1>2. /\ last' \in [Schedules -> Nat \cup {Never}]
      /\ first' \in [Schedules -> Nat \cup {Never}]
  BY <1>0, <1>1 DEF Firings
<1>3. ASSUME NEW s \in Schedules
      PROVE  /\ first'[s] = Never <=> last'[s] = Never
             /\ first'[s] # Never => first'[s] <= last'[s]
             /\ \A d \in Due[s] :
                 /\ fired'[s][d] \in {0, 1}
                 /\ fired'[s][d] = 1 => last'[s] # Never /\ d <= last'[s]
                 /\ first'[s] # Never /\ first'[s] < d /\ d <= last'[s]
                      => fired'[s][d] = 1
  <2>1. CASE s \notin now
    <3>1. last'[s] = last[s] /\ first'[s] = first[s]
          /\ \A d \in Due[s] : fired'[s][d] = fired[s][d]
      BY <1>1, <2>1
    <3> QED
      BY <3>1 DEF Firings
  <2>2. CASE s \in now
    <3>1. /\ last'[s] = clock
          /\ first'[s] = IF first[s] = Never THEN clock ELSE first[s]
          /\ \A d \in Due[s] : fired'[s][d] = IF d \in Covered(s) THEN fired[s][d] + 1
                                              ELSE fired[s][d]
      BY <1>1, <2>2
    <3>2. PICK e \in Covered(s) : TRUE
      BY <2>2
    <3>3. CASE last[s] = Never
      BY <1>0, <3>1, <3>3 DEF Firings, Covered
    <3>4. CASE last[s] # Never
      <4>1. /\ last[s] \in Nat /\ first[s] \in Nat /\ first[s] <= last[s]
            /\ \A d \in Due[s] : d \in Covered(s) <=> last[s] < d /\ d <= clock
        BY <3>4 DEF Firings, Covered, Base
      <4>2. last[s] < clock
        BY <1>0, <3>2, <4>1 DEF Covered
      <4>3. ASSUME NEW d \in Due[s]
            PROVE  /\ fired'[s][d] \in {0, 1}
                   /\ fired'[s][d] = 1 => d <= clock
                   /\ first[s] < d /\ d <= clock => fired'[s][d] = 1
        <5>1. d \in Nat /\ fired[s][d] \in {0, 1} /\ (fired[s][d] = 1 => d <= last[s])
              /\ (first[s] < d /\ d <= last[s] => fired[s][d] = 1)
          BY <1>0, <3>4, <4>1 DEF Firings
        <5> QED
          BY <1>0, <3>1, <4>1, <4>2, <5>1
      <4> QED
        BY <1>0, <3>1, <4>1, <4>2, <4>3
    <3> QED
      BY <3>3, <3>4
  <2> QED
    BY <2>1, <2>2
<1> QED
  BY <1>2, <1>3 DEF Firings

LEMMA FiringsStep == ClockInv /\ Firings /\ [Next]_vars => Firings'
<1> SUFFICES ASSUME ClockInv, Firings, [Next]_vars PROVE Firings'
  OBVIOUS
<1>1. CASE UNCHANGED <<last, fired, first>>
  BY <1>1 DEF Firings
<1>2. CASE Restart
  BY <1>2 DEF Restart, Fresh, Firings, Never
<1> QED
  BY <1>1, <1>2, ScanKeepsFirings DEF Next, vars, cron, Arrive, Drop, RefuseFlood,
     Unauthorized, RefuseBudget, Unprocessable, Accept, TogglePause, Pass, SetBack

\* No due time is served twice and, once a schedule has fired, none up to its
\* latest firing is missed: late scans, scans cut short by an error, pauses
\* and a clock that is set back included (scheduler.py, _scan).
THEOREM ServedOnceHolds == Spec => []ServedOnce
<1>1. Init => ClockInv /\ Firings
  BY LimitsInit DEF Init, Firings, Never
<1>2. ClockInv /\ Firings /\ [Next]_vars => (ClockInv /\ Firings)'
  BY ClockStep, FiringsStep
<1>3. Firings => ServedOnce
  BY DEF Firings, ServedOnce
<1> QED
  BY <1>1, <1>2, <1>3, PTL DEF Spec
-----------------------------------------------------------------------------
(* Types.                                                                  *)

\* What IntakeTypeOK says beyond the clock, the buckets and the firings.
RestType ==
    /\ paused \in BOOLEAN
    /\ made \in [Idem -> 0..1]
    /\ tick \in 0..Tick

LEMMA RestTypeStep == RestType /\ [Next]_vars => RestType'
<1> SUFFICES ASSUME RestType, [Next]_vars PROVE RestType'
  OBVIOUS
<1>1. paused' \in BOOLEAN
  <2>1. paused' = paused \/ paused' = ~paused
    BY DEF Next, vars, Arrive, Drop, RefuseFlood, Unauthorized, RefuseBudget, Unprocessable, Accept,
       TogglePause, Scan, Pass, SetBack, Restart
  <2>2. paused \in BOOLEAN /\ (~paused) \in BOOLEAN
    BY Zenon DEF RestType
  <2> QED
    BY <2>1, <2>2, Zenon
<1>2. made' \in [Idem -> 0..1]
  <2>1. ASSUME NEW q \in Requests, Accept(q) PROVE made' \in [Idem -> 0..1]
    BY <2>1 DEF Accept, RestType
  <2>2. CASE made' = made
    BY <2>2 DEF RestType
  <2> QED
    BY <2>1, <2>2 DEF Next, vars, Arrive, Drop, RefuseFlood, Unauthorized, RefuseBudget, Unprocessable,
       TogglePause, Scan, Pass, SetBack, Restart
<1>3. tick' \in 0..Tick
  <2>1. CASE tick' = tick
    BY <2>1 DEF RestType
  <2>2. CASE Scan \/ Pass \/ Restart
    BY <2>2, IntakeAssumption DEF Scan, Pass, Restart, RestType
  <2> QED
    BY <2>1, <2>2 DEF Next, vars, cron, Arrive, Drop, RefuseFlood, Unauthorized,
       RefuseBudget, Unprocessable, Accept, TogglePause, SetBack
<1> QED
  BY <1>1, <1>2, <1>3 DEF RestType

\* Every variable of the intake keeps its type, no bucket holds more than its
\* burst, no key has two rows (ratelimit.py, store.py, scheduler.py).
THEOREM IntakeTypeCorrect == Spec => []IntakeTypeOK
<1>1. Init => ClockInv /\ BucketType /\ Firings /\ RestType
  <2> SUFFICES ASSUME Init PROVE ClockInv /\ BucketType /\ Firings /\ RestType
    OBVIOUS
  <2>1. ClockInv /\ BucketType
    BY LimitsInit
  <2>2. Firings
    BY DEF Init, Firings, Never
  <2>3. paused \in BOOLEAN
    BY Zenon DEF Init
  <2>4. made \in [Idem -> 0..1] /\ tick \in 0..Tick
    BY IntakeAssumption DEF Init
  <2> QED
    BY <2>1, <2>2, <2>3, <2>4 DEF RestType
<1>2. ClockInv /\ BucketType /\ Firings /\ RestType /\ [Next]_vars
        => (ClockInv /\ BucketType /\ Firings /\ RestType)'
  BY ClockStep, BucketTypeStep, FiringsStep, RestTypeStep
<1>3. ClockInv /\ BucketType /\ Firings /\ RestType => IntakeTypeOK
  BY DEF ClockInv, BucketType, Firings, RestType, IntakeTypeOK
<1> QED
  BY <1>1, <1>2, <1>3, PTL DEF Spec
=============================================================================
