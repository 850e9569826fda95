-------------------------- MODULE SyncCycleProofs --------------------------
(***************************************************************************)
(* Time in the safety node for any width of the timer, any cycle times and *)
(* any distance of the sync interrupts: the time base is the true time,    *)
(* the consecutive times agree and go on by no more than what has passed,  *)
(* and a sync interrupt that stays away is noticed, while one that comes   *)
(* is not taken for late.                                                  *)
(***************************************************************************)
EXTENDS SyncCycle, TLAPS

-----------------------------------------------------------------------------
(* Division and remainder. *)

LEMMA DivMod ==
    ASSUME NEW T \in Nat \ {0}, NEW a \in Int
    PROVE  /\ a = T * (a \div T) + (a % T)
           /\ a % T \in 0..(T - 1)
           /\ a \div T \in Int
BY SMT

LEMMA Products ==
    ASSUME NEW T \in Nat \ {0}, NEW k \in Int, NEW j \in Int
    PROVE  /\ T * k \in Int
           /\ k >= 0 => T * k >= 0
           /\ k <= -1 => T * k <= -T
           /\ T * (k - j) = T * k - T * j
           /\ T * (k + j) = T * k + T * j
<1>1. T * k \in Int /\ T * (k - j) = T * k - T * j /\ T * (k + j) = T * k + T * j
    BY SMT
<1>2. k >= 0 => T * k >= 0
    BY SMT
<1>3. k <= -1 => T * k <= -T
    <2>1. k <= -1 => T * (-1 - k) >= 0
        BY SMT
    <2>2. T * (-1 - k) = -T - T * k
        BY SMT
    <2> QED BY <1>1, <2>1, <2>2, SMT
<1> QED BY <1>1, <1>2, <1>3

LEMMA OnlyMultiple ==
    ASSUME NEW T \in Nat \ {0}, NEW k \in Int, NEW r \in Int,
           -T < r, r < T, r = T * k
    PROVE  r = 0
<1>1. CASE k = 0
    BY <1>1, SMT
<1>2. CASE k >= 1
    <2>1. T * k >= T
        BY <1>2, SMT
    <2> QED BY <2>1, SMT
<1>3. CASE k <= -1
    <2>1. T * k <= -T
        BY <1>3, SMT
    <2> QED BY <2>1, SMT
<1> QED BY <1>1, <1>2, <1>3, SMT

(* A number in range is the remainder of all that differ by turns. *)
LEMMA ModOfTurns ==
    ASSUME NEW T \in Nat \ {0}, NEW x \in Int, NEW k \in Int, 0 <= x, x < T
    PROVE  (x - T * k) % T = x
<1> DEFINE y == x - T * k
           d == y \div T
           m == y % T
<1>1. y \in Int
    BY SMT
<1> HIDE DEF y
<1>2. y = T * d + m /\ m \in 0..(T - 1) /\ d \in Int
    BY <1>1, DivMod
<1> HIDE DEF d, m
<1>3. T * (k + d) = x - m
    <2>1. T * (k + d) = T * k + T * d
        BY <1>2, SMT
    <2> QED BY <1>2, <2>1, SMT DEF y
<1>4. x - m \in Int /\ -T < x - m /\ x - m < T /\ k + d \in Int
    BY <1>2, SMT
<1>5. x - m = 0
    BY <1>3, <1>4, OnlyMultiple, SMT
<1> QED BY <1>2, <1>5, SMT DEF y, m

(* What a timer of T ticks says of a time at or after b. *)
LEMMA TimerDifference ==
    ASSUME NEW T \in Nat \ {0}, NEW n \in Nat, NEW b \in Nat, b <= n
    PROVE  /\ ((n % T) - b) % T \in Nat
           /\ ((n % T) - b) % T <= n - b
           /\ n - b < T => ((n % T) - b) % T = n - b
           /\ (b + (((n % T) - b) % T)) % T = n % T
<1> DEFINE q == n \div T
           r == n % T
           x == (n - b) % T
           k == (n - b) \div T
           tk == T * k
           tq == T * q
<1>1. n = tq + r /\ r \in 0..(T - 1) /\ q \in Int
    BY DivMod
<1>2. n - b = tk + x /\ x \in 0..(T - 1) /\ k \in Int
    BY DivMod, n - b \in Int
<1>3. tk \in Int /\ tq \in Int
    BY <1>1, <1>2, Products
<1>4. T * (q - k) = tq - tk /\ T * (k - q) = tk - tq
    BY <1>1, <1>2, Products
<1>5. (k >= 0 => tk >= 0) /\ (k <= -1 => tk <= -T)
    BY <1>2, Products
<1>6. tk < T /\ -T < tk => tk = 0
    BY <1>2, <1>3, OnlyMultiple
<1> HIDE DEF q, r, x, k, tk, tq
<1>7. (x - T * (q - k)) % T = x /\ (r - T * (k - q)) % T = r
    <2>1. q - k \in Int /\ k - q \in Int
        BY <1>1, <1>2, SMT
    <2>2. x \in Int /\ 0 <= x /\ x < T /\ r \in Int /\ 0 <= r /\ r < T
        BY <1>1, <1>2, SMT
    <2> QED BY <2>1, <2>2, ModOfTurns
<1>8. tk >= 0
    BY <1>2, <1>3, <1>5, SMT
<1>9. (r - b) % T = x
    <2>1. r - b = x - (tq - tk)
        BY <1>1, <1>2, <1>3, SMT
    <2> QED BY <1>4, <1>7, <2>1
<1>10. (b + x) % T = r
    <2>1. b + x = r - (tk - tq)
        BY <1>1, <1>2, <1>3, SMT
    <2> QED BY <1>4, <1>7, <2>1
<1>11. n - b < T => x = n - b
    BY <1>2, <1>3, <1>6, <1>8, SMT
<1>12. x \in Nat /\ x <= n - b
    BY <1>2, <1>3, <1>8, SMT
<1> QED BY <1>9, <1>10, <1>11, <1>12 DEF r

(* A longer time is not less in units of f. *)
LEMMA DivMonotone ==
    ASSUME NEW f \in Nat \ {0}, NEW a \in Nat, NEW b \in Nat, a <= b
    PROVE  a \div f \in Nat /\ b \div f \in Nat /\ a \div f <= b \div f
<1> DEFINE p == a \div f
           q == b \div f
           fp == f * p
           fq == f * q
<1>1. a = fp + (a % f) /\ a % f \in 0..(f - 1) /\ p \in Int
    BY DivMod
<1>2. b = fq + (b % f) /\ b % f \in 0..(f - 1) /\ q \in Int
    BY DivMod
<1>3. fp \in Int /\ fq \in Int /\ f * (q - p) = fq - fp
    BY <1>1, <1>2, Products
<1>4. (p <= -1 => fp <= -f) /\ (q - p <= -1 => f * (q - p) <= -f)
    BY <1>1, <1>2, Products, q - p \in Int
<1> HIDE DEF p, q, fp, fq
<1>5. p >= 0
    BY <1>1, <1>3, <1>4, SMT
<1>6. p <= q
    BY <1>1, <1>2, <1>3, <1>4, SMT
<1> QED BY <1>1, <1>2, <1>5, <1>6, SMT DEF p, q

(* What a timer says of the time since its last look, at a base that has   *)
(* the remainder of the time of that look.                                 *)
LEMMA TimerSince ==
    ASSUME NEW T \in Nat \ {0}, NEW n \in Nat, NEW s \in Nat, NEW b \in Nat,
           s <= n, b % T = s % T
    PROVE  /\ ((n % T) - b) % T \in Nat
           /\ ((n % T) - b) % T <= n - s
           /\ (b + (((n % T) - b) % T)) % T = n % T
<1> DEFINE x == ((n % T) - s) % T
           k == (b \div T) - (s \div T)
           tb == T * (b \div T)
           ts == T * (s \div T)
           tk == T * k
<1>1. x \in Nat /\ x <= n - s /\ (s + x) % T = n % T
    BY TimerDifference
<1>2. /\ b = tb + (b % T) /\ s = ts + (s % T) /\ k \in Int
      /\ b \div T \in Int /\ s \div T \in Int /\ s % T \in Int
    BY DivMod, SMT
<1>3. tk = tb - ts /\ tk \in Int /\ T * (-k) = -tk
    <2>1. tk = tb - ts /\ tk \in Int
        BY <1>2, Products
    <2>2. T * (0 - k) = T * 0 - T * k
        BY <1>2, Products
    <2>3. T * 0 = 0 /\ 0 - k = -k
        BY <1>2, SMT
    <2> QED BY <2>1, <2>2, <2>3, SMT
<1>4. b = s + tk
    <2>1. tb \in Int /\ ts \in Int
        BY <1>2, Products
    <2> HIDE DEF tk, k
    <2> QED BY <1>2, <1>3, <2>1, SMT
<1>5. \A r, m \in Int : r - m = tk => r % T = m % T
    <2> SUFFICES ASSUME NEW r \in Int, NEW m \in Int, r - m = tk PROVE r % T = m % T
        OBVIOUS
    <2> DEFINE y == r % T
               q == r \div T
               tq == T * q
    <2>1. r = tq + y /\ y \in 0..(T - 1) /\ q \in Int
        BY DivMod
    <2>2. T * (k - q) = tk - tq /\ tq \in Int /\ k - q \in Int
        BY <1>2, <2>1, Products
    <2>3. y \in Int /\ 0 <= y /\ y < T
        BY <2>1, SMT
    <2>4. (y - T * (k - q)) % T = y
        BY <2>2, <2>3, ModOfTurns
    <2> HIDE DEF y, q, tq, tk, k
    <2>5. m = y - (tk - tq)
        BY <1>3, <2>1, <2>2, <2>3, SMT
    <2> QED BY <2>2, <2>4, <2>5 DEF y
<1>6. n % T \in Int
    BY DivMod
<1> HIDE DEF tk, k, tb, ts
<1>7. x = ((n % T) - b) % T
    <2>1. (n % T) - s \in Int /\ (n % T) - b \in Int /\ ((n % T) - s) - ((n % T) - b) = tk
        BY <1>3, <1>4, <1>6, SMT
    <2> QED BY <1>5, <2>1
<1>8. (b + x) % T = (s + x) % T
    <2>1. b + x \in Int /\ s + x \in Int /\ (b + x) - (s + x) = tk
        BY <1>1, <1>3, <1>4, SMT
    <2> QED BY <1>5, <2>1
<1> QED BY <1>1, <1>7, <1>8

(* The difference of two times that are cut to W values is never more than *)
(* the true one.                                                           *)
LEMMA WrappedDifference ==
    ASSUME NEW W \in Nat \ {0}, NEW a \in Nat, NEW b \in Nat, a <= b
    PROVE  ((b % W) - (a % W)) % W \in Nat /\ ((b % W) - (a % W)) % W <= b - a
<1>1. a % W \in 0..(W - 1) /\ W \in Nat
    BY DivMod
<1>2. (a % W) % W = a % W
    <2>1. W * 0 = 0 /\ (a % W) - 0 = a % W /\ a % W \in Int /\ 0 <= a % W /\ a % W < W
        BY <1>1, SMT
    <2>2. ((a % W) - W * 0) % W = a % W
        BY <2>1, ModOfTurns
    <2> QED BY <2>1, <2>2
<1>3. a % W \in Nat
    BY <1>1, SMT
<1> QED BY <1>2, <1>3, TimerSince

(* What the consecutive time goes on by, in microseconds.                  *)
LEMMA UnitsPassed ==
    ASSUME NEW W \in Nat \ {0}, NEW f \in Nat \ {0}, NEW a \in Nat, NEW b \in Nat,
           a <= b, NEW d \in Int, b - a <= d
    PROVE  ((((b \div f) % W) - ((a \div f) % W)) % W) * f <= d + f - 1
<1> DEFINE p == a \div f
           q == b \div f
           x == ((q % W) - (p % W)) % W
           fp == f * p
           fq == f * q
           fx == f * x
<1>1. p \in Nat /\ q \in Nat /\ p <= q
    BY DivMonotone
<1>2. /\ a = fp + (a % f) /\ a % f \in 0..(f - 1)
      /\ b = fq + (b % f) /\ b % f \in 0..(f - 1)
    BY DivMod
<1> HIDE DEF p, q
<1>3. x \in Nat /\ x <= q - p
    BY <1>1, WrappedDifference
<1> HIDE DEF x
<1>4. /\ fp \in Int /\ fq \in Int /\ fx \in Int
      /\ f * (q - p) = fq - fp
      /\ f * ((q - p) - x) = f * (q - p) - fx
      /\ f * ((q - p) - x) >= 0
    <2>1. p \in Int /\ q \in Int /\ x \in Int /\ q - p \in Int /\ (q - p) - x \in Int
          /\ (q - p) - x >= 0
        BY <1>1, <1>3, SMT
    <2> QED BY <2>1, Products
<1>5. x * f = fx
    BY <1>3, SMT
<1> HIDE DEF fp, fq, fx
<1>6. fx <= fq - fp
    BY <1>4, SMT
<1>7. fq - fp <= (b - a) + f - 1
    BY <1>2, <1>4, SMT
<1>8. fx <= d + f - 1
    BY <1>4, <1>6, <1>7, SMT
<1> QED BY <1>5, <1>8 DEF x, p, q

(* The average of constime_syncConsTime, which never forms the sum of the  *)
(* two times, is the exact average of them, and both processors, which     *)
(* swap its arguments, compute the same one.                               *)
THEOREM AverageExact ==
    \A l, r \in Nat : /\ Average(l, r) = (l + r) \div 2
                      /\ Average(l, r) = Average(r, l)
BY SMT DEF Average
-----------------------------------------------------------------------------
(* The inductive invariant. *)

(* The time stamp of the monitoring is a time base of the past, and of a   *)
(* running one that of the last sync interrupt.                            *)
StampInv ==
    /\ cycMon.lastTimeStamp <= base[1]
    /\ cycMon.state = "Active" => cycMon.lastTimeStamp = base[1] /\ InRange(cycMon.cycleTime)

BaseInv == ~turnLost => base[1] = synced[1]

(* The timer and the time base of each processor have gone on together. *)
TimerInv == \A p \in Proc : base[p] % Turn = (synced[1] + lead(p)) % Turn

(* The microseconds p makes its next consecutive time of, and what they    *)
(* are ahead of those of its last one.                                     *)
Source(p) == IF redundant THEN Average(base[1], base[2]) ELSE base[p]
ConsTimeInv ==
    \A p \in Proc \ rescaled :
        /\ stamp[p].us <= Source(p)
        /\ Source(p) - stamp[p].us <= synced[1] - stamp[p].at
        /\ consTime[p] = ConsTimeOf(p, stamp[p].us)

(* How far a step may move the consecutive times. *)
Forward ==
    \A p \in Proc \ rescaled :
        ((consTime'[p] - consTime[p]) % Wrap) * factor[p]
            <= stamp'[p].at - stamp[p].at + factor[p] - 1

(* The last look of the loop found the cycle in time, but for the one that *)
(* is about to stop the monitoring.                                        *)
PollInv ==
    /\ now <= polled + PollGap
    /\ cycMon.state = "Active" /\ ~turnLost =>
        /\ loop = "idle" => polled <= synced[1] + cycMon.cycleTime + Tolerance
        /\ loop = "late" => polled <= synced[1] + cycMon.cycleTime + Tolerance + PollGap

IInv == TypeOK /\ StampInv /\ BaseInv /\ TimerInv /\ ConsTimeInv /\ ConsTimesAgree /\ PollInv

LEMMA Constants ==
    /\ Turn \in Nat \ {0} /\ Wrap \in Nat \ {0}
    /\ {CycleMin, CycleMax, Threshold, Tolerance, PollGap, Skew, MaxTime, MaxRescale} \subseteq Nat
    /\ \A f \in Factors : f \in Nat \ {0}
    /\ InitFactor \in Factors
BY TimeAssumption DEF TimeAssumption

(* What a look at the timer gives. *)
LEMMA TimeBase ==
    ASSUME TypeOK, NEW p \in Proc
    PROVE  constime_getTimeBase(p) \in Nat /\ constime_getTimeBase(p) >= base[p]
<1>1. TickCount(p) \in Int
    <2>1. \A n \in Int : n % Turn \in Int
        <3>1. Turn \in Nat \ {0}
            BY Constants
        <3> QED BY <3>1, DivMod
    <2>2. now + lead(p) \in Int
        BY Constants, SMT DEF TypeOK, lead
    <2> QED BY <2>1, <2>2 DEF TickCount
<1>2. base[p] \in Nat /\ TickCount(p) - base[p] \in Int
    BY <1>1, SMT DEF TypeOK
<1>3. (TickCount(p) - base[p]) % Turn \in 0..(Turn - 1)
    BY <1>2, DivMod, Constants
<1> DEFINE d == (TickCount(p) - base[p]) % Turn
<1>4. constime_getTimeBase(p) = base[p] + d
    BY DEF constime_getTimeBase
<1>5. d \in 0..(Turn - 1)
    BY <1>3
<1> HIDE DEF d
<1> QED BY <1>2, <1>4, <1>5, Constants, SMT

(* The time base of processor 1 since the last sync interrupt. *)
LEMMA TrueTime ==
    ASSUME TypeOK, BaseInv, ~turnLost
    PROVE  /\ constime_getTimeBase(1) <= now
           /\ now - synced[1] < Turn => constime_getTimeBase(1) = now
           /\ constime_getTimeBase(1) % Turn = now % Turn
<1> DEFINE b == base[1]
<1>1. b = synced[1] /\ b \in Nat /\ now \in Nat /\ b <= now
    BY SMT, Constants DEF TypeOK, BaseInv, Proc
<1>2. now + lead(1) = now
    BY <1>1, SMT DEF lead
<1>3. constime_getTimeBase(1) = b + (((now % Turn) - b) % Turn)
    BY <1>2 DEF constime_getTimeBase, TickCount
<1> DEFINE d == ((now % Turn) - b) % Turn
<1>4. /\ d \in Nat /\ d <= now - b
      /\ now - b < Turn => d = now - b
      /\ (b + d) % Turn = now % Turn
    BY <1>1, Constants, TimerDifference
<1>5. constime_getTimeBase(1) = b + d
    BY <1>3
<1>6. constime_getTimeBase(1) % Turn = now % Turn
    BY <1>4, <1>5
<1> HIDE DEF d, b
<1>7. constime_getTimeBase(1) <= now /\ (now - b < Turn => constime_getTimeBase(1) = now)
    BY <1>1, <1>4, <1>5, SMT
<1> QED BY <1>1, <1>6, <1>7

-----------------------------------------------------------------------------
(* The steps. *)

LEMMA InitInv == Init => IInv
<1> SUFFICES ASSUME Init PROVE IInv
    OBVIOUS
<1>1. TypeOK
    <2>1. cycMon \in CycMonType
        BY DEF Init, ResetCycleMon, CycMonType
    <2>2. synced \in [1..3 -> 0..now] /\ polled \in 0..now /\ now \in 0..MaxTime
        BY Constants, SMT DEF Init
    <2>3. rescaled \subseteq Proc /\ rescales \in 0..MaxRescale /\ restarted \in 0..4
        BY Constants, SMT DEF Init
    <2>4. /\ base \in [Proc -> Nat] /\ consTime \in [Proc -> 0..(Wrap - 1)]
          /\ factor \in [Proc -> Factors] /\ loop \in {"idle", "late"}
          /\ stamp \in [Proc -> [at : 0..now, us : Nat]]
        BY Constants, SMT DEF Init, lead
    <2>5. /\ redundant \in BOOLEAN /\ skew \in 0..Skew /\ exchanged \in BOOLEAN
          /\ fatal \in BOOLEAN /\ turnLost \in BOOLEAN
        BY Zenon DEF Init
    <2> QED BY <2>1, <2>2, <2>3, <2>4, <2>5 DEF TypeOK
<1>2. StampInv
    BY SMT DEF Init, ResetCycleMon, StampInv, Proc, lead
<1>3. BaseInv /\ TimerInv
    <2>1. BaseInv
        BY DEF Init, BaseInv, Proc, lead
    <2>2. \A p \in Proc : 0 + lead(p) = lead(p)
        BY Constants, SMT DEF Init, lead
    <2>3. TimerInv
        BY <2>2 DEF Init, TimerInv
    <2> QED BY <2>1, <2>3
<1>4. ConsTimeInv
    BY DEF Init, ConsTimeInv
<1>5. ConsTimesAgree
    BY DEF Init, ConsTimesAgree
<1>6. PollInv
    BY Constants, SMT DEF Init, PollInv, ResetCycleMon
<1> QED BY <1>1, <1>2, <1>3, <1>4, <1>5, <1>6 DEF IInv

(* The monitoring at a sync interrupt. *)
LEMMA Monitoring ==
    ASSUME TypeOK, NEW time \in Nat, cycMon.lastTimeStamp <= time
    PROVE  LET new == cyclemon_process(time)
           IN  /\ new \in CycMonType
               /\ new.lastTimeStamp <= time
               /\ cycMon.state = "Active" => new.cycleTime = cycMon.cycleTime
               /\ new.state = "Active" =>
                    /\ new.lastTimeStamp = time
                    /\ cycMon.state = "Active" \/ InRange(new.cycleTime)
<1>1. /\ cycMon \in CycMonType /\ cycMon.state \in {"Init", "Active", "Timeout"}
      /\ cycMon.lastTimeStamp \in Nat /\ cycMon.cycleTime \in Nat
    BY DEF TypeOK, CycMonType
<1>2. CASE cycMon.state = "Init"
    <2>1. cyclemon_process(time) = cyclemon_measure(time)
        BY <1>2 DEF cyclemon_process
    <2> DEFINE cycle == time - cycMon.lastTimeStamp
               average == (cycMon.cycleTime + cycle) \div 2
    <2>2. cycle \in Nat /\ average \in Nat
        BY <1>1, SMT
    <2>3. CASE cycMon.lastTimeStamp = 0
        <3>1. cyclemon_measure(time) = [cycMon EXCEPT !.lastTimeStamp = time]
            BY <2>3 DEF cyclemon_measure
        <3> QED BY <1>1, <1>2, <2>1, <3>1, SMT DEF CycMonType
    <2>4. CASE cycMon.lastTimeStamp # 0 /\ Agrees(cycle)
        <3>1. cyclemon_measure(time) =
                [state |-> IF InRange(average) THEN "Active" ELSE "Init",
                 lastTimeStamp |-> time, cycleTime |-> average]
            BY <2>4 DEF cyclemon_measure
        <3> DEFINE new == cyclemon_process(time)
        <3>2. /\ new.state = IF InRange(average) THEN "Active" ELSE "Init"
              /\ new.lastTimeStamp = time /\ new.cycleTime = average
            BY <2>1, <3>1
        <3> HIDE DEF average, cycle
        <3>3. new \in CycMonType
            BY <2>1, <2>2, <3>1 DEF CycMonType
        <3> HIDE DEF new
        <3>4. new.lastTimeStamp <= time
            BY <3>2, SMT
        <3>5. new.state = "Active" => InRange(new.cycleTime)
            BY <3>2
        <3> QED BY <1>2, <3>2, <3>3, <3>4, <3>5 DEF new
    <2>5. CASE cycMon.lastTimeStamp # 0 /\ ~Agrees(cycle)
        <3>1. cyclemon_measure(time) =
                [cycMon EXCEPT !.lastTimeStamp = time, !.cycleTime = cycle]
            BY <2>5 DEF cyclemon_measure
        <3> DEFINE new == cyclemon_process(time)
        <3>2. new.state = "Init" /\ new.lastTimeStamp = time /\ new.cycleTime = cycle
            BY <1>1, <1>2, <2>1, <3>1 DEF CycMonType
        <3> HIDE DEF average, cycle
        <3>3. new \in CycMonType
            BY <1>1, <2>1, <2>2, <3>1 DEF CycMonType
        <3> HIDE DEF new
        <3>4. new.lastTimeStamp <= time
            BY <3>2, SMT
        <3> QED BY <1>2, <3>2, <3>3, <3>4 DEF new
    <2> QED BY <2>3, <2>4, <2>5
<1>3. CASE cycMon.state = "Active"
    <2>1. cyclemon_process(time) = [cycMon EXCEPT !.lastTimeStamp = time]
        BY <1>3 DEF cyclemon_process
    <2> QED BY <1>1, <1>3, <2>1, SMT DEF CycMonType
<1>4. CASE cycMon.state = "Timeout"
    <2>1. cyclemon_process(time) = ResetCycleMon
        BY <1>4 DEF cyclemon_process
    <2> QED BY <1>4, <2>1, SMT DEF ResetCycleMon, CycMonType
<1> QED BY <1>1, <1>2, <1>3, <1>4

(* A sync interrupt: the time bases go on, and that of the first processor *)
(* is the true time while no turn is lost.                                 *)
LEMMA SyncBase ==
    ASSUME IInv, SyncCycle
    PROVE  /\ base' \in [Proc -> Nat] /\ \A p \in Proc : base'[p] >= base[p]
           /\ \A p \in Proc : base'[p] - base[p] <= now - synced[1]
           /\ TimerInv'
           /\ synced' \in [1..3 -> 0..now] /\ synced'[1] = now
           /\ turnLost' \in BOOLEAN
           /\ ~turnLost' => ~turnLost /\ base'[1] = now
<1>1. TypeOK /\ BaseInv /\ TimerInv
    BY DEF IInv
<1>2. base' = [p \in Proc |-> constime_getTimeBase(p)]
    BY DEF SyncCycle
<1>3. \A p \in Proc : base'[p] = constime_getTimeBase(p)
    BY <1>2
<1>4. base' \in [Proc -> Nat] /\ \A p \in Proc : base'[p] >= base[p]
    BY <1>1, <1>2, <1>3, TimeBase
<1>5. synced' = [i \in 1..3 |-> IF i = 1 THEN now ELSE synced[i - 1]]
    BY DEF SyncCycle
<1>6. synced' \in [1..3 -> 0..now] /\ synced'[1] = now
    <2>1. now \in 0..now /\ synced \in [1..3 -> 0..now]
        BY <1>1, Constants, SMT DEF TypeOK
    <2>2. \A i \in 1..3 : i # 1 => i - 1 \in 1..3
        BY SMT
    <2> QED BY <1>5, <2>1, <2>2, SMT
<1>7. turnLost' = (turnLost \/ now - synced[1] >= Turn)
    BY DEF SyncCycle
<1>8. turnLost' \in BOOLEAN
    BY <1>7, Zenon
<1>9. ~turnLost' => ~turnLost /\ ~(now - synced[1] >= Turn)
    BY <1>7, Zenon
<1>10. now \in Int /\ synced[1] \in Int
    BY <1>1, Constants, SMT DEF TypeOK
<1>11. ~turnLost' => now - synced[1] < Turn
    BY <1>9, <1>10, Constants, SMT
<1>12. 1 \in Proc
    BY DEF Proc
<1>13. ~turnLost' => base'[1] = now
    BY <1>1, <1>3, <1>9, <1>11, <1>12, TrueTime
<1>14. ASSUME NEW p \in Proc
       PROVE  /\ base'[p] - base[p] <= now - synced[1]
              /\ base'[p] % Turn = (now + lead(p)) % Turn
    <2> DEFINE n == now + lead(p)
               s == synced[1] + lead(p)
               d == ((n % Turn) - base[p]) % Turn
    <2>1. n \in Nat /\ s \in Nat /\ s <= n /\ n - s = now - synced[1] /\ base[p] \in Nat
        BY <1>1, Constants, SMT DEF TypeOK, lead
    <2>2. base[p] % Turn = s % Turn
        BY <1>1 DEF TimerInv
    <2>3. base'[p] = base[p] + d
        BY <1>3 DEF constime_getTimeBase, TickCount
    <2> HIDE DEF n, s
    <2>4. d \in Nat /\ d <= n - s /\ (base[p] + d) % Turn = n % Turn
        BY <2>1, <2>2, Constants, TimerSince
    <2> HIDE DEF d
    <2>5. base'[p] - base[p] = d
        BY <2>1, <2>3, <2>4, SMT
    <2> QED BY <2>1, <2>3, <2>4, <2>5 DEF n
<1>15. TimerInv'
    <2>1. \A p \in Proc : lead(p)' = lead(p)
        BY DEF SyncCycle, config, lead
    <2> QED BY <1>6, <1>14, <2>1 DEF TimerInv
<1> QED BY <1>4, <1>6, <1>8, <1>9, <1>13, <1>14, <1>15

LEMMA SourceGrows ==
    ASSUME TypeOK, NEW p \in Proc, redundant' = redundant,
           base' \in [Proc -> Nat], \A q \in Proc : base'[q] >= base[q],
           NEW d \in Int, \A q \in Proc : base'[q] - base[q] <= d
    PROVE  /\ Source(p) \in Nat /\ Source(p)' \in Nat
           /\ Source(p) <= Source(p)' /\ Source(p)' - Source(p) <= d
<1>1. /\ base[1] \in Nat /\ base[2] \in Nat /\ base[p] \in Nat
      /\ base'[1] \in Nat /\ base'[2] \in Nat /\ base'[p] \in Nat
      /\ base'[1] >= base[1] /\ base'[2] >= base[2] /\ base'[p] >= base[p]
      /\ base'[1] - base[1] <= d /\ base'[2] - base[2] <= d /\ base'[p] - base[p] <= d
    BY DEF TypeOK, Proc
<1>2. /\ Average(base[1], base[2]) = (base[1] + base[2]) \div 2
      /\ Average(base'[1], base'[2]) = (base'[1] + base'[2]) \div 2
    BY <1>1, AverageExact
<1>3. /\ (base[1] + base[2]) \div 2 \in Nat /\ (base'[1] + base'[2]) \div 2 \in Nat
      /\ (base[1] + base[2]) \div 2 <= (base'[1] + base'[2]) \div 2
      /\ (base'[1] + base'[2]) \div 2 - (base[1] + base[2]) \div 2 <= d
    BY <1>1, SMT
<1>4. CASE redundant
    <2>1. /\ Source(p) = Average(base[1], base[2])
          /\ Source(p)' = Average(base'[1], base'[2])
        BY <1>4 DEF Source
    <2> QED BY <1>2, <1>3, <2>1
<1>5. CASE ~redundant
    <2>1. Source(p) = base[p] /\ Source(p)' = base'[p]
        BY <1>5 DEF Source
    <2> QED BY <1>1, <2>1, SMT
<1> QED BY <1>4, <1>5

(* A consecutive time made of us2 microseconds after one made of us1. *)
LEMMA ConsTimeSteps ==
    ASSUME TypeOK, NEW p \in Proc, NEW us1 \in Nat, NEW us2 \in Nat, us1 <= us2,
           NEW d \in Int, us2 - us1 <= d
    PROVE  ((ConsTimeOf(p, us2) - ConsTimeOf(p, us1)) % Wrap) * factor[p] <= d + factor[p] - 1
<1>1. factor[p] \in Nat \ {0} /\ Wrap \in Nat \ {0}
    BY Constants DEF TypeOK
<1> QED BY <1>1, UnitsPassed DEF ConsTimeOf

LEMMA ConsTimeType ==
    ASSUME TypeOK, NEW p \in Proc, NEW us \in Nat
    PROVE  ConsTimeOf(p, us) \in 0..(Wrap - 1)
<1>1. factor[p] \in Nat \ {0} /\ Wrap \in Nat \ {0}
    BY Constants DEF TypeOK
<1>2. us \div factor[p] \in Int
    BY <1>1, DivMod, us \in Int
<1>3. (us \div factor[p]) % Wrap \in 0..(Wrap - 1)
    BY <1>1, <1>2, DivMod
<1> QED BY <1>3 DEF ConsTimeOf

(* What is left alone does not move. *)
LEMMA NotMoved ==
    ASSUME TypeOK, NEW p \in Proc
    PROVE  ((consTime[p] - consTime[p]) % Wrap) * factor[p]
               <= stamp[p].at - stamp[p].at + factor[p] - 1
<1>1. /\ factor[p] \in Nat \ {0} /\ Wrap \in Nat \ {0}
      /\ consTime[p] \in Int /\ stamp[p].at \in Int
    BY Constants, SMT DEF TypeOK
<1>2. (consTime[p] - consTime[p]) % Wrap = 0
    <2>1. consTime[p] - consTime[p] = 0 - Wrap * 0
        BY <1>1, SMT
    <2>2. (0 - Wrap * 0) % Wrap = 0
        <3>1. 0 \in Int /\ 0 <= 0 /\ 0 < Wrap
            BY <1>1, SMT
        <3> QED BY <1>1, <3>1, ModOfTurns
    <2> QED BY <2>1, <2>2
<1>3. 0 * factor[p] <= stamp[p].at - stamp[p].at + factor[p] - 1
    BY <1>1, SMT
<1> QED BY <1>2, <1>3

LEMMA SyncConsTimeOfSingle ==
    ASSUME IInv, SyncCycle
    PROVE  /\ consTime' \in [Proc -> 0..(Wrap - 1)] /\ rescaled' \subseteq Proc
           /\ stamp' \in [Proc -> [at : 0..now, us : Nat]]
           /\ ConsTimeInv' /\ Forward
<1>1. TypeOK /\ ConsTimeInv /\ 1 \in Proc
    BY DEF IInv, Proc
<1>2. /\ base' \in [Proc -> Nat] /\ \A p \in Proc : base'[p] >= base[p]
      /\ \A p \in Proc : base'[p] - base[p] <= now - synced[1]
      /\ redundant' = redundant /\ factor' = factor /\ synced'[1] = now
    BY SyncBase DEF SyncCycle, config
<1>3. /\ now \in Nat /\ synced[1] \in Int /\ now - synced[1] \in Int /\ now \in 0..now
      /\ \A p \in Proc : stamp[p].us \in Nat /\ stamp[p].at \in Int
    BY <1>1, Constants, SMT DEF TypeOK
<1>4. \A p \in Proc : /\ Source(p) \in Nat /\ Source(p)' \in Nat
                       /\ Source(p) <= Source(p)'
                       /\ Source(p)' - Source(p) <= now - synced[1]
    BY <1>1, <1>2, <1>3, SourceGrows
<1>5. \A p \in Proc \ rescaled : /\ stamp[p].us <= Source(p)'
                                  /\ Source(p)' - stamp[p].us <= now - stamp[p].at
    <2> TAKE p \in Proc \ rescaled
    <2> DEFINE old == Source(p)
               new == Source(p)'
    <2>1. /\ old \in Nat /\ new \in Nat /\ old <= new /\ new - old <= now - synced[1]
          /\ stamp[p].us <= old /\ old - stamp[p].us <= synced[1] - stamp[p].at
        BY <1>1, <1>4 DEF ConsTimeInv
    <2> HIDE DEF old, new
    <2>2. stamp[p].us <= new /\ new - stamp[p].us <= now - stamp[p].at
        BY <1>3, <2>1, SMT
    <2> QED BY <2>2 DEF new
<1>7. CASE redundant \/ fatal'
    <2>1. consTime' = consTime /\ rescaled' = rescaled /\ stamp' = stamp
        BY <1>7, Zenon DEF SyncCycle
    <2>2. ConsTimeInv'
        <3> SUFFICES ASSUME NEW p \in Proc \ rescaled
                     PROVE  /\ stamp[p].us <= Source(p)'
                            /\ Source(p)' - stamp[p].us <= now - stamp[p].at
                            /\ consTime[p] = ConsTimeOf(p, stamp[p].us)'
            BY <1>2, <2>1 DEF ConsTimeInv
        <3>1. consTime[p] = ConsTimeOf(p, stamp[p].us)
            BY <1>1 DEF ConsTimeInv
        <3>2. ConsTimeOf(p, stamp[p].us)' = ConsTimeOf(p, stamp[p].us)
            BY <1>2, <2>1 DEF ConsTimeOf
        <3> QED BY <1>5, <3>1, <3>2
    <2>3. Forward
        BY <1>1, <2>1, NotMoved DEF Forward
    <2> QED BY <1>1, <2>1, <2>2, <2>3 DEF TypeOK
<1>8. CASE ~redundant /\ ~fatal'
    <2> DEFINE us == base'[1]
    <2>1. /\ consTime' = [consTime EXCEPT ![1] = ConsTimeOf(1, us)]
          /\ stamp' = [stamp EXCEPT ![1] = [at |-> now, us |-> us]]
          /\ rescaled' = rescaled \ {1}
        BY <1>8, Zenon DEF SyncCycle
    <2>2. Source(1)' = us /\ us \in Nat
        BY <1>1, <1>2, <1>8 DEF Source
    <2> HIDE DEF us
    <2>3. \A p \in Proc : p # 1 => consTime'[p] = consTime[p] /\ stamp'[p] = stamp[p]
        BY <1>1, <2>1 DEF TypeOK
    <2>4. /\ consTime'[1] = ConsTimeOf(1, us)
          /\ stamp'[1].at = now /\ stamp'[1].us = us
        BY <1>1, <2>1 DEF TypeOK
    <2>5. /\ consTime' \in [Proc -> 0..(Wrap - 1)] /\ rescaled' \subseteq Proc
          /\ stamp' \in [Proc -> [at : 0..now, us : Nat]]
        <3>1. ConsTimeOf(1, us) \in 0..(Wrap - 1) /\ [at |-> now, us |-> us] \in [at : 0..now, us : Nat]
            BY <1>1, <1>3, <2>2, ConsTimeType
        <3> QED BY <1>1, <2>1, <3>1 DEF TypeOK
    <2>6. ConsTimeInv'
        <3> SUFFICES ASSUME NEW p \in Proc \ rescaled'
                     PROVE  /\ stamp'[p].us <= Source(p)'
                            /\ Source(p)' - stamp'[p].us <= now - stamp'[p].at
                            /\ consTime'[p] = ConsTimeOf(p, stamp[p].us)'
            BY <1>2 DEF ConsTimeInv
        <3>1. CASE p = 1
            <4>1. ConsTimeOf(1, stamp[1].us)' = ConsTimeOf(1, us)
                BY <1>2, <2>4 DEF ConsTimeOf
            <4>2. us <= us /\ us - us <= now - now
                BY <1>3, <2>2, SMT
            <4> QED BY <2>2, <2>4, <3>1, <4>1, <4>2
        <3>2. CASE p # 1
            <4>1. p \in Proc \ rescaled /\ consTime'[p] = consTime[p] /\ stamp'[p] = stamp[p]
                BY <2>1, <2>3, <3>2
            <4>2. consTime[p] = ConsTimeOf(p, stamp[p].us)
                BY <1>1, <4>1 DEF ConsTimeInv
            <4>3. ConsTimeOf(p, stamp[p].us)' = ConsTimeOf(p, stamp[p].us)
                BY <1>2, <4>1 DEF ConsTimeOf
            <4> QED BY <1>5, <4>1, <4>2, <4>3
        <3> QED BY <3>1, <3>2
    <2>7. Forward
        <3> SUFFICES ASSUME NEW p \in Proc \ rescaled
                     PROVE  ((consTime'[p] - consTime[p]) % Wrap) * factor[p]
                                <= stamp'[p].at - stamp[p].at + factor[p] - 1
            BY DEF Forward
        <3>1. CASE p # 1
            BY <1>1, <2>3, <3>1, NotMoved
        <3>2. CASE p = 1
            <4>1. /\ stamp[1].us \in Nat /\ stamp[1].us <= us
                  /\ us - stamp[1].us <= now - stamp[1].at /\ now - stamp[1].at \in Int
                  /\ consTime[1] = ConsTimeOf(1, stamp[1].us)
                <5>1. now - stamp[1].at \in Int
                    BY <1>1, <1>3, SMT
                <5> QED BY <1>1, <1>3, <1>5, <2>2, <3>2, <5>1 DEF ConsTimeInv
            <4>2. ((ConsTimeOf(1, us) - ConsTimeOf(1, stamp[1].us)) % Wrap) * factor[1]
                      <= now - stamp[1].at + factor[1] - 1
                BY <1>1, <2>2, <4>1, ConsTimeSteps
            <4> QED BY <2>4, <3>2, <4>1, <4>2
        <3> QED BY <3>1, <3>2
    <2> QED BY <2>5, <2>6, <2>7
<1> QED BY <1>7, <1>8

LEMMA SyncInv == IInv /\ SyncCycle => IInv'
<1> SUFFICES ASSUME IInv, SyncCycle PROVE IInv'
    OBVIOUS
<1>1. TypeOK /\ StampInv /\ ConsTimeInv /\ PollInv /\ 1 \in Proc /\ 2 \in Proc
    BY DEF IInv, Proc
<1>2. UNCHANGED <<now, redundant, skew, factor, rescales, loop, polled>>
    BY DEF SyncCycle, config
<1>3. base'[1] \in Nat /\ base[1] \in Nat /\ base'[1] >= base[1]
    BY <1>1, SyncBase DEF TypeOK
<1>4. cycMon' = cyclemon_process(base'[1])
    BY DEF SyncCycle
<1>5. cycMon.lastTimeStamp \in Nat /\ cycMon.lastTimeStamp <= base'[1]
    BY <1>1, <1>3, SMT DEF TypeOK, CycMonType, StampInv
<1>6. /\ cycMon' \in CycMonType
      /\ cycMon'.lastTimeStamp <= base'[1]
      /\ cycMon.state = "Active" => cycMon'.cycleTime = cycMon.cycleTime
      /\ cycMon'.state = "Active" =>
            /\ cycMon'.lastTimeStamp = base'[1]
            /\ cycMon.state = "Active" \/ InRange(cycMon'.cycleTime)
    BY <1>1, <1>3, <1>4, <1>5, Monitoring
<1>7. TypeOK'
    <2>1. now' \in 0..MaxTime /\ polled' \in 0..now' /\ synced' \in [1..3 -> 0..now']
        BY <1>1, <1>2, SyncBase DEF TypeOK
    <2>2. /\ redundant' \in BOOLEAN /\ exchanged' \in BOOLEAN
          /\ fatal' \in BOOLEAN /\ turnLost' \in BOOLEAN
        <3>1. redundant' \in BOOLEAN /\ turnLost' \in BOOLEAN
            BY <1>1, <1>2, SyncBase DEF TypeOK
        <3>2. exchanged' = FALSE
            BY DEF SyncCycle
        <3>3. fatal' \in BOOLEAN
            BY Zenon DEF SyncCycle
        <3> QED BY <3>1, <3>2, <3>3
    <2>3. restarted' \in 0..4
        <3>1. restarted' = IF restarted < 4 THEN restarted + 1 ELSE restarted
            BY DEF SyncCycle
        <3> QED BY <1>1, <3>1, SMT DEF TypeOK
    <2> QED BY <1>1, <1>2, <1>6, <2>1, <2>2, <2>3, SyncBase, SyncConsTimeOfSingle DEF TypeOK
<1>8. StampInv'
    BY <1>1, <1>6 DEF StampInv
<1>9. BaseInv'
    BY SyncBase DEF BaseInv
<1>10. ConsTimesAgree'
    BY DEF SyncCycle, ConsTimesAgree
<1>11. PollInv'
    <2>1. /\ now \in Nat /\ polled \in Nat /\ polled <= now
          /\ PollGap \in Nat /\ Tolerance \in Nat /\ cycMon'.cycleTime \in Nat
        BY <1>1, <1>6, Constants, SMT DEF TypeOK, CycMonType
    <2>2. synced'[1] = now /\ now' = now /\ polled' = polled
        BY <1>2, SyncBase
    <2>3. now' <= polled' + PollGap
        BY <1>1, <2>2 DEF PollInv
    <2>4. /\ polled' <= synced'[1] + cycMon'.cycleTime + Tolerance
          /\ polled' <= synced'[1] + cycMon'.cycleTime + Tolerance + PollGap
        BY <2>1, <2>2, SMT
    <2> QED BY <2>3, <2>4 DEF PollInv
<1> QED BY <1>7, <1>8, <1>9, <1>10, <1>11, SyncBase, SyncConsTimeOfSingle DEF IInv

(* The exchange of the time bases. *)
LEMMA ExchangeTime ==
    ASSUME IInv, SyncConsTime
    PROVE  /\ consTime' \in [Proc -> 0..(Wrap - 1)]
           /\ stamp' \in [Proc -> [at : 0..now, us : Nat]]
           /\ ConsTimeInv' /\ ConsTimesAgree' /\ Forward
<1>1. TypeOK /\ ConsTimeInv /\ 1 \in Proc /\ 2 \in Proc
    BY DEF IInv, Proc
<1>2. /\ consTime' = [p \in Proc |-> ConsTimeOf(p, Average(base[p], base[3 - p]))]
      /\ stamp' = [p \in Proc |-> [at |-> synced[1], us |-> Average(base[p], base[3 - p])]]
      /\ redundant' = redundant /\ redundant /\ base' = base /\ factor' = factor
      /\ synced' = synced
    BY DEF SyncConsTime, config, history
<1>3. /\ base[1] \in Nat /\ base[2] \in Nat /\ synced[1] \in 0..now /\ synced[1] \in Int
      /\ \A p \in Proc : stamp[p].us \in Nat /\ stamp[p].at \in Int
    BY <1>1, Constants, SMT DEF TypeOK
<1>4. \A p \in Proc : Average(base[p], base[3 - p]) = Source(p)
    <2>1. Average(base[1], base[3 - 1]) = Average(base[1], base[2])
        BY SMT
    <2>2. Average(base[2], base[3 - 2]) = Average(base[1], base[2])
        <3>1. 3 - 2 = 1
            BY SMT
        <3> QED BY <1>3, <3>1, AverageExact
    <2> QED BY <1>2, <2>1, <2>2 DEF Source, Proc
<1>5. \A p \in Proc : /\ consTime'[p] = ConsTimeOf(p, Source(p))
                       /\ stamp'[p].us = Source(p) /\ stamp'[p].at = synced[1]
    BY <1>2, <1>4
<1>6. \A p \in Proc : Source(p) \in Nat /\ Source(p)' = Source(p)
    <2>1. Average(base[1], base[2]) \in Nat
        BY <1>3, SMT DEF Average
    <2> QED BY <1>2, <2>1 DEF Source
<1>7. /\ consTime' \in [Proc -> 0..(Wrap - 1)]
      /\ stamp' \in [Proc -> [at : 0..now, us : Nat]]
    <2>1. \A p \in Proc : ConsTimeOf(p, Source(p)) \in 0..(Wrap - 1)
        BY <1>1, <1>6, ConsTimeType
    <2>2. consTime' = [p \in Proc |-> ConsTimeOf(p, Source(p))]
        BY <1>2, <1>4
    <2>3. stamp' = [p \in Proc |-> [at |-> synced[1], us |-> Source(p)]]
        BY <1>2, <1>4
    <2> QED BY <1>3, <1>6, <2>1, <2>2, <2>3
<1>8. ConsTimeInv'
    <2> SUFFICES ASSUME NEW p \in Proc
                 PROVE  /\ stamp'[p].us <= Source(p)'
                        /\ Source(p)' - stamp'[p].us <= synced'[1] - stamp'[p].at
                        /\ consTime'[p] = ConsTimeOf(p, stamp[p].us)'
        BY DEF ConsTimeInv
    <2> DEFINE us == Source(p)
    <2>1. stamp'[p].us = us /\ Source(p)' = us /\ us \in Nat /\ stamp'[p].at = synced[1]
        BY <1>5, <1>6
    <2>2. ConsTimeOf(p, stamp[p].us)' = ConsTimeOf(p, us)
        BY <1>2, <2>1 DEF ConsTimeOf
    <2>3. consTime'[p] = ConsTimeOf(p, us)
        BY <1>5
    <2> HIDE DEF us
    <2>4. us <= us /\ us - us <= synced[1] - synced[1]
        BY <1>3, <2>1, SMT
    <2> QED BY <1>2, <2>1, <2>2, <2>3, <2>4
<1>9. ConsTimesAgree'
    <2>1. factor[1] = factor[2] => consTime'[1] = consTime'[2]
        BY <1>1, <1>2, <1>5 DEF Source, ConsTimeOf
    <2> QED BY <1>2, <2>1 DEF ConsTimesAgree
<1>10. Forward
    <2> SUFFICES ASSUME NEW p \in Proc \ rescaled
                 PROVE  ((consTime'[p] - consTime[p]) % Wrap) * factor[p]
                            <= stamp'[p].at - stamp[p].at + factor[p] - 1
        BY DEF Forward
    <2> DEFINE us == Source(p)
    <2>1. /\ us \in Nat /\ stamp[p].us \in Nat /\ stamp[p].us <= us
          /\ us - stamp[p].us <= synced[1] - stamp[p].at
          /\ consTime[p] = ConsTimeOf(p, stamp[p].us)
        BY <1>1, <1>3, <1>6 DEF ConsTimeInv
    <2>2. consTime'[p] = ConsTimeOf(p, us) /\ stamp'[p].at = synced[1]
        BY <1>5
    <2> HIDE DEF us
    <2>3. synced[1] - stamp[p].at \in Int
        BY <1>3, SMT
    <2>4. ((ConsTimeOf(p, us) - ConsTimeOf(p, stamp[p].us)) % Wrap) * factor[p]
              <= synced[1] - stamp[p].at + factor[p] - 1
        BY <1>1, <2>1, <2>3, ConsTimeSteps
    <2> QED BY <2>1, <2>2, <2>4
<1> QED BY <1>7, <1>8, <1>9, <1>10

LEMMA ExchangeInv == IInv /\ SyncConsTime => IInv'
<1> SUFFICES ASSUME IInv, SyncConsTime PROVE IInv'
    OBVIOUS
<1>1. /\ UNCHANGED <<now, redundant, skew, base, factor, rescales, cycMon, loop, polled, fatal>>
      /\ UNCHANGED <<synced, restarted, turnLost>>
      /\ exchanged' = TRUE /\ rescaled' = {}
    BY DEF SyncConsTime, config, history
<1>2. TypeOK'
    BY <1>1, ExchangeTime DEF IInv, TypeOK
<1>3. StampInv' /\ BaseInv' /\ TimerInv'
    BY <1>1 DEF IInv, StampInv, BaseInv, TimerInv, lead
<1>4. PollInv'
    BY <1>1 DEF IInv, PollInv
<1> QED BY <1>2, <1>3, <1>4, ExchangeTime DEF IInv

LEMMA RescaleInv ==
    ASSUME IInv, NEW p \in Proc, NEW f \in Factors, ConsTimeBase_CLBK(p, f)
    PROVE  IInv'
<1>1. /\ UNCHANGED <<now, redundant, skew, base, consTime, stamp, exchanged, cycMon, loop, polled, fatal>>
      /\ UNCHANGED <<synced, restarted, turnLost>>
      /\ factor' = [factor EXCEPT ![p] = f] /\ rescaled' = rescaled \cup {p}
      /\ rescales < MaxRescale /\ rescales' = rescales + 1
    BY DEF ConsTimeBase_CLBK, config, history
<1>2. TypeOK'
    <2>1. rescales' \in 0..MaxRescale
        BY <1>1, Constants, SMT DEF IInv, TypeOK
    <2>2. factor' \in [Proc -> Factors] /\ rescaled' \subseteq Proc
        BY <1>1 DEF IInv, TypeOK
    <2> QED BY <1>1, <2>1, <2>2 DEF IInv, TypeOK
<1>3. ConsTimeInv'
    <2>1. \A q \in Proc \ rescaled' : q \in Proc \ rescaled /\ factor'[q] = factor[q]
        BY <1>1 DEF IInv, TypeOK
    <2>2. \A q \in Proc : Source(q)' = Source(q)
        BY <1>1 DEF Source
    <2>3. \A q \in Proc \ rescaled' : ConsTimeOf(q, stamp[q].us)' = ConsTimeOf(q, stamp[q].us)
        BY <1>1, <2>1 DEF ConsTimeOf
    <2> QED BY <1>1, <2>1, <2>2, <2>3 DEF IInv, ConsTimeInv
<1>4. ConsTimesAgree'
    BY <1>1 DEF ConsTimesAgree
<1>5. StampInv' /\ BaseInv' /\ TimerInv' /\ PollInv'
    BY <1>1 DEF IInv, StampInv, BaseInv, TimerInv, PollInv, lead
<1> QED BY <1>2, <1>3, <1>4, <1>5 DEF IInv

(* The steps of the background loop leave the consecutive times alone. *)
LEMMA KeptTimes ==
    ASSUME IInv, UNCHANGED <<config, timeVars, synced>>
    PROVE  TimerInv' /\ ConsTimeInv' /\ ConsTimesAgree'
<1>1. UNCHANGED <<redundant, skew, base, consTime, stamp, factor, exchanged, rescaled, synced>>
    BY DEF config, timeVars
<1>2. \A p \in Proc : Source(p)' = Source(p) /\ lead(p)' = lead(p)
    BY <1>1 DEF Source, lead
<1>3. \A p \in Proc : ConsTimeOf(p, stamp[p].us)' = ConsTimeOf(p, stamp[p].us)
    BY <1>1 DEF ConsTimeOf
<1>4. TimerInv' /\ ConsTimesAgree'
    BY <1>1, <1>2 DEF IInv, TimerInv, ConsTimesAgree
<1>5. ConsTimeInv'
    BY <1>1, <1>2, <1>3 DEF IInv, ConsTimeInv
<1> QED BY <1>4, <1>5

LEMMA CheckInv == IInv /\ CheckTimeout => IInv'
<1> SUFFICES ASSUME IInv, CheckTimeout PROVE IInv'
    OBVIOUS
<1>1. TypeOK /\ StampInv /\ BaseInv /\ PollInv /\ loop = "idle"
    BY DEF IInv, CheckTimeout
<1>2. /\ UNCHANGED <<now, redundant, skew, base, consTime, factor, exchanged>>
      /\ UNCHANGED <<cycMon, fatal, synced, restarted, turnLost, rescaled, stamp, rescales>>
      /\ polled' = now
    BY DEF CheckTimeout, config, timeVars, history
<1>3. loop' \in {"idle", "late"}
    BY Zenon DEF CheckTimeout
<1>4. TypeOK'
    <2>1. polled' \in 0..now'
        BY <1>1, <1>2, Constants, SMT DEF TypeOK
    <2> QED BY <1>1, <1>2, <1>3, <2>1 DEF TypeOK
<1>5. PollInv'
    <2>1. /\ now \in Nat /\ polled \in Nat /\ synced[1] \in Nat /\ base[1] \in Nat
          /\ cycMon.cycleTime \in Nat /\ cycMon.lastTimeStamp \in Nat
        BY <1>1, Constants, SMT DEF TypeOK, CycMonType, Proc
    <2>2. now' <= polled' + PollGap
        BY <1>2, <2>1, Constants, SMT
    <2>3. ASSUME cycMon.state = "Active", ~turnLost
          PROVE  /\ now <= synced[1] + cycMon.cycleTime + Tolerance + PollGap
                 /\ loop' = "idle" => now <= synced[1] + cycMon.cycleTime + Tolerance
        <3>1. polled <= synced[1] + cycMon.cycleTime + Tolerance /\ now <= polled + PollGap
            BY <1>1, <2>3 DEF PollInv
        <3>2. cycMon.cycleTime <= CycleMax /\ cycMon.lastTimeStamp = synced[1]
            BY <1>1, <2>3 DEF StampInv, BaseInv, InRange
        <3>3. now <= synced[1] + cycMon.cycleTime + Tolerance + PollGap
            BY <2>1, <3>1, Constants, SMT
        <3>4. now - synced[1] < Turn
            BY <2>1, <3>2, <3>3, Constants, WindowAssumption, SMT
        <3>5. constime_getTimeBase(1) = now
            BY <1>1, <2>3, <3>4, TrueTime
        <3>6. loop' = "idle" => ~(now > cycMon.lastTimeStamp + cycMon.cycleTime + Tolerance)
            BY <2>3, <3>5, Zenon DEF CheckTimeout
        <3>7. loop' = "idle" => now <= synced[1] + cycMon.cycleTime + Tolerance
            BY <2>1, <3>2, <3>6, Constants, SMT
        <3> QED BY <3>3, <3>7
    <2> QED BY <1>2, <2>2, <2>3 DEF PollInv
<1>6. StampInv' /\ BaseInv'
    BY <1>1, <1>2 DEF StampInv, BaseInv
<1>7. TimerInv' /\ ConsTimeInv' /\ ConsTimesAgree'
    BY KeptTimes DEF CheckTimeout, history
<1> QED BY <1>4, <1>5, <1>6, <1>7 DEF IInv

LEMMA EnterInv == IInv /\ EnterTimeout => IInv'
<1> SUFFICES ASSUME IInv, EnterTimeout PROVE IInv'
    OBVIOUS
<1>1. TypeOK /\ StampInv /\ BaseInv /\ PollInv
    BY DEF IInv
<1>2. /\ UNCHANGED <<now, redundant, skew, base, consTime, factor, exchanged, polled>>
      /\ UNCHANGED <<fatal, synced, turnLost, rescaled, stamp, rescales>>
      /\ loop' = "idle" /\ restarted' = 0
      /\ cycMon' = [cycMon EXCEPT !.state = "Timeout"]
    BY DEF EnterTimeout, config, timeVars
<1>3. /\ cycMon' \in CycMonType /\ cycMon'.state = "Timeout"
      /\ cycMon'.lastTimeStamp = cycMon.lastTimeStamp
    BY <1>1, <1>2 DEF TypeOK, CycMonType
<1>4. TypeOK'
    BY <1>1, <1>2, <1>3, SMT DEF TypeOK
<1>5. StampInv' /\ BaseInv' /\ PollInv'
    BY <1>1, <1>2, <1>3 DEF StampInv, BaseInv, PollInv
<1>6. TimerInv' /\ ConsTimeInv' /\ ConsTimesAgree'
    BY KeptTimes DEF EnterTimeout, history
<1> QED BY <1>4, <1>5, <1>6 DEF IInv

LEMMA TickInv == IInv /\ Tick => IInv'
<1> SUFFICES ASSUME IInv, Tick PROVE IInv'
    OBVIOUS
<1>1. TypeOK /\ StampInv /\ BaseInv /\ PollInv
    BY DEF IInv
<1>2. /\ UNCHANGED <<redundant, skew, base, consTime, factor, exchanged, polled, restarted>>
      /\ UNCHANGED <<fatal, synced, turnLost, rescaled, stamp, rescales, cycMon, loop>>
      /\ now' = now + 1 /\ now < MaxTime /\ now < polled + PollGap
    BY DEF Tick, config, timeVars, history
<1>3. now' \in 0..MaxTime /\ polled' \in 0..now'
    BY <1>1, <1>2, Constants, SMT DEF TypeOK
<1>4. synced' \in [1..3 -> 0..now']
    <2>1. \A t \in 0..now : t \in 0..now'
        BY <1>1, <1>2, Constants, SMT DEF TypeOK
    <2> QED BY <1>1, <1>2, <2>1 DEF TypeOK
<1>5. TypeOK'
    BY <1>1, <1>2, <1>3, <1>4 DEF TypeOK
<1>6. now' <= polled' + PollGap
    BY <1>1, <1>2, Constants, SMT DEF TypeOK
<1>7. StampInv' /\ BaseInv' /\ PollInv'
    BY <1>1, <1>2, <1>6 DEF StampInv, BaseInv, PollInv
<1>8. TimerInv' /\ ConsTimeInv' /\ ConsTimesAgree'
    BY KeptTimes DEF Tick, history
<1> QED BY <1>5, <1>7, <1>8 DEF IInv

LEMMA StepInv == IInv /\ [Next]_vars => IInv'
<1> SUFFICES ASSUME IInv, [Next]_vars PROVE IInv'
    OBVIOUS
<1>1. CASE SyncCycle
    BY <1>1, SyncInv
<1>2. CASE SyncConsTime
    BY <1>2, ExchangeInv
<1>3. CASE CheckTimeout \/ EnterTimeout \/ Tick
    BY <1>3, CheckInv, EnterInv, TickInv
<1>4. ASSUME NEW p \in Proc, NEW f \in Factors, ConsTimeBase_CLBK(p, f) PROVE IInv'
    BY <1>4, RescaleInv
<1>5. CASE UNCHANGED vars
    <2>1. /\ UNCHANGED <<now, loop, polled, cycMon, fatal, synced, restarted, turnLost>>
          /\ UNCHANGED <<config, timeVars>>
        BY <1>5 DEF vars, history
    <2>2. TypeOK' /\ StampInv' /\ BaseInv' /\ PollInv'
        BY <2>1 DEF IInv, TypeOK, StampInv, BaseInv, PollInv, config, timeVars
    <2> QED BY <2>1, <2>2, KeptTimes DEF IInv
<1> QED BY <1>1, <1>2, <1>3, <1>4, <1>5 DEF Next

LEMMA Invariance == Spec => []IInv
BY InitInv, StepInv, PTL DEF Spec

-----------------------------------------------------------------------------
(* The results. *)

(* Every variable of the time and its monitoring keeps its type. *)
THEOREM TypeCorrect == Spec => []TypeOK
<1>1. IInv => TypeOK
    BY DEF IInv
<1> QED BY <1>1, Invariance, PTL

(* Whatever the width of the timer and however often it starts again, the  *)
(* time base made of it is the true time of the last sync interrupt, and   *)
(* what is read from it has the remainder of the true one, as long as no   *)
(* two sync interrupts are a turn apart.                                   *)
THEOREM TimeBaseCorrect == Spec => []BaseIsTrue
<1>1. IInv => BaseIsTrue
    BY TrueTime DEF IInv, BaseInv, BaseIsTrue
<1> QED BY <1>1, Invariance, PTL

(* After the exchange of a cycle both stacks see one consecutive time.     *)
THEOREM TimesAgree == Spec => []ConsTimesAgree
<1>1. IInv => ConsTimesAgree
    BY DEF IInv
<1> QED BY <1>1, Invariance, PTL

(* The consecutive time of a processor whose factor is not changed goes on *)
(* by no more than the true time between the sync interrupts it was made   *)
(* at, modulo its number of values: for all factors, averages and turns of *)
(* the timer, whatever images were lost in between.                        *)
THEOREM TimesForward == Spec => ConsTimeForward
<1>1. IInv /\ [Next]_vars => [factor' = factor => Forward]_vars
    <2> SUFFICES ASSUME IInv, [Next]_vars, factor' = factor PROVE Forward \/ UNCHANGED vars
        OBVIOUS
    <2>1. CASE SyncCycle
        BY <2>1, SyncConsTimeOfSingle
    <2>2. CASE SyncConsTime
        BY <2>2, ExchangeTime
    <2>3. CASE consTime' = consTime /\ stamp' = stamp
        BY <2>3, NotMoved DEF IInv, Forward
    <2> QED BY <2>1, <2>2, <2>3 DEF Next, vars, timeVars, CheckTimeout, EnterTimeout,
                                  Tick, ConsTimeBase_CLBK
<1> QED BY <1>1, Invariance, PTL DEF Spec, ConsTimeForward, Forward

(* A sync interrupt that stays away is noticed after two looks of the loop *)
(* at the latest, for every timer that a cycle, the tolerance and two      *)
(* distances of the looks fit in.                                          *)
THEOREM LossIsNoticed == Spec => []LossNoticed
<1>1. IInv => LossNoticed
    <2> SUFFICES ASSUME IInv, cycMon.state = "Active", ~turnLost
                 PROVE  now - synced[1] <= cycMon.cycleTime + Tolerance + 2 * PollGap
        BY DEF LossNoticed
    <2>1. TypeOK /\ PollInv
        BY DEF IInv
    <2>2. /\ now \in Nat /\ polled \in Nat /\ synced[1] \in Nat /\ cycMon.cycleTime \in Nat
          /\ PollGap \in Nat /\ Tolerance \in Nat
        BY <2>1, Constants, SMT DEF TypeOK, CycMonType
    <2>3. polled <= synced[1] + cycMon.cycleTime + Tolerance + PollGap
        <3>1. loop = "idle" \/ loop = "late"
            BY <2>1 DEF TypeOK
        <3> QED BY <2>1, <2>2, <3>1, SMT DEF PollInv
    <2>4. now <= polled + PollGap
        BY <2>1 DEF PollInv
    <2> QED BY <2>2, <2>3, <2>4, SMT
<1> QED BY <1>1, Invariance, PTL

(* The monitoring is only stopped when a sync interrupt really is late.    *)
THEOREM AlarmIsTrue == Spec => NoFalseAlarm
<1>1. IInv /\ [Next]_vars =>
        [loop = "idle" /\ loop' = "late" /\ ~turnLost
            => now - synced[1] > cycMon.cycleTime + Tolerance]_vars
    <2> SUFFICES ASSUME IInv, [Next]_vars, loop = "idle", loop' = "late", ~turnLost
                 PROVE  now - synced[1] > cycMon.cycleTime + Tolerance
        OBVIOUS
    <2>1. CheckTimeout
        BY DEF Next, vars, SyncCycle, SyncConsTime, ConsTimeBase_CLBK, EnterTimeout, Tick
    <2>2. cycMon.state = "Active"
          /\ constime_getTimeBase(1) > cycMon.lastTimeStamp + cycMon.cycleTime + Tolerance
        BY <2>1, Zenon DEF CheckTimeout
    <2>3. TypeOK /\ BaseInv /\ cycMon.lastTimeStamp = synced[1]
        BY <2>2 DEF IInv, StampInv, BaseInv
    <2>4. constime_getTimeBase(1) \in Nat /\ constime_getTimeBase(1) <= now
        BY <2>3, TimeBase, TrueTime DEF Proc
    <2>5. now \in Nat /\ synced[1] \in Nat /\ cycMon.cycleTime \in Nat /\ Tolerance \in Nat
        BY <2>3, Constants, SMT DEF TypeOK, CycMonType
    <2> QED BY <2>2, <2>3, <2>4, <2>5, SMT
<1> QED BY <1>1, Invariance, PTL DEF Spec, NoFalseAlarm

-----------------------------------------------------------------------------
(* The start of the monitoring, from the reset on: the first sync          *)
(* interrupt leaves a time stamp, the second a cycle time, and each one    *)
(* after it that finds the monitoring not active has found a cycle that    *)
(* differs from the one before.                                            *)
Measuring ==
    cycMon.state = "Init" /\ cycMon.lastTimeStamp = synced[1] /\ synced[1] > 0
StartInv ==
    ~turnLost /\ ~fatal =>
        /\ restarted = 0 => cycMon.state = "Timeout"
        /\ restarted = 1 => cycMon = ResetCycleMon
        /\ restarted = 2 => Measuring /\ cycMon.cycleTime = 0
        /\ restarted \in {3, 4} =>
              \/ cycMon.state = "Active"
              \/ Measuring /\ cycMon.cycleTime = synced[1] - synced[2]
        /\ restarted = 4 /\ cycMon.state # "Active" =>
              synced[1] - synced[2] # synced[2] - synced[3]

(* A sync interrupt that finds the monitoring on its way. *)
LEMMA Measured ==
    ASSUME IInv, SyncCycle, ~turnLost', ~fatal', Measuring
    PROVE  \/ cycMon'.state = "Active"
           \/ /\ cycMon'.state = "Init" /\ cycMon'.lastTimeStamp = now
              /\ cycMon'.cycleTime = now - synced[1]
              /\ ~Agrees(now - synced[1])
<1> DEFINE cycle == base'[1] - cycMon.lastTimeStamp
           average == (cycMon.cycleTime + cycle) \div 2
<1>1. cycle = now - synced[1] /\ base'[1] = now /\ cycMon.lastTimeStamp # 0
    BY SyncBase DEF Measuring, IInv, TypeOK
<1>2. /\ cycMon' = cyclemon_measure(base'[1]) /\ cycMon \in CycMonType
      /\ ~(Agrees(cycle) /\ cycMon'.state = "Init")
    BY <1>1 DEF Measuring, SyncCycle, cyclemon_process, IInv, TypeOK
<1>3. CASE Agrees(cycle)
    <2>1. cycMon' = [state |-> IF InRange(average) THEN "Active" ELSE "Init",
                     lastTimeStamp |-> base'[1], cycleTime |-> average]
        BY <1>1, <1>2, <1>3 DEF cyclemon_measure
    <2>2. cycMon'.state \in {"Active", "Init"}
        BY <2>1
    <2> QED BY <1>2, <1>3, <2>2
<1>4. CASE ~Agrees(cycle)
    <2>1. cycMon' = [cycMon EXCEPT !.lastTimeStamp = base'[1], !.cycleTime = cycle]
        BY <1>1, <1>2, <1>4 DEF cyclemon_measure
    <2> HIDE DEF cycle
    <2> QED BY <1>1, <1>2, <1>4, <2>1 DEF Measuring, CycMonType
<1> QED BY <1>3, <1>4

LEMMA SyncStart ==
    ASSUME IInv, StartInv, SyncCycle
    PROVE  StartInv'
<1> SUFFICES ASSUME ~turnLost', ~fatal'
             PROVE  /\ restarted' = 0 => cycMon'.state = "Timeout"
                    /\ restarted' = 1 => cycMon' = ResetCycleMon
                    /\ restarted' = 2 => Measuring' /\ cycMon'.cycleTime = 0
                    /\ restarted' \in {3, 4} =>
                          \/ cycMon'.state = "Active"
                          \/ Measuring' /\ cycMon'.cycleTime = synced'[1] - synced'[2]
                    /\ restarted' = 4 /\ cycMon'.state # "Active" =>
                          synced'[1] - synced'[2] # synced'[2] - synced'[3]
    BY DEF StartInv
<1>1. /\ ~turnLost /\ ~fatal /\ base'[1] = now /\ now > synced[1]
      /\ synced'[1] = now /\ synced'[2] = synced[1] /\ synced'[3] = synced[2]
    <2>1. synced' = [i \in 1..3 |-> IF i = 1 THEN now ELSE synced[i - 1]]
        BY DEF SyncCycle
    <2>2. synced'[2] = synced[1] /\ synced'[3] = synced[2]
        BY <2>1
    <2> QED BY <2>2, SyncBase DEF SyncCycle
<1>2. /\ restarted \in 0..4 /\ cycMon \in CycMonType /\ now \in Nat
      /\ synced[1] \in Nat /\ synced[2] \in Nat
      /\ restarted' = IF restarted < 4 THEN restarted + 1 ELSE restarted
    BY TimeAssumption DEF SyncCycle, IInv, TypeOK
<1>3. cycMon' = cyclemon_process(now)
    BY <1>1 DEF SyncCycle
<1>4. CASE restarted = 0
    <2>1. cycMon' = ResetCycleMon /\ restarted' = 1
        BY <1>1, <1>2, <1>3, <1>4 DEF StartInv, cyclemon_process
    <2> QED BY <2>1
<1>5. CASE restarted = 1
    <2>1. cycMon = ResetCycleMon /\ restarted' = 2
        BY <1>1, <1>2, <1>5 DEF StartInv
    <2>2. cycMon' = [ResetCycleMon EXCEPT !.lastTimeStamp = now]
        BY <1>3, <2>1 DEF cyclemon_process, cyclemon_measure, ResetCycleMon
    <2>3. cycMon'.state = "Init" /\ cycMon'.lastTimeStamp = now /\ cycMon'.cycleTime = 0
        BY <2>2 DEF ResetCycleMon
    <2> QED BY <1>1, <1>2, <2>1, <2>3 DEF Measuring
<1>6. CASE restarted = 2
    <2>1. Measuring /\ restarted' = 3
        BY <1>1, <1>2, <1>6 DEF StartInv
    <2> QED BY <1>1, <1>2, <2>1, Measured DEF Measuring
<1>7. CASE restarted \in {3, 4} /\ cycMon.state = "Active"
    <2>1. cycMon' = [cycMon EXCEPT !.lastTimeStamp = now] /\ restarted' = 4
        BY <1>2, <1>3, <1>7 DEF cyclemon_process
    <2>2. cycMon'.state = "Active"
        BY <1>2, <1>7, <2>1 DEF CycMonType
    <2> QED BY <2>1, <2>2
<1>8. CASE restarted \in {3, 4} /\ cycMon.state # "Active"
    <2>1. Measuring /\ cycMon.cycleTime = synced[1] - synced[2] /\ restarted' = 4
        BY <1>1, <1>2, <1>8 DEF StartInv
    <2>2. ~Agrees(now - synced[1]) => now - synced[1] # synced[1] - synced[2]
        BY <1>2, <2>1, TimeAssumption DEF Agrees, CycMonType
    <2> QED BY <1>1, <1>2, <2>1, <2>2, Measured DEF Measuring
<1> QED BY <1>2, <1>4, <1>5, <1>6, <1>7, <1>8

LEMMA StartStep == IInv /\ StartInv /\ [Next]_vars => StartInv'
<1> SUFFICES ASSUME IInv, StartInv, [Next]_vars PROVE StartInv'
    OBVIOUS
<1>1. CASE SyncCycle
    BY <1>1, SyncStart
<1>2. CASE EnterTimeout
    <2>1. cycMon' = [cycMon EXCEPT !.state = "Timeout"] /\ restarted' = 0
        BY <1>2 DEF EnterTimeout
    <2>2. cycMon'.state = "Timeout"
        BY <2>1 DEF IInv, TypeOK, CycMonType
    <2> QED BY <2>1, <2>2 DEF StartInv
<1>3. CASE UNCHANGED <<cycMon, fatal, synced, restarted, turnLost>>
    BY <1>3 DEF StartInv, Measuring
<1>4. CASE ~SyncCycle /\ ~EnterTimeout
    <2>1. UNCHANGED <<cycMon, fatal, synced, restarted, turnLost>>
        BY <1>4 DEF Next, vars, history, SyncConsTime, ConsTimeBase_CLBK, CheckTimeout, Tick
    <2> QED BY <1>3, <2>1
<1> QED BY <1>1, <1>2, <1>4

(* Whatever cycle times, threshold and timer: the fourth sync interrupt    *)
(* after a timeout finds or makes the monitoring active, if the last three *)
(* came at equal distances; calculateCycleTime needs no more of them.      *)
THEOREM MonitoringRestarts == Spec => []StartsAgain
<1>1. Init => StartInv
    BY DEF Init, StartInv
<1>2. IInv /\ StartInv => StartsAgain
    BY DEF StartInv, StartsAgain, IInv, TypeOK
<1> QED BY <1>1, <1>2, Invariance, StartStep, PTL DEF Spec
=============================================================================
