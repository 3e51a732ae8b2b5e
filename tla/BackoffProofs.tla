--------------------------- MODULE BackoffProofs ---------------------------
(***************************************************************************)
(* Backoff.Delay for integers of any width, any setting and streaks of any *)
(* length.  The argument: as long as the loop runs, the delay is below the *)
(* cap, so that the next product fits the integers (InRange) and is exact; *)
(* and since the exact delays grow, the first that reaches the cap is also *)
(* where the closed form does.                                             *)
(***************************************************************************)
EXTENDS Backoff, Recursion

Settings == [Min: Nat, Max: Int, Factor: Int]

\* The factor that Delay multiplies with is at least 1.
LEMMA Factors == ASSUME NEW b \in Settings PROVE FactorOf(b) \in Nat \ {0}
BY DEF Settings, FactorOf

\* A product in the range of the integers is itself.
LEMMA Wraps ==
    /\ \A x \in Int : Wrap(x) \in Int
    /\ \A x \in Nat : x < Half => Wrap(x) = x
<1>1. Half \in Nat \ {0}
  BY BackoffAssumption
<1> HIDE DEF Half
<1>2. \A x \in Int : Wrap(x) \in Int
  BY <1>1 DEF Wrap
<1>3. ASSUME NEW x \in Nat, x < Half PROVE Wrap(x) = x
  <2>1. x + Half \in 0 .. 2 * Half - 1 /\ 2 * Half \in Nat \ {0}
    BY <1>1, <1>3
  <2>2. (x + Half) % (2 * Half) = x + Half
    BY <2>1
  <2> QED BY <1>1, <2>2 DEF Wrap
<1> QED BY <1>2, <1>3

\* Multiplication by a natural number is monotonic, and grows for one that is not zero.
LEMMA Products ==
    ASSUME NEW x \in Int, NEW y \in Int, NEW f \in Nat
    PROVE  /\ x * f \in Int
           /\ x <= y => x * f <= y * f
           /\ x \in Nat => x * f \in Nat
           /\ x \in Nat /\ f # 0 => x <= x * f
<1>1. x * f \in Int
  OBVIOUS
<1>2. ASSUME x <= y PROVE x * f <= y * f
  BY <1>2
<1>3. ASSUME x \in Nat PROVE x * f \in Nat
  BY <1>3
<1>4. ASSUME x \in Nat, f # 0 PROVE x <= x * f
  BY <1>4
<1> QED BY <1>1, <1>2, <1>3, <1>4

\* The function that Power evaluates exists, and only one.
LEMMA PowerIsComputed ==
    ASSUME NEW x \in Nat \ {0}, NEW n \in Nat
    PROVE  \E p \in [0 .. n -> Nat \ {0}] :
              /\ p[0] = 1 /\ \A i \in 1 .. n : p[i] = x * p[i - 1]
              /\ Power(x, n) = p[n]
<1> DEFINE S == Nat \ {0}
           Step == [i \in 1 .. n |-> [y \in S |-> x * y]]
           Is(p) == p = [i \in 0 .. n |-> IF i = 0 THEN 1 ELSE x * p[i - 1]]
           p == CHOOSE p : Is(p)
<1>1. Step \in [1 .. n -> [S -> S]]
  BY Products
<1>2. PICK d : IsChain(d, 1, Step, n, S)
  <2> HIDE DEF S, Step
  <2>1. 1 \in S
    BY DEF S
  <2> QED BY <1>1, <2>1, Chain
<1>3. d \in [0 .. n -> S]
  BY <1>2 DEF IsChain
<1>4. Is(d)
  <2>1. ASSUME NEW i \in 0 .. n, i # 0 PROVE Step[i][d[i - 1]] = x * d[i - 1]
    <3>1. i \in 1 .. n /\ i - 1 \in 0 .. n
      BY <2>1
    <3> QED BY <1>3, <3>1
  <2> HIDE DEF Step
  <2> QED BY <1>2, <2>1 DEF IsChain
<1>5. Is(p)
  BY <1>4
<1>6. p[0] = 1 /\ \A i \in 1 .. n : p[i] = x * p[i - 1]
  <2> HIDE DEF p
  <2> QED BY <1>5
<1>7. d[0] = 1 /\ \A i \in 1 .. n : d[i] = x * d[i - 1]
  BY <1>4
<1>8. \A i \in 0 .. n : p[i] = d[i]
  <2> HIDE DEF p
  <2>1. GoAlike(p, d, n)
    BY <1>6, <1>7 DEF GoAlike
  <2> QED BY <2>1, Agree DEF Alike
<1>9. p \in [0 .. n -> S]
  <2> HIDE DEF p
  <2> QED BY <1>3, <1>5, <1>8
<1>10. Power(x, n) = p[n]
  BY DEF Power
<1> QED
  <2> HIDE DEF p
  <2> QED BY <1>6, <1>9, <1>10

\* Powers are what they are defined to be, one factor at a time.
LEMMA Powers ==
    ASSUME NEW x \in Nat \ {0}
    PROVE  /\ Power(x, 0) = 1
           /\ \A n \in Nat : Power(x, n) \in Nat \ {0} /\ Power(x, n + 1) = x * Power(x, n)
<1>1. Power(x, 0) = 1
  BY PowerIsComputed
<1>2. ASSUME NEW n \in Nat PROVE Power(x, n) \in Nat \ {0} /\ Power(x, n + 1) = x * Power(x, n)
  <2>1. PICK p \in [0 .. n -> Nat \ {0}] :
            /\ p[0] = 1 /\ \A i \in 1 .. n : p[i] = x * p[i - 1]
            /\ Power(x, n) = p[n]
    BY PowerIsComputed
  <2>2. PICK q \in [0 .. n + 1 -> Nat \ {0}] :
            /\ q[0] = 1 /\ \A i \in 1 .. n + 1 : q[i] = x * q[i - 1]
            /\ Power(x, n + 1) = q[n + 1]
    <3>1. n + 1 \in Nat
      OBVIOUS
    <3> QED BY <3>1, PowerIsComputed
  <2>3. \A i \in 0 .. n : p[i] = q[i]
    <3>1. GoAlike(p, q, n)
      BY <2>1, <2>2 DEF GoAlike
    <3> QED BY <3>1, Agree DEF Alike
  <2> QED BY <2>1, <2>2, <2>3
<1> QED BY <1>1, <1>2

Grown(b, i) == b.Min * Power(FactorOf(b), i)

\* The exact delays grow with the streak.
LEMMA Growth ==
    ASSUME NEW b \in Settings
    PROVE  /\ Grown(b, 0) = b.Min
           /\ \A i \in Nat : /\ Grown(b, i) \in Nat
                             /\ Grown(b, i + 1) = Grown(b, i) * FactorOf(b)
                             /\ Grown(b, i) <= Grown(b, i + 1)
<1> DEFINE F == FactorOf(b)
<1>1. F \in Nat \ {0} /\ b.Min \in Nat
  BY Factors DEF Settings
<1>2. Grown(b, 0) = b.Min
  <2>1. Power(F, 0) = 1
    BY <1>1, Powers
  <2> QED BY <1>1, <2>1 DEF Grown
<1>3. ASSUME NEW i \in Nat
      PROVE  /\ Grown(b, i) \in Nat
             /\ Grown(b, i + 1) = Grown(b, i) * FactorOf(b)
             /\ Grown(b, i) <= Grown(b, i + 1)
  <2>1. PICK w \in Nat \ {0} : w = Power(F, i) /\ Power(F, i + 1) = F * w
    BY <1>1, Powers
  <2> HIDE DEF F
  <2>2. b.Min * w \in Nat /\ b.Min * (F * w) = (b.Min * w) * F /\ b.Min * w <= (b.Min * w) * F
    BY <1>1, Products
  <2> QED BY <2>1, <2>2 DEF Grown, F
<1> QED BY <1>2, <1>3

\* The function that Delay evaluates exists, and only one.
LEMMA DelayIsComputed ==
    ASSUME NEW b \in Settings, NEW n \in Nat \ {0}
    PROVE  \E d \in [0 .. n - 1 -> Int] :
              /\ d[0] = b.Min /\ \A i \in 1 .. n - 1 : d[i] = Wrap(d[i - 1] * FactorOf(b))
              /\ Delay(b, n) = IF \E i \in 1 .. n - 1 : d[i] >= b.Max THEN b.Max ELSE d[n - 1]
<1> DEFINE N == n - 1
           Step == [i \in 1 .. N |-> [y \in Int |-> Wrap(y * FactorOf(b))]]
           Is(f) == f = [i \in 0 .. N |-> IF i = 0 THEN b.Min ELSE Wrap(f[i - 1] * FactorOf(b))]
           d == CHOOSE f : Is(f)
<1>1. Step \in [1 .. N -> [Int -> Int]]
  BY Factors, Products, Wraps
<1>2. PICK c : IsChain(c, b.Min, Step, N, Int)
  <2>1. b.Min \in Int /\ N \in Nat
    BY DEF Settings
  <2> HIDE DEF Step, N
  <2> QED BY <1>1, <2>1, Chain
<1>3. c \in [0 .. N -> Int]
  BY <1>2 DEF IsChain
<1>4. Is(c)
  <2>1. ASSUME NEW i \in 0 .. N, i # 0 PROVE Step[i][c[i - 1]] = Wrap(c[i - 1] * FactorOf(b))
    <3>1. i \in 1 .. N /\ i - 1 \in 0 .. N
      BY <2>1
    <3> QED BY <1>3, <3>1
  <2> HIDE DEF Step
  <2> QED BY <1>2, <2>1 DEF IsChain
<1>5. Is(d)
  BY <1>4
<1> HIDE DEF d
<1>6. d[0] = b.Min /\ \A i \in 1 .. N : d[i] = Wrap(d[i - 1] * FactorOf(b))
  BY <1>5
<1>7. c[0] = b.Min /\ \A i \in 1 .. N : c[i] = Wrap(c[i - 1] * FactorOf(b))
  BY <1>4
<1>8. Alike(d, c, N)
  BY <1>6, <1>7, Agree DEF GoAlike
<1>9. d \in [0 .. N -> Int]
  BY <1>3, <1>5, <1>8 DEF Alike
<1>10. Delay(b, n) = IF \E i \in 1 .. N : d[i] >= b.Max THEN b.Max ELSE d[N]
  BY DEF Delay, d
<1> QED
  BY <1>6, <1>9, <1>10

\* The wait as the loop computes it, and as exact arithmetic has it.
Runs(d, min, F, N) ==
    d \in [0 .. N -> Int] /\ d[0] = min /\ \A i \in 0 .. N : i < N => d[i + 1] = Wrap(d[i] * F)

Grows(e, min, F, N) ==
    e \in [0 .. N -> Nat] /\ e[0] = min /\ \A i \in 0 .. N : i < N => e[i + 1] = e[i] * F

Fits(min, max, F) ==
    min \in Nat /\ max \in Int /\ F \in Nat \ {0} /\ min <= max /\ min * F < Half /\ (max - 1) * F < Half

\* Up to the first delay that reaches the cap, no product leaves the range, and the
\* loop has the exact values.
LEMMA Loop ==
    ASSUME NEW N \in Nat, NEW min, NEW max, NEW F, NEW d, NEW e,
           Fits(min, max, F), Runs(d, min, F, N), Grows(e, min, F, N)
    PROVE  (IF \E i \in 1 .. N : d[i] >= max THEN max ELSE d[N]) =
           (IF e[N] >= max THEN max ELSE e[N])
<1> DEFINE Capped(i) == e[i] >= max /\ \E j \in 1 .. i : d[j] >= max
           Exact(i) == d[i] = e[i] /\ \A j \in 1 .. i : d[j] < max
           P == {i \in 0 .. N : Capped(i) \/ Exact(i)}
<1>1. 0 \in P
  BY DEF Runs, Grows
<1>2. F \in Nat /\ F # 0 /\ min \in Nat /\ max \in Int
  BY DEF Fits
<1>3. ASSUME NEW i \in 0 .. N, i \in P, i < N PROVE i + 1 \in P
  <2>1. i + 1 \in 1 .. N /\ i + 1 \in 0 .. N
    BY <1>3
  <2>2. e[i] \in Nat /\ e[i + 1] = e[i] * F /\ d[i] \in Int /\ d[i + 1] = Wrap(d[i] * F)
    BY <1>3, <2>1 DEF Runs, Grows
  <2>3. e[i] <= e[i] * F /\ e[i] * F \in Nat
    BY <1>2, <2>2, Products
  <2>4. CASE Capped(i)
    <3>1. e[i + 1] >= max
      BY <1>2, <2>2, <2>3, <2>4
    <3>2. \E j \in 1 .. i + 1 : d[j] >= max
      BY <2>4
    <3> QED BY <2>1, <3>1, <3>2
  <2>5. CASE Exact(i)
    <3>1. d[i] = min \/ d[i] <= max - 1
      BY <1>2, <2>2, <2>5 DEF Runs
    <3>2. d[i] * F < Half
      <4>1. CASE d[i] = min
        BY <4>1 DEF Fits
      <4>2. CASE d[i] <= max - 1
        <5>1. d[i] * F <= (max - 1) * F /\ (max - 1) * F \in Int /\ d[i] * F \in Int
          <6>1. max - 1 \in Int
            BY <1>2
          <6> HIDE DEF P, Capped, Exact
          <6> QED BY <1>2, <2>2, <4>2, <6>1, Products
        <5>2. Half \in Int /\ (max - 1) * F < Half
          BY BackoffAssumption DEF Fits
        <5> HIDE DEF Half
        <5> QED BY <5>1, <5>2
      <4> QED BY <3>1, <4>1, <4>2
    <3>3. d[i + 1] = e[i + 1]
      BY <2>2, <2>3, <2>5, <3>2, Wraps
    <3>4. CASE d[i + 1] >= max
      BY <2>1, <3>3, <3>4
    <3>5. CASE d[i + 1] < max
      <4>1. \A j \in 1 .. i + 1 : j = i + 1 \/ j \in 1 .. i
        OBVIOUS
      <4>2. Exact(i + 1)
        BY <2>5, <3>3, <3>5, <4>1
      <4> QED BY <2>1, <4>2
    <3>6. d[i + 1] >= max \/ d[i + 1] < max
      BY <1>2, <2>2, <2>3, <3>3
    <3> QED BY <3>4, <3>5, <3>6
  <2> QED BY <1>3, <2>4, <2>5
<1>4. N \in P
  <2> HIDE DEF P
  <2>1. Inductive(P, N)
    BY <1>1, <1>3 DEF Inductive
  <2>2. 0 .. N \subseteq P
    BY <2>1, Induct, Zenon
  <2> QED BY <2>2
<1>5. CASE Capped(N)
  BY <1>5
<1>6. CASE Exact(N)
  <2>1. ~ \E i \in 1 .. N : d[i] >= max
    BY <1>2, <1>6 DEF Runs
  <2>2. d[N] = e[N] /\ e[N] \in Nat
    BY <1>6 DEF Grows
  <2>3. CASE N = 0
    BY <2>1, <2>2, <2>3 DEF Fits, Runs
  <2>4. CASE N # 0
    BY <1>2, <1>6, <2>1, <2>2, <2>4
  <2> QED BY <2>3, <2>4
<1> QED BY <1>4, <1>5, <1>6

\* What the loop returns: the exact delay, or the cap once that is reached.
LEMMA DelayIs ==
    ASSUME NEW b \in Settings, InRange(b), NEW n \in Nat \ {0}
    PROVE  Delay(b, n) = IF Grown(b, n - 1) >= b.Max THEN b.Max ELSE Grown(b, n - 1)
<1> DEFINE N == n - 1
           F == FactorOf(b)
           e == [i \in 0 .. N |-> Grown(b, i)]
<1>1. PICK d : Runs(d, b.Min, F, N) /\
          Delay(b, n) = IF \E i \in 1 .. N : d[i] >= b.Max THEN b.Max ELSE d[N]
  <2>1. PICK d \in [0 .. N -> Int] :
            /\ d[0] = b.Min /\ \A i \in 1 .. N : d[i] = Wrap(d[i - 1] * F)
            /\ Delay(b, n) = IF \E i \in 1 .. N : d[i] >= b.Max THEN b.Max ELSE d[N]
    BY DelayIsComputed
  <2>2. ASSUME NEW i \in 0 .. N, i < N PROVE d[i + 1] = Wrap(d[i] * F)
    <3>1. i + 1 \in 1 .. N /\ (i + 1) - 1 = i
      BY <2>2
    <3> HIDE DEF N
    <3>2. d[i + 1] = Wrap(d[(i + 1) - 1] * F)
      BY <2>1, <3>1
    <3> QED BY <3>1, <3>2, Zenon
  <2> HIDE DEF N, F
  <2>3. Runs(d, b.Min, F, N)
    BY <2>1, <2>2 DEF Runs
  <2> QED BY <2>1, <2>3
<1>2. Fits(b.Min, b.Max, F)
  BY Factors DEF Settings, InRange, Fits
<1>3. N \in Nat
  OBVIOUS
<1>4. Grows(e, b.Min, F, N)
  <2>1. \A i \in 0 .. N : Grown(b, i) \in Nat
    <3>1. \A i \in 0 .. N : i \in Nat
      OBVIOUS
    <3> HIDE DEF N
    <3> QED BY <3>1, Growth
  <2>2. ASSUME NEW i \in 0 .. N, i < N PROVE i + 1 \in 0 .. N /\ Grown(b, i + 1) = Grown(b, i) * F
    <3>1. i \in Nat /\ i + 1 \in 0 .. N
      BY <2>2
    <3> HIDE DEF N
    <3> QED BY <3>1, Growth
  <2>3. Grown(b, 0) = b.Min
    BY Growth
  <2> HIDE DEF F, N
  <2> QED BY <1>3, <2>1, <2>2, <2>3 DEF Grows
<1>5. e[N] = Grown(b, N)
  BY <1>3
<1> HIDE DEF N, F, e
<1>6. (IF \E i \in 1 .. N : d[i] >= b.Max THEN b.Max ELSE d[N]) =
      (IF e[N] >= b.Max THEN b.Max ELSE e[N])
  BY <1>1, <1>2, <1>3, <1>4, Loop
<1> QED BY <1>1, <1>5, <1>6 DEF N

\* Backoff.Delay (supervisor.go) is min(Min * Factor^(n-1), Max), for any width of
\* the integers and any streak, in which the power has long outgrown them.
THEOREM ClosedForm ==
    \A b \in Settings, n \in Nat \ {0} :
        InRange(b) => LET exact == b.Min * Power(FactorOf(b), n - 1)
                      IN Delay(b, n) = IF exact >= b.Max THEN b.Max ELSE exact
BY DelayIs DEF Grown

\* The property that the run checks, for all settings and streaks.
THEOREM DelayFollowsTheFormula == DelayIsExponential
BY ClosedForm, BackoffAssumption DEF DelayIsExponential, Settings

\* A longer streak never waits less, and every wait is from the minimum to the cap:
\* a daemon that keeps failing is not restarted in a tight loop.
THEOREM NeverShrinks ==
    \A b \in Settings, n \in Nat \ {0} :
        InRange(b) => b.Min <= Delay(b, n) /\ Delay(b, n) <= Delay(b, n + 1) /\ Delay(b, n + 1) <= b.Max
<1> SUFFICES ASSUME NEW b \in Settings, NEW n \in Nat \ {0}, InRange(b)
             PROVE  b.Min <= Delay(b, n) /\ Delay(b, n) <= Delay(b, n + 1) /\ Delay(b, n + 1) <= b.Max
  OBVIOUS
<1> DEFINE e(i) == Grown(b, i)
<1>1. b.Min \in Nat /\ b.Max \in Int /\ b.Min <= b.Max
  BY DEF Settings, InRange
<1>2. e(0) = b.Min /\ \A i \in Nat : e(i) \in Nat /\ e(i) <= e(i + 1)
  BY Growth
<1>3. Delay(b, n) = IF e(n - 1) >= b.Max THEN b.Max ELSE e(n - 1)
  BY DelayIs
<1>4. Delay(b, n + 1) = IF e(n) >= b.Max THEN b.Max ELSE e(n)
  <2>1. n + 1 \in Nat \ {0} /\ (n + 1) - 1 = n
    OBVIOUS
  <2> QED BY <2>1, DelayIs
<1> HIDE DEF e
<1>5. b.Min <= e(n - 1)
  <2> DEFINE P == {i \in 0 .. n - 1 : b.Min <= e(i)}
  <2>1. n - 1 \in Nat
    OBVIOUS
  <2>2. Inductive(P, n - 1)
    BY <1>1, <1>2 DEF Inductive
  <2>3. n - 1 \in P
    <3> HIDE DEF P
    <3>1. 0 .. n - 1 \subseteq P
      BY <2>1, <2>2, Induct, Zenon
    <3> QED BY <2>1, <3>1
  <2> QED BY <2>3
<1>6. e(n - 1) \in Nat /\ e(n) \in Nat /\ e(n - 1) <= e(n)
  <2>1. n - 1 \in Nat /\ (n - 1) + 1 = n
    OBVIOUS
  <2> QED BY <1>2, <2>1
<1> QED BY <1>1, <1>3, <1>4, <1>5, <1>6
=============================================================================
