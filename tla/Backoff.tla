------------------------------ MODULE Backoff ------------------------------
(***************************************************************************)
(* Backoff.Delay: how long the supervisor waits after a streak of          *)
(* failures, in integers of a fixed width, against its closed form.        *)
(***************************************************************************)
EXTENDS Integers

CONSTANTS
    Width,      \* of the integers; 64 in the code
    Backoffs,   \* records [Min, Max, Factor]
    MaxStreak   \* bound: failures in a row

\* The integers go from -Half to Half - 1.
Half == 2^(Width - 1)

ASSUME BackoffAssumption == Half \in Nat \ {0} /\ Backoffs \subseteq [Min: Nat, Max: Int, Factor: Int] /\ MaxStreak \in Nat

\* A product, as an integer of this width holds it.
Wrap(x) == ((x + Half) % (2 * Half)) - Half

\* A factor below 1 counts as 1.
FactorOf(b) == IF b.Factor < 1 THEN 1 ELSE b.Factor

\* Delay that multiplies to the end and caps the result (for Delay).
CappedAtTheEnd(b, failures) ==
    LET d[i \in 0..(failures - 1)] == IF i = 0 THEN b.Min ELSE Wrap(d[i - 1] * FactorOf(b))
    IN IF d[failures - 1] >= b.Max THEN b.Max ELSE d[failures - 1]

\* The loop multiplies once per failure after the first and returns the cap as
\* soon as it is reached.
Delay(b, failures) ==
    LET d[i \in 0..(failures - 1)] == IF i = 0 THEN b.Min ELSE Wrap(d[i - 1] * FactorOf(b))
    IN IF \E i \in 1..(failures - 1) : d[i] >= b.Max THEN b.Max ELSE d[failures - 1]

\* No product that the loop makes leaves the range of the integers: it multiplies
\* the minimum and values below the cap.
InRange(b) == b.Min <= b.Max /\ \A d \in {b.Min, b.Max - 1} : d * FactorOf(b) < Half

Power(x, n) == LET p[i \in 0..n] == IF i = 0 THEN 1 ELSE x * p[i - 1] IN p[n]

\* The wait grows with the streak and stops at the cap, however long the streak:
\* no overflow makes it short again, which would restart a failing tailscaled in
\* a tight loop, as long as the products fit the integers.
DelayIsExponential ==
    \A b \in Backoffs, n \in 1..MaxStreak :
        InRange(b) =>
            LET exact == b.Min * Power(FactorOf(b), n - 1)
            IN Delay(b, n) = IF exact >= b.Max THEN b.Max ELSE exact
=============================================================================
