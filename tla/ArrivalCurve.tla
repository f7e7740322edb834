---------------------------- MODULE ArrivalCurve ----------------------------
(***************************************************************************)
(* What the rate limiter promises, with no tokens in sight: the requests   *)
(* let through, each dated by the limiter's own clock, form a history that *)
(* stays under the arrival curve                                           *)
(*                                                                         *)
(*     Burst + Rate * (length of the window)                               *)
(*                                                                         *)
(* over every window of that clock, not only over the windows that start   *)
(* with the process.  RateLimiter implements this specification with the   *)
(* time of the bucket's last refill as the clock, which stale samples keep *)
(* behind the time on the wall.                                            *)
(***************************************************************************)
EXTENDS Integers, Sequences

CONSTANTS
    Rate,      \* requests per second
    Burst,     \* requests the limiter may let through at one instant
    Second,    \* clock ticks in one second
    Instants   \* the instants of the clock

VARIABLE grants   \* the instants the limiter dates the requests let through with, in order

\* No window [g[i], g[j]] holds more grants than the curve allows.  Both sides
\* are in 1/Second of a request, so that no division is needed.
Conforms(g) ==
    \A i, j \in DOMAIN g :
        i <= j => (j - i + 1) * Second <= Burst * Second + Rate * (g[j] - g[i])

Ordered(g) == \A i, j \in DOMAIN g : i <= j => g[i] <= g[j]

Init == grants = << >>

Grant(t) ==
    /\ grants' = Append(grants, t)
    /\ Ordered(grants')
    /\ Conforms(grants')

Next == \E t \in Instants : Grant(t)

Spec == Init /\ [][Next]_grants

=============================================================================
