-------------------------- MODULE UsageArithmetic --------------------------
(***************************************************************************)
(* The arithmetic of the meter's reads (presence.py): a window clips a stay, *)
(* stays are united per person, and two timelines overlap by two pointers.   *)
(* Time is in ticks, a fraction of a second: webhooks and months fall on     *)
(* whole seconds, a sweep and a read fall anywhere.                          *)
(***************************************************************************)
EXTENDS Naturals, Sequences, FiniteSets, Folds

CONSTANTS
    TicksPerSecond,
    Midnight,    \* the instant a calendar month starts at, by <<year, month>>
    MaxYear,     \* the last year a datetime can hold
    Open         \* the left_at of a stay that has not ended

ASSUME ArithmeticAssumption ==
    /\ TicksPerSecond \in Nat \ {0}
    /\ MaxYear \in Nat /\ Open \notin Nat

Earlier(a, b) == IF a < b THEN a ELSE b
Later(a, b) == IF a > b THEN a ELSE b

SumOf(f) == MapThenFoldSet(+, 0, LAMBDA x : f[x], LAMBDA S : CHOOSE x \in S : TRUE, DOMAIN f)

\* sum(), over whatever f is indexed by.  f is bound to its value, or TLC would work
\* it out again at every step of the fold.
Total(f) == CHOOSE n \in {SumOf(g) : g \in {f}} : TRUE

-----------------------------------------------------------------------------
(* Intervals <<a, b>>, half open.                                           *)

\* Mutant of Clip: a stay that is still open runs up to now whatever the window.
ClipUnbounded(s, start, end, now) ==
    LET a == Later(s.joined, start)
        b == IF s.left = Open THEN now ELSE Earlier(s.left, end)
    IN  IF b > a THEN {<<a, b>>} ELSE {}

\* _clip: none or one interval.
Clip(s, start, end, now) ==
    LET a == Later(s.joined, start)
        b == Earlier(IF s.left = Open THEN now ELSE s.left, end)
    IN  IF b > a THEN {<<a, b>>} ELSE {}

\* The reference: the instants that intervals cover.
Instants(intervals) == UNION {x[1]..x[2] - 1 : x \in intervals}

\* The tuple order that sorted() puts intervals in, read from its far end.
FarthestOf(intervals) ==
    CHOOSE x \in intervals : \A y \in intervals :
        y[1] < x[1] \/ (y[1] = x[1] /\ y[2] <= x[2])

\* One turn of the loop of _merge_intervals: touching intervals are joined.
Absorb(x, merged) ==
    LET n == Len(merged) IN
    IF n > 0 /\ x[1] <= merged[n][2]
      THEN [merged EXCEPT ![n] = <<@[1], Later(@[2], x[2])>>]
      ELSE Append(merged, x)

Merged(intervals) == MapThenFoldSet(Absorb, <<>>, LAMBDA x : x, FarthestOf, intervals)

Ticks(merged) == Total([i \in DOMAIN merged |-> merged[i][2] - merged[i][1]])

\* _interval_seconds: truncated once, after the sum.
IntervalSeconds(merged) == Ticks(merged) \div TicksPerSecond

\* _overlap_seconds: two pointers; the interval that ends first gives way to the
\* next of its list.
OverlapSeconds(left, right) ==
    LET from[p \in (1..Len(left) + 1) \X (1..Len(right) + 1)] ==
          IF p[1] > Len(left) \/ p[2] > Len(right) THEN 0
          ELSE LET x == left[p[1]]
                   y == right[p[2]]
                   a == Later(x[1], y[1])
                   b == Earlier(x[2], y[2])
               IN  (IF b > a THEN b - a ELSE 0)
                   + from[IF x[2] < y[2] THEN <<p[1] + 1, p[2]>> ELSE <<p[1], p[2] + 1>>]
    IN  from[<<1, 1>>] \div TicksPerSecond

-----------------------------------------------------------------------------
(* Calendar months, as <<year, month>>.                                     *)

\* Mutant of NextMonth: the year does not turn.
NextMonthSameYear(m) == IF m[2] = 12 THEN <<m[1], 1>> ELSE <<m[1], m[2] + 1>>

NextMonth(m) == IF m[2] = 12 THEN <<m[1] + 1, 1>> ELSE <<m[1], m[2] + 1>>
PriorMonth(m) == IF m[2] = 1 THEN <<m[1] - 1, 12>> ELSE <<m[1], m[2] - 1>>

\* month_bounds, period_bounds: the month after is computed too, so the last
\* month a datetime can hold is no period.
IsPeriod(m) == NextMonth(m)[1] <= MaxYear
MonthBounds(m) == <<Midnight[m], Midnight[NextMonth(m)]>>

\* recent_months: newest first, by stepping back from the month it is now.
RecentMonths(count, here) ==
    LET month[i \in 1..count] == IF i = 1 THEN here ELSE PriorMonth(month[i - 1])
    IN  [i \in 1..count |-> month[i]]
=============================================================================
