------------------------------ MODULE MCServer ------------------------------
(* Server on a few of everything, for one part that moves at a time. *)
EXTENDS Server

\* A comment of each stream.
MCStreamOf == [c \in Comments |-> IF c = 1 THEN "issues" ELSE "pulls"]

\* A year of two months, of three days and of two, in days of two hours of two minutes.
MCMonths == <<3, 2>>

Star(lo, hi, step) == {[star |-> TRUE, from |-> lo, to |-> hi, step |-> step]}
Span(a, b) == {[star |-> FALSE, from |-> a, to |-> b, step |-> 1]}
At(v) == Span(v, v)
Fields(minutes, hours, days, months, weekdays) ==
    [minutes |-> minutes, hours |-> hours, days |-> days, months |-> months, weekdays |-> weekdays]
AnyDay == Star(0, 2, 1)
AnyWeekDay == Star(0, 3, 1)
AnyMonth == Star(1, 2, 1)

MCCrons == {"hourly", "never"}

\* "either" restricts the day of the month and of the week; "skip" a month; "steps" has
\* steps and a list, and Sunday as the day after the last; "never" asks for a day the
\* month does not have.
MCExpressions ==
    [hourly |-> Fields(At(0), Star(0, 1, 1), AnyDay, AnyMonth, AnyWeekDay),
     daily |-> Fields(At(0), At(1), AnyDay, AnyMonth, AnyWeekDay),
     either |-> Fields(Span(0, 1), At(1), At(1), AnyMonth, At(2)),
     monthly |-> Fields(At(1), At(0), At(2), AnyMonth, AnyWeekDay),
     skip |-> Fields(At(0), At(0), AnyDay, At(2), At(0)),
     steps |-> Fields(Star(0, 1, 2), Star(0, 1, 1), Star(0, 2, 2), At(1) \cup At(2), At(3)),
     never |-> Fields(At(0), At(0), At(2), At(2), AnyWeekDay)]
=============================================================================
