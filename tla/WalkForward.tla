---------------------------- MODULE WalkForward ----------------------------
(***************************************************************************)
(* The calendar of the walk-forward validation: rolling windows of whole   *)
(* months, each an in-sample and an out-of-sample half, and the trades     *)
(* that count as out of sample.  A date stands for its midnight.           *)
(***************************************************************************)
EXTENDS Integers, Sequences, FiniteSets, FiniteSetsExt, Functions

CONSTANTS
    InSampleMonths, OutSampleMonths, StepMonths,  \* rolling_windows' defaults
    WindowBound  \* bound: windows in a range

ASSUME CalendarAssumption == {InSampleMonths, OutSampleMonths, StepMonths, WindowBound} \subseteq Nat

Date(year, month, day) == [year |-> year, month |-> month, day |-> day]

\* Dates in order; the numbers of successive days need not be successive.
Number(date) == (date.year * 12 + date.month) * 31 + date.day
Precedes(x, y) == Number(x) < Number(y)

\* lo <= date < hi
Within(date, lo, hi) == ~Precedes(date, lo) /\ Precedes(date, hi)

LeapYear(year) == year % 4 = 0 /\ (year % 100 # 0 \/ year % 400 = 0)
MonthRange(year, month) ==
    IF month \in {4, 6, 9, 11} THEN 30
    ELSE IF month # 2 THEN 31 ELSE IF LeapYear(year) THEN 29 ELSE 28

\* The same day some months later, or the last of a month that is too short.
AddMonths(date, months) ==
    LET index == date.year * 12 + date.month - 1 + months
        year  == index \div 12
        month == (index % 12) + 1
    IN  Date(year, month, Min({date.day, MonthRange(year, month)}))

\* rolling_windows' cursor: each step starts from the one before.
Cursor(start) ==
    LET cursor[k \in Nat \ {0}] ==
            IF k = 1 THEN start ELSE AddMonths(cursor[k - 1], StepMonths)
    IN  cursor

Window(cursor) ==
    LET boundary == AddMonths(cursor, InSampleMonths)
    IN  [inStart |-> cursor, outStart |-> boundary,
         outEnd |-> AddMonths(boundary, OutSampleMonths)]

\* Mutant of RollingWindows: windows step on by one month less.
CrowdedWindows(start, end) ==
    LET closer[k \in Nat \ {0}] ==
            IF k = 1 THEN start ELSE AddMonths(closer[k - 1], StepMonths - 1)
        fits(k) == ~Precedes(end, AddMonths(closer[k], InSampleMonths + OutSampleMonths))
        count == Cardinality({k \in 1..WindowBound : \A j \in 1..k : fits(j)})
    IN  [k \in 1..count |-> Window(closer[k])]

\* The windows that end within the data.
RollingWindows(start, end) ==
    LET cursor == Cursor(start)
        fits(k) == ~Precedes(end, AddMonths(cursor[k], InSampleMonths + OutSampleMonths))
        count == Cardinality({k \in 1..WindowBound : \A j \in 1..k : fits(j)})
    IN  [k \in 1..count |-> Window(cursor[k])]

\* build_symbol_validation over a window's candles: of the plans that the
\* strategy made of them, those that some candle before their end filled.
Replayed(window, plans) == {plan \in plans : Precedes(plan.filled, window.outEnd)}

\* _walk_forward: of these trades, those signalled in the out-of-sample half.
OutOfSample(window, plans) ==
    {plan \in Replayed(window, plans) :
        Within(plan.signalled, window.outStart, window.outEnd)}

\* The aggregate count over the windows replayed: their trades one after another.
OutOfSampleTrades(windows, replays) ==
    SumFunction([k \in DOMAIN replays |-> Cardinality(OutOfSample(windows[k], replays[k]))])
=============================================================================
