------------------------------ MODULE Calendar ------------------------------
(***************************************************************************)
(* The calendar of src/src/time.cpp against counting: the years are looked *)
(* at one after the other, from 1970 on and back, and the days of each are *)
(* counted month by month.                                                 *)
(***************************************************************************)
EXTENDS CalendarTime

CONSTANT Years   \* the years that are looked at

VARIABLE item    \* a year and the number of its first day, or something else

Epoch == [kind |-> "year", year |-> 1970, first |-> 0]

DaysOf(year) == IF is_leap_year(year) THEN 366 ELSE 365

NextYear ==
    /\ item.kind = "year" /\ item.year >= 1970 /\ item.year + 1 \in Years
    /\ item' = [kind |-> "year", year |-> item.year + 1, first |-> item.first + DaysOf(item.year)]

PreviousYear ==
    /\ item.kind = "year" /\ item.year <= 1970 /\ item.year - 1 \in Years
    /\ item' = [kind |-> "year", year |-> item.year - 1,
                first |-> item.first - DaysOf(item.year - 1)]

CalendarInit == item.kind = "year" => item = Epoch

CalendarSpec == CalendarInit /\ [][NextYear \/ PreviousYear]_item

-----------------------------------------------------------------------------
\* The calendar, counted month by month.
MonthStart(year, first) ==
    LET start[m \in 1..12] == IF m = 1 THEN first ELSE start[m - 1] + days_in_month(year, m - 1)
    IN  start

\* What 64 bits hold.
Held(t) == AtOrBefore(Earliest, t) /\ AtOrBefore(t, Latest)

\* Instants of a year: in its first and last days and in those of the least and
\* the greatest instant that 64 bits hold.
Samples(first) ==
    [day : {first, first + 58, first + 100, first + 263, first + 364},
     second : {0, 763, 85636, 86399},
     nano : {0, 1, 145224193, 854775807, 854775808, 999999999}]

\* The second that the least instant is in: its start is before every instant.
InFirstSecond(t) == t.day = Earliest.day /\ t.second = Earliest.second

\* Whether the text of an instant is read back as that instant.
ReadsBack(t) == parse_rfc3339(to_rfc3339(t)) = IF InFirstSecond(t) THEN Undefined ELSE t

\* Day numbers and dates are each other's inverse and agree with counting the
\* days of every year that is looked at, and an instant's text is read back as
\* that instant, before 1970 as after it, to the last nanosecond, except in the
\* part of a second that the least instant is in, where the product overflows
\* (days_from_civil(), civil_from_days(), to_rfc3339(), parse_rfc3339()).
CalendarIsExact ==
    item.kind = "year" =>
        LET start == MonthStart(item.year, item.first)
        IN  /\ \A m \in 1..12 : \A d \in 1..days_in_month(item.year, m) :
                  /\ days_from_civil(item.year, m, d) = start[m] + d - 1
                  /\ civil_from_days(start[m] + d - 1) = [year |-> item.year, month |-> m, day |-> d]
            /\ \A t \in Samples(item.first) : Held(t) => ReadsBack(t)
=============================================================================
