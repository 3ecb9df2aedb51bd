---------------------------- MODULE CalendarTime ----------------------------
(***************************************************************************)
(* Instants and their text: src/src/time.cpp.                              *)
(*                                                                         *)
(* An instant is a day since 1970-01-01, a second of that day and the      *)
(* nanoseconds of that second; the code holds their sum, in nanoseconds,   *)
(* in 64 bits.  A text is the numbers that parse_fixed_int() finds between *)
(* the separators, and the digits of the fraction.                         *)
(***************************************************************************)
EXTENDS Integers, Sequences

CONSTANTS Unset,      \* TimePoint::unset(), the least 64-bit integer
          Refused,    \* what parsing a text that is not an instant returns
          Undefined   \* the sum does not fit in 64 bits: undefined behaviour

SecondsPerDay == 86400
NanosPerSecond == 1000000000

Earliest == [day |-> -106752, second |-> 763, nano |-> 145224192]
Latest == [day |-> 106751, second |-> 85636, nano |-> 854775807]

AtOrBefore(a, b) ==
    \/ a.day < b.day
    \/ a.day = b.day /\ a.second < b.second
    \/ a.day = b.day /\ a.second = b.second /\ a.nano <= b.nano

\* Division as C++ does it.
Quotient(a, b) == IF a >= 0 THEN a \div b ELSE -((-a) \div b)

-----------------------------------------------------------------------------
is_leap_year(year) == (year % 4 = 0 /\ year % 100 # 0) \/ year % 400 = 0

days_in_month(year, month) ==
    IF month = 2 /\ is_leap_year(year) THEN 29
    ELSE <<31, 28, 31, 30, 31, 30, 31, 31, 30, 31, 30, 31>>[month]

\* The code counts years from March on, in eras of 400 years; C++ rounds to zero,
\* so what is before the first era is shifted first.
Era(n, length) == Quotient(IF n >= 0 THEN n ELSE n - (length - 1), length)

\* The days of an era before one of its years, and of a year before a month.
YearStart(year_of_era) ==
    year_of_era * 365 + Quotient(year_of_era, 4) - Quotient(year_of_era, 100)
MonthOffset(mp) == Quotient(153 * mp + 2, 5)

\* (NoEras is a mutant: every century has its leap day.)
NoEras(y, mp, day) == y * 365 + Quotient(y, 4) + MonthOffset(mp) + day - 1 - 719468 - 15

DayNumber(y, mp, day) ==
    LET era == Era(y, 400)
    IN  era * 146097 + YearStart(y - era * 400) + MonthOffset(mp) + day - 1 - 719468

days_from_civil(year, month, day) ==
    DayNumber(IF month <= 2 THEN year - 1 ELSE year, month + (IF month > 2 THEN -3 ELSE 9), day)

YearOfEra(day_of_era) ==
    Quotient(day_of_era - Quotient(day_of_era, 1460) + Quotient(day_of_era, 36524)
             - Quotient(day_of_era, 146096), 365)

MonthAndDay(y, day_of_year) ==
    LET mp == Quotient(5 * day_of_year + 2, 153)
        m == mp + (IF mp < 10 THEN 3 ELSE -9)
    IN  [year |-> y + (IF m <= 2 THEN 1 ELSE 0), month |-> m,
         day |-> day_of_year - MonthOffset(mp) + 1]

civil_from_days(days) ==
    LET z == days + 719468
        era == Era(z, 146097)
        day_of_era == z - era * 146097
        year_of_era == YearOfEra(day_of_era)
    IN  MonthAndDay(year_of_era + era * 400, day_of_era - YearStart(year_of_era))

-----------------------------------------------------------------------------
\* The nine digits of a number of nanoseconds, without the zeros at the end.
Digits(nano) == [i \in 1..9 |-> (nano \div 10 ^ (9 - i)) % 10]

Trimmed(digits) ==
    SubSeq(digits, 1, CHOOSE n \in 0..9 : /\ \A i \in n + 1..9 : digits[i] = 0
                                          /\ n = 0 \/ digits[n] # 0)

\* What the first nine digits say, padded with zeros.
Fraction(digits) ==
    LET d(i) == IF i \in DOMAIN digits THEN digits[i] ELSE 0
        upto[n \in 0..9] == IF n = 0 THEN 0 ELSE upto[n - 1] * 10 + d(n)
    IN  upto[9]

\* What nanos_ / 1000000000 and then seconds / 86400 leave, both rounded to
\* zero: for an instant before 1970 they are one too late, and the remainder is
\* negative, until to_rfc3339() takes the one back.
WholeSeconds(t) ==
    IF t.day < 0 /\ t.nano > 0
    THEN [day |-> IF t.second + 1 = SecondsPerDay THEN t.day + 1 ELSE t.day,
          second |-> (t.second + 1) % SecondsPerDay, fraction |-> t.nano - NanosPerSecond]
    ELSE [day |-> t.day, second |-> t.second, fraction |-> t.nano]

WholeDays(t) ==
    IF t.day < 0 /\ t.second > 0
    THEN [day |-> t.day + 1, second |-> t.second - SecondsPerDay, fraction |-> t.fraction]
    ELSE t

FlooredSeconds(t) ==
    LET w == WholeSeconds(t)
    IN  IF w.fraction >= 0 THEN w
        ELSE [day |-> IF w.second = 0 THEN w.day - 1 ELSE w.day,
              second |-> (w.second - 1) % SecondsPerDay,
              fraction |-> w.fraction + NanosPerSecond]

FlooredDays(t) ==
    LET w == WholeDays(t)
    IN  IF w.second >= 0 THEN w
        ELSE [day |-> w.day - 1, second |-> w.second + SecondsPerDay, fraction |-> w.fraction]

to_rfc3339(t) ==
    LET w == FlooredDays(FlooredSeconds(t))
        date == civil_from_days(w.day)
    IN  [year |-> date.year, month |-> date.month, day |-> date.day,
         hour |-> w.second \div 3600, minute |-> (w.second % 3600) \div 60,
         second |-> w.second % 60, fraction |-> Trimmed(Digits(w.fraction))]

InRange(text) ==
    /\ text.month \in 1..12
    /\ text.day \in 1..days_in_month(text.year, text.month)
    /\ text.hour <= 23 /\ text.minute <= 59 /\ text.second <= 60

SecondOfDay(text) == text.hour * 3600 + text.minute * 60 + text.second

StartOfSecond(t) == [day |-> t.day, second |-> t.second, nano |-> 0]

\* A second of 60 is the first of the next minute.  The seconds are multiplied
\* before the fraction is added: the part of a second that the least instant is
\* in cannot be had.
parse_rfc3339(text) ==
    LET seconds == SecondOfDay(text)
        t == [day |-> days_from_civil(text.year, text.month, text.day)
                      + seconds \div SecondsPerDay,
              second |-> seconds % SecondsPerDay, nano |-> Fraction(text.fraction)]
    IN  IF ~ InRange(text) THEN Refused
        ELSE IF AtOrBefore(Earliest, StartOfSecond(t)) /\ AtOrBefore(t, Latest)
        THEN t ELSE Undefined
=============================================================================
