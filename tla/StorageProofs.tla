--------------------------- MODULE StorageProofs ---------------------------
(***************************************************************************)
(* What is written down is there to be read: instants and their text, for  *)
(* every day and every instant; the header slots and the records of the    *)
(* store, for any set of records, any bound and any number of sessions.    *)
(***************************************************************************)
EXTENDS PersistentStore, Calendar, NaturalFacts, SequenceTheorems, TLAPS

\* Instants and their text.
\* A quotient is the number of whole divisors below its dividend.
LEMMA QuotientIs ==
    ASSUME NEW x \in Int, NEW b \in Int, b > 0, NEW k \in Int, k * b <= x, x < k * b + b
    PROVE  x \div b = k
  BY SMT

LEMMA RemainderIs ==
    ASSUME NEW x \in Int, NEW b \in Int, b > 0, NEW k \in Int, NEW r \in Int,
           x = b * k + r, 0 <= r, r < b
    PROVE  x \div b = k /\ x % b = r
<1>1. k * b <= x /\ x < k * b + b
  BY SMT
<1>2. x \div b = k
  BY <1>1, QuotientIs
<1>3. x = b * (x \div b) + (x % b)
  BY SMT
<1> QED BY <1>2, <1>3, SMT

LEMMA WithRemainder ==
    ASSUME NEW x \in Int, NEW b \in Int, b > 0
    PROVE  \E k, r \in Int : x = b * k + r /\ 0 <= r /\ r < b
<1>1. (x \div b) \in Int /\ (x \div b) * b <= x /\ x < (x \div b) * b + b
  BY SMT
<1>2. PICK k \in Int : k * b <= x /\ x < k * b + b
  BY <1>1
<1>3. x - b * k \in Int /\ x = b * k + (x - b * k) /\ 0 <= x - b * k /\ x - b * k < b
  BY <1>2, SMT
<1> QED BY <1>3

\* Rounding to zero what has been shifted below zero rounds down.
LEMMA EraOfYear ==
    ASSUME NEW y \in Int
    PROVE  Era(y, 400) = y \div 400
<1>1. CASE y >= 0
  BY <1>1 DEF Era, Quotient
<1>2. CASE y < 0
  BY <1>2 DEF Era, Quotient
<1> QED BY <1>1, <1>2

LEMMA EraOfDay ==
    ASSUME NEW z \in Int
    PROVE  Era(z, 146097) = z \div 146097
<1>1. CASE z >= 0
  BY <1>1 DEF Era, Quotient
<1>2. CASE z < 0
  BY <1>2 DEF Era, Quotient
<1> QED BY <1>1, <1>2

LEMMA YearStartFact ==
    ASSUME NEW r \in Int, r >= 0
    PROVE  /\ YearStart(r) \in Int
           /\ YearStart(r) = r * 365 + (r \div 4) - (r \div 100)
  BY DEF YearStart, Quotient

LEMMA MonthOffsetFact ==
    ASSUME NEW mp \in 0..11
    PROVE  MonthOffset(mp) \in Int /\ MonthOffset(mp) = (153 * mp + 2) \div 5
  BY DEF MonthOffset, Quotient

\* The day number of the first of March, in closed form.
MarchFirst(y) == 365 * y + (y \div 4) - (y \div 100) + (y \div 400) - 719468

LEMMA DayNumberFact ==
    ASSUME NEW y \in Int, NEW mp \in 0..11, NEW d \in Int
    PROVE  DayNumber(y, mp, d) = MarchFirst(y) + MonthOffset(mp) + d - 1
<1> DEFINE e == y \div 400
           r == y - e * 400
<1>1. e \in Int /\ r \in 0..399 /\ y = 400 * e + r
  OBVIOUS
<1>2. (y \div 4) = 100 * e + (r \div 4) /\ (y \div 100) = 4 * e + (r \div 100)
  OBVIOUS
<1>3. DayNumber(y, mp, d) = e * 146097 + YearStart(r) + MonthOffset(mp) + d - 1 - 719468
  <2>1. Era(y, 400) = e
    BY EraOfYear
  <2> HIDE DEF e
  <2>2. YearStart(r) \in Int /\ MonthOffset(mp) \in Int
    BY <1>1, YearStartFact, MonthOffsetFact
  <2> QED BY <1>1, <2>1, <2>2, SMT DEF DayNumber
<1>4. MarchFirst(y) = 365 * y + (y \div 4) - (y \div 100) + e - 719468
  BY SMT DEF MarchFirst
<1> HIDE DEF e, r
<1>5. (r \div 4) \in Int /\ (r \div 100) \in Int
  BY <1>1
<1>6. YearStart(r) = r * 365 + (r \div 4) - (r \div 100)
  <2>1. r \in Int /\ r >= 0
    BY <1>1
  <2> QED BY <2>1, YearStartFact, Zenon
<1>7. MonthOffset(mp) \in Int
  BY MonthOffsetFact
<1> QED BY <1>1, <1>2, <1>3, <1>4, <1>5, <1>6, <1>7

\* From the first of March to the next lies a year with the leap day at its end.
LEMMA MarchToMarch ==
    ASSUME NEW y \in Int
    PROVE  MarchFirst(y) = MarchFirst(y - 1) + DaysOf(y)
<1>1. (y \div 4) - ((y - 1) \div 4) = IF y % 4 = 0 THEN 1 ELSE 0
  OBVIOUS
<1>2. (y \div 100) - ((y - 1) \div 100) = IF y % 100 = 0 THEN 1 ELSE 0
  OBVIOUS
<1>3. (y \div 400) - ((y - 1) \div 400) = IF y % 400 = 0 THEN 1 ELSE 0
  OBVIOUS
<1>4. (y % 400 = 0 => y % 100 = 0) /\ (y % 100 = 0 => y % 4 = 0)
  OBVIOUS
<1> QED BY <1>1, <1>2, <1>3, <1>4 DEF MarchFirst, DaysOf, is_leap_year

-----------------------------------------------------------------------------
\* The place of a day in an era, by centuries, cycles of four years, years and days: the
\* last day of a year that begins in March is a leap day.
IsPlace(c, q, r, doy) ==
    /\ c \in 0..3 /\ q \in 0..24 /\ r \in 0..3 /\ doy \in 0..365
    /\ doy = 365 => r = 3 /\ (q = 24 => c = 3)

DayOfPlace(c, q, r, doy) == 36524 * c + 1461 * q + 365 * r + doy
YearOfPlace(c, q, r) == 100 * c + 4 * q + r
InEra(doe) == 0 <= doe /\ doe <= 146096

LEMMA PlaceArithmetic ==
    ASSUME NEW c \in Int, NEW q \in Int, NEW r \in Int, NEW doy \in Int,
           c \in 0..3, q \in 0..24, r \in 0..3, doy \in 0..365,
           doy = 365 => r = 3 /\ (q = 24 => c = 3)
    PROVE  /\ InEra(DayOfPlace(c, q, r, doy))
           /\ YearOfEra(DayOfPlace(c, q, r, doy)) = YearOfPlace(c, q, r)
           /\ YearStart(YearOfPlace(c, q, r)) = DayOfPlace(c, q, r, doy) - doy
<1>a. PICK doe \in Int : doe = 36524 * c + 1461 * q + 365 * r + doy
  BY SMT
<1>b. PICK yoe \in Int : yoe = 100 * c + 4 * q + r
  BY SMT
<1>c. PICK x \in Int : x = doe - (doe \div 1460) + (doe \div 36524) - (doe \div 146096)
  BY SMT
<1>1. yoe \in 0..399 /\ (yoe \div 4) = 25 * c + q /\ (yoe \div 100) = c
  BY <1>b, SMT
<1>2. doe >= 0
  BY <1>a, SMT
<1>3. PICK k \in 0..1 : /\ (doe \div 1460) = 25 * c + q + k
                        /\ k = IF 24 * c + q + 365 * r + doy >= 1460 THEN 1 ELSE 0
  <2>1. CASE 24 * c + q + 365 * r + doy >= 1460
    <3>1. (doe \div 1460) = 25 * c + q + 1
      BY <1>a, <2>1, QuotientIs, SMT
    <3> QED BY <2>1, <3>1, SMT
  <2>2. CASE 24 * c + q + 365 * r + doy < 1460
    <3>1. (doe \div 1460) = 25 * c + q
      BY <1>a, <2>2, QuotientIs, SMT
    <3> QED BY <2>2, <3>1, SMT
  <2> QED BY <2>1, <2>2, SMT
<1>4. doe <= 146096
  <2>1. CASE doy <= 364
    BY <1>a, <2>1, SMT
  <2>2. CASE doy = 365 /\ q <= 23
    BY <1>a, <2>2, SMT
  <2>3. CASE doy = 365 /\ q = 24
    BY <1>a, <2>3, SMT
  <2> QED BY <2>1, <2>2, <2>3, SMT
<1>5. (doe \div 36524) - (doe \div 146096) = c
  <2>1. CASE c = 3 /\ q = 24 /\ r = 3 /\ doy = 365
    <3>1. doe = 146096
      BY <1>a, <2>1, SMT
    <3> QED BY <2>1, <3>1, SMT
  <2>2. CASE ~ (c = 3 /\ q = 24 /\ r = 3 /\ doy = 365)
    <3>1. 36524 * c <= doe /\ doe <= 36524 * c + 36523
      <4>1. CASE doy <= 364
        BY <1>a, <4>1, SMT
      <4>2. CASE doy = 365
        <5>1. q <= 23
          BY <2>2, <4>2, SMT
        <5> QED BY <1>a, <4>2, <5>1, SMT
      <4> QED BY <4>1, <4>2, SMT
    <3>2. (doe \div 36524) = c
      BY <3>1, QuotientIs, SMT
    <3>3. doe < 146096
      BY <3>1, SMT
    <3>4. (doe \div 146096) = 0
      BY <1>2, <3>3, QuotientIs, SMT
    <3> QED BY <3>2, <3>4, SMT
  <2> QED BY <2>1, <2>2, SMT
<1>6. doy - k \in 0..364
  <2>1. doy = 0 => k = 0
    BY <1>3, SMT
  <2>2. doy = 365 => k = 1
    BY <1>3, SMT
  <2> QED BY <2>1, <2>2, SMT
<1>7. x = 365 * yoe + (doy - k)
  BY <1>a, <1>b, <1>c, <1>3, <1>5, SMT
<1>8. x >= 0 /\ (x \div 365) = yoe
  BY <1>1, <1>6, <1>7, QuotientIs, SMT
<1>9. YearOfEra(doe) = yoe
  BY <1>c, <1>2, <1>8, SMT DEF YearOfEra, Quotient
<1>10. YearStart(yoe) = doe - doy
  BY <1>a, <1>b, <1>1, SMT DEF YearStart, Quotient
<1>11. doe = DayOfPlace(c, q, r, doy) /\ yoe = YearOfPlace(c, q, r)
  BY <1>a, <1>b, SMT DEF DayOfPlace, YearOfPlace
<1>12. InEra(doe)
  BY <1>2, <1>4, SMT DEF InEra
<1> QED BY <1>9, <1>10, <1>11, <1>12, SMT

LEMMA PlaceInEra ==
    ASSUME NEW c, NEW q, NEW r, NEW doy, IsPlace(c, q, r, doy)
    PROVE  /\ InEra(DayOfPlace(c, q, r, doy))
           /\ YearOfEra(DayOfPlace(c, q, r, doy)) = YearOfPlace(c, q, r)
           /\ YearStart(YearOfPlace(c, q, r)) = DayOfPlace(c, q, r, doy) - doy
  BY PlaceArithmetic, SMT DEF IsPlace

\* Every year has a place in its era.
LEMMA PartsOfYear ==
    ASSUME NEW y \in Int
    PROVE  \E e \in Int, c \in 0..3, q \in 0..24, r \in 0..3 : y = 400 * e + YearOfPlace(c, q, r)
<1>1. PICK e \in Int, yoe \in 0..399 : y = 400 * e + yoe
  <2>1. (y \div 400) \in Int /\ y - 400 * (y \div 400) \in 0..399
    BY SMT
  <2>2. y = 400 * (y \div 400) + (y - 400 * (y \div 400))
    BY SMT
  <2> QED BY <2>1, <2>2, SMT
<1>2. PICK c \in 0..3, yoc \in 0..99 : yoe = 100 * c + yoc
  <2>1. (yoe \div 100) \in 0..3 /\ yoe - 100 * (yoe \div 100) \in 0..99
    BY SMT
  <2> QED BY <2>1, SMT
<1>3. PICK q \in 0..24, r \in 0..3 : yoc = 4 * q + r
  <2>1. (yoc \div 4) \in 0..24 /\ yoc - 4 * (yoc \div 4) \in 0..3
    BY SMT
  <2> QED BY <2>1, SMT
<1>4. y = 400 * e + YearOfPlace(c, q, r)
  BY <1>1, <1>2, <1>3, SMT DEF YearOfPlace
<1> QED BY <1>4

LEMMA LeapYearOfPlace ==
    ASSUME NEW e \in Int, NEW c \in Int, NEW q \in Int, NEW r \in Int,
           c \in 0..3, q \in 0..24, r \in 0..3
    PROVE  is_leap_year(400 * e + YearOfPlace(c, q, r) + 1) <=> r = 3 /\ (q = 24 => c = 3)
<1>1. PICK y \in Int : y = 400 * e + 100 * c + 4 * q + r
  BY SMT
<1>2. (y + 1) % 4 = 0 <=> r = 3
  BY <1>1, SMT
<1>3. ASSUME r = 3 PROVE (y + 1) % 100 = 0 <=> q = 24
  BY <1>1, <1>3, SMT
<1>4. (y + 1) % 400 = 0 <=> r = 3 /\ q = 24 /\ c = 3
  BY <1>1, SMT
<1>5. is_leap_year(y + 1) <=> r = 3 /\ (q = 24 => c = 3)
  BY <1>2, <1>3, <1>4, SMT DEF is_leap_year
<1> QED BY <1>1, <1>5, SMT DEF YearOfPlace

LEMMA MarchFirstOfPlace ==
    ASSUME NEW e \in Int, NEW c \in Int, NEW q \in Int, NEW r \in Int, NEW doy \in Int,
           c \in 0..3, q \in 0..24, r \in 0..3
    PROVE  MarchFirst(400 * e + YearOfPlace(c, q, r)) + doy + 719468
             = 146097 * e + DayOfPlace(c, q, r, doy)
<1>1. PICK y \in Int : y = 400 * e + 100 * c + 4 * q + r
  BY SMT
<1>2. (y \div 4) = 100 * e + 25 * c + q
  BY <1>1, SMT
<1>3. (y \div 100) = 4 * e + c
  BY <1>1, QuotientIs, SMT
<1>4. (y \div 400) = e
  BY <1>1, QuotientIs, SMT
<1>5. MarchFirst(y) + doy + 719468 = 146097 * e + 36524 * c + 1461 * q + 365 * r + doy
  BY <1>1, <1>2, <1>3, <1>4, SMT DEF MarchFirst
<1> QED BY <1>1, <1>5, SMT DEF YearOfPlace, DayOfPlace

\* The date of a day of an era.
LEMMA CivilInEra ==
    ASSUME NEW e \in Int, NEW doe \in Int, InEra(doe), NEW days \in Int,
           days + 719468 = 146097 * e + doe,
           YearOfEra(doe) \in Int
    PROVE  civil_from_days(days)
             = MonthAndDay(YearOfEra(doe) + e * 400, doe - YearStart(YearOfEra(doe)))
<1>1. Era(days + 719468, 146097) = e
  <2>1. PICK z \in Int : z = days + 719468
    BY SMT
  <2>2. (z \div 146097) = e
    BY <2>1, QuotientIs, SMT DEF InEra
  <2> QED BY <2>1, <2>2, EraOfDay, SMT
<1>2. days + 719468 - e * 146097 = doe
  BY SMT
<1> QED BY <1>1, <1>2, SMT DEF civil_from_days

LEMMA DayOfYearFound ==
    ASSUME NEW y \in Int, NEW doy \in 0..365, doy = 365 => is_leap_year(y + 1)
    PROVE  civil_from_days(MarchFirst(y) + doy) = MonthAndDay(y, doy)
<1>1. PICK e \in Int, c \in 0..3, q \in 0..24, r \in 0..3 : y = 400 * e + YearOfPlace(c, q, r)
  BY PartsOfYear
<1>2. doy = 365 => r = 3 /\ (q = 24 => c = 3)
  BY <1>1, LeapYearOfPlace, SMT
<1>3. IsPlace(c, q, r, doy)
  BY <1>2, Zenon DEF IsPlace
<1>4. PICK doe : doe = DayOfPlace(c, q, r, doy)
  OBVIOUS
<1>5. PICK yoe : yoe = YearOfPlace(c, q, r)
  OBVIOUS
<1>6. InEra(doe) /\ YearOfEra(doe) = yoe /\ YearStart(yoe) = doe - doy
  BY <1>3, <1>4, <1>5, PlaceInEra, Zenon
<1>7. doe \in Int /\ yoe \in Int
  BY <1>4, <1>5, SMT DEF DayOfPlace, YearOfPlace
<1>8. MarchFirst(y) \in Int
  BY SMT DEF MarchFirst
<1>9. MarchFirst(y) + doy + 719468 = 146097 * e + doe
  BY <1>1, <1>4, MarchFirstOfPlace, SMT
<1>10. civil_from_days(MarchFirst(y) + doy) = MonthAndDay(yoe + e * 400, doe - YearStart(yoe))
  BY <1>6, <1>7, <1>8, <1>9, CivilInEra, SMT
<1>11. yoe + e * 400 = y /\ doe - YearStart(yoe) = doy
  BY <1>1, <1>5, <1>6, <1>7, SMT
<1> QED BY <1>10, <1>11

-----------------------------------------------------------------------------
\* The months, counted from March, and the year of their January.
FromMarch(m) == m + (IF m > 2 THEN -3 ELSE 9)
MarchYear(y, m) == IF m <= 2 THEN y - 1 ELSE y
Before(mp) == (153 * mp + 2) \div 5

LEMMA MonthFound ==
    ASSUME NEW y \in Int, NEW mp \in 0..11, NEW doy \in Int,
           Before(mp) <= doy, doy < Before(mp + 1)
    PROVE  MonthAndDay(y, doy)
             = [year |-> IF mp < 10 THEN y ELSE y + 1, month |-> IF mp < 10 THEN mp + 3 ELSE mp - 9,
                day |-> doy - Before(mp) + 1]
<1>1. (5 * doy + 2) \div 153 = mp
  BY SMT DEF Before
<1>2. doy >= 0
  BY SMT DEF Before
<1>3. Quotient(5 * doy + 2, 153) = mp
  BY <1>1, <1>2, SMT DEF Quotient
<1>4. MonthOffset(mp) = Before(mp)
  BY MonthOffsetFact DEF Before
<1> QED BY <1>3, <1>4, SMT DEF MonthAndDay

\* The length of a month is what lies between its start and that of the next one,
\* but for February.
LEMMA MonthLength ==
    ASSUME NEW y \in Int, NEW m \in 1..12, NEW mp \in 0..11, mp = FromMarch(m)
    PROVE  days_in_month(y, m) = IF m = 2 THEN IF is_leap_year(y) THEN 29 ELSE 28
                                 ELSE ((153 * (mp + 1) + 2) \div 5) - ((153 * mp + 2) \div 5)
<1>1. m = 1 \/ m = 2 \/ m = 3 \/ m = 4 \/ m = 5 \/ m = 6 \/ m = 7 \/ m = 8 \/ m = 9 \/ m = 10
      \/ m = 11 \/ m = 12
  BY SMT
<1> QED BY <1>1, SMT DEF FromMarch, days_in_month

\* The dates of the calendar.
IsDate(y, m, d) == y \in Int /\ m \in 1..12 /\ d \in 1..days_in_month(y, m)

LEMMA DaysFromCivil ==
    ASSUME NEW y \in Int, NEW m \in 1..12, NEW d \in Int
    PROVE  /\ days_from_civil(y, m, d)
                = MarchFirst(MarchYear(y, m)) + (Before(FromMarch(m)) + d - 1)
           /\ days_from_civil(y, m, d) \in Int
<1>1. PICK yy \in Int : yy = MarchYear(y, m)
  BY SMT DEF MarchYear
<1>2. PICK mp \in 0..11 : mp = FromMarch(m)
  BY SMT DEF FromMarch
<1>3. days_from_civil(y, m, d) = DayNumber(yy, mp, d)
  BY <1>1, <1>2, SMT DEF days_from_civil, MarchYear, FromMarch
<1>4. DayNumber(yy, mp, d) = MarchFirst(yy) + MonthOffset(mp) + d - 1
  BY DayNumberFact
<1>5. MonthOffset(mp) \in Int /\ MonthOffset(mp) = Before(mp)
  BY MonthOffsetFact DEF Before
<1>6. MarchFirst(yy) \in Int
  BY SMT DEF MarchFirst
<1>7. days_from_civil(y, m, d) = MarchFirst(yy) + (Before(mp) + d - 1)
  BY <1>3, <1>4, <1>5, <1>6, SMT
<1>8. days_from_civil(y, m, d) \in Int
  BY <1>3, <1>4, <1>5, <1>6, SMT
<1> QED BY <1>1, <1>2, <1>7, <1>8

\* The number of a date is read back as that date, for every year before and after 1970.
THEOREM DatesReadBack ==
    ASSUME NEW y, NEW m, NEW d, IsDate(y, m, d)
    PROVE  civil_from_days(days_from_civil(y, m, d)) = [year |-> y, month |-> m, day |-> d]
<1>0. y \in Int /\ m \in 1..12 /\ d \in 1..days_in_month(y, m)
  BY DEF IsDate
<1>1. PICK yy \in Int : yy = MarchYear(y, m)
  BY <1>0, SMT DEF MarchYear
<1>2. PICK mp \in 0..11 : mp = FromMarch(m)
  BY <1>0, SMT DEF FromMarch
<1>3. days_in_month(y, m) = IF m = 2 THEN IF is_leap_year(y) THEN 29 ELSE 28
                            ELSE ((153 * (mp + 1) + 2) \div 5) - ((153 * mp + 2) \div 5)
  BY <1>0, <1>2, MonthLength
<1>4. d \in Int /\ d >= 1
  <2>1. days_in_month(y, m) \in Int
    BY <1>3, SMT
  <2> QED BY <1>0, <2>1, SMT
<1>a. Before(mp) \in Int /\ Before(mp) = (153 * mp + 2) \div 5
      /\ Before(mp + 1) = (153 * (mp + 1) + 2) \div 5
  BY SMT DEF Before
<1>5. PICK doy \in Int : doy = Before(mp) + d - 1
  BY <1>4, <1>a, SMT
<1>6. d = doy - Before(mp) + 1
  BY <1>4, <1>5, <1>a, SMT
<1>7. days_from_civil(y, m, d) = MarchFirst(yy) + doy
  BY <1>0, <1>1, <1>2, <1>4, <1>5, DaysFromCivil, Zenon
<1>8. (m = 2 <=> mp = 11) /\ (mp = 11 => yy + 1 = y)
  BY <1>0, <1>1, <1>2, SMT DEF FromMarch, MarchYear
<1>9. /\ Before(mp) <= doy /\ doy < Before(mp + 1)
      /\ doy \in 0..365
      /\ doy = 365 => mp = 11 /\ is_leap_year(y)
  <2>1. CASE mp = 11 /\ is_leap_year(y)
    <3>1. d <= 29
      BY <1>0, <1>3, <1>8, <2>1, SMT
    <3> QED BY <1>4, <1>5, <1>a, <2>1, <3>1, SMT
  <2>2. CASE mp = 11 /\ ~ is_leap_year(y)
    <3>1. d <= 28
      BY <1>0, <1>3, <1>8, <2>2, SMT
    <3> QED BY <1>4, <1>5, <1>a, <2>2, <3>1, SMT
  <2>3. CASE mp < 11
    <3>1. d <= ((153 * (mp + 1) + 2) \div 5) - ((153 * mp + 2) \div 5)
      BY <1>0, <1>3, <1>8, <2>3, SMT
    <3>2. doy < (153 * (mp + 1) + 2) \div 5
      BY <1>5, <1>a, <3>1, <1>4, SMT
    <3>3. doy >= (153 * mp + 2) \div 5
      BY <1>5, <1>a, <1>4, SMT
    <3>4. doy \in 0..364
      BY <2>3, <3>2, <3>3, SMT
    <3> QED BY <1>a, <2>3, <3>2, <3>3, <3>4, SMT
  <2> QED BY <2>1, <2>2, <2>3, SMT
<1>10. doy = 365 => is_leap_year(yy + 1)
  BY <1>8, <1>9, Zenon
<1>11. civil_from_days(MarchFirst(yy) + doy) = MonthAndDay(yy, doy)
  BY <1>9, <1>10, DayOfYearFound
<1>12. MonthAndDay(yy, doy)
         = [year |-> IF mp < 10 THEN yy ELSE yy + 1, month |-> IF mp < 10 THEN mp + 3 ELSE mp - 9,
            day |-> doy - Before(mp) + 1]
  BY <1>9, MonthFound, Zenon
<1>13. (IF mp < 10 THEN yy ELSE yy + 1) = y /\ (IF mp < 10 THEN mp + 3 ELSE mp - 9) = m
  BY <1>0, <1>1, <1>2, SMT DEF FromMarch, MarchYear
<1> QED BY <1>6, <1>7, <1>11, <1>12, <1>13, Zenon

LEMMA PartsOfDay ==
    ASSUME NEW doe \in Int, InEra(doe)
    PROVE  \E c, q, r, doy \in Int : IsPlace(c, q, r, doy) /\ doe = DayOfPlace(c, q, r, doy)
<1>0. doe >= 0 /\ doe <= 146096
  BY DEF InEra
<1>1. PICK c \in 0..3, doc \in Int :
          /\ doe = 36524 * c + doc /\ doc >= 0
          /\ doc <= 36523 \/ (c = 3 /\ doc = 36524)
  <2>1. CASE doe = 146096
    <3>1. doe = 36524 * 3 + 36524
      BY <2>1, SMT
    <3> QED BY <3>1, SMT
  <2>2. CASE doe < 146096
    <3>1. PICK b \in Int : b = 36524
      BY SMT
    <3>b. b > 0
      BY <3>1, SMT
    <3>2. PICK c, doc \in Int : doe = b * c + doc /\ 0 <= doc /\ doc < b
      BY <3>b, WithRemainder, Zenon
    <3>3. doe = 36524 * c + doc /\ 0 <= doc /\ doc <= 36523
      BY <3>1, <3>2, SMT
    <3>4. c \in 0..3
      BY <1>0, <2>2, <3>3, SMT
    <3> QED BY <3>3, <3>4, SMT
  <2> QED BY <1>0, <2>1, <2>2, SMT
<1>2. PICK q \in 0..24, doq \in Int : doc = 1461 * q + doq /\ doq >= 0 /\ doq <= 1460
  <2>1. PICK b \in Int : b = 1461
    BY SMT
  <2>b. b > 0
    BY <2>1, SMT
  <2>2. PICK q, doq \in Int : doc = b * q + doq /\ 0 <= doq /\ doq < b
    BY <2>b, WithRemainder, Zenon
  <2>3. doc = 1461 * q + doq /\ doq >= 0 /\ doq <= 1460
    BY <2>1, <2>2, SMT
  <2>4. q \in 0..24
    BY <1>1, <2>3, SMT
  <2> QED BY <2>3, <2>4, SMT
<1>3. PICK r \in 0..3, doy \in 0..365 : doq = 365 * r + doy /\ (doy = 365 => r = 3)
  <2>1. CASE doq = 1460
    <3>1. doq = 365 * 3 + 365
      BY <2>1, SMT
    <3> QED BY <3>1, SMT
  <2>2. CASE doq < 1460
    <3>1. (doq \div 365) \in 0..3 /\ doq - 365 * (doq \div 365) \in 0..364
      BY <1>2, <2>2, SMT
    <3> QED BY <3>1, SMT
  <2>3. doq = 1460 \/ doq < 1460
    BY <1>2, SMT
  <2> QED BY <2>1, <2>2, <2>3, SMT
<1>4. doy = 365 /\ q = 24 => c = 3
  BY <1>1, <1>2, <1>3, SMT
<1>5. doe = 36524 * c + 1461 * q + 365 * r + doy
  BY <1>1, <1>2, <1>3, SMT
<1>6. c \in Int /\ q \in Int /\ r \in Int /\ doy \in Int
  BY SMT
<1>7. IsPlace(c, q, r, doy)
  BY <1>3, <1>4, SMT DEF IsPlace
<1>8. doe = DayOfPlace(c, q, r, doy)
  BY <1>5, SMT DEF DayOfPlace
<1> QED BY <1>6, <1>7, <1>8, SMT

\* A day by the year it is in from the first of March on, and its place there.
IsPlaceOfDay(z, y, doy) ==
    doy \in 0..365 /\ z = MarchFirst(y) + doy /\ (doy = 365 => is_leap_year(y + 1))

\* Every day has such a place.
LEMMA PartsOfDayNumber ==
    ASSUME NEW z \in Int
    PROVE  \E y, doy \in Int : IsPlaceOfDay(z, y, doy)
<1>1. PICK e \in Int, doe \in Int : z + 719468 = 146097 * e + doe /\ doe >= 0 /\ doe < 146097
  <2>1. PICK w \in Int, b \in Int : w = z + 719468 /\ b = 146097
    BY SMT
  <2>b. b > 0
    BY <2>1, SMT
  <2>2. PICK e, doe \in Int : w = b * e + doe /\ 0 <= doe /\ doe < b
    BY <2>b, WithRemainder, Zenon
  <2> QED BY <2>1, <2>2, SMT
<1>a. InEra(doe)
  BY <1>1, SMT DEF InEra
<1>2. PICK c, q, r, doy \in Int : IsPlace(c, q, r, doy) /\ doe = DayOfPlace(c, q, r, doy)
  BY <1>a, PartsOfDay, Zenon
<1>3. /\ c \in 0..3 /\ q \in 0..24 /\ r \in 0..3 /\ doy \in 0..365
      /\ doy = 365 => r = 3 /\ (q = 24 => c = 3)
  BY <1>2, Zenon DEF IsPlace
<1>4. PICK y \in Int : y = 400 * e + YearOfPlace(c, q, r)
  BY SMT DEF YearOfPlace
<1>5. doy = 365 => is_leap_year(y + 1)
  BY <1>3, <1>4, LeapYearOfPlace, SMT
<1>6. MarchFirst(y) + doy + 719468 = 146097 * e + doe
  BY <1>2, <1>3, <1>4, MarchFirstOfPlace, SMT
<1>7. MarchFirst(y) \in Int
  BY SMT DEF MarchFirst
<1>8. z = MarchFirst(y) + doy
  BY <1>1, <1>6, <1>7, SMT
<1>9. IsPlaceOfDay(z, y, doy)
  BY <1>3, <1>5, <1>8, Zenon DEF IsPlaceOfDay
<1> QED BY <1>9, Zenon

\* Every day has a date.
LEMMA EveryDayHasADate ==
    ASSUME NEW z \in Int
    PROVE  \E y, m, d \in Int : IsDate(y, m, d) /\ z = days_from_civil(y, m, d)
<1>0. PICK yy, doy \in Int : IsPlaceOfDay(z, yy, doy)
  BY PartsOfDayNumber, Zenon
<1>1. doy \in 0..365 /\ z = MarchFirst(yy) + doy /\ (doy = 365 => is_leap_year(yy + 1))
  BY <1>0, Zenon DEF IsPlaceOfDay
<1>2. PICK mp \in 0..11 : Before(mp) <= doy /\ doy < Before(mp + 1)
  <2>1. (5 * doy + 2) \div 153 \in 0..11
    BY <1>1, SMT
  <2>2. PICK mp \in 0..11 : mp = (5 * doy + 2) \div 153
    BY <2>1
  <2>3. (153 * mp + 2) \div 5 <= doy /\ doy < (153 * (mp + 1) + 2) \div 5
    BY <1>1, <2>2, SMT
  <2> QED BY <2>3, SMT DEF Before
<1>3. PICK m \in 1..12 : m = IF mp < 10 THEN mp + 3 ELSE mp - 9
  BY SMT
<1>4. PICK y \in Int : y = IF mp < 10 THEN yy ELSE yy + 1
  BY SMT
<1>5. mp = FromMarch(m) /\ yy = MarchYear(y, m) /\ (m = 2 <=> mp = 11) /\ (m = 2 => y = yy + 1)
  BY <1>3, <1>4, SMT DEF FromMarch, MarchYear
<1>6. /\ Before(mp) \in Int /\ Before(mp + 1) \in Int /\ Before(mp) = (153 * mp + 2) \div 5
      /\ Before(mp + 1) = (153 * (mp + 1) + 2) \div 5
      /\ mp = 11 => Before(mp) = 337
  BY SMT DEF Before
<1>7. PICK d \in Int : d = doy - Before(mp) + 1
  BY <1>6, SMT
<1>8. days_in_month(y, m) = IF m = 2 THEN IF is_leap_year(y) THEN 29 ELSE 28
                            ELSE Before(mp + 1) - Before(mp)
  BY <1>5, <1>6, MonthLength, SMT
<1>9. d \in 1..days_in_month(y, m)
  <2>1. d >= 1
    BY <1>2, <1>6, <1>7, SMT
  <2>2. CASE m # 2
    <3>1. d <= Before(mp + 1) - Before(mp)
      BY <1>2, <1>6, <1>7, SMT
    <3> QED BY <1>6, <1>8, <2>1, <2>2, <3>1, SMT
  <2>3. CASE m = 2 /\ is_leap_year(y)
    <3>1. d <= 29
      BY <1>1, <1>5, <1>6, <1>7, <2>3, SMT
    <3>2. days_in_month(y, m) = 29
      BY <1>8, <2>3
    <3> QED BY <2>1, <3>1, <3>2, SMT
  <2>4. CASE m = 2 /\ ~ is_leap_year(y)
    <3>1. doy # 365
      BY <1>1, <1>5, <2>4
    <3>2. d <= 28
      BY <1>1, <1>5, <1>6, <1>7, <2>4, <3>1, SMT
    <3>3. days_in_month(y, m) = 28
      BY <1>8, <2>4
    <3> QED BY <2>1, <3>2, <3>3, SMT
  <2> QED BY <2>2, <2>3, <2>4
<1>10. days_from_civil(y, m, d) = MarchFirst(yy) + (Before(mp) + d - 1)
  BY <1>5, DaysFromCivil, Zenon
<1>11. Before(mp) + d - 1 = doy
  BY <1>6, <1>7, SMT
<1>12. z = days_from_civil(y, m, d)
  BY <1>1, <1>10, <1>11
<1>13. IsDate(y, m, d) /\ m \in Int
  BY <1>9 DEF IsDate
<1> QED BY <1>12, <1>13

\* Every day is the number of its date, and its date is one of the calendar.
THEOREM DaysReadBack ==
    ASSUME NEW z \in Int
    PROVE  /\ civil_from_days(z) \in [year : Int, month : Int, day : Int]
           /\ IsDate(civil_from_days(z).year, civil_from_days(z).month, civil_from_days(z).day)
           /\ days_from_civil(civil_from_days(z).year, civil_from_days(z).month,
                              civil_from_days(z).day) = z
<1>1. PICK y, m, d \in Int : IsDate(y, m, d) /\ z = days_from_civil(y, m, d)
  BY EveryDayHasADate
<1>2. civil_from_days(z) = [year |-> y, month |-> m, day |-> d]
  BY <1>1, DatesReadBack, Zenon
<1> QED BY <1>1, <1>2

-----------------------------------------------------------------------------
\* The instants, in 64 bits and beyond.
Instants == [day : Int, second : 0..SecondsPerDay - 1, nano : 0..NanosPerSecond - 1]

LEMMA BeforeMidnight == (0 - 1) % 86400 = 86399
<1>1. PICK x \in Int, b \in Int, k \in Int, r \in Int : x = -1 /\ b = 86400 /\ k = -1 /\ r = 86399
  BY SMT
<1>2. b > 0 /\ x = b * k + r /\ 0 <= r /\ r < b
  BY <1>1, SMT
<1>3. x % b = r
  BY <1>2, RemainderIs, Zenon
<1>4. x = 0 - 1
  BY <1>1, SMT
<1> QED BY <1>1, <1>3, <1>4, SMT

\* What to_rfc3339() takes back after rounding to zero is what rounding took.
LEMMA FlooredIsExact ==
    ASSUME NEW day \in Int, NEW second \in Int, NEW nano \in Int,
           0 <= second, second <= 86399, 0 <= nano, nano <= 999999999
    PROVE  FlooredDays(FlooredSeconds([day |-> day, second |-> second, nano |-> nano]))
             = [day |-> day, second |-> second, fraction |-> nano]
<1> DEFINE t == [day |-> day, second |-> second, nano |-> nano]
           u == [day |-> day, second |-> second, fraction |-> nano]
<1>1. FlooredSeconds(t) = u
  <2>1. CASE day < 0 /\ nano > 0 /\ second = 86399
    <3>a. (second + 1) % 86400 = 0
      BY <2>1, SMT
    <3>b. (0 - 1) % 86400 = 86399
      BY BeforeMidnight
    <3>1. (second + 1) % 86400 = 0 /\ (0 - 1) % 86400 = 86399
      BY <3>a, <3>b
    <3>2. WholeSeconds(t) = [day |-> day + 1, second |-> 0, fraction |-> nano - 1000000000]
      BY <2>1, <3>1, SMT DEF WholeSeconds, SecondsPerDay, NanosPerSecond
    <3> QED BY <2>1, <3>1, <3>2, SMT DEF FlooredSeconds, SecondsPerDay, NanosPerSecond
  <2>2. CASE day < 0 /\ nano > 0 /\ second # 86399
    <3>1. (second + 1) % 86400 = second + 1 /\ ((second + 1) - 1) % 86400 = second
      BY <2>2, SMT
    <3>2. WholeSeconds(t) = [day |-> day, second |-> second + 1, fraction |-> nano - 1000000000]
      BY <2>2, <3>1, SMT DEF WholeSeconds, SecondsPerDay, NanosPerSecond
    <3> QED BY <2>2, <3>1, <3>2, SMT DEF FlooredSeconds, SecondsPerDay, NanosPerSecond
  <2>3. CASE ~ (day < 0 /\ nano > 0)
    <3>1. WholeSeconds(t) = u
      BY <2>3, SMT DEF WholeSeconds
    <3> QED BY <2>3, <3>1, SMT DEF FlooredSeconds
  <2> QED BY <2>1, <2>2, <2>3, SMT
<1>2. FlooredDays(u) = u
  <2>1. CASE day < 0 /\ second > 0
    <3>1. WholeDays(u) = [day |-> day + 1, second |-> second - 86400, fraction |-> nano]
      BY <2>1, SMT DEF WholeDays, SecondsPerDay
    <3> QED BY <2>1, <3>1, SMT DEF FlooredDays, SecondsPerDay
  <2>2. CASE ~ (day < 0 /\ second > 0)
    <3>1. WholeDays(u) = u
      BY <2>2, SMT DEF WholeDays
    <3> QED BY <2>2, <3>1, SMT DEF FlooredDays
  <2> QED BY <2>1, <2>2, SMT
<1> QED BY <1>1, <1>2, SMT

LEMMA Sixtieths ==
    ASSUME NEW x \in Int
    PROVE  \E k, r \in Int : x = 60 * k + r /\ 0 <= r /\ r < 60
<1>1. PICK b \in Int : b = 60
  BY SMT
<1>2. b > 0
  BY <1>1, SMT
<1>3. PICK k, r \in Int : x = b * k + r /\ 0 <= r /\ r < b
  BY <1>2, WithRemainder, Zenon
<1> QED BY <1>1, <1>3, SMT

\* The time of day, taken apart and put together.
LEMMA TimeOfDayReadsBack ==
    ASSUME NEW s \in Int, 0 <= s, s < SecondsPerDay
    PROVE  /\ s \div 3600 <= 23 /\ (s % 3600) \div 60 <= 59 /\ s % 60 <= 60
           /\ (s \div 3600) * 3600 + ((s % 3600) \div 60) * 60 + (s % 60) = s
<1>1. PICK n, r \in Int : s = 60 * n + r /\ 0 <= r /\ r < 60
  BY Sixtieths, Zenon
<1>2. PICK h, m \in Int : n = 60 * h + m /\ 0 <= m /\ m < 60
  BY Sixtieths, Zenon
<1>a. PICK w \in Int : w = 60 * m + r
  BY SMT
<1>3. s = 3600 * h + w /\ 0 <= w /\ w < 3600
  BY <1>1, <1>2, <1>a, SMT
<1>4. s \div 3600 = h /\ s % 3600 = w
  BY <1>3, RemainderIs, SMT
<1>5. w \div 60 = m
  BY <1>1, <1>a, RemainderIs, SMT
<1>6. s % 60 = r
  BY <1>1, RemainderIs, SMT
<1>7. h <= 23 /\ m <= 59
  BY <1>2, <1>3, SMT DEF SecondsPerDay
<1> QED BY <1>1, <1>3, <1>4, <1>5, <1>6, <1>7, <1>a, SMT

-----------------------------------------------------------------------------
\* The digit at a place of a fraction, and what the digits up to a place say.
Padded(digits, i) == IF i \in DOMAIN digits THEN digits[i] ELSE 0

LEMMA FractionIs ==
    ASSUME NEW digits, NEW value \in [0..9 -> Int], value[0] = 0,
           \A n \in 1..9 : value[n] = value[n - 1] * 10 + Padded(digits, n)
    PROVE  Fraction(digits) = value[9]
<1> DEFINE Is(f) == f = [n \in 0..9 |-> IF n = 0 THEN 0
                                        ELSE f[n - 1] * 10
                                             + (IF n \in DOMAIN digits THEN digits[n] ELSE 0)]
           run == CHOOSE f : Is(f)
           S == {n \in 0..9 : run[n] = value[n]}
<1>1. Is(value)
  <2>1. value = [n \in 0..9 |-> value[n]]
    OBVIOUS
  <2>2. ASSUME NEW n \in 0..9
        PROVE  value[n] = IF n = 0 THEN 0
                          ELSE value[n - 1] * 10 + (IF n \in DOMAIN digits THEN digits[n] ELSE 0)
    <3>1. CASE n = 0
      BY <3>1
    <3>2. CASE n # 0
      <4>1. n \in 1..9
        BY <3>2
      <4> QED BY <3>2, <4>1, Zenon DEF Padded
    <3> QED BY <3>1, <3>2
  <2> QED BY <2>1, <2>2, Zenon
<1>2. Is(run)
  BY <1>1, Zenon
<1>3. Fraction(digits) = run[9]
  BY Zenon DEF Fraction
<1> HIDE DEF run
<1>4. 0 \in S
  BY <1>2
<1>5. \A n \in 0..9 : n \in S /\ n < 9 => n + 1 \in S
  <2> TAKE n \in 0..9
  <2> HAVE n \in S /\ n < 9
  <2>1. n + 1 \in 1..9 /\ n + 1 \in 0..9 /\ (n + 1) - 1 = n /\ n + 1 # 0
    OBVIOUS
  <2>2. run[n + 1] = run[n] * 10 + Padded(digits, n + 1)
    <3>1. run[n + 1] = run[(n + 1) - 1] * 10
                       + (IF n + 1 \in DOMAIN digits THEN digits[n + 1] ELSE 0)
      BY <1>2, <2>1
    <3> QED BY <2>1, <3>1, Zenon DEF Padded
  <2>3. value[n + 1] = value[n] * 10 + Padded(digits, n + 1)
    BY <2>1
  <2>4. run[n] = value[n]
    OBVIOUS
  <2> QED BY <2>1, <2>2, <2>3, <2>4, Zenon
<1> HIDE DEF S
<1>6. 0..9 \subseteq S
  BY <1>4, <1>5, InductionUpTo, 9 \in Nat
<1>7. 9 \in S
  BY <1>6
<1> QED BY <1>3, <1>7 DEF S

\* Zeros that are cut off are read as zeros.
LEMMA TrimmedIsPadded ==
    ASSUME NEW digits \in [1..9 -> Int], NEW i \in 1..9
    PROVE  Padded(Trimmed(digits), i) = digits[i]
<1> DEFINE P(n) == (\A j \in n + 1..9 : digits[j] = 0) /\ (n = 0 \/ digits[n] # 0)
<1>1. \E n \in 0..9 : P(n)
  <2> DEFINE T == {n \in 0..9 : \A j \in n + 1..9 : digits[j] = 0}
  <2>1. T \in SUBSET Nat /\ 9 \in T
    OBVIOUS
  <2>2. PICK n \in T : \A m \in T : n <= m
    <3> HIDE DEF T
    <3> QED BY <2>1, LeastNat
  <2>3. n \in 0..9 /\ \A j \in n + 1..9 : digits[j] = 0
    OBVIOUS
  <2>4. n = 0 \/ digits[n] # 0
    <3> SUFFICES ASSUME n # 0, digits[n] = 0 PROVE FALSE
      OBVIOUS
    <3>1. n - 1 \in 0..9 /\ ~ (n <= n - 1)
      BY <2>3
    <3>2. \A j \in (n - 1) + 1..9 : digits[j] = 0
      BY <2>3
    <3> QED BY <2>2, <3>1, <3>2
  <2> QED BY <2>3, <2>4
<1>2. PICK n \in 0..9 : P(n) /\ Trimmed(digits) = SubSeq(digits, 1, n)
  <2> DEFINE c == CHOOSE n \in 0..9 : P(n)
  <2>1. c \in 0..9 /\ P(c)
    BY <1>1, Zenon
  <2>2. Trimmed(digits) = SubSeq(digits, 1, c)
    BY Zenon DEF Trimmed
  <2> QED BY <2>1, <2>2, Zenon
<1>3. digits \in Seq(Int) /\ Len(digits) = 9
  <2>1. digits \in Seq(Int)
    BY SeqDef, 9 \in Nat
  <2>2. Len(digits) \in Nat /\ DOMAIN digits = 1..Len(digits) /\ DOMAIN digits = 1..9
    BY <2>1, LenProperties
  <2> QED BY <2>1, <2>2, SMT
<1>4. DOMAIN SubSeq(digits, 1, n) = 1..n /\ \A j \in 1..n : SubSeq(digits, 1, n)[j] = digits[j]
  BY <1>3
<1>5. CASE i <= n
  <2>1. i \in 1..n
    BY <1>5, SMT
  <2> QED BY <1>2, <1>4, <2>1, Zenon DEF Padded
<1>6. CASE i > n
  <2>1. i \in n + 1..9 /\ i \notin 1..n
    BY <1>6, SMT
  <2>2. digits[i] = 0
    BY <1>2, <2>1, Zenon
  <2>3. i \notin DOMAIN Trimmed(digits)
    BY <1>2, <1>4, <2>1, Zenon
  <2> QED BY <2>2, <2>3, Zenon DEF Padded
<1> QED BY <1>5, <1>6

LEMMA OneMoreDigit ==
    ASSUME NEW x \in Nat
    PROVE  /\ \A n \in 1..9 : x \div 10 ^ (9 - n) = (x \div 10 ^ (9 - (n - 1))) * 10
                                                   + ((x \div 10 ^ (9 - n)) % 10)
           /\ x \div 10 ^ (9 - 9) = x
           /\ \A n \in 0..9 : x \div 10 ^ (9 - n) \in Int
           /\ \A n \in 1..9 : (x \div 10 ^ (9 - n)) % 10 \in Int
<1>1. ASSUME NEW n \in 1..9
      PROVE  x \div 10 ^ (9 - n) = (x \div 10 ^ (9 - (n - 1))) * 10
                                   + ((x \div 10 ^ (9 - n)) % 10)
  <2>1. CASE n = 1
    BY <2>1, SMT
  <2>2. CASE n = 2
    BY <2>2, SMT
  <2>3. CASE n = 3
    BY <2>3, SMT
  <2>4. CASE n = 4
    BY <2>4, SMT
  <2>5. CASE n = 5
    BY <2>5, SMT
  <2>6. CASE n = 6
    BY <2>6, SMT
  <2>7. CASE n = 7
    BY <2>7, SMT
  <2>8. CASE n = 8
    BY <2>8, SMT
  <2>9. CASE n = 9
    BY <2>9, SMT
  <2> QED BY <2>1, <2>2, <2>3, <2>4, <2>5, <2>6, <2>7, <2>8, <2>9, SMT
<1>2. x \div 10 ^ (9 - 9) = x
  BY SMT
<1>3. ASSUME NEW n \in 0..9
      PROVE  x \div 10 ^ (9 - n) \in Int
  <2>1. CASE n = 0
    BY <2>1, SMT
  <2>2. CASE n = 1
    BY <2>2, SMT
  <2>3. CASE n = 2
    BY <2>3, SMT
  <2>4. CASE n = 3
    BY <2>4, SMT
  <2>5. CASE n = 4
    BY <2>5, SMT
  <2>6. CASE n = 5
    BY <2>6, SMT
  <2>7. CASE n = 6
    BY <2>7, SMT
  <2>8. CASE n = 7
    BY <2>8, SMT
  <2>9. CASE n = 8
    BY <2>9, SMT
  <2>10. CASE n = 9
    BY <2>10, SMT
  <2> QED BY <2>1, <2>2, <2>3, <2>4, <2>5, <2>6, <2>7, <2>8, <2>9, <2>10, SMT
<1>4. ASSUME NEW n \in 1..9
      PROVE  (x \div 10 ^ (9 - n)) % 10 \in Int
  <2>1. n \in 0..9
    OBVIOUS
  <2>2. PICK q \in Int : x \div 10 ^ (9 - n) = q
    BY <1>3, <2>1, Zenon
  <2>3. q % 10 \in Int
    BY SMT
  <2> QED BY <2>2, <2>3, Zenon
<1> QED BY <1>1, <1>2, <1>3, <1>4, Zenon

LEMMA LessThanASecond ==
    ASSUME NEW x \in Nat, x < NanosPerSecond
    PROVE  x \div 10 ^ (9 - 0) = 0
BY SMT DEF NanosPerSecond

\* The digits of a number of nanoseconds, cut and padded, are that number.
LEMMA FractionReadsBack ==
    ASSUME NEW nano \in Nat, nano < NanosPerSecond
    PROVE  Fraction(Trimmed(Digits(nano))) = nano
<1> DEFINE value == [n \in 0..9 |-> nano \div 10 ^ (9 - n)]
<1>1. value \in [0..9 -> Int] /\ value[0] = 0 /\ value[9] = nano
  <2>1. \A n \in 0..9 : nano \div 10 ^ (9 - n) \in Int
    BY OneMoreDigit
  <2>2. nano \div 10 ^ (9 - 9) = nano /\ nano \div 10 ^ (9 - 0) = 0
    BY OneMoreDigit, LessThanASecond
  <2>3. 0 \in 0..9 /\ 9 \in 0..9
    OBVIOUS
  <2> QED BY <2>1, <2>2, <2>3, Zenon
<1>2. Digits(nano) \in [1..9 -> Int]
  BY OneMoreDigit, Zenon DEF Digits
<1>3. \A n \in 1..9 : value[n] = value[n - 1] * 10 + Padded(Trimmed(Digits(nano)), n)
  <2> TAKE n \in 1..9
  <2>1. n \in 0..9 /\ n - 1 \in 0..9
    OBVIOUS
  <2>2. Padded(Trimmed(Digits(nano)), n) = (nano \div 10 ^ (9 - n)) % 10
    BY <1>2, TrimmedIsPadded, Zenon DEF Digits
  <2>3. value[n] = nano \div 10 ^ (9 - n) /\ value[n - 1] = nano \div 10 ^ (9 - (n - 1))
    BY <2>1, Zenon
  <2>4. nano \div 10 ^ (9 - n) = (nano \div 10 ^ (9 - (n - 1))) * 10
                                 + ((nano \div 10 ^ (9 - n)) % 10)
    BY OneMoreDigit
  <2> HIDE DEF value
  <2> QED BY <2>2, <2>3, <2>4, Zenon
<1> QED
  <2> HIDE DEF value
  <2> QED BY <1>1, <1>3, FractionIs, Zenon

-----------------------------------------------------------------------------
\* The start of its second is an instant that 64 bits hold, unless it is the
\* second that the least instant is in.
LEMMA StartsHeld ==
    ASSUME NEW day \in Int, NEW second \in Int, NEW nano \in Int, nano >= 0,
           AtOrBefore(Earliest, [day |-> day, second |-> second, nano |-> nano])
    PROVE  AtOrBefore(Earliest, StartOfSecond([day |-> day, second |-> second, nano |-> nano]))
             <=> ~ InFirstSecond([day |-> day, second |-> second, nano |-> nano])
<1>1. CASE InFirstSecond([day |-> day, second |-> second, nano |-> nano])
  BY <1>1, SMT DEF AtOrBefore, Earliest, StartOfSecond, InFirstSecond
<1>2. CASE ~ InFirstSecond([day |-> day, second |-> second, nano |-> nano])
  BY <1>2, SMT DEF AtOrBefore, Earliest, StartOfSecond, InFirstSecond
<1> QED BY <1>1, <1>2, Zenon

LEMMA BelowBound ==
    ASSUME NEW n \in Int, NEW x \in 0..n - 1
    PROVE  x \in Int /\ x \in Nat /\ 0 <= x /\ x >= 0 /\ x < n
BY SMT

LEMMA InstantParts ==
    ASSUME NEW t \in Instants
    PROVE  /\ t = [day |-> t.day, second |-> t.second, nano |-> t.nano]
           /\ t.day \in Int /\ t.second \in Int /\ t.nano \in Int
           /\ t.nano \in Nat /\ t.nano >= 0 /\ t.nano < NanosPerSecond
           /\ 0 <= t.second /\ t.second < SecondsPerDay
<1>1. /\ t = [day |-> t.day, second |-> t.second, nano |-> t.nano]
      /\ t.day \in Int /\ t.second \in 0..SecondsPerDay - 1 /\ t.nano \in 0..NanosPerSecond - 1
  BY SMT DEF Instants
<1>a. SecondsPerDay \in Int /\ NanosPerSecond \in Int
  BY SMT DEF SecondsPerDay, NanosPerSecond
<1>2. t.second \in Int /\ 0 <= t.second /\ t.second < SecondsPerDay
  BY <1>1, <1>a, BelowBound, Zenon
<1>3. t.nano \in Int /\ t.nano \in Nat /\ t.nano >= 0 /\ t.nano < NanosPerSecond
  BY <1>1, <1>a, BelowBound, Zenon
<1> QED BY <1>1, <1>2, <1>3, Zenon

LEMMA FlooredInstant ==
    ASSUME NEW t \in Instants
    PROVE  FlooredDays(FlooredSeconds(t)) = [day |-> t.day, second |-> t.second, fraction |-> t.nano]
<1>1. PICK day \in Int, second \in Int, nano \in Int :
        day = t.day /\ second = t.second /\ nano = t.nano
  BY InstantParts, Zenon
<1>2. 0 <= second /\ second <= 86399 /\ 0 <= nano /\ nano <= 999999999
  BY <1>1, InstantParts, SMT DEF NanosPerSecond, SecondsPerDay
<1>3. FlooredDays(FlooredSeconds([day |-> day, second |-> second, nano |-> nano]))
        = [day |-> day, second |-> second, fraction |-> nano]
  BY <1>2, FlooredIsExact, SMT
<1> QED BY <1>1, <1>3, InstantParts, Zenon

LEMMA WithinADay ==
    ASSUME NEW s \in Int, 0 <= s, s < SecondsPerDay
    PROVE  s \div SecondsPerDay = 0 /\ s % SecondsPerDay = s
BY SMT DEF SecondsPerDay

-----------------------------------------------------------------------------
\* The text of every instant that 64 bits hold is read back as that instant, to
\* the last nanosecond and on either side of 1970, except in the part of a second
\* that the least instant is in, where the multiplication overflows before the
\* fraction is added (to_rfc3339(), parse_rfc3339()).
THEOREM EveryInstantReadsBack ==
    ASSUME NEW t \in Instants, Held(t)
    PROVE  ReadsBack(t)
<1> DEFINE w == FlooredDays(FlooredSeconds(t))
           date == civil_from_days(t.day)
           text == to_rfc3339(t)
           seconds == SecondOfDay(text)
<1>1. w = [day |-> t.day, second |-> t.second, fraction |-> t.nano]
  BY FlooredInstant, Zenon
<1>2. w.day = t.day /\ w.second = t.second /\ w.fraction = t.nano
  BY <1>1, SMT
<1>3. text = [year |-> date.year, month |-> date.month, day |-> date.day,
              hour |-> t.second \div 3600, minute |-> (t.second % 3600) \div 60,
              second |-> t.second % 60, fraction |-> Trimmed(Digits(t.nano))]
  BY <1>2, SMTT(30) DEF to_rfc3339
<1>4. /\ text.hour = t.second \div 3600 /\ text.minute = (t.second % 3600) \div 60
      /\ text.second = t.second % 60
  <2> HIDE DEF text, date
  <2> QED BY <1>3, SMT
<1>5. /\ text.year = date.year /\ text.month = date.month /\ text.day = date.day
      /\ text.fraction = Trimmed(Digits(t.nano))
  <2> HIDE DEF text, date
  <2> QED BY <1>3, SMT
<1> HIDE DEF text, date, w
<1>6. /\ t.second \div 3600 <= 23 /\ (t.second % 3600) \div 60 <= 59 /\ t.second % 60 <= 60
      /\ (t.second \div 3600) * 3600 + ((t.second % 3600) \div 60) * 60 + (t.second % 60) = t.second
  <2>1. PICK s \in Int : s = t.second /\ 0 <= s /\ s < SecondsPerDay
    BY InstantParts, Zenon
  <2>2. /\ s \div 3600 <= 23 /\ (s % 3600) \div 60 <= 59 /\ s % 60 <= 60
        /\ (s \div 3600) * 3600 + ((s % 3600) \div 60) * 60 + (s % 60) = s
    BY <2>1, TimeOfDayReadsBack, SMT
  <2> QED BY <2>1, <2>2, SMT
<1>7. seconds = t.second
  BY <1>4, <1>6, SMT DEF SecondOfDay
<1>8. text.hour <= 23 /\ text.minute <= 59 /\ text.second <= 60
  BY <1>4, <1>6, SMT
<1> HIDE DEF seconds
<1>9. IsDate(text.year, text.month, text.day) /\ days_from_civil(text.year, text.month, text.day) = t.day
  <2>1. t.day \in Int
    BY InstantParts, Zenon
  <2> QED BY <2>1, <1>5, DaysReadBack, Zenon DEF date
<1>10. InRange(text)
  BY <1>8, <1>9, Zenon DEF InRange, IsDate
<1>11. Fraction(text.fraction) = t.nano
  BY <1>5, InstantParts, FractionReadsBack, Zenon
<1>12. seconds \div SecondsPerDay = 0 /\ seconds % SecondsPerDay = t.second
  BY <1>7, InstantParts, WithinADay, Zenon
<1>13. t.day + 0 = t.day
  BY InstantParts, SMT
<1>14. t = [day |-> days_from_civil(text.year, text.month, text.day) + seconds \div SecondsPerDay,
            second |-> seconds % SecondsPerDay, nano |-> Fraction(text.fraction)]
  BY <1>9, <1>11, <1>12, <1>13, InstantParts, Zenon
<1>15. parse_rfc3339(text) = IF AtOrBefore(Earliest, StartOfSecond(t)) /\ AtOrBefore(t, Latest)
                             THEN t ELSE Undefined
  BY <1>10, <1>14, Zenon DEF parse_rfc3339, seconds
<1>16. AtOrBefore(Earliest, StartOfSecond(t)) <=> ~ InFirstSecond(t)
  <2>1. PICK day \in Int, second \in Int, nano \in Int :
          t = [day |-> day, second |-> second, nano |-> nano] /\ nano >= 0
    BY InstantParts, Zenon
  <2>2. AtOrBefore(Earliest, [day |-> day, second |-> second, nano |-> nano])
    BY <2>1, Zenon DEF Held
  <2> QED BY <2>1, <2>2, StartsHeld, Zenon
<1> QED BY <1>15, <1>16, Zenon DEF ReadsBack, Held, text

-----------------------------------------------------------------------------
\* The first day of a month, and of a year, by the code's arithmetic.
FirstOf(y, m) == days_from_civil(y, m, 1)

LEMMA FirstOfMonth ==
    ASSUME NEW y \in Int, NEW m \in 1..12
    PROVE  /\ FirstOf(y, m) \in Int
           /\ FirstOf(y, m) = MarchFirst(MarchYear(y, m)) + Before(FromMarch(m))
           /\ \A d \in Int : days_from_civil(y, m, d) = FirstOf(y, m) + d - 1
<1> DEFINE a == MarchFirst(MarchYear(y, m))
           b == Before(FromMarch(m))
<1>1. a \in Int /\ b \in Int
  BY SMT DEF MarchFirst, MarchYear, Before, FromMarch
<1>2. \A d \in Int : days_from_civil(y, m, d) = a + (b + d - 1) /\ days_from_civil(y, m, d) \in Int
  BY DaysFromCivil, Zenon
<1> HIDE DEF a, b
<1>3. FirstOf(y, m) = a + (b + 1 - 1) /\ FirstOf(y, m) \in Int
  BY <1>2, 1 \in Int, Zenon DEF FirstOf
<1>4. FirstOf(y, m) = a + b
  BY <1>1, <1>3, SMT
<1>5. \A d \in Int : days_from_civil(y, m, d) = FirstOf(y, m) + d - 1
  BY <1>1, <1>2, <1>4, SMT
<1> QED BY <1>3, <1>4, <1>5, Zenon DEF a, b

\* A year from January on: the first of March of the year before, and 306 days.
LEMMA FirstOfYear ==
    ASSUME NEW y \in Int
    PROVE  FirstOf(y, 1) = MarchFirst(y - 1) + 306
<1>1. MarchYear(y, 1) = y - 1 /\ Before(FromMarch(1)) = 306
  BY SMT DEF MarchYear, Before, FromMarch
<1> QED BY <1>1, FirstOfMonth, 1 \in 1..12, ZenonT(30)

LEMMA YearAfterYear ==
    ASSUME NEW y \in Int
    PROVE  FirstOf(y + 1, 1) = FirstOf(y, 1) + DaysOf(y)
<1>1. FirstOf(y + 1, 1) = MarchFirst((y + 1) - 1) + 306
  BY FirstOfYear, y + 1 \in Int
<1>2. (y + 1) - 1 = y
  OBVIOUS
<1>3. PICK b \in Int : b = MarchFirst(y - 1)
  BY SMT DEF MarchFirst
<1>4. PICK n \in Int : n = DaysOf(y)
  BY SMT DEF DaysOf
<1>5. FirstOf(y, 1) = b + 306
  BY <1>3, FirstOfYear, SMT
<1>6. MarchFirst(y) = b + n
  BY <1>3, <1>4, MarchToMarch, Zenon
<1>7. FirstOf(y + 1, 1) = (b + n) + 306
  BY <1>1, <1>2, <1>6, SMT
<1>8. (b + n) + 306 = (b + 306) + n
  BY SMT
<1> QED BY <1>4, <1>5, <1>7, <1>8, SMT

LEMMA MonthAfterMonth ==
    ASSUME NEW y \in Int, NEW m \in 2..12
    PROVE  FirstOf(y, m) = FirstOf(y, m - 1) + days_in_month(y, m - 1)
<1>1. m \in 1..12 /\ m - 1 \in 1..12
  BY SMT
<1>2. /\ FirstOf(y, m) = MarchFirst(MarchYear(y, m)) + Before(FromMarch(m))
      /\ FirstOf(y, m - 1) = MarchFirst(MarchYear(y, m - 1)) + Before(FromMarch(m - 1))
  BY <1>1, FirstOfMonth, Zenon
<1>3. PICK b \in Int, c \in Int : b = MarchFirst(y - 1) /\ c = MarchFirst(y)
  BY SMT DEF MarchFirst
<1>4. CASE m = 3
  <2>1. FirstOf(y, m) = c + 0
    <3>1. MarchYear(y, m) = y /\ Before(FromMarch(m)) = 0
      BY <1>4, SMT DEF MarchYear, Before, FromMarch
    <3> QED BY <1>2, <1>3, <3>1, Zenon
  <2>2. FirstOf(y, m - 1) = b + 337
    <3>1. MarchYear(y, m - 1) = y - 1 /\ Before(FromMarch(m - 1)) = 337
      BY <1>4, SMT DEF MarchYear, Before, FromMarch
    <3> QED BY <1>2, <1>3, <3>1, SMT
  <2>3. c = b + DaysOf(y)
    BY <1>3, MarchToMarch, Zenon
  <2>4. DaysOf(y) = 337 + days_in_month(y, m - 1)
    BY <1>4, SMT DEF DaysOf, days_in_month
  <2>5. PICK n \in Int : n = days_in_month(y, m - 1)
    BY <1>4, SMT DEF days_in_month
  <2>6. c = b + (337 + n)
    BY <2>3, <2>4, <2>5, SMT
  <2>7. c + 0 = (b + 337) + n
    BY <2>6, SMT
  <2> QED BY <2>1, <2>2, <2>5, <2>7, SMT
<1>5. CASE m = 2
  <2>1. MarchYear(y, m) = y - 1 /\ Before(FromMarch(m)) = 337
    BY <1>5, SMT DEF MarchYear, Before, FromMarch
  <2>2. MarchYear(y, m - 1) = y - 1 /\ Before(FromMarch(m - 1)) = 306
    BY <1>5, SMT DEF MarchYear, Before, FromMarch
  <2>3. days_in_month(y, m - 1) = 31
    BY <1>5, SMT DEF days_in_month
  <2>4. FirstOf(y, m) = b + 337 /\ FirstOf(y, m - 1) = b + 306
    BY <1>2, <1>3, <2>1, <2>2, SMT
  <2> QED BY <2>3, <2>4, SMT
<1>6. CASE m > 3
  <2>1. PICK mp \in 0..10 : mp = FromMarch(m - 1)
    BY <1>6, SMT DEF FromMarch
  <2>2. FromMarch(m) = mp + 1
    BY <1>6, <2>1, SMT DEF FromMarch
  <2>3. MarchYear(y, m) = y /\ MarchYear(y, m - 1) = y
    BY <1>6, SMT DEF MarchYear
  <2>4. days_in_month(y, m - 1) = ((153 * (mp + 1) + 2) \div 5) - ((153 * mp + 2) \div 5)
    <3>1. PICK k \in 1..12 : k = m - 1
      BY <1>1
    <3>2. mp \in 0..11 /\ mp = FromMarch(k)
      BY <2>1, <3>1, SMT
    <3>3. k # 2
      BY <1>6, <3>1, SMT
    <3>4. days_in_month(y, k) = IF k = 2 THEN IF is_leap_year(y) THEN 29 ELSE 28
                                ELSE ((153 * (mp + 1) + 2) \div 5) - ((153 * mp + 2) \div 5)
      BY <3>2, MonthLength, SMT
    <3> QED BY <3>1, <3>3, <3>4, SMT
  <2>5. Before(mp + 1) = Before(mp) + days_in_month(y, m - 1)
    BY <2>4, SMT DEF Before
  <2>6. PICK p \in Int, n \in Int : p = Before(mp) /\ n = days_in_month(y, m - 1)
    BY <2>4, SMT DEF Before
  <2>7. FirstOf(y, m) = c + (p + n) /\ FirstOf(y, m - 1) = c + p
    BY <1>2, <1>3, <2>1, <2>2, <2>3, <2>5, <2>6, Zenon
  <2>8. c + (p + n) = (c + p) + n
    BY SMT
  <2> QED BY <2>6, <2>7, <2>8, Zenon
<1> QED BY <1>1, <1>4, <1>5, <1>6, SMT

\* Counting the days of the months one after the other comes to what the code's
\* arithmetic says of each.
LEMMA MonthStartIs ==
    ASSUME NEW y \in Int, NEW m \in 1..12
    PROVE  MonthStart(y, FirstOf(y, 1))[m] = FirstOf(y, m)
<1> DEFINE first == FirstOf(y, 1)
           Is(f) == f = [k \in 1..12 |-> IF k = 1 THEN first
                                         ELSE f[k - 1] + days_in_month(y, k - 1)]
           run == CHOOSE f : Is(f)
           value == [k \in 1..12 |-> FirstOf(y, k)]
           S == {n \in 0..11 : run[n + 1] = FirstOf(y, n + 1)}
<1>1. Is(value)
  <2>1. ASSUME NEW k \in 1..12
        PROVE  FirstOf(y, k) = IF k = 1 THEN first ELSE value[k - 1] + days_in_month(y, k - 1)
    <3>1. CASE k = 1
      BY <3>1, Zenon
    <3>2. CASE k # 1
      <4>1. k \in 2..12 /\ k - 1 \in 1..12
        BY <3>2, SMT
      <4>2. value[k - 1] = FirstOf(y, k - 1)
        BY <4>1, Zenon
      <4> HIDE DEF value, first
      <4> QED BY <3>2, <4>1, <4>2, MonthAfterMonth, Zenon
    <3> QED BY <3>1, <3>2, Zenon
  <2> QED BY <2>1, Zenon
<1>2. Is(run)
  <2> HIDE DEF value
  <2> QED BY <1>1, Zenon
<1>3. MonthStart(y, first) = run
  BY Zenon DEF MonthStart
<1> HIDE DEF run, first
<1>4. 0 \in S
  <2>1. 1 \in 1..12 /\ 0 \in 0..11 /\ 0 + 1 = 1
    OBVIOUS
  <2>2. run[1] = first
    BY <1>2, <2>1, Zenon
  <2> QED BY <2>1, <2>2, Zenon DEF first
<1>5. \A n \in 0..11 : n \in S /\ n < 11 => n + 1 \in S
  <2> TAKE n \in 0..11
  <2> HAVE n \in S /\ n < 11
  <2>1. PICK k \in 2..12 : k = (n + 1) + 1
    BY SMT
  <2>2. k \in 1..12 /\ k # 1 /\ k - 1 = n + 1 /\ n + 1 \in 0..11
    BY <2>1, SMT
  <2>3. run[k] = run[k - 1] + days_in_month(y, k - 1)
    BY <1>2, <2>2, Zenon
  <2>4. run[n + 1] = FirstOf(y, n + 1)
    OBVIOUS
  <2>5. run[k] = FirstOf(y, k)
    BY <2>2, <2>3, <2>4, MonthAfterMonth, Zenon
  <2> QED BY <2>1, <2>2, <2>5, Zenon
<1> HIDE DEF S
<1>6. 0..11 \subseteq S
  BY <1>4, <1>5, InductionUpTo, 11 \in Nat, Zenon
<1>7. PICK n \in 0..11 : n + 1 = m
  <2>1. m - 1 \in 0..11 /\ (m - 1) + 1 = m
    BY SMT
  <2> QED BY <2>1, Zenon
<1>8. run[m] = FirstOf(y, m)
  <2>1. run[n + 1] = FirstOf(y, n + 1)
    BY <1>6, Zenon DEF S
  <2> QED BY <1>7, <2>1, Zenon
<1> QED BY <1>3, <1>8, Zenon DEF first

-----------------------------------------------------------------------------
\* What makes the count inductive: the first day that the count has reached is
\* what the code's arithmetic says of the first of January.
YearCounted ==
    item.kind = "year" =>
        \E y \in Int : item = [kind |-> "year", year |-> y, first |-> FirstOf(y, 1)]

LEMMA YearIsExact ==
    ASSUME NEW y \in Int, NEW m \in 1..12, NEW d \in 1..days_in_month(y, m)
    PROVE  /\ days_from_civil(y, m, d) = MonthStart(y, FirstOf(y, 1))[m] + d - 1
           /\ civil_from_days(MonthStart(y, FirstOf(y, 1))[m] + d - 1)
                = [year |-> y, month |-> m, day |-> d]
<1>1. d \in Int
  OBVIOUS
<1>2. days_from_civil(y, m, d) = MonthStart(y, FirstOf(y, 1))[m] + d - 1
  <2>1. \A n \in Int : days_from_civil(y, m, n) = FirstOf(y, m) + n - 1
    BY FirstOfMonth, Zenon
  <2>2. MonthStart(y, FirstOf(y, 1))[m] = FirstOf(y, m)
    BY MonthStartIs, Zenon
  <2>3. days_from_civil(y, m, d) = FirstOf(y, m) + d - 1
    BY <1>1, <2>1, Zenon
  <2> QED BY <2>2, <2>3, Zenon
<1>3. IsDate(y, m, d)
  BY Zenon DEF IsDate
<1> QED BY <1>2, <1>3, DatesReadBack, Zenon

LEMMA SamplesAreInstants ==
    ASSUME NEW first \in Int
    PROVE  Samples(first) \subseteq Instants
<1>1. {first, first + 58, first + 100, first + 263, first + 364} \subseteq Int
  BY SMT
<1>2. {0, 763, 85636, 86399} \subseteq 0..SecondsPerDay - 1
  <2>1. PICK n \in Int : n = SecondsPerDay
    BY SMT DEF SecondsPerDay
  <2>2. n > 86399
    BY <2>1, SMT DEF SecondsPerDay
  <2>3. {0, 763, 85636, 86399} \subseteq 0..n - 1
    BY <2>2, SMT
  <2> QED BY <2>1, <2>3, SMT
<1>3. {0, 1, 145224193, 854775807, 854775808, 999999999} \subseteq 0..NanosPerSecond - 1
  <2>1. PICK n \in Int : n = NanosPerSecond
    BY SMT DEF NanosPerSecond
  <2>2. n > 999999999
    BY <2>1, SMT DEF NanosPerSecond
  <2>3. {0, 1, 145224193, 854775807, 854775808, 999999999} \subseteq 0..n - 1
    BY <2>2, SMT
  <2> QED BY <2>1, <2>3, SMT
<1>4. ASSUME NEW A, NEW B, NEW C, NEW D, NEW E, NEW F, A \subseteq D, B \subseteq E, C \subseteq F
      PROVE  [day : A, second : B, nano : C] \subseteq [day : D, second : E, nano : F]
  BY <1>4, SMT
<1> QED BY <1>1, <1>2, <1>3, <1>4, SMT DEF Samples, Instants

LEMMA CountedIsExact ==
    ASSUME YearCounted
    PROVE  CalendarIsExact
<1> SUFFICES ASSUME item.kind = "year"
             PROVE  /\ \A m \in 1..12 : \A d \in 1..days_in_month(item.year, m) :
                         /\ days_from_civil(item.year, m, d)
                              = MonthStart(item.year, item.first)[m] + d - 1
                         /\ civil_from_days(MonthStart(item.year, item.first)[m] + d - 1)
                              = [year |-> item.year, month |-> m, day |-> d]
                    /\ \A t \in Samples(item.first) : Held(t) => ReadsBack(t)
  BY Zenon DEF CalendarIsExact
<1>1. PICK y \in Int : item = [kind |-> "year", year |-> y, first |-> FirstOf(y, 1)]
  BY Zenon DEF YearCounted
<1>2. item.year = y /\ item.first = FirstOf(y, 1)
  BY <1>1, SMT
<1>3. \A m \in 1..12 : \A d \in 1..days_in_month(y, m) :
        /\ days_from_civil(y, m, d) = MonthStart(y, FirstOf(y, 1))[m] + d - 1
        /\ civil_from_days(MonthStart(y, FirstOf(y, 1))[m] + d - 1)
             = [year |-> y, month |-> m, day |-> d]
  BY YearIsExact, Zenon
<1>4. Samples(FirstOf(y, 1)) \subseteq Instants
  BY FirstOfMonth, SamplesAreInstants, 1 \in 1..12, Zenon
<1>5. \A t \in Samples(FirstOf(y, 1)) : Held(t) => ReadsBack(t)
  BY <1>4, EveryInstantReadsBack, Zenon
<1> QED BY <1>2, <1>3, <1>5, Zenon

\* The calendar's arithmetic agrees with counting days, month by month and year
\* by year in either direction from 1970, in every year that is reached
\* (days_from_civil(), civil_from_days(), days_in_month(), is_leap_year()).
THEOREM CalendarAgreesWithCounting == CalendarSpec => []CalendarIsExact
<1>1. CalendarInit => YearCounted
  <2> SUFFICES ASSUME CalendarInit, item.kind = "year" PROVE YearCounted
    BY Zenon DEF YearCounted
  <2>1. item = Epoch
    BY Zenon DEF CalendarInit
  <2>2. MarchFirst(1970 - 1) + 306 = 0
    BY SMT DEF MarchFirst
  <2>3. FirstOf(1970, 1) = 0
    BY <2>2, FirstOfYear, SMT
  <2>4. item = [kind |-> "year", year |-> 1970, first |-> FirstOf(1970, 1)]
    BY <2>1, <2>3, SMT DEF Epoch
  <2>5. PICK y \in Int : y = 1970
    BY SMT
  <2>6. item = [kind |-> "year", year |-> y, first |-> FirstOf(y, 1)]
    BY <2>4, <2>5, SMT
  <2> QED BY <2>6, Zenon DEF YearCounted
<1>2. YearCounted /\ [NextYear \/ PreviousYear]_item => YearCounted'
  <2> SUFFICES ASSUME YearCounted, [NextYear \/ PreviousYear]_item PROVE YearCounted'
    OBVIOUS
  <2>1. CASE NextYear
    <3>a. item.kind = "year"
      BY <2>1, SMT DEF NextYear
    <3>1. PICK y \in Int : item = [kind |-> "year", year |-> y, first |-> FirstOf(y, 1)]
      BY <3>a, Zenon DEF YearCounted
    <3>2. item' = [kind |-> "year", year |-> y + 1, first |-> FirstOf(y, 1) + DaysOf(y)]
      <4>1. item.year = y /\ item.first = FirstOf(y, 1)
        BY <3>1, SMT
      <4>2. item' = [kind |-> "year", year |-> item.year + 1,
                     first |-> item.first + DaysOf(item.year)]
        BY <2>1, SMT DEF NextYear
      <4> QED BY <4>1, <4>2, Zenon
    <3>3. y + 1 \in Int
      OBVIOUS
    <3>4. item' = [kind |-> "year", year |-> y + 1, first |-> FirstOf(y + 1, 1)]
      BY <3>2, YearAfterYear, Zenon
    <3> QED BY <3>3, <3>4, Zenon DEF YearCounted
  <2>2. CASE PreviousYear
    <3>a. item.kind = "year"
      BY <2>2, SMT DEF PreviousYear
    <3>1. PICK y \in Int : item = [kind |-> "year", year |-> y, first |-> FirstOf(y, 1)]
      BY <3>a, Zenon DEF YearCounted
    <3>2. item' = [kind |-> "year", year |-> y - 1, first |-> FirstOf(y, 1) - DaysOf(y - 1)]
      <4>1. item.year = y /\ item.first = FirstOf(y, 1)
        BY <3>1, SMT
      <4>2. item' = [kind |-> "year", year |-> item.year - 1,
                     first |-> item.first - DaysOf(item.year - 1)]
        BY <2>2, SMT DEF PreviousYear
      <4> QED BY <4>1, <4>2, Zenon
    <3>3. y - 1 \in Int /\ (y - 1) + 1 = y
      OBVIOUS
    <3>4. FirstOf(y, 1) = FirstOf(y - 1, 1) + DaysOf(y - 1)
      BY <3>3, YearAfterYear, Zenon
    <3>5. FirstOf(y - 1, 1) \in Int /\ DaysOf(y - 1) \in Int
      <4>1. FirstOf(y - 1, 1) \in Int
        BY <3>3, FirstOfMonth, 1 \in 1..12, Zenon
      <4>2. DaysOf(y - 1) \in Int
        BY SMT DEF DaysOf
      <4> QED BY <4>1, <4>2
    <3>6. FirstOf(y, 1) - DaysOf(y - 1) = FirstOf(y - 1, 1)
      BY <3>4, <3>5, SMT
    <3> QED BY <3>2, <3>3, <3>6, Zenon DEF YearCounted
  <2>3. CASE UNCHANGED item
    BY <2>3, Zenon DEF YearCounted
  <2> QED BY <2>1, <2>2, <2>3, Zenon
<1>3. YearCounted => CalendarIsExact
  BY CountedIsExact
<1> QED BY <1>1, <1>2, <1>3, PTL DEF CalendarSpec

-----------------------------------------------------------------------------
\* The store.
HeaderRecord == [gen : Nat, clean : BOOLEAN]

\* The types the header slots need.
HeaderTypes ==
    /\ header \in {"short", "full"}
    /\ slots \in [Slots -> HeaderRecord \cup {Torn}]
    /\ pc \in {"closed", "opening", "scanning", "open", "marking", "renaming"}
    /\ gen \in Nat /\ slot \in Slots /\ used \in Nat

\* The newest valid slot holds the generation of the session.  While a header
\* is being written it is the other slot, and otherwise the active one.
NewestIs(s) ==
    /\ s \in Slots /\ slots[s] # Torn
    /\ slots[s].gen = gen
    /\ Chosen = s

HeaderInv ==
    /\ HeaderTypes
    /\ header = "short" => slots = [s \in Slots |-> Torn] /\ pc = "closed"
    /\ used > 0 => Valid # {} /\ slots[Chosen].gen >= used
    /\ pc = "opening" => \/ NewestIs(1 - slot)
                         \/ Valid = {} /\ gen = 0
    /\ pc = "marking" => NewestIs(1 - slot) /\ gen = used
    /\ pc \in {"open", "renaming"} => NewestIs(slot) /\ gen = used
    /\ pc = "scanning" => NewestIs(slot)
    /\ HeaderTellsSessions

-----------------------------------------------------------------------------
LEMMA OtherSlot ==
    ASSUME NEW s \in Slots
    PROVE  1 - s \in Slots /\ 1 - s # s /\ 1 - (1 - s) = s /\ Slots = {s, 1 - s}
  BY DEF Slots

\* A header whose generation is above that of the other slot is the one the next
\* open() reads.
LEMMA WrittenIsChosen ==
    ASSUME slots \in [Slots -> HeaderRecord \cup {Torn}],
           NEW s \in Slots, NEW h \in HeaderRecord,
           slots' = [slots EXCEPT ![s] = h],
           slots[1 - s] # Torn => slots[1 - s].gen < h.gen
    PROVE  Chosen' = s /\ s \in Valid' /\ slots'[s] = h
<1>1. h # Torn
  BY StoreAssumption DEF HeaderRecord
<1>2. slots'[s] = h /\ slots'[1 - s] = slots[1 - s]
  BY OtherSlot
<1>3. s \in Valid' /\ (1 - s \in Valid' => slots[1 - s] # Torn)
  BY <1>1, <1>2, OtherSlot DEF Valid
<1>4. 1 - s \in Valid' => slots'[1 - s].gen < h.gen /\ slots'[1 - s].gen \in Nat
  BY <1>2, <1>3, OtherSlot DEF HeaderRecord
<1>5. h.gen \in Nat
  BY DEF HeaderRecord
<1>6. CASE s = 0
  BY <1>2, <1>3, <1>4, <1>5, <1>6 DEF Chosen
<1>7. CASE s = 1
  BY <1>2, <1>3, <1>4, <1>5, <1>7 DEF Chosen
<1> QED
  BY <1>2, <1>3, <1>6, <1>7 DEF Slots

\* Tearing the slot that open() would not read leaves its choice alone.
LEMMA TornIsNotChosen ==
    ASSUME slots \in [Slots -> HeaderRecord \cup {Torn}],
           NEW s \in Slots, slots[s] # Torn, Chosen = s,
           slots' = [slots EXCEPT ![1 - s] = Torn]
    PROVE  Chosen' = s /\ s \in Valid' /\ slots'[s] = slots[s]
<1>1. slots'[s] = slots[s] /\ slots'[1 - s] = Torn
  BY OtherSlot
<1>2. Valid' = {s}
  BY <1>1, OtherSlot DEF Valid
<1>3. CASE s = 0
  BY <1>1, <1>2, <1>3 DEF Chosen
<1>4. CASE s = 1
  BY <1>1, <1>2, <1>4 DEF Chosen
<1> QED
  BY <1>1, <1>2, <1>3, <1>4 DEF Slots

\* open() reads a valid slot when there is one, and no valid slot is newer.
LEMMA ChosenIsNewest ==
    ASSUME slots \in [Slots -> HeaderRecord \cup {Torn}], Valid # {}
    PROVE  /\ Chosen \in Slots /\ slots[Chosen] \in HeaderRecord /\ slots[Chosen] # Torn
           /\ \A s \in Valid : slots[s].gen <= slots[Chosen].gen
<1>1. \A s \in Valid : s \in {0, 1} /\ slots[s] \in HeaderRecord /\ slots[s].gen \in Nat
  BY DEF Valid, Slots, HeaderRecord
<1>2. CASE Chosen = 1
  <2>1. 1 \in Valid /\ (0 \in Valid => slots[1].gen >= slots[0].gen)
    BY <1>2 DEF Chosen
  <2> QED
    BY <1>1, <1>2, <2>1 DEF Valid, Slots
<1>3. CASE Chosen = 0
  <2>1. 1 \notin Valid \/ (0 \in Valid /\ ~ (slots[1].gen >= slots[0].gen))
    BY <1>3 DEF Chosen
  <2>2. 0 \in Valid
    BY <2>1, <1>1
  <2> QED
    BY <1>1, <1>3, <2>1, <2>2 DEF Valid, Slots
<1> QED
  BY <1>2, <1>3 DEF Chosen

LEMMA HeaderInit == Init => HeaderInv
<1> SUFFICES ASSUME Init PROVE HeaderInv
  OBVIOUS
<1>1. slots = [s \in Slots |-> Torn] /\ Valid = {}
  BY DEF Init, Valid
<1>2. HeaderTypes
  BY DEF Init, HeaderTypes, Slots
<1> QED
  BY <1>1, <1>2 DEF Init, HeaderInv, HeaderTellsSessions, GenerationIsFresh, CleanMeansMarked

\* Steps that write no header and start or end no session.
LEMMA HeaderQuiet ==
    ASSUME HeaderInv,
           UNCHANGED <<header, slots, gen, slot, used, marked>>,
           \/ pc' = pc \/ pc' = "closed" \/ (pc = "open" /\ pc' = "renaming")
    PROVE  HeaderInv'
<1>1. Valid' = Valid /\ Chosen' = Chosen
  BY DEF Valid, Chosen
<1> QED
  BY <1>1 DEF HeaderInv, HeaderTypes, NewestIs, HeaderTellsSessions,
              GenerationIsFresh, CleanMeansMarked

LEMMA OpenCreateStep == HeaderInv /\ OpenCreate => HeaderInv'
<1> SUFFICES ASSUME HeaderInv, OpenCreate PROVE HeaderInv'
  OBVIOUS
<1>1. slots = [s \in Slots |-> Torn] /\ slots' = slots
  BY DEF HeaderInv, OpenCreate
<1>2. Valid = {} /\ Valid' = {}
  BY <1>1 DEF Valid
<1>3. used' = used /\ used = 0
  BY <1>2 DEF HeaderInv, HeaderTypes, OpenCreate, history
<1> QED
  BY <1>1, <1>2, <1>3
  DEF HeaderInv, HeaderTypes, OpenCreate, history, Slots, HeaderTellsSessions,
      GenerationIsFresh, CleanMeansMarked

LEMMA OpenExistingStep == HeaderInv /\ OpenExisting => HeaderInv'
<1> SUFFICES ASSUME HeaderInv, OpenExisting PROVE HeaderInv'
  OBVIOUS
<1>1. slots \in [Slots -> HeaderRecord \cup {Torn}] /\ Valid # {}
  BY DEF HeaderInv, HeaderTypes, OpenExisting
<1>2. /\ Chosen \in Slots /\ slots[Chosen] # Torn /\ slots[Chosen].gen \in Nat
      /\ slot' = 1 - Chosen /\ gen' = slots[Chosen].gen /\ slots' = slots
  BY <1>1, ChosenIsNewest DEF OpenExisting, disk, HeaderRecord
<1>3. Valid' = Valid /\ Chosen' = Chosen
  BY <1>2 DEF Valid, Chosen
<1>4. NewestIs(1 - slot)'
  BY <1>2, <1>3, OtherSlot DEF NewestIs
<1> QED
  BY <1>1, <1>2, <1>3, <1>4, OtherSlot
  DEF HeaderInv, HeaderTypes, OpenExisting, disk, history, HeaderTellsSessions,
      GenerationIsFresh, CleanMeansMarked

\* The first header of a session is above every other one and is not clean.
LEMMA OpenHeaderStep == HeaderInv /\ OpenHeader => HeaderInv'
<1> SUFFICES ASSUME HeaderInv, OpenHeader PROVE HeaderInv'
  OBVIOUS
<1> DEFINE h == Header(gen + 1, FALSE)
<1>1. /\ slots \in [Slots -> HeaderRecord \cup {Torn}] /\ slot \in Slots /\ gen \in Nat
      /\ used \in Nat /\ pc = "opening"
      /\ slots' = [slots EXCEPT ![slot] = h] /\ gen' = gen + 1 /\ slot' = slot
      /\ pc' = "scanning" /\ marked' = FALSE /\ used' = used /\ header' = header
  BY DEF HeaderInv, HeaderTypes, OpenHeader
<1>2. h \in HeaderRecord /\ h.gen = gen + 1 /\ h.clean = FALSE
  BY <1>1 DEF Header, HeaderRecord
<1> HIDE DEF h
<1>3. slots[1 - slot] # Torn => slots[1 - slot].gen < h.gen
  <2>1. 1 - slot \in Slots
    BY <1>1, OtherSlot
  <2>2. NewestIs(1 - slot) \/ Valid = {}
    BY <1>1 DEF HeaderInv
  <2>3. CASE NewestIs(1 - slot)
    BY <1>1, <1>2, <2>3 DEF NewestIs
  <2>4. CASE Valid = {}
    BY <2>1, <2>4 DEF Valid
  <2> QED
    BY <2>2, <2>3, <2>4
<1>4. Chosen' = slot /\ slot \in Valid' /\ slots'[slot] = h
  BY <1>1, <1>2, <1>3, WrittenIsChosen
<1>5. gen >= used
  <2>1. CASE Valid = {}
    BY <1>1, <2>1 DEF HeaderInv
  <2>2. CASE Valid # {}
    <3>1. slots[Chosen].gen = gen
      BY <1>1, <2>2, OtherSlot DEF HeaderInv, NewestIs
    <3> QED
      BY <1>1, <3>1 DEF HeaderInv
  <2> QED
    BY <2>1, <2>2
<1>6. HeaderTypes'
  <2>1. slots' \in [Slots -> HeaderRecord \cup {Torn}]
    BY <1>1, <1>2
  <2> QED
    BY <1>1, <2>1 DEF HeaderInv, HeaderTypes
<1>7. NewestIs(slot)'
  BY <1>1, <1>2, <1>4, <1>6 DEF NewestIs, Valid
<1>8. header' = "full"
  BY <1>1 DEF HeaderInv, HeaderTypes
<1> QED
  BY <1>1, <1>2, <1>4, <1>5, <1>6, <1>7, <1>8
  DEF HeaderInv, HeaderTellsSessions, GenerationIsFresh, CleanMeansMarked

\* scan() ends the opening of a session, which from then on counts as run.
LEMMA OpenScanStep == HeaderInv /\ OpenScan => HeaderInv'
<1> SUFFICES ASSUME HeaderInv, OpenScan PROVE HeaderInv'
  OBVIOUS
<1>1. /\ UNCHANGED <<header, slots, gen, slot, marked>> /\ pc = "scanning"
      /\ \/ pc' = "closed" /\ used' = used
         \/ pc' = "open" /\ used' = gen
  BY DEF OpenScan
<1>2. CASE pc' = "closed" /\ used' = used
  BY <1>1, <1>2, HeaderQuiet
<1>3. CASE pc' = "open" /\ used' = gen
  <2>1. Valid' = Valid /\ Chosen' = Chosen
    BY <1>1 DEF Valid, Chosen
  <2>2. NewestIs(slot)' /\ gen' = used' /\ gen \in Nat
    BY <1>1, <1>3, <2>1 DEF HeaderInv, HeaderTypes, NewestIs
  <2>3. Valid # {} /\ slots[Chosen].gen = gen
    BY <1>1 DEF HeaderInv, NewestIs, Valid
  <2> QED
    BY <1>1, <1>3, <2>1, <2>2, <2>3
    DEF HeaderInv, HeaderTypes, HeaderTellsSessions, GenerationIsFresh, CleanMeansMarked
<1> QED
  BY <1>1, <1>2, <1>3

LEMMA MarkCleanStep == HeaderInv /\ MarkClean => HeaderInv'
<1> SUFFICES ASSUME HeaderInv, MarkClean PROVE HeaderInv'
  OBVIOUS
<1>1. /\ UNCHANGED <<header, slots, gen, used, marked>> /\ pc = "open"
      /\ slot' = 1 - slot /\ pc' = "marking" /\ slot \in Slots
  BY DEF MarkClean, disk, history, HeaderInv, HeaderTypes
<1>2. Valid' = Valid /\ Chosen' = Chosen
  BY <1>1 DEF Valid, Chosen
<1>3. slot' \in Slots /\ 1 - slot' = slot
  BY <1>1, OtherSlot
<1>4. NewestIs(1 - slot)'
  BY <1>1, <1>2, <1>3 DEF HeaderInv, NewestIs
<1> QED
  BY <1>1, <1>2, <1>3, <1>4
  DEF HeaderInv, HeaderTypes, HeaderTellsSessions, GenerationIsFresh, CleanMeansMarked

LEMMA MarkCleanHeaderStep == HeaderInv /\ MarkCleanHeader => HeaderInv'
<1> SUFFICES ASSUME HeaderInv, MarkCleanHeader PROVE HeaderInv'
  OBVIOUS
<1> DEFINE h == Header(gen + 1, TRUE)
<1>1. /\ slots \in [Slots -> HeaderRecord \cup {Torn}] /\ slot \in Slots /\ gen \in Nat
      /\ pc = "marking" /\ header = "full"
      /\ slots' = [slots EXCEPT ![slot] = h] /\ gen' = gen + 1 /\ slot' = slot
      /\ pc' = "open" /\ marked' = TRUE /\ used' = gen + 1 /\ header' = header
      /\ NewestIs(1 - slot)
  BY DEF HeaderInv, HeaderTypes, MarkCleanHeader
<1>2. h \in HeaderRecord /\ h.gen = gen + 1
  BY <1>1 DEF Header, HeaderRecord
<1> HIDE DEF h
<1>3. slots[1 - slot].gen < h.gen
  BY <1>1, <1>2 DEF NewestIs
<1>4. Chosen' = slot /\ slot \in Valid' /\ slots'[slot] = h
  BY <1>1, <1>2, <1>3, WrittenIsChosen
<1>5. HeaderTypes'
  <2>1. slots' \in [Slots -> HeaderRecord \cup {Torn}]
    BY <1>1, <1>2
  <2> QED
    BY <1>1, <2>1 DEF HeaderTypes
<1>6. NewestIs(slot)'
  BY <1>1, <1>2, <1>4 DEF NewestIs, Valid
<1> QED
  BY <1>1, <1>2, <1>4, <1>5, <1>6
  DEF HeaderInv, HeaderTellsSessions, GenerationIsFresh, CleanMeansMarked

\* A header write that is cut short hits the slot that is not the newest one.
LEMMA TornHeader ==
    ASSUME HeaderInv, pc \in {"opening", "marking"},
           slots' = [slots EXCEPT ![slot] = Torn],
           UNCHANGED <<header, gen, used, marked>>,
           \/ pc' = "closed" /\ slot' = slot
           \/ pc = "marking" /\ pc' = "open" /\ slot' = 1 - slot
    PROVE  HeaderInv'
<1>1. /\ slots \in [Slots -> HeaderRecord \cup {Torn}] /\ slot \in Slots
      /\ 1 - slot \in Slots /\ 1 - (1 - slot) = slot /\ header = "full"
      /\ slots' \in [Slots -> HeaderRecord \cup {Torn}]
  BY OtherSlot DEF HeaderInv, HeaderTypes
<1>2. HeaderTypes'
  BY <1>1 DEF HeaderInv, HeaderTypes
<1>3. CASE NewestIs(1 - slot)
  <2>1. slots[1 - slot] # Torn /\ Chosen = 1 - slot /\ slots[1 - slot].gen = gen
    BY <1>3 DEF NewestIs
  <2>2. Chosen' = 1 - slot /\ 1 - slot \in Valid' /\ slots'[1 - slot] = slots[1 - slot]
    BY <1>1, <2>1, TornIsNotChosen
  <2>3. 1 - slot \in Valid
    BY <1>1, <2>1 DEF Valid
  <2>4. pc' = "open" => NewestIs(slot)' /\ gen' = used'
    BY <1>1, <2>1, <2>2 DEF NewestIs, Valid, HeaderInv
  <2> QED
    BY <1>1, <1>2, <2>1, <2>2, <2>3, <2>4
    DEF HeaderInv, HeaderTellsSessions, GenerationIsFresh, CleanMeansMarked
<1>4. CASE ~ NewestIs(1 - slot)
  <2>1. pc = "opening" /\ Valid = {}
    BY <1>4 DEF HeaderInv
  <2>2. Valid' = {}
    BY <1>1, <2>1 DEF Valid
  <2> QED
    BY <1>1, <1>2, <2>1, <2>2
    DEF HeaderInv, HeaderTellsSessions, GenerationIsFresh, CleanMeansMarked
<1> QED
  BY <1>3, <1>4

\* The file a compaction puts in place has one header, above the session's.
LEMMA CompactRenameStep == HeaderInv /\ CompactRename => HeaderInv'
<1> SUFFICES ASSUME HeaderInv, CompactRename PROVE HeaderInv'
  OBVIOUS
<1> DEFINE h == Header(gen + 1, FALSE)
<1>1. /\ slots' = [s \in Slots |-> IF s = 0 THEN h ELSE Torn]
      /\ pc = "renaming" /\ pc' = "closed" /\ marked' = FALSE
      /\ UNCHANGED <<header, gen, slot, used>> /\ gen \in Nat /\ gen = used
      /\ header = "full"
  BY DEF HeaderInv, HeaderTypes, CompactRename
<1>2. h \in HeaderRecord /\ h.gen = gen + 1 /\ h.clean = FALSE
  BY <1>1 DEF Header, HeaderRecord
<1> HIDE DEF h
<1>3. h # Torn
  BY <1>2, StoreAssumption DEF HeaderRecord
<1>4. slots' \in [Slots -> HeaderRecord \cup {Torn}] /\ slots'[0] = h /\ Valid' = {0}
  BY <1>1, <1>2, <1>3 DEF Valid, Slots
<1>5. Chosen' = 0
  BY <1>4 DEF Chosen
<1>6. HeaderTypes'
  BY <1>1, <1>4 DEF HeaderInv, HeaderTypes
<1> QED
  BY <1>1, <1>2, <1>4, <1>5, <1>6
  DEF HeaderInv, HeaderTellsSessions, GenerationIsFresh, CleanMeansMarked

LEMMA HeaderStep == HeaderInv /\ [Next]_vars => HeaderInv'
<1> SUFFICES ASSUME HeaderInv, [Next]_vars PROVE HeaderInv'
  OBVIOUS
<1>1. CASE OpenCreate
  BY <1>1, OpenCreateStep
<1>2. CASE OpenExisting
  BY <1>2, OpenExistingStep
<1>3. CASE OpenHeader
  BY <1>3, OpenHeaderStep
<1>4. CASE OpenScan
  BY <1>4, OpenScanStep
<1>5. ASSUME NEW r \in Records, AppendRecord(r) \/ AppendFails(r) \/ CrashInAppend(r)
      PROVE  HeaderInv'
  BY <1>5, HeaderQuiet DEF AppendRecord, AppendFails, CrashInAppend, memory
<1>6. CASE MarkClean
  BY <1>6, MarkCleanStep
<1>7. CASE MarkCleanHeader
  BY <1>7, MarkCleanHeaderStep
<1>8. CASE MarkCleanFails
  BY <1>8, TornHeader DEF MarkCleanFails, history
<1>9. ASSUME NEW k \in 0..MaxRecords, CompactWrite(k)
      PROVE  HeaderInv'
  BY <1>9, HeaderQuiet DEF CompactWrite, history
<1>10. CASE CompactRename
  BY <1>10, CompactRenameStep
<1>11. CASE CompactFails \/ Close
  BY <1>11, HeaderQuiet DEF CompactFails, Close, disk, history
<1>12. CASE CrashInHeader
  BY <1>12, TornHeader DEF CrashInHeader, history
<1>13. CASE UNCHANGED vars
  BY <1>13, HeaderQuiet DEF vars, disk, memory, history
<1> QED
  BY <1>1, <1>2, <1>3, <1>4, <1>5, <1>6, <1>7, <1>8, <1>9, <1>10, <1>11, <1>12, <1>13
  DEF Next

LEMMA StoreHeader == Spec => []HeaderInv
  BY HeaderInit, HeaderStep, PTL DEF Spec

\* persistence.hpp:13 for every number of sessions, crashes and compactions:
\* once a session has run, one of the two header slots is always valid.
THEOREM StoreHeaderSurvives == Spec => []HeaderSurvives
<1>1. HeaderInv => HeaderSurvives
  BY DEF HeaderInv, HeaderSurvives
<1> QED
  BY <1>1, StoreHeader, PTL

\* No session repeats the generation of an earlier one, and a header that says
\* clean was written by the last session to write one.
THEOREM StoreHeaderTellsSessions == Spec => []HeaderTellsSessions
<1>1. HeaderInv => HeaderTellsSessions
  BY DEF HeaderInv
<1> QED
  BY <1>1, StoreHeader, PTL

-----------------------------------------------------------------------------
\* The records before the first invalid one, of any log.
Entries == Records \cup {Torn}
TornIn(l) == {i \in DOMAIN l : l[i] = Torn}
ReadableOf(l) == IF TornIn(l) = {} THEN l ELSE SubSeq(l, 1, Min(TornIn(l)) - 1)

\* Min picks the least element.
LEMMA LeastIsMin ==
    ASSUME NEW T \in SUBSET Nat, NEW n \in T, \A m \in T : n <= m
    PROVE  Min(T) = n
<1>1. Min(T) \in T /\ \A m \in T : Min(T) <= m
  BY DEF Min
<1>2. Min(T) \in Nat /\ n \in Nat /\ Min(T) <= n /\ n <= Min(T)
  BY <1>1
<1> QED
  BY <1>2

LEMMA FirstTorn ==
    ASSUME NEW l \in Seq(Entries), TornIn(l) # {}
    PROVE  /\ Min(TornIn(l)) \in 1..Len(l) /\ l[Min(TornIn(l))] = Torn
           /\ \A i \in 1..Len(l) : i < Min(TornIn(l)) => l[i] \in Records
<1>1. TornIn(l) \in SUBSET Nat /\ TornIn(l) = {i \in 1..Len(l) : l[i] = Torn}
  BY DEF TornIn
<1>2. PICK n \in TornIn(l) : \A m \in TornIn(l) : n <= m
  BY <1>1, LeastNat
<1>3. Min(TornIn(l)) = n
  BY <1>1, <1>2, LeastIsMin
<1>4. \A i \in 1..Len(l) : i < n => l[i] \in Records
  BY <1>1, <1>2 DEF Entries
<1> QED
  BY <1>1, <1>2, <1>3, <1>4

\* What is readable is made of records, and nothing of it is torn.
LEMMA ReadableIsRecords ==
    ASSUME NEW l \in Seq(Entries)
    PROVE  ReadableOf(l) \in Seq(Records) /\ Len(ReadableOf(l)) <= Len(l)
<1>1. CASE TornIn(l) = {}
  <2>1. ReadableOf(l) = l /\ \A i \in 1..Len(l) : l[i] \in Records
    BY <1>1 DEF ReadableOf, TornIn, Entries
  <2> QED
    BY <2>1
<1>2. CASE TornIn(l) # {}
  <2> DEFINE n == Min(TornIn(l))
  <2>1. n \in 1..Len(l) /\ \A i \in 1..Len(l) : i < n => l[i] \in Records
    BY <1>2, FirstTorn
  <2>2. ReadableOf(l) = SubSeq(l, 1, n - 1)
    BY <1>2 DEF ReadableOf
  <2> HIDE DEF n
  <2>3. \A i \in 1..(n - 1) : l[i] \in Records
    BY <2>1
  <2>4. SubSeq(l, 1, n - 1) \in Seq(Records) /\ Len(SubSeq(l, 1, n - 1)) = n - 1
    BY <2>1, <2>3, SubSeqProperties
  <2> QED
    BY <2>1, <2>2, <2>4
<1> QED
  BY <1>1, <1>2

LEMMA WholeIsReadable ==
    ASSUME NEW l \in Seq(Records)
    PROVE  TornIn(l) = {} /\ ReadableOf(l) = l
  BY StoreAssumption DEF TornIn, ReadableOf

\* An entry behind a torn one is not readable, and neither is a torn one.
LEMMA ReadableOfAppend ==
    ASSUME NEW l \in Seq(Entries), NEW e \in Entries
    PROVE  /\ Append(l, e) \in Seq(Entries)
           /\ TornIn(l) = {} /\ e \in Records => ReadableOf(Append(l, e)) = Append(ReadableOf(l), e)
           /\ TornIn(l) # {} \/ e = Torn => ReadableOf(Append(l, e)) = ReadableOf(l)
<1> DEFINE a == Append(l, e)
<1>1. /\ a \in Seq(Entries) /\ Len(a) = Len(l) + 1 /\ DOMAIN a = 1..Len(a)
      /\ a[Len(l) + 1] = e /\ \A i \in 1..Len(l) : a[i] = l[i]
  OBVIOUS
<1> HIDE DEF a
<1>2. TornIn(l) = {i \in 1..Len(l) : l[i] = Torn} /\ Len(l) \in Nat
  BY DEF TornIn
<1>3. TornIn(a) = TornIn(l) \cup (IF e = Torn THEN {Len(l) + 1} ELSE {})
  BY <1>1, <1>2 DEF TornIn
<1>4. CASE TornIn(l) = {} /\ e \in Records
  BY <1>3, <1>4, StoreAssumption DEF ReadableOf, a
<1>5. CASE TornIn(l) = {} /\ e = Torn
  <2>1. TornIn(a) = {Len(l) + 1}
    BY <1>3, <1>5
  <2>2. Min(TornIn(a)) = Len(l) + 1
    BY <2>1, <1>2, LeastIsMin
  <2>3. ReadableOf(a) = SubSeq(a, 1, Len(l)) /\ ReadableOf(l) = l
    <3>1. (Len(l) + 1) - 1 = Len(l) /\ TornIn(a) # {}
      BY <1>2, <2>1
    <3> QED
      BY <1>5, <2>2, <3>1 DEF ReadableOf
  <2>4. SubSeq(a, 1, Len(l)) = l
    BY <1>1, <1>2
  <2> QED
    BY <1>1, <1>5, <2>3, <2>4, StoreAssumption DEF a
<1>6. CASE TornIn(l) # {}
  <2> DEFINE n == Min(TornIn(l))
  <2>1. n \in 1..Len(l) /\ l[n] = Torn
    BY <1>6, FirstTorn
  <2>2. n \in TornIn(l) /\ \A m \in TornIn(l) : n <= m
    <3>1. TornIn(l) \in SUBSET Nat
      BY <1>2
    <3>2. PICK k \in TornIn(l) : \A m \in TornIn(l) : k <= m
      BY <3>1, <1>6, LeastNat
    <3> QED
      BY <3>1, <3>2, LeastIsMin
  <2> HIDE DEF n
  <2>3. TornIn(a) \in SUBSET Nat /\ n \in TornIn(a) /\ \A m \in TornIn(a) : n <= m
    BY <1>2, <1>3, <2>1, <2>2
  <2>4. Min(TornIn(a)) = n /\ TornIn(a) # {}
    BY <2>3, LeastIsMin
  <2>5. ReadableOf(a) = SubSeq(a, 1, n - 1)
    BY <2>4 DEF ReadableOf
  <2>6. ReadableOf(l) = SubSeq(l, 1, n - 1)
    BY <1>6 DEF ReadableOf, n
  <2>7. SubSeq(a, 1, n - 1) = SubSeq(l, 1, n - 1)
    BY <1>1, <2>1
  <2> QED
    BY <1>1, <1>6, <2>5, <2>6, <2>7 DEF a
<1> QED
  BY <1>1, <1>4, <1>5, <1>6 DEF Entries, a

-----------------------------------------------------------------------------
\* The types the records need.
LogTypes ==
    /\ log \in Seq(Entries)
    /\ temp \in Seq(Records)
    /\ count \in 0..MaxRecords
    /\ fresh \subseteq Records
    /\ acked \subseteq Records

\* While the store is open the process counts no less than what can be read, and
\* a compaction under way holds the newest of it.
LogInv ==
    /\ LogTypes
    /\ AckedSurvive
    /\ Len(Readable) <= MaxRecords
    /\ pc \in {"open", "marking", "renaming"} => Len(Readable) <= count
    /\ pc = "renaming" =>
           /\ TornAt = {}
           /\ \E k \in 0..Len(log) : temp = SubSeq(log, Len(log) - k + 1, Len(log))

\* Readable and TornAt are views of the log.
LEMMA LogView ==
    /\ Readable = ReadableOf(log) /\ Readable' = ReadableOf(log')
    /\ TornAt = TornIn(log) /\ TornAt' = TornIn(log')
  BY DEF Readable, ReadableOf, TornAt, TornIn

LEMMA LogInit == Init => LogInv /\ Durable!Init
<1> SUFFICES ASSUME Init PROVE LogInv /\ Durable!Init
  OBVIOUS
<1>1. log = <<>> /\ log \in Seq(Records) /\ log \in Seq(Entries)
  BY DEF Init
<1>2. Readable = <<>>
  BY <1>1, WholeIsReadable, LogView
<1>3. LogTypes
  BY <1>1, StoreAssumption DEF Init, LogTypes
<1> QED
  BY <1>2, <1>3, StoreAssumption
  DEF Init, LogInv, AckedSurvive, InLog, Durable!Init

\* Steps that leave the records alone.
LEMMA LogQuiet ==
    ASSUME LogInv, UNCHANGED <<log, temp, count, fresh, acked>>,
           pc' \in {"open", "marking"} => pc \in {"open", "marking", "renaming"},
           pc' # "renaming" \/ pc' = pc
    PROVE  LogInv' /\ Readable' = Readable
<1>1. Readable' = Readable /\ TornAt' = TornAt
  BY LogView
<1> QED
  BY <1>1 DEF LogInv, LogTypes, AckedSurvive

\* Every way in which an append may end, with the entry it leaves at the end.
LEMMA LogAppend ==
    ASSUME LogInv, NEW r \in Records, NEW e \in {r, Torn},
           pc = "open", count < MaxRecords, log' = Append(log, e), temp' = temp,
           fresh' = fresh \ {r},
           \/ pc' = "open" /\ e = r /\ count' = count + 1
           \/ pc' = "open" /\ e = Torn /\ count' = count
           \/ pc' = "closed" /\ count' = count,
           acked' \in {acked, acked \cup (IF TornAt = {} THEN {e} \ {Torn} ELSE {})}
    PROVE  LogInv' /\ (Readable' = Readable \/ Readable' = Append(Readable, r))
<1>1. /\ log \in Seq(Entries) /\ count \in 0..MaxRecords /\ MaxRecords \in Nat
      /\ e \in Entries /\ r # Torn /\ log' \in Seq(Entries)
  BY StoreAssumption, ReadableOfAppend DEF LogInv, LogTypes, Entries
<1>2. Readable \in Seq(Records) /\ Readable' \in Seq(Records)
  BY <1>1, ReadableIsRecords, LogView
<1>3. Len(Readable) \in Nat /\ Len(Readable) <= count
  BY <1>2 DEF LogInv
<1>4. LogTypes'
  <2>1. count' \in 0..MaxRecords
    BY <1>1
  <2>2. acked' \subseteq Records
    BY DEF LogInv, LogTypes
  <2> QED
    BY <1>1, <2>1, <2>2 DEF LogInv, LogTypes
<1>5. CASE TornAt = {} /\ e = r
  <2>1. Readable' = Append(Readable, r)
    BY <1>1, <1>5, ReadableOfAppend, LogView
  <2>2. Len(Readable') = Len(Readable) + 1 /\ InLog(Readable') = InLog(Readable) \cup {r}
    BY <1>2, <2>1 DEF InLog
  <2>3. acked' \subseteq InLog(Readable')
    BY <1>5, <2>2 DEF LogInv, AckedSurvive
  <2> QED
    BY <1>1, <1>3, <1>4, <1>5, <2>1, <2>2, <2>3 DEF LogInv, AckedSurvive
<1>6. CASE ~ (TornAt = {} /\ e = r)
  <2>1. Readable' = Readable
    BY <1>1, <1>6, ReadableOfAppend, LogView
  <2>2. acked' = acked
    BY <1>6
  <2> QED
    BY <1>1, <1>3, <1>4, <2>1, <2>2 DEF LogInv, AckedSurvive
<1> QED
  BY <1>5, <1>6

\* scan() cuts off what could not be read anyway.
LEMMA LogScan == LogInv /\ OpenScan => LogInv' /\ Readable' = Readable
<1> SUFFICES ASSUME LogInv, OpenScan PROVE LogInv' /\ Readable' = Readable
  OBVIOUS
<1>1. CASE Len(Readable) > MaxRecords
  BY <1>1, LogQuiet DEF OpenScan
<1>2. CASE ~ (Len(Readable) > MaxRecords)
  <2>1. /\ log' = Readable /\ count' = Len(Readable) /\ pc' = "open"
        /\ UNCHANGED <<temp, fresh, acked>>
    BY <1>2 DEF OpenScan
  <2>2. Readable \in Seq(Records) /\ Readable \in Seq(Entries)
    BY ReadableIsRecords, LogView DEF LogInv, LogTypes, Entries
  <2>3. Readable' = Readable
    BY <2>1, <2>2, WholeIsReadable, LogView
  <2>4. Len(Readable) \in 0..MaxRecords
    BY <1>2, <2>2, StoreAssumption
  <2> QED
    BY <2>1, <2>2, <2>3, <2>4 DEF LogInv, LogTypes, AckedSurvive
<1> QED
  BY <1>1, <1>2

LEMMA LogCompactWrite ==
    ASSUME LogInv, NEW k \in 0..MaxRecords, CompactWrite(k)
    PROVE  LogInv' /\ Readable' = Readable
<1>1. /\ UNCHANGED <<log, count, fresh, acked>> /\ pc = "open" /\ TornAt = {}
      /\ temp' = SubSeq(log, Len(log) - k + 1, Len(log)) /\ k \in 0..Len(log)
      /\ pc' = "renaming"
  BY StoreAssumption DEF CompactWrite, history, LogInv, LogTypes
<1>2. Readable' = Readable /\ TornAt' = TornAt
  BY <1>1, LogView
<1>3. log \in Seq(Records)
  BY <1>1, ReadableIsRecords, LogView DEF LogInv, LogTypes, Readable
<1>4. temp' \in Seq(Records)
  BY <1>1, <1>3
<1> QED
  BY <1>1, <1>2, <1>4 DEF LogInv, LogTypes, AckedSurvive

\* The rename puts the newest records of the log in its place.
LEMMA LogCompactRename ==
    ASSUME LogInv, CompactRename
    PROVE  /\ LogInv'
           /\ \E k \in 0..Len(Readable) :
                  Readable' = SubSeq(Readable, Len(Readable) - k + 1, Len(Readable))
<1>1. /\ log' = temp /\ temp' = temp /\ acked' = acked \cap InLog(temp)
      /\ UNCHANGED <<count, fresh>> /\ pc = "renaming" /\ pc' = "closed"
  BY DEF CompactRename
<1>2. Readable = log /\ log \in Seq(Records)
  BY <1>1, ReadableIsRecords, LogView DEF LogInv, LogTypes, Readable
<1>3. PICK k \in 0..Len(log) : temp = SubSeq(log, Len(log) - k + 1, Len(log))
  BY <1>1 DEF LogInv
<1>4. temp \in Seq(Records) /\ temp \in Seq(Entries) /\ Readable' = temp
  BY <1>1, WholeIsReadable, LogView DEF LogInv, LogTypes, Entries
<1>5. Len(temp) <= Len(log)
  BY <1>2, <1>3
<1>6. Len(temp) <= MaxRecords
  BY <1>2, <1>4, <1>5, StoreAssumption DEF LogInv
<1> QED
  BY <1>1, <1>2, <1>3, <1>4, <1>6 DEF LogInv, LogTypes, AckedSurvive

LEMMA LogStep == LogInv /\ [Next]_vars => LogInv' /\ [Durable!Next]_Readable
<1> SUFFICES ASSUME LogInv, [Next]_vars
             PROVE  LogInv' /\ [Durable!Next]_Readable
  OBVIOUS
<1>1. CASE OpenCreate \/ OpenExisting \/ OpenHeader
  BY <1>1, LogQuiet DEF OpenCreate, OpenExisting, OpenHeader, disk, history
<1>2. CASE OpenScan
  BY <1>2, LogScan
<1>3. ASSUME NEW r \in Records, AppendRecord(r) \/ AppendFails(r) \/ CrashInAppend(r)
      PROVE  LogInv' /\ [Durable!Next]_Readable
  <2>1. r # Torn
    BY StoreAssumption
  <2>2. LogInv' /\ (Readable' = Readable \/ Readable' = Append(Readable, r))
    <3>1. CASE AppendRecord(r)
      <4>1. acked' \in {acked, acked \cup (IF TornAt = {} THEN {r} \ {Torn} ELSE {})}
        BY <2>1, <3>1 DEF AppendRecord
      <4> QED
        BY <3>1, <4>1, LogAppend DEF AppendRecord
    <3>2. CASE AppendFails(r)
      BY <3>2, LogAppend DEF AppendFails, memory
    <3>3. CASE CrashInAppend(r)
      <4>1. PICK e \in {r, Torn} : log' = Append(log, e)
        BY <3>3 DEF CrashInAppend
      <4> QED
        BY <3>3, <4>1, LogAppend DEF CrashInAppend
    <3> QED
      BY <1>3, <3>1, <3>2, <3>3
  <2> QED
    BY <2>2 DEF Durable!Next, Durable!Append1
<1>4. CASE MarkClean \/ MarkCleanHeader \/ MarkCleanFails
  BY <1>4, LogQuiet DEF MarkClean, MarkCleanHeader, MarkCleanFails, disk, history
<1>5. ASSUME NEW k \in 0..MaxRecords, CompactWrite(k)
      PROVE  LogInv' /\ [Durable!Next]_Readable
  BY <1>5, LogCompactWrite
<1>6. CASE CompactRename
  BY <1>6, LogCompactRename DEF Durable!Next, Durable!Compact, Durable!Newest
<1>7. CASE CompactFails \/ Close \/ CrashInHeader
  BY <1>7, LogQuiet DEF CompactFails, Close, CrashInHeader, disk, history
<1>8. CASE UNCHANGED vars
  BY <1>8, LogQuiet DEF vars, disk, memory, history
<1> QED
  BY <1>1, <1>2, <1>3, <1>4, <1>5, <1>6, <1>7, <1>8 DEF Next

LEMMA StoreLog == Spec => []LogInv
  BY LogInit, LogStep, PTL DEF Spec

\* A record whose append() was reported stays readable through every crash, torn
\* write and recovery until a compaction leaves it out.
THEOREM StoreKeepsAcked == Spec => []AckedSurvive
<1>1. LogInv => AckedSurvive
  BY DEF LogInv
<1> QED
  BY <1>1, StoreLog, PTL

\* The store implements DurableLog: its readable records only ever grow by one at
\* the end or shrink to their newest, and nothing else changes them.
THEOREM StoreIsDurableLog == Spec => IsDurableLog
  BY LogInit, LogStep, StoreLog, PTL DEF Spec, IsDurableLog, Durable!Spec

Flags == marked \in BOOLEAN /\ after \in BOOLEAN

LEMMA FlagsStep == Flags /\ [Next]_vars => Flags'
<1> SUFFICES ASSUME Flags, [Next]_vars PROVE Flags'
  OBVIOUS
<1>1. /\ marked' = TRUE \/ marked' = FALSE \/ marked' = marked
      /\ after' = FALSE \/ after' = marked \/ after' = after
  BY DEF Next, vars, disk, memory, history, OpenCreate, OpenExisting, OpenHeader, OpenScan,
         AppendRecord, AppendFails, CrashInAppend, MarkClean, MarkCleanHeader, MarkCleanFails,
         CompactWrite, CompactRename, CompactFails, Close, CrashInHeader
<1> QED
  BY <1>1, Zenon DEF Flags

\* The bound never locks the store out: what append() lets into the file is never
\* more than the next open() accepts.
THEOREM StoreReopens == Spec => []ReopensWithinBound
<1>1. Init => Flags
  BY DEF Init, Flags
<1>2. HeaderInv /\ LogInv /\ Flags => ReopensWithinBound
  BY DEF HeaderInv, HeaderTypes, HeaderRecord, LogInv, LogTypes, Entries, Flags,
         ReopensWithinBound, TypeOK
<1> QED
  BY <1>1, <1>2, FlagsStep, StoreHeader, StoreLog, PTL DEF Spec
=============================================================================
