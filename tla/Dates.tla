-------------------------------- MODULE Dates -------------------------------
(***************************************************************************)
(* The dates of If-Modified-Since (http.c).  A text is a sequence of       *)
(* lower case characters; an index counts from 0.  A routine that moves an *)
(* index returns [value, index].                                           *)
(***************************************************************************)
EXTENDS Integers, Sequences

Numerals == <<"0", "1", "2", "3", "4", "5", "6", "7", "8", "9">>
NumeralValue == [c \in {Numerals[i] : i \in 1 .. 10} |-> (CHOOSE i \in 1 .. 10 : Numerals[i] = c) - 1]

At(buf, i) == IF i < Len(buf) THEN buf[i + 1] ELSE "\\0"
Parsed(value, index) == [value |-> value, index |-> index]

----------------------------------------------------------------------------
(* Calendar: days since the first day of year 1, which is day 1. *)

GregorianEpoch == 1
\* Mutated GregorianLeapYearP: each fourth year.
JulianLeapYearP(year) == year % 4 = 0
GregorianLeapYearP(year) == year % 4 = 0 /\ year % 400 \notin {100, 200, 300}

FixedFromGregorian(month, day, year) ==
  GregorianEpoch - 1 + 365 * (year - 1) + ((year - 1) \div 4) - ((year - 1) \div 100)
  + ((year - 1) \div 400) + ((367 * month - 362) \div 12)
  + (IF month <= 2 THEN 0 ELSE IF GregorianLeapYearP(year) THEN -1 ELSE -2) + day

GregorianYearFromFixed(fixedDate) ==
  LET d0 == fixedDate - GregorianEpoch
      d1 == d0 % 146097
      d2 == d1 % 36524
      n400 == d0 \div 146097
      n100 == d1 \div 36524
      n4 == d2 \div 1461
      n1 == (d2 % 1461) \div 365
      year == 400 * n400 + 100 * n100 + 4 * n4 + n1
  IN IF n100 = 4 \/ n1 = 4 THEN year ELSE year + 1

GregorianDateDifferenc(month1, day1, year1, month2, day2, year2) ==
  FixedFromGregorian(month2, day2, year2) - FixedFromGregorian(month1, day1, year1)

SECONDS_PER_DAY == 24 * 60 * 60
\* month counts from 0.
dateToTimet(year, month, day) ==
  (FixedFromGregorian(month + 1, day, year) - FixedFromGregorian(1, 1, 1970)) * SECONDS_PER_DAY

----------------------------------------------------------------------------
(* Parts of a date. *)

\* The digits among the next characters; others are passed over.
RECURSIVE parseNDIGIT(_, _, _)
parseNDIGIT(buf, digits, index) ==
  IF digits = 0 THEN Parsed(0, index)
  ELSE LET before == parseNDIGIT(buf, digits - 1, index)
           c == At(buf, before.index)
       IN Parsed(IF c \in DOMAIN NumeralValue THEN 10 * before.value + NumeralValue[c]
                 ELSE before.value, before.index + 1)

\* The letters that tell a month, by their place; "" for any.
Months ==
  <<<<"j", "a", "">>, <<"f", "", "">>, <<"m", "a", "r">>, <<"a", "p", "">>, <<"m", "a", "y">>,
    <<"j", "u", "n">>, <<"j", "u", "l">>, <<"a", "u", "">>, <<"s", "", "">>, <<"o", "", "">>,
    <<"n", "", "">>, <<"d", "", "">>>>
parseMonth(buf, index) ==
  LET found == {m \in 1 .. 12 : \A k \in 1 .. 3 : Months[m][k] \in {"", At(buf, index + k - 1)}}
  IN IF found = {} THEN Parsed(-1, index)
     ELSE Parsed((CHOOSE m \in found : TRUE) - 1, index + 3)

\* Two digits are read only if four are not, which parseNDIGIT never says.
Century(year) == IF year < 70 THEN year + 2000 ELSE year + 1900
parseYear(buf, index) ==
  LET four == parseNDIGIT(buf, 4, index)
      two == parseNDIGIT(buf, 2, four.index)
  IN IF four.value >= 0 THEN four
     ELSE IF two.value >= 0 THEN Parsed(Century(two.value), two.index)
     ELSE Parsed(two.value, index)

parseTime(buf, index) ==
  LET hour == parseNDIGIT(buf, 2, index)
      minute == parseNDIGIT(buf, 2, hour.index + 1)
      second == parseNDIGIT(buf, 2, minute.index + 1)
  IN Parsed((hour.value * 60 + minute.value) * 60 + second.value, second.index)

\* ", 06 nov 1994"
parseDate1or2(buf, index) ==
  LET day == parseNDIGIT(buf, 2, index + 2)
      month == parseMonth(buf, day.index + 1)
      year == parseYear(buf, month.index + 1)
  IN IF At(buf, index) # "," \/ month.value < 0 THEN Parsed(-1, index)
     ELSE Parsed(IF year.value < 1970 THEN 0
                 ELSE dateToTimet(year.value, month.value, day.value), year.index)

\* "nov  6 08:49:37 1994"
parseDate3Time(buf, index) ==
  LET month == parseMonth(buf, index)
      at == month.index + 1
      day == IF At(buf, at) = " " THEN parseNDIGIT(buf, 1, at + 1) ELSE parseNDIGIT(buf, 2, at)
      time == parseTime(buf, day.index + 1)
      year == parseYear(buf, time.index + 1)
  IN IF month.value < 0 THEN Parsed(-1, index)
     ELSE Parsed(dateToTimet(year.value, month.value, day.value) + time.value, year.index)

\* Letters that tell a weekday, the letter that tells its long name, and sizeof
\* the long name, which counts its null.
Weekdays ==
  <<[start |-> <<"s", "u">>, long |-> "d", size |-> 7], [start |-> <<"m">>, long |-> "d", size |-> 7],
    [start |-> <<"t", "u">>, long |-> "s", size |-> 8], [start |-> <<"w">>, long |-> "n", size |-> 10],
    [start |-> <<"t", "h">>, long |-> "r", size |-> 9], [start |-> <<"f">>, long |-> "d", size |-> 7],
    [start |-> <<"s", "a">>, long |-> "u", size |-> 9]>>
getInc(buf, testIndex, testChar, foundIncrement, notfoundIncrement) ==
  IF At(buf, testIndex) = testChar THEN foundIncrement ELSE notfoundIncrement
parseWeekday(buf, index) ==
  LET found == {d \in 1 .. 7 : \A k \in DOMAIN Weekdays[d].start :
                                 At(buf, index + k - 1) = Weekdays[d].start[k]}
      day == Weekdays[CHOOSE d \in found : TRUE]
  IN IF found = {} THEN Parsed(-1, index)
     ELSE Parsed((CHOOSE d \in found : TRUE) - 1,
                 index + getInc(buf, index + 3, day.long, day.size, 3))

\* cmd is in lower case.
dateParse(cmd) ==
  LET weekday == parseWeekday(cmd, 0)
      date == parseDate1or2(cmd, weekday.index)
      time == parseTime(cmd, date.index + 1)
  IN IF weekday.value < 0 THEN 0
     ELSE IF date.value < 0 THEN parseDate3Time(cmd, weekday.index + 1).value
     ELSE date.value + time.value
=============================================================================
