------------------------------- MODULE Calendar -----------------------------
(***************************************************************************)
(* What dates mean: days counted by years and by months, and two of the    *)
(* three ways in which RFC 2616 lets a client write a date.  The third, of *)
(* RFC 850, has no place here: dateParse is meant to read such dates, and  *)
(* reads none of them (see README.md).                                     *)
(***************************************************************************)
EXTENDS Dates, SequencesExt, Folds, FiniteSets

Leap(year) == year % 4 = 0 /\ (year % 100 # 0 \/ year % 400 = 0)
DaysIn(month, year) ==
  IF month = 2 THEN (IF Leap(year) THEN 29 ELSE 28) ELSE IF month \in {4, 6, 9, 11} THEN 30 ELSE 31
\* Days from the start of a year up to that of a later one.
DaysTo(from, year) == 365 * (year - from) + Cardinality({y \in from .. (year - 1) : Leap(y)})
DayOfYear(day, month, year) ==
  day + FoldLeft(LAMBDA n, m : n + DaysIn(m, year), 0, [m \in 1 .. month - 1 |-> m])

IsDay(d) == d.day <= DaysIn(d.month, d.year)

\* Days are numbered one after the other, from the first of all and from the
\* first of 1970, and the number of a day tells its year.
CalendarRight(out, d) ==
  /\ d.year <= 401 => out.fixed = DaysTo(1, d.year) + DayOfYear(d.day, d.month, d.year)
  /\ d.year >= 1970 => out.since = DaysTo(1970, d.year) + DayOfYear(d.day, d.month, d.year) - 1
  /\ out.year = d.year

MonthName ==
  <<<<"j", "a", "n">>, <<"f", "e", "b">>, <<"m", "a", "r">>, <<"a", "p", "r">>, <<"m", "a", "y">>,
    <<"j", "u", "n">>, <<"j", "u", "l">>, <<"a", "u", "g">>, <<"s", "e", "p">>, <<"o", "c", "t">>,
    <<"n", "o", "v">>, <<"d", "e", "c">>>>
DayName ==
  <<<<"s", "u", "n">>, <<"m", "o", "n">>, <<"t", "u", "e">>, <<"w", "e", "d">>, <<"t", "h", "u">>,
    <<"f", "r", "i">>, <<"s", "a", "t">>>>

Digits2(n) == <<Numerals[(n \div 10) + 1], Numerals[(n % 10) + 1]>>
Digits4(n) == Digits2(n \div 100) \o Digits2(n % 100)
TimeText(t) == Digits2(t \div 3600) \o <<":">> \o Digits2((t \div 60) % 60) \o <<":">> \o Digits2(t % 60)

\* d = [day, month, year, weekday, time]
Rfc1123(d) ==
  DayName[d.weekday] \o <<",", " ">> \o Digits2(d.day) \o <<" ">> \o MonthName[d.month]
  \o <<" ">> \o Digits4(d.year) \o <<" ">> \o TimeText(d.time) \o <<" ", "g", "m", "t">>
Asctime(d) ==
  DayName[d.weekday] \o <<" ">> \o MonthName[d.month] \o <<" ">>
  \o (IF d.day < 10 THEN <<" ", Numerals[d.day + 1]>> ELSE Digits2(d.day))
  \o <<" ">> \o TimeText(d.time) \o <<" ">> \o Digits4(d.year)
DateText(form, d) == IF form = "rfc1123" THEN Rfc1123(d) ELSE Asctime(d)

\* Seconds from the start of 1970, of an earlier day below zero.
Seconds(d) ==
  (DaysTo(1901, d.year) - DaysTo(1901, 1970) + DayOfYear(d.day, d.month, d.year) - 1) * SECONDS_PER_DAY
  + d.time

\* A date is its second. In the form of RFC 1123 a day before 1970 counts as
\* the first of them, for the clients that send the year 1601.
DateRight(out, form, d) ==
  out = IF form = "rfc1123" /\ d.year < 1970 THEN d.time ELSE Seconds(d)
=============================================================================
