------------------------------- MODULE Dates --------------------------------
(***************************************************************************)
(* Dates (jsdate.c) and the two functions of prmjtime.c they rest on.  A   *)
(* date is a number of milliseconds since 1970, or not finite.  The units  *)
(* of the clock are constants, so that the calendar can be checked on a    *)
(* clock of few ticks; a number is an integer, NaN or Infinity.            *)
(***************************************************************************)
EXTENDS Integers, SequencesExt, FiniteSetsExt

CONSTANTS
  NaN, Infinity,
  HoursPerDay, MinutesPerHour, SecondsPerMinute, msPerSecond,    \* all positive
  HalfTimeDomain,         \* the last date
  LocalTZA,               \* the zone, in milliseconds
  Summers,                \* external: the spans, in seconds, in which localtime is an hour ahead
  MaxUnixTime,            \* the last second that localtime is asked for
  FirstYear               \* the year from which PRMJ_basetime counts; 0 in the code

Finite(d) == d \notin {NaN, Infinity}
SecondsPerHour == MinutesPerHour * SecondsPerMinute
SecondsPerDay == HoursPerDay * SecondsPerHour
msPerMinute == SecondsPerMinute * msPerSecond
msPerHour == SecondsPerHour * msPerSecond
msPerDay == SecondsPerDay * msPerSecond

Quot(a, b) == IF a >= 0 THEN a \div b ELSE -((-a) \div b)       \* a / b of C
Fmod(a, b) == a - b * Quot(a, b)
Unsigned(r, m) == IF r < 0 THEN r + m ELSE r

-----------------------------------------------------------------------------
Day(t) == t \div msPerDay
TimeWithinDay(t) == Unsigned(Fmod(t, msPerDay), msPerDay)
Leap(y) == y % 4 = 0 /\ (y % 100 # 0 \/ y % 400 = 0)
DaysInYear(y) == IF Leap(y) THEN 366 ELSE 365
DayFromYear(y) == 365 * (y - 1970) + ((y - 1969) \div 4) - ((y - 1901) \div 100) + ((y - 1601) \div 400)
TimeFromYear(y) == DayFromYear(y) * msPerDay

RECURSIVE YearBetween(_, _, _)
YearBetween(t, lo, hi) ==
  IF hi <= lo THEN lo
  ELSE LET mid == Quot(hi + lo, 2)
       IN IF TimeFromYear(mid) > t THEN YearBetween(t, lo, mid - 1)
          ELSE IF TimeFromYear(mid + 1) > t THEN mid ELSE YearBetween(t, mid + 1, hi)
YearAround(t, lo, hi) == YearBetween(t, Min({lo, hi}), Max({lo, hi}))
YearFromTime(t) == YearAround(t, (Day(t) \div 366) + 1970, (Day(t) \div 365) + 1970)

DayWithinYear(t, year) == Day(t) - DayFromYear(year)
firstDayOfMonth(leap) ==
  IF leap THEN <<0, 31, 60, 91, 121, 152, 182, 213, 244, 274, 305, 335>> ELSE <<0, 31, 59, 90, 120, 151, 181, 212, 243, 273, 304, 334>>

(* The steps from month to month, which MonthFromTime and DateFromTime add *)
(* up one after the other till the day is below.                           *)
MonthSteps(leap) == <<31, IF leap THEN 29 ELSE 28, 31, 30, 31, 30, 31, 31, 30, 31, 30>>
StepsTo(leap, k) == FoldLeft(LAMBDA n, step : n + step, 0, SubSeq(MonthSteps(leap), 1, k))
MonthOfDay(d, leap) == Cardinality({k \in 1 .. 11 : d >= StepsTo(leap, k)})
DateOfDay(d, leap) ==
  LET past == {k \in 1 .. 11 : d > StepsTo(leap, k) - 1}
  IN IF past = {} THEN d + 1 ELSE d - (StepsTo(leap, Max(past)) - 1)
MonthFromTime(t) == LET In(year) == MonthOfDay(DayWithinYear(t, year), Leap(year)) IN In(YearFromTime(t))
DateFromTime(t) == LET In(year) == DateOfDay(DayWithinYear(t, year), Leap(year)) IN In(YearFromTime(t))

WeekDay(t) == Unsigned(Fmod(Day(t) + 4, 7), 7)
HourFromTime(t) == Unsigned(Fmod(t \div msPerHour, HoursPerDay), HoursPerDay)
MinFromTime(t) == Unsigned(Fmod(t \div msPerMinute, MinutesPerHour), MinutesPerHour)
SecFromTime(t) == Unsigned(Fmod(t \div msPerSecond, SecondsPerMinute), SecondsPerMinute)
msFromTime(t) == Unsigned(Fmod(t, msPerSecond), msPerSecond)

MakeTime(hour, min, sec, ms) == ((hour * MinutesPerHour + min) * SecondsPerMinute + sec) * msPerSecond + ms
DayInYear(year, month, date) == DayFromYear(year) + firstDayOfMonth(DaysInYear(year) = 366)[month + 1] + date - 1
MakeDay(year, month, date) == DayInYear(year + (month \div 12), Unsigned(Fmod(month, 12), 12), date)
MakeDate(day, time) == day * msPerDay + time
TIMECLIP(d) == IF Finite(d) /\ ~ ((IF d < 0 THEN -d ELSE d) > HalfTimeDomain) THEN d ELSE NaN
msecFromDate(year, mon, mday, hour, min, sec, ms) == MakeDate(MakeDay(year, mon, mday), MakeTime(hour, min, sec, ms))

-----------------------------------------------------------------------------
(* Daylight saving: the system's localtime and the calendar of prmjtime.c  *)
(* each tell the hour and the minute, and the difference is the saving.    *)
mtab == <<31, 28, 31, 30, 31, 30, 31, 31, 30, 31, 30, 31>>
IS_LEAP(year) == year # 0 /\ Leap(year)
ZoneSeconds == Quot(LocalTZA, msPerSecond)
ToExtendedTime == (DayFromYear(1970) - DayFromYear(FirstYear)) * SecondsPerDay + ZoneSeconds

RECURSIVE YearOf(_, _, _), MonthOf(_, _, _)
YearOf(tsecs, year, days) ==
  LET length == IF IS_LEAP(year) THEN 366 ELSE 365
  IN IF tsecs < length * SecondsPerDay THEN [secs |-> tsecs, year |-> year, days |-> days]
     ELSE YearOf(tsecs - length * SecondsPerDay, year + 1, days + length)
MonthOf(mday, month, leap) ==
  LET length == mtab[month + 1] + (IF month = 1 /\ leap THEN 1 ELSE 0)
  IN IF mday >= length THEN MonthOf(mday - length, month + 1, leap) ELSE [month |-> month, mday |-> mday]
Exploded(year, days, day, m, secs) ==
  [year |-> year, mon |-> m.month, mday |-> m.mday + 1, yday |-> day + 1, wday |-> (days + day + 7) % 7,
   hour |-> secs \div SecondsPerHour, min |-> (secs \div SecondsPerMinute) % MinutesPerHour, sec |-> secs % SecondsPerMinute]
basetime(tsecs) ==
  LET Within(y, day) == Exploded(y.year, y.days, day, MonthOf(day, 0, IS_LEAP(y.year)), y.secs % SecondsPerDay)
      In(y) == Within(y, y.secs \div SecondsPerDay)
  IN In(YearOf(tsecs + ToExtendedTime, FirstYear, 0))

Summer(secs) == \E span \in Summers : span[1] <= secs /\ secs < span[2]
localtime(secs) ==
  LET At(local) == [hour |-> (local \div SecondsPerHour) % HoursPerDay, min |-> (local \div SecondsPerMinute) % MinutesPerHour]
  IN At(secs + ZoneSeconds + (IF Summer(secs) THEN SecondsPerHour ELSE 0))

Mappable(secs) == IF secs > MaxUnixTime THEN MaxUnixTime ELSE IF secs < 0 THEN SecondsPerDay ELSE secs
DSTOffset(secs) ==
  LET Between(tm, prtm) ==
        Unsigned((tm.hour - prtm.hour) * SecondsPerHour + (tm.min - prtm.min) * SecondsPerMinute, SecondsPerDay)
      At(local) == Between(localtime(local), basetime(local))
  IN At(Mappable(secs))
DaylightSavingTA(t) == DSTOffset(Quot(t, msPerSecond)) * msPerSecond
LocalTime(t) == t + LocalTZA + DaylightSavingTA(t)
UTC(t) == t - LocalTZA - DaylightSavingTA(t - LocalTZA)

-----------------------------------------------------------------------------
(* The getters, in the local zone or not.  getSeconds and getMilliseconds  *)
(* are those of UTC.                                                       *)
Zoned(t, local) == IF local THEN LocalTime(t) ELSE t
Getters == {"FullYear", "Year", "Month", "Date", "Day", "Hours", "Minutes", "Seconds", "Milliseconds", "TimezoneOffset"}
GetFrom(field, t) ==
  CASE field = "FullYear" -> YearFromTime(t) [] field = "Year" -> YearFromTime(t) - 1900
    [] field = "Month" -> MonthFromTime(t) [] field = "Date" -> DateFromTime(t) [] field = "Day" -> WeekDay(t)
    [] field = "Hours" -> HourFromTime(t) [] field = "Minutes" -> MinFromTime(t)
    [] field = "Seconds" -> SecFromTime(t) [] field = "Milliseconds" -> msFromTime(t)
Get(field, t, local) ==
  IF ~ Finite(t) THEN t
  ELSE IF field = "TimezoneOffset" THEN Quot(t - LocalTime(t), msPerMinute)
  ELSE GetFrom(field, Zoned(t, local /\ field \notin {"Seconds", "Milliseconds"}))

(* The arguments of a setter: at least one, at most as many as it takes.   *)
Arguments(args, maxargs) == IF args = <<>> THEN <<NaN>> ELSE SubSeq(args, 1, Min({Len(args), maxargs}))
AllFinite(args) == \A i \in DOMAIN args : Finite(args[i])
(* The last maxargs of some fields, the first of those from arguments. *)
Replaced(fields, args, maxargs) ==
  [i \in 1 .. Len(fields) |-> LET k == i - (Len(fields) - maxargs) IN IF k \in DOMAIN args THEN args[k] ELSE fields[i]]
Unzoned(t, local) == TIMECLIP(IF local THEN UTC(t) ELSE t)

TimeFields(t) == <<HourFromTime(t), MinFromTime(t), SecFromTime(t), msFromTime(t)>>
makeTimeOn(lorutime, args, maxargs, local) ==
  LET With(f) == MakeDate(Day(lorutime), MakeTime(f[1], f[2], f[3], f[4]))
  IN Unzoned(With(Replaced(TimeFields(lorutime), args, maxargs)), local)
makeTime(date, args, maxargs, local) ==
  IF ~ Finite(date) THEN date
  ELSE IF ~ AllFinite(Arguments(args, maxargs)) THEN NaN
  ELSE makeTimeOn(Zoned(date, local), Arguments(args, maxargs), maxargs, local)

DateFields(t) == <<YearFromTime(t), MonthFromTime(t), DateFromTime(t)>>
makeDateOn(lorutime, args, maxargs, local) ==
  LET With(f) == MakeDate(MakeDay(f[1], f[2], f[3]), TimeWithinDay(lorutime))
  IN Unzoned(With(Replaced(DateFields(lorutime), args, maxargs)), local)
makeDate(date, args, maxargs, local) ==
  LET Given(given) ==
        IF ~ AllFinite(given) THEN NaN
        ELSE IF ~ Finite(date) /\ Len(given) < 3 THEN date
        ELSE makeDateOn(IF Finite(date) THEN Zoned(date, local) ELSE 0, given, maxargs, local)
  IN Given(Arguments(args, maxargs))

Setters ==
  [Milliseconds |-> 1, Seconds |-> 2, Minutes |-> 3, Hours |-> 4, Date |-> 1, Month |-> 2, FullYear |-> 3]
Set(field, date, args, local) ==
  IF field \in {"Date", "Month", "FullYear"} THEN makeDate(date, args, Setters[field], local)
  ELSE makeTime(date, args, Setters[field], local)

InCentury(year) == IF year >= 0 /\ year <= 99 THEN year + 1900 ELSE year
setYear(date, year) ==
  LET At(t) == Unzoned(MakeDate(MakeDay(InCentury(year), MonthFromTime(t), DateFromTime(t)), TimeWithinDay(t)), TRUE)
  IN IF Finite(year) THEN At(IF Finite(date) THEN LocalTime(date) ELSE 0) ELSE NaN
setTime(time) == TIMECLIP(time)

(* Date.UTC and the constructor of several arguments. *)
Filled(args) == [i \in 1 .. 7 |-> IF i \in DOMAIN args THEN args[i] ELSE 0]
FromFields(f) == msecFromDate(InCentury(f[1]), f[2], Max({f[3], 1}), f[4], f[5], f[6], f[7])
DateUTC(args) ==
  IF AllFinite(args) THEN TIMECLIP(FromFields(Filled(args))) ELSE args[Min({i \in DOMAIN args : ~ Finite(args[i])})]
NewDate(args) == IF AllFinite(args) THEN TIMECLIP(UTC(FromFields(Filled(args)))) ELSE NaN

(* The dates of the interface to Java: nothing is clipped. *)
NewDateObject(f) == UTC(msecFromDate(f[1], f[2], f[3], f[4], f[5], f[6], 0))
Fields == <<"FullYear", "Month", "Date", "Hours", "Minutes", "Seconds">>
DateSet(field, date, value) ==
  LET From(f) == msecFromDate(f[1], f[2], f[3], f[4], f[5], f[6], f[7])
      Changed(fields) == From([i \in 1 .. 7 |-> IF i < 7 /\ field = Fields[i] THEN value ELSE fields[i]])
      At(t) == UTC(Changed(DateFields(t) \o TimeFields(t)))
  IN IF ~ Finite(date) /\ field # "FullYear" THEN date ELSE At(IF Finite(date) THEN LocalTime(date) ELSE 0)

-----------------------------------------------------------------------------
(* new_explode: the year of a PRMJTime has 16 bits; one that does not fit  *)
(* is mapped to one like it, or clamped.                                   *)
YearFor(year, findEquivalent) ==
  IF year \in -32768 .. 32767 THEN year
  ELSE IF ~ findEquivalent THEN IF year > 0 THEN 32767 ELSE -32768
  ELSE year - 2800 * (IF year >= 0 THEN year \div 2800 ELSE -1 - ((-1 - year) \div 2800))

(* A written date: words, numbers, the characters between them and comments, one after the other. *)
Number(n) == [k |-> "number", n |-> n]
Word(w) == [k |-> "word", w |-> w]
Char(c) == [k |-> "char", c |-> c]
Comment == [k |-> "comment", c |-> "("]
Signed(n) == IF n < 0 THEN <<Char("-"), Number(-n)>> ELSE <<Number(n)>>

days == <<"sun", "mon", "tue", "wed", "thu", "fri", "sat">>
months == <<"jan", "feb", "mar", "apr", "may", "jun", "jul", "aug", "sep", "oct", "nov", "dec">>
Clock(t) == <<Number(HourFromTime(t)), Char(":"), Number(MinFromTime(t)), Char(":"), Number(SecFromTime(t))>>
toGMTString(date) ==
  <<Word(days[WeekDay(date) + 1]), Char(","), Char(" "), Number(DateFromTime(date)), Char(" "), Word(months[MonthFromTime(date) + 1]),
    Char(" ")>> \o Signed(YearFromTime(date)) \o <<Char(" ")>> \o Clock(date) \o <<Char(" "), Word("gmt")>>
HoursAndMinutes(minutes) == Quot(minutes, 60) * 100 + Fmod(minutes, 60)
date_format(date) ==
  LET Local(local, offset) ==
     <<Word(days[WeekDay(local) + 1]), Char(" "), Word(months[MonthFromTime(local) + 1]), Char(" "), Number(DateFromTime(local)),
       Char(" ")>> \o Clock(local)
     \o <<Char(" "), Word("gmt"), Char(IF offset < 0 THEN "-" ELSE "+"), Number(IF offset < 0 THEN -offset ELSE offset), Char(" "),
          Comment, Char(" ")>> \o Signed(YearFromTime(local))
  IN Local(LocalTime(date), HoursAndMinutes((LocalTZA + DaylightSavingTA(date)) \div msPerMinute))

(* date_parseString.  A word stands for every word of the table it begins, *)
(* the last of them; a number is used by what comes before and after it.   *)
wtb ==
  <<"am", "pm", "monday", "tuesday", "wednesday", "thursday", "friday", "saturday", "sunday",
    "january", "february", "march", "april", "may", "june", "july", "august", "september", "october", "november", "december",
    "gmt", "ut", "utc", "est", "edt", "cst", "cdt", "mst", "mdt", "pst", "pdt">>
Zones == [gmt |-> 0, ut |-> 0, utc |-> 0, est |-> 5, edt |-> 4, cst |-> 6, cdt |-> 5, mst |-> 7, mdt |-> 6, pst |-> 8, pdt |-> 7]
Begins(w) == {k \in DOMAIN wtb : Len(w) <= Len(wtb[k]) /\ SubSeq(wtb[k], 1, Len(w)) = w}

Nothing == [year |-> -1, mon |-> -1, mday |-> -1, hour |-> -1, min |-> -1, sec |-> -1, tzoffset |-> -1,
            prevc |-> "", seenplusminus |-> FALSE, ok |-> TRUE]
Bad(p) == [p EXCEPT !.ok = FALSE]
ParseWord(p, w) ==
  LET k == Max(Begins(w))
  IN IF Len(w) < 2 \/ Begins(w) = {} THEN Bad(p)
     ELSE IF k = 2 THEN IF p.hour > 12 \/ p.hour < 0 THEN Bad(p) ELSE [p EXCEPT !.hour = @ + 12, !.prevc = ""]
     ELSE IF k < 10 THEN [p EXCEPT !.prevc = ""]
     ELSE IF k < 22 THEN IF p.mon < 0 THEN [p EXCEPT !.mon = k - 10, !.prevc = ""] ELSE Bad(p)
     ELSE [p EXCEPT !.tzoffset = Zones[wtb[k]] * 60, !.prevc = ""]

Offset(p, n) ==
  LET minutes == IF n < 24 THEN n * 60 ELSE (n % 100) + (n \div 100) * 60
  IN IF p.tzoffset \notin {0, -1} THEN Bad(p)
     ELSE [p EXCEPT !.tzoffset = IF p.prevc = "+" THEN -minutes ELSE minutes, !.seenplusminus = TRUE]
ReadYear(p, n, c) ==
  IF p.year < 0 /\ c \in {" ", ",", "/", "end"} THEN [p EXCEPT !.year = IF n < 100 THEN n + 1900 ELSE n] ELSE Bad(p)
FirstFree(p, fields, n) ==       \* the first field not yet read takes n
  LET free == {i \in DOMAIN fields : p[fields[i]] < 0} IN IF free = {} THEN Bad(p) ELSE [p EXCEPT ![fields[Min(free)]] = n]
Used(p, n, c) ==
  IF p.prevc \in {"+", "-"} THEN Offset(p, n)
  ELSE IF n >= 70 \/ (p.prevc = "/" /\ p.mon >= 0 /\ p.mday >= 0 /\ p.year < 0) THEN ReadYear(p, n, c)
  ELSE IF c = ":" THEN FirstFree(p, <<"hour", "min">>, n)
  ELSE IF c = "/" THEN FirstFree(p, <<"mon", "mday">>, IF p.mon < 0 THEN n - 1 ELSE n)
  ELSE IF c \notin {"end", " ", ",", "-"} THEN Bad(p)
  ELSE IF p.seenplusminus /\ n < 60 THEN [p EXCEPT !.tzoffset = IF @ < 0 THEN @ - n ELSE @ + n]
  ELSE IF p.hour >= 0 /\ (p.min < 0 \/ p.sec < 0) THEN FirstFree(p, <<"min", "sec">>, n)
  ELSE FirstFree(p, <<"mday">>, n)
ParseNumber(p, n, c) == [Used(p, n, c) EXCEPT !.prevc = ""]
FirstChar(t) == CASE t.k = "number" -> "0" [] t.k = "word" -> "a" [] OTHER -> t.c
ParseChar(p, c, next) ==
  IF c \in {" ", ","} \/ (c = "-" /\ next # "0") THEN p ELSE [p EXCEPT !.prevc = c]
ParseToken(p, s, i) ==
  LET t == s[i]
      next == IF i < Len(s) THEN FirstChar(s[i + 1]) ELSE "end"
  IN CASE t.k = "number" -> ParseNumber(p, t.n, next)
       [] t.k = "word" -> ParseWord(p, t.w)
       [] t.k = "char" -> ParseChar(p, t.c, next)
       [] t.k = "comment" -> p
Parsed(s) == FoldLeft(LAMBDA p, i : IF p.ok THEN ParseToken(p, s, i) ELSE p, Nothing, [i \in 1 .. Len(s) |-> i])
TimeParsed(p) ==
  LET Zone(time) == IF p.tzoffset = -1 THEN UTC(time) ELSE time + p.tzoffset * msPerMinute
  IN IF ~ p.ok \/ p.year < 0 \/ p.mon < 0 \/ p.mday < 0 THEN NaN
     ELSE Zone(msecFromDate(p.year, p.mon, p.mday, Max({p.hour, 0}), Max({p.min, 0}), Max({p.sec, 0}), 0))
parseString(s) == TimeParsed(Parsed(s))
date_parse(s) == TIMECLIP(parseString(s))

-----------------------------------------------------------------------------
(***************************************************************************)
(* Dates by definition: the calendar by the lengths of its months and      *)
(* years, a field changed and the others left, a time of the local clock   *)
(* against the one it came from, a written date against its fields.        *)
(***************************************************************************)

CONSTANTS Years, Times, Numbers
Hour == msPerHour
MonthLength(y, m) == IF m = 1 THEN IF Leap(y) THEN 29 ELSE 28 ELSE IF m \in {3, 5, 8, 10} THEN 30 ELSE 31
Past(y, m) == SumSet({100 * k + MonthLength(y, k) : k \in 0 .. m - 1}) - SumSet({100 * k : k \in 0 .. m - 1})
StartOfMonth(y, m) == DayFromYear(y + (m \div 12)) + Past(y + (m \div 12), m % 12)

CalendarOf(t, y, m, d, parts, like) ==
  /\ TimeFromYear(y) <= t /\ t < TimeFromYear(y + 1)
  /\ DayFromYear(y + 1) = DayFromYear(y) + DaysInYear(y)
  /\ m \in 0 .. 11 /\ d \in 1 .. MonthLength(y, m) /\ Day(t) = StartOfMonth(y, m) + d - 1
  /\ t = msecFromDate(y, m, d, parts[1], parts[2], parts[3], parts[4])
  /\ MakeDay(y - 1, m + 12, d) = Day(t) /\ MakeDay(y + 1, m - 12, d) = Day(t)
  /\ WeekDay(t + msPerDay) = (WeekDay(t) + 1) % 7 /\ WeekDay(0) = 4
  /\ like \in -32768 .. 32767 /\ Leap(like) = Leap(y) /\ WeekDay(TimeFromYear(like)) = WeekDay(TimeFromYear(y))
CalendarIn(t, y) == CalendarOf(t, y, MonthFromTime(t), DateFromTime(t), TimeFields(t), YearFor(y, TRUE))
CalendarRight(t) == CalendarIn(t, YearFromTime(t))

(* The calendar of prmjtime.c, from its first year on. *)
BasetimeOf(local, b, next) ==
  /\ <<b.year, b.mon, b.mday, b.hour, b.min, b.sec>> = DateFields(local) \o SubSeq(TimeFields(local), 1, 3)
  /\ b.yday = DayWithinYear(local, b.year) + 1
  /\ next.wday = (b.wday + 1) % 7
BasetimeRight(t) == BasetimeOf(t + LocalTZA, basetime(t \div msPerSecond), basetime(t \div msPerSecond + SecondsPerDay))

-----------------------------------------------------------------------------
(* The instants at which the local clock shows a time. *)
Shown(local) == {t \in {local - LocalTZA, local - LocalTZA - Hour} : LocalTime(t) = local}
Skipped(local) == Shown(local) = {}
ZoneOf(t, local, shown, back) ==
  /\ local - t - LocalTZA = IF Summer(Mappable(t \div msPerSecond)) THEN Hour ELSE 0
  /\ UTC(local) \in shown
  /\ (back = t \/ (Skipped(t) /\ \E s \in {-1, 1} : back = t + s * Hour))
  /\ Get("TimezoneOffset", t, TRUE) * msPerMinute = t - local
ZoneAt(t, local) == ZoneOf(t, local, Shown(local), LocalTime(UTC(t)))
ZoneRight(t) == ZoneAt(t, LocalTime(t))

Units4 == <<msPerHour, msPerMinute, msPerSecond, 1>>
(* The time a setter is to show: the fields set in place of the old ones. *)
WantedTime(zoned, old, new) == zoned + FoldLeft(LAMBDA sum, i : sum + (new[i] - old[i]) * Units4[i], 0, <<1, 2, 3, 4>>)
WantedDate(zoned, new) == MakeDate(StartOfMonth(new[1], new[2]) + new[3] - 1, zoned % msPerDay)
Wanted(field, zoned, args) ==
  LET New(old) == [i \in DOMAIN old |-> LET k == i - (Len(old) - Setters[field]) IN IF k \in DOMAIN args THEN args[k] ELSE old[i]]
      Time(old) == WantedTime(zoned, old, New(old))
  IN IF field \in {"Date", "Month", "FullYear"} THEN WantedDate(zoned, New(DateFields(zoned))) ELSE Time(TimeFields(zoned))
SetTo(t, field, used, local, r, wanted) ==
  IF ~ local THEN r = TIMECLIP(wanted)
  ELSE /\ (r = NaN) = (TIMECLIP(UTC(wanted)) = NaN)
       /\ r # NaN => r \in Shown(wanted) \/ Skipped(wanted)
       /\ Finite(t) /\ r # NaN /\ Len(used) = 1 =>
            /\ field # "Milliseconds" => DateSet(field, t, used[1]) = r
            /\ field = "FullYear" /\ used[1] >= 100 => setYear(t, used[1]) = r
SetOn(t, field, used, local, r) ==
  IF used = <<>> \/ ~ AllFinite(used) \/ (~ Finite(t) /\ Len(used) < 3) THEN ~ Finite(r)
  ELSE SetTo(t, field, used, local, r, Wanted(field, IF Finite(t) THEN Zoned(t, local) ELSE 0, used))
SetRight(t, field, args, local) ==
  SetOn(t, field, SubSeq(args, 1, Min({Len(args), Setters[field]})), local, Set(field, t, args, local))

Century(f) == [f EXCEPT ![1] = IF @ \in 0 .. 99 THEN @ + 1900 ELSE @, ![3] = Max({@, 1})]
NewOf(f, new, utc, wanted) ==
  /\ utc = TIMECLIP(wanted)
  /\ new # NaN => /\ new \in Shown(wanted) \/ Skipped(wanted)
                  /\ f[1] >= 100 => new = NewDateObject(Century(f))
WantedNew(f) == MakeDate(StartOfMonth(f[1], f[2]) + f[3] - 1, f[4] * Hour)
NewRight(args) ==
  LET Six(f) == NewOf(f, NewDate(args), DateUTC(args), WantedNew(Century(f)))
  IN IF AllFinite(args) THEN Six([i \in 1 .. 6 |-> IF i \in DOMAIN args THEN args[i] ELSE IF i = 3 THEN 1 ELSE 0])
     ELSE ~ Finite(NewDate(args)) /\ ~ Finite(DateUTC(args))

-----------------------------------------------------------------------------
(* Ways to write a date, with or without a zone. *)
Space == Char(" ")
Time2(f) == <<Number(f.hour), Char(":"), Number(f.min)>>
Time3(f) == Time2(f) \o <<Char(":"), Number(f.sec)>>
Layouts ==
  {"month first", "numbers", "day first", "year first", "half days", "zone before year", "hours and minutes", "short year", "comments"}
Write(layout, f) ==
  LET month == months[f.mon + 1]
  IN CASE layout = "month first" -> <<Word("tue"), Space, Word(month), Space, Number(f.mday), Char(","), Space, Number(f.year), Space>> \o Time3(f)
       [] layout = "numbers" -> <<Number(f.mon + 1), Char("/"), Number(f.mday), Char("/"), Number(f.year), Space>> \o Time2(f)
       [] layout = "day first" -> <<Number(f.mday), Space, Word(month), Space, Number(f.year), Space>> \o Time3(f) \o <<Space, Word("pst")>>
       [] layout = "year first" -> <<Number(f.year), Space, Word(month), Space, Number(f.mday)>>
       [] layout = "half days" -> <<Word(month), Space, Number(f.mday), Space, Number(f.year), Space>>
                                  \o Time2([f EXCEPT !.hour = @ % 12]) \o <<Space, Word(IF f.hour < 12 THEN "am" ELSE "pm")>>
       [] layout = "zone before year" -> <<Word(month), Space, Number(f.mday), Space>> \o Time3(f)
                                  \o <<Space, Word("gmt"), Char("+"), Number(430), Space, Number(f.year)>>
       [] layout = "hours and minutes" -> <<Word(month), Space, Number(f.mday), Space>> \o Time3(f)
                                  \o <<Space, Word("gmt"), Char("-"), Number(3), Char(":"), Number(30), Space, Number(f.year)>>
       [] layout = "short year" -> <<Number(f.mon + 1), Char("/"), Number(f.mday), Char("/"), Number(f.year - 1900)>>
       [] layout = "comments" -> <<Comment, Word(month), Comment, Space, Number(f.mday), Space, Comment, Number(f.year), Space, Word("utc")>>
(* What the layout leaves out, and the minutes it is from GMT: NaN for the local zone. *)
Kept(layout) ==
  CASE layout \in {"month first", "day first", "zone before year", "hours and minutes"} -> {"hour", "min", "sec"}
    [] layout \in {"numbers", "half days"} -> {"hour", "min"}
    [] OTHER -> {}
FromGMT(layout) ==
  CASE layout = "day first" -> 480 [] layout = "zone before year" -> -270 [] layout = "hours and minutes" -> 210
    [] layout = "comments" -> 0 [] OTHER -> NaN
FieldsOf(t) ==
  LET d == DateFields(t) f == TimeFields(t)
  IN [year |-> d[1], mon |-> d[2], mday |-> d[3], hour |-> f[1], min |-> f[2], sec |-> f[3]]
WrittenAs(layout, f, wanted, r) ==
  \/ layout = "short year" /\ f.year \notin 1900 .. 1999
  \/ FromGMT(layout) # NaN /\ r = wanted + FromGMT(layout) * msPerMinute
  \/ FromGMT(layout) = NaN /\ (Skipped(wanted) \/ r \in Shown(wanted))
WantedOf(layout, t, f) ==
  LET Of(x, unit) == IF x \in Kept(layout) THEN f[x] * unit ELSE 0
  IN Day(t) * msPerDay + Of("hour", msPerHour) + Of("min", msPerMinute) + Of("sec", msPerSecond)
FormatRight(t) ==
  LET Written(f) == \A layout \in Layouts : WrittenAs(layout, f, WantedOf(layout, t, f), date_parse(Write(layout, f)))
  IN date_parse(date_format(t)) = t /\ date_parse(toGMTString(t)) = t /\ Written(FieldsOf(t))

-----------------------------------------------------------------------------
DateCasesOf(method) ==
  CASE method = "calendar" -> Years \X {-1, 0, 1, 30, 31, 58, 59, 60, 180, 364, 365} \X {0, 1, msPerDay - 1}
    [] method \in {"zone", "text"} -> {<<t>> : t \in Times}
    [] method = "set" -> (Times \cup {NaN}) \X (DOMAIN Setters) \X SeqOf(Numbers, 2) \X BOOLEAN
    [] method = "years" -> (Times \cup {NaN}) \X {"FullYear"} \X {<<y, m, d>> : y \in Numbers, m \in {1, 13, -1}, d \in {1, 0, 31}} \X BOOLEAN
    [] method = "new" -> UNION {[1 .. n -> Numbers] : n \in 2 .. 4}
DateRight(method, case) ==
  CASE method = "calendar" -> LET t == TimeFromYear(case[1]) + case[2] * msPerDay + case[3]
                              IN CalendarRight(t) /\ (case[1] \in FirstYear + 1 .. FirstYear + 60 => BasetimeRight(t))
    [] method = "zone" -> ZoneRight(case[1])
    [] method = "text" -> FormatRight(case[1])
    [] method \in {"set", "years"} -> SetRight(case[1], case[2], case[3], case[4])
    [] method = "new" -> NewRight(case)
=============================================================================
