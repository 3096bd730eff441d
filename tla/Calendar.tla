------------------------------ MODULE Calendar ------------------------------
(***************************************************************************)
(* The DVB time of day: the Modified Julian Date with its conversions in   *)
(* both directions, packed decimal, and the advance of the muxer's TDT and *)
(* TOT by the seconds of stream time gone.  The machine is a Gregorian     *)
(* calendar that counts the days and knows no formula.                     *)
(***************************************************************************)
EXTENDS Integers, Sequences

CONSTANTS
    Starts,        \* <<year, month, day, mjd>> of the days the muxer starts on
    MaxDays        \* the days followed from each

VARIABLES
    date,          \* the day: <<year, month, day>>
    second,        \* of the day
    mjd,           \* its number
    start,         \* the instant the muxer was configured with
    days           \* gone since then

calendarVars == <<date, second, mjd, start, days>>

Midnight  == 0
LastSecond == 86399

------------------------------------------------------------------------------
(* The integer formulas of EN 300 468 annex C, as the code scales them.    *)
DecodeMjd(n) ==
    LET yp == ((n - 15078) * 100 - 20) \div 36525
        yd == (yp * 36525) \div 100
        mp == ((n - 14956 - yd) * 10000 - 1) \div 306001
        md == (mp * 306001) \div 10000
        k  == IF mp \in {14, 15} THEN 1 ELSE 0
    IN  <<1900 + yp + k, mp - 1 - 12 * k, n - 14956 - yd - md>>

EncodeMjdInYear(d) ==             \* mutant: January and February end no year
    (14956 + d[3] + ((d[1] - 1900) * 36525) \div 100 + ((d[2] + 1) * 306001) \div 10000) % 65536

EncodeMjd(d) ==
    LET y == d[1] - 1900
        l == IF d[2] \in {1, 2} THEN 1 ELSE 0
    IN  (14956 + d[3] + ((y - l) * 36525) \div 100
               + ((d[2] + 1 + 12 * l) * 306001) \div 10000) % 65536

ToBcd(v)   == 16 * (v \div 10) + (v % 10)
BcdByte(b) == 10 * (b \div 16) + (b % 16)

Instant(d, h, m, s)  == [date |-> d, hour |-> h, minute |-> m, second |-> s]
SecondsInto(t)       == 3600 * t.hour + 60 * t.minute + t.second
DecodeUtcTime(n, bcd) ==
    Instant(DecodeMjd(n), BcdByte(bcd[1]), BcdByte(bcd[2]), BcdByte(bcd[3]))

AdvanceUtc(t, seconds) ==
    LET total == SecondsInto(t) + seconds
        left  == total % 86400
    IN  IF seconds = 0 THEN t
        ELSE DecodeUtcTime((EncodeMjd(t.date) + (total \div 86400)) % 65536,
                           <<ToBcd(left \div 3600), ToBcd((left % 3600) \div 60),
                             ToBcd(left % 60)>>)

------------------------------------------------------------------------------
(* The calendar.                                                           *)
Leap(y)         == y % 4 = 0 /\ (y % 100 # 0 \/ y % 400 = 0)
LengthOf(y, m)  == IF m = 2 THEN (IF Leap(y) THEN 29 ELSE 28)
                   ELSE IF m \in {4, 6, 9, 11} THEN 30 ELSE 31
DayAfter(d) ==
    IF d[3] < LengthOf(d[1], d[2]) THEN <<d[1], d[2], d[3] + 1>>
    ELSE IF d[2] < 12 THEN <<d[1], d[2] + 1, 1>> ELSE <<d[1] + 1, 1, 1>>

At(d, s) == Instant(d, s \div 3600, (s % 3600) \div 60, s % 60)

CalendarInit ==
    /\ \E s \in Starts, at \in {Midnight, LastSecond} :
           /\ date = <<s[1], s[2], s[3]>>
           /\ mjd = s[4]
           /\ second = at
           /\ start = At(<<s[1], s[2], s[3]>>, at)
    /\ days = 0

(* The time between two tables: any instants may be written, the day's     *)
(* first and last are.                                                     *)
ToLastSecond ==
    /\ second = Midnight
    /\ second' = LastSecond
    /\ UNCHANGED <<date, mjd, start, days>>

ToMidnight ==
    /\ second = LastSecond /\ days < MaxDays /\ mjd < 65535
    /\ second' = Midnight
    /\ date' = DayAfter(date)
    /\ mjd' = mjd + 1
    /\ days' = days + 1
    /\ UNCHANGED start

CalendarNext == ToLastSecond \/ ToMidnight

(* The parser reads off a Modified Julian Date the day it is, and the      *)
(* builder writes for that day the number read.                            *)
DatesAgree == DecodeMjd(mjd) = date /\ EncodeMjd(date) = mjd

(* The tables of a muxer that has run for any time say the instant it is,  *)
(* over the ends of days, months and leap years alike.                     *)
UtcAdvances ==
    days <= MaxDays =>
        AdvanceUtc(start, 86400 * days + second - SecondsInto(start)) = At(date, second)
=============================================================================
