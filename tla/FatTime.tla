------------------------------- MODULE FatTime -------------------------------
(***************************************************************************)
(* The time stamps of files: nilefs_convert_rtc_datetime_to_fat and        *)
(* get_fattime (src/storage/diskio.c), which turn the date and time of the *)
(* real-time clock, seven bytes in BCD, into the 32 bits of a FAT stamp:   *)
(* seven bits of years, four of months, five of days, five of hours, six   *)
(* of minutes and five of pairs of seconds.                                *)
(***************************************************************************)
EXTENDS Integers

\* wsx_bcd8_to_int
FromBcd(bcd) == ((bcd \div 16) * 10) + (bcd % 16)

\* Bit 7 of the hour says that it is an afternoon's, on a clock of twelve hours.
Hour(bcd) ==
    LET h == FromBcd(bcd % 128) IN
    IF bcd >= 128 /\ h < 12 THEN h + 12 ELSE h

\* What the clock sends.
DateTime == [ year : 0 .. 255, month : 0 .. 255, day : 0 .. 255, hour : 0 .. 255,
              minute : 0 .. 255, second : 0 .. 255 ]

\* The shifts by 25, 21, 16, 11 and 5.
Pack(y, m, d, h, i, s) == ((((y * 16 + m) * 32 + d) * 32 + h) * 64 + i) * 32 + s

\* A field that is out of range is left out.  What is or'ed does not overlap as
\* long as the month is one; lines 717 and 718 put the month where the hour and
\* the minute belong.
Stamp(t) ==
    Pack(IF FromBcd(t.year) <= 99   THEN FromBcd(t.year) + 20       ELSE 0,
         IF FromBcd(t.month) <= 12  THEN FromBcd(t.month)           ELSE 0,
         IF FromBcd(t.day) <= 31    THEN FromBcd(t.day)             ELSE 0,
         IF Hour(t.hour) <= 23      THEN FromBcd(t.month)           ELSE 0,
         IF FromBcd(t.minute) <= 59 THEN FromBcd(t.month)           ELSE 0,
         IF FromBcd(t.second) <= 59 THEN FromBcd(t.second) \div 2   ELSE 0)

\* Where the clock does not answer with seven bytes, get_fattime returns a fixed
\* date, FF_NORTC_YEAR, _MON and _MDAY, at midnight.
FatTime(answered, t) == IF answered >= 7 THEN Stamp(t) ELSE Pack(2025 - 1980, 10, 31, 0, 0, 0)

----------------------------------------------------------------------------
\* The fields of a stamp, as FatFs reads them.
StampSecond(stamp) == stamp % 32
StampMinute(stamp) == (stamp \div 32) % 64
StampHour(stamp)   == ((stamp \div 32) \div 64) % 32
StampDay(stamp)    == (((stamp \div 32) \div 64) \div 32) % 32
StampMonth(stamp)  == ((((stamp \div 32) \div 64) \div 32) \div 32) % 16
StampYear(stamp)   == ((((stamp \div 32) \div 64) \div 32) \div 32) \div 16

\* A date and time of this century.
Valid(t) ==
    /\ t \in DateTime
    /\ FromBcd(t.year) <= 99
    /\ FromBcd(t.month) \in 1 .. 12
    /\ FromBcd(t.day) \in 1 .. 31
    /\ Hour(t.hour) <= 23
    /\ FromBcd(t.minute) <= 59
    /\ FromBcd(t.second) <= 59

=============================================================================
