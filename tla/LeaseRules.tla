------------------------------ MODULE LeaseRules ------------------------------
(***************************************************************************)
(* What a worktree lease permits and when it expires (lease.rs): globs     *)
(* over repository paths, and the timestamps it parses and prints, next to *)
(* definitions of what they should mean.                                   *)
(*                                                                         *)
(* A path or a pattern is a sequence of segments, the text split at "/",   *)
(* and a segment is a sequence of characters.  A timestamp is the record   *)
(* of its fields: the place of the digits is left out.  Seconds since 1970 *)
(* are kept as days and seconds of the day.                                *)
(***************************************************************************)
EXTENDS Integers, Sequences, FiniteSets

CONSTANTS
  Chars,              \* the characters of paths, patterns and task ids
  NoTime,             \* no timestamp
  Patterns, Paths,    \* the patterns and paths the agreement is checked for
  Years               \* the years it is checked for

\* What timestamps are made of.
Timestamps ==
  [year : Int, month : Int, day : Int, hour : Nat, minute : Nat, second : Nat,
   sign : {-1, 1}, offHour : Nat, offMinute : Nat]

ASSUME RulesAssumption ==
  /\ NoTime \notin Timestamps /\ NoTime \notin Int \X Int
  /\ Years \subseteq Int
  /\ "*" \in Chars
  /\ Patterns \subseteq Seq(Seq(Chars)) /\ Paths \subseteq Seq(Seq(Chars))

-----------------------------------------------------------------------------
(* Globs.                                                                  *)

Star == "*"
Globstar == <<Star, Star>>

\* glob_seg_recurse: match[p, s] when the pattern from p on matches the
\* segment from s on.
GlobSegmentMatch(pat, seg) ==
  LET match[at \in (1..Len(pat) + 1) \X (1..Len(seg) + 1)] ==
        LET p == at[1]
            s == at[2]
        IN \/ p > Len(pat) /\ s > Len(seg)
           \/ /\ p <= Len(pat) /\ pat[p] = Star
              /\ match[<<p + 1, s>>] \/ (s <= Len(seg) /\ match[<<p, s + 1>>])
           \/ /\ p <= Len(pat) /\ pat[p] # Star
              /\ s <= Len(seg) /\ pat[p] = seg[s] /\ match[<<p + 1, s + 1>>]
  IN match[<<1, 1>>]

\* glob_match_segments.
GlobMatch(pattern, path) ==
  LET match[at \in (1..Len(pattern) + 1) \X (1..Len(path) + 1)] ==
        LET p == at[1]
            s == at[2]
        IN \/ p > Len(pattern) /\ s > Len(path)
           \/ /\ p <= Len(pattern) /\ pattern[p] = Globstar
              /\ \E k \in s..Len(path) + 1 : match[<<p + 1, k>>]
           \/ /\ p <= Len(pattern) /\ pattern[p] # Globstar
              /\ s <= Len(path) /\ GlobSegmentMatch(pattern[p], path[s])
              /\ match[<<p + 1, s + 1>>]
  IN match[<<1, 1>>]

EmptyPath == << <<>> >>

\* matches_path.
MatchesPath(lease, path) ==
  /\ path # EmptyPath
  /\ \A pat \in lease.forbidden : ~GlobMatch(pat, path)
  /\ \E pat \in lease.allowed : GlobMatch(pat, path)

-----------------------------------------------------------------------------
(* Timestamps.                                                             *)

IsLeap(year) == (year % 4 = 0 /\ year % 100 # 0) \/ year % 400 = 0

DaysInMonth(year, month) ==
  CASE month \in {1, 3, 5, 7, 8, 10, 12} -> 31
    [] month \in {4, 6, 9, 11} -> 30
    [] month = 2 -> IF IsLeap(year) THEN 29 ELSE 28

\* Years are counted from March, so that the leap day is the last of its
\* year, in eras of 400.  The days of an era before its year yoe:
EraDays(yoe) == yoe * 365 + yoe \div 4 - yoe \div 100

MarchMonth(month) == IF month > 2 THEN month - 3 ELSE month + 9

DayOfYear(month, day) == (153 * MarchMonth(month) + 2) \div 5 + day - 1

\* ymd_hms_to_unix, the days.
DaysFromCivil(year, month, day) ==
  LET y == IF month <= 2 THEN year - 1 ELSE year
      era == y \div 400
  IN era * 146097 + EraDays(y - era * 400) + DayOfYear(month, day) - 719468

\* Fault: the last day of an era begins the next year.
NoEraEnd(doe) == (doe - doe \div 1460 + doe \div 36524) \div 365

YearOfEra(doe) == (doe - doe \div 1460 + doe \div 36524 - doe \div 146096) \div 365

DateOfYear(y, doy) ==
  LET mp == (5 * doy + 2) \div 153
      month == IF mp < 10 THEN mp + 3 ELSE mp - 9
  IN [year |-> IF month <= 2 THEN y + 1 ELSE y,
      month |-> month, day |-> doy - (153 * mp + 2) \div 5 + 1]

\* unix_to_rfc3339, and days_to_ymd of agents.rs.
CivilFromDays(days) ==
  LET era == (days + 719468) \div 146097
      doe == days + 719468 - era * 146097
  IN DateOfYear(YearOfEra(doe) + era * 400, doe - EraDays(YearOfEra(doe)))

ADay == 86400

Moment(days, secs) == <<days + secs \div ADay, secs % ADay>>

\* rfc3339_to_unix: the fields of the date and the clock are checked, those
\* of the offset are not.
RfcToUnix(t) ==
  IF /\ t.month \in 1..12 /\ t.day \in 1..DaysInMonth(t.year, t.month)
     /\ t.hour <= 23 /\ t.minute <= 59 /\ t.second <= 59
  THEN Moment(DaysFromCivil(t.year, t.month, t.day),
              t.hour * 3600 + t.minute * 60 + t.second
                - t.sign * (t.offHour * 3600 + t.offMinute * 60))
  ELSE NoTime

Later(a, b) == a[1] > b[1] \/ (a[1] = b[1] /\ a[2] > b[2])

\* is_expired.
IsExpired(lease, now) ==
  /\ lease.expires # NoTime
  /\ RfcToUnix(now) # NoTime /\ RfcToUnix(lease.expires) # NoTime
  /\ Later(RfcToUnix(now), RfcToUnix(lease.expires))

-----------------------------------------------------------------------------
(* What they should mean.                                                  *)

\* n items cover a word of m places when it can be cut into n pieces, each of
\* which fits its item: fits has <<i, a, b>> when the places after a up to b
\* fit item i.
Covers(n, m, fits) ==
  \E cut \in [0..n -> 0..m] :
    /\ cut[0] = 0 /\ cut[n] = m
    /\ \A i \in 1..n : cut[i - 1] <= cut[i] /\ <<i, cut[i - 1], cut[i]>> \in fits

Pieces(n, m) == (1..n) \X (0..m) \X (0..m)

\* A character of a pattern fits itself, and a segment a segment it covers.
CharPieces(pat, seg) ==
  {x \in Pieces(Len(pat), Len(seg)) :
     pat[x[1]] = Star \/ (x[3] = x[2] + 1 /\ pat[x[1]] = seg[x[3]])}

SegmentCovered(pat, seg) == Covers(Len(pat), Len(seg), CharPieces(pat, seg))

PathPieces(pattern, path) ==
  {x \in Pieces(Len(pattern), Len(path)) :
     \/ pattern[x[1]] = Globstar
     \/ x[3] = x[2] + 1 /\ SegmentCovered(pattern[x[1]], path[x[3]])}

PathCovered(pattern, path) == Covers(Len(pattern), Len(path), PathPieces(pattern, path))

Tomorrow(d) ==
  IF d.day < DaysInMonth(d.year, d.month) THEN [d EXCEPT !.day = @ + 1]
  ELSE IF d.month < 12 THEN [d EXCEPT !.month = @ + 1, !.day = 1]
  ELSE [year |-> d.year + 1, month |-> 1, day |-> 1]

DayNumber(d) == DaysFromCivil(d.year, d.month, d.day)

Dates == {d \in [year : Years, month : 1..12, day : 1..31] :
            d.day <= DaysInMonth(d.year, d.month)}

\* A clock reading on a day, a whole number of minutes off UTC.
Stamp(d, hour, minute, sign, off) ==
  [year |-> d.year, month |-> d.month, day |-> d.day,
   hour |-> hour, minute |-> minute, second |-> 0,
   sign |-> sign, offHour |-> off \div 60, offMinute |-> off % 60]

\* lease.rs 29-41 and 426-493: backtracking finds a match whenever there is one.
\* A forbidden pattern outweighs an allowed one, and no pattern allows the
\* empty path.
GlobsMean ==
  \A pattern \in Patterns, path \in Paths :
    LET covered == PathCovered(pattern, path)
        anywhere == {<<Globstar>>}
    IN /\ GlobMatch(pattern, path) <=> covered
       /\ MatchesPath([allowed |-> {pattern}, forbidden |-> {}], path)
            <=> path # EmptyPath /\ covered
       /\ MatchesPath([allowed |-> anywhere, forbidden |-> {pattern}], path)
            <=> path # EmptyPath /\ ~covered

\* Day numbers count days over months, leap days, centuries and eras, and
\* printing one gives the date back.
DaysCount ==
  /\ DaysFromCivil(1970, 1, 1) = 0
  /\ \A d \in Dates : /\ DayNumber(Tomorrow(d)) = DayNumber(d) + 1
                      /\ CivilFromDays(DayNumber(d)) = d

\* A lease that expires in the last minute of a day, off minutes west of UTC,
\* has not expired off - 1 minutes into the next day, and has one minute later.
ExpiryMeans ==
  \A d \in {e \in Dates : e.month \in {2, 12}}, off \in {1, 60, 840} :
    LET expiring == [expires |-> Stamp(d, 23, 59, -1, off)]
        at(m) == Stamp(Tomorrow(d), m \div 60, m % 60, 1, 0)
    IN ~IsExpired(expiring, at(off - 1)) /\ IsExpired(expiring, at(off))
==============================================================================
