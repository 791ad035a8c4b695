-------------------------------- MODULE Time --------------------------------
(***************************************************************************)
(* Periods, timeouts and timestamps (core_types/src/time.rs).              *)
(*                                                                         *)
(* A Period is a Duration, [secs, nanos], with a human-readable form: here *)
(* the sequence of its parts, [n, unit, fra], `fra' being the digits after *)
(* the decimal point.  An Iso8601 is an instant and the zone it was        *)
(* written in; its text is a record of the parts the regular expression    *)
(* names, an optional part being a set of at most one element.  Spelling   *)
(* ("w", "wk", "weeks", white space, separators) is left out, except for   *)
(* the sign of the zone.                                                   *)
(*                                                                         *)
(* A value is formatted, the text parsed again, and the result formatted   *)
(* again; or a text is parsed and formatted first.                         *)
(***************************************************************************)
EXTENDS Integers, Sequences, FiniteSets

CONSTANTS
    U64,        \* values of a u64
    Usize,      \* values of a usize: as many, or fewer in WASM
    Periods,    \* durations a behaviour starts from
    MaxDuration, MaxTime    \* ranges of chrono's durations and dates, in seconds

VARIABLES
    kind,       \* "period" or "time"
    value,      \* {} or the value last parsed
    text,       \* the text last formatted, or the input
    first,      \* {} or the value the behaviour started from
    wanted,     \* [known, out]: the result a test of the repository asserts
    turn        \* what is next, and how often it has been done

vars == <<kind, value, text, first, wanted, turn>>

-----------------------------------------------------------------------------
(* Period: Display and FromStr.                                            *)

YR == 31557600
WK == 604800
DY == 86400
HR == 3600
MN == 60
Second == 1000000000

Part(n, unit) == <<[n |-> n, unit |-> unit, fra |-> <<>>]>>
Nonzero(n, unit) == IF n > 0 THEN Part(n, unit) ELSE <<>>

Power10 == <<100000000, 10000000, 1000000, 100000, 10000, 1000, 100, 10, 1>>
Digits(nsecs) == [i \in 1 .. 9 |-> (nsecs \div Power10[i]) % 10]

LastDigit(ds) == CHOOSE i \in 0 .. Len(ds) :
    /\ i > 0 => ds[i] # 0
    /\ \A j \in DOMAIN ds : j > i => ds[j] = 0
TrimEnd(ds) == SubSeq(ds, 1, LastDigit(ds))

DropsTrailing(s, nsecs, secs) ==
    LET is_ns == nsecs % 1000 > 0
        is_us == (nsecs \div 1000) % 1000 > 0
        is_ms == nsecs \div 1000000 > 0
    IN  IF is_ms /\ (s > 0 \/ is_ns)
        THEN <<[n |-> s, unit |-> "s", fra |-> SubSeq(Digits(nsecs), 1, 6)]>>
        ELSE Nonzero(s, "s") \o (IF is_us THEN Part(nsecs \div 1000, "us") ELSE <<>>)

\* Seconds and their fraction, in the finest unit that has data; a period of
\* whole minutes needs none, one of zero length is "0s".
Subsecond(s, nsecs, secs) ==
    LET is_ns == nsecs % 1000 > 0
        is_us == (nsecs \div 1000) % 1000 > 0
        is_ms == nsecs \div 1000000 > 0
    IN  IF is_ms /\ (s > 0 \/ is_ns)
        THEN <<[n |-> s, unit |-> "s", fra |-> TrimEnd(Digits(nsecs))]>>
        ELSE IF nsecs > 0 \/ s > 0
        THEN Nonzero(s, "s")
             \o (IF is_ns THEN Part(nsecs, "ns")
                 ELSE IF is_us THEN Part(nsecs \div 1000, "us")
                 ELSE IF is_ms THEN Part(nsecs \div 1000000, "ms")
                 ELSE <<>>)
        ELSE IF secs = 0 THEN Part(0, "s")
        ELSE <<>>

Display(d) ==
    LET y_secs == d.secs % YR
        w_secs == y_secs % WK
        d_secs == w_secs % DY
        h_secs == d_secs % HR
    IN  Nonzero(d.secs \div YR, "y") \o Nonzero(y_secs \div WK, "w") \o Nonzero(w_secs \div DY, "d")
        \o Nonzero(d_secs \div HR, "h") \o Nonzero(h_secs \div MN, "m")
        \o Subsecond(h_secs % MN, d.nanos, d.secs)

Units == <<"y", "w", "d", "h", "m", "s", "ms", "us", "ns">>
Rank(unit) == CHOOSE i \in DOMAIN Units : Units[i] = unit

\* The parts come in order, each at most once, and a fraction of seconds
\* comes last: what PERIOD_RE accepts.
Matches(parts) ==
    /\ \A i, j \in DOMAIN parts : i < j => Rank(parts[i].unit) < Rank(parts[j].unit)
    /\ \A i \in DOMAIN parts : parts[i].fra # <<>> => i = Len(parts) /\ parts[i].unit = "s"

Named(parts, unit) ==
    IF \E i \in DOMAIN parts : parts[i].unit = unit
    THEN parts[CHOOSE i \in DOMAIN parts : parts[i].unit = unit].n
    ELSE 0

RECURSIVE Fraction(_, _)
Fraction(ds, i) ==
    IF i > 9 \/ i > Len(ds) THEN 0 ELSE ds[i] * Power10[i] + Fraction(ds, i + 1)

\* Arithmetic on u64 wraps in a release build.
from_str(parts) ==
    IF ~Matches(parts) THEN {}
    ELSE LET seconds == (YR * Named(parts, "y") + WK * Named(parts, "w") + DY * Named(parts, "d")
                           + HR * Named(parts, "h") + MN * Named(parts, "m") + Named(parts, "s")) % U64
             fra == IF parts # <<>> THEN parts[Len(parts)].fra ELSE <<>>
             ms == Named(parts, "ms")
             below == Fraction(fra, 1) + 1000000 * (ms % 1000) + 1000 * Named(parts, "us") + Named(parts, "ns")
         IN  {[secs |-> seconds + (ms \div 1000) + (below \div Second), nanos |-> below % Second]}

\* From<Period> for Timeout, in milliseconds.
Timeout(d) ==
    IF d.secs % Usize >= (Usize - 1) \div 1000 THEN Usize - 1
    ELSE (d.secs % Usize) * 1000 + (d.nanos \div 1000000)

-----------------------------------------------------------------------------
(* Iso8601.                                                                *)

\* The class [+-(minus)] of ISO8601_RE is a range of characters; the sign is
\* given by its code.
Plus == 43
Hyphen == 45
Minus == 8722
Zsgn(c) == Plus <= c /\ c <= Minus

Default(part, d) == IF part = {} THEN d ELSE CHOOSE x \in part : TRUE

\* The RFC 3339 timestamp put together from the parts that were found.
Filled(t, one) ==
    [t EXCEPT !.M = {Default(@, one)}, !.D = {Default(@, one)}, !.h = {Default(@, 0)},
              !.m = {Default(@, 0)}, !.s = {Default(@, 0)},
              !.Z = {IF @ = {} THEN <<Plus, 0, 0>>
                     ELSE LET z == Default(@, 0)
                          IN  <<IF z[1] = Plus THEN Plus ELSE Hyphen, z[2], z[3]>>}]

Canonical(t) == Filled(t, 1)

Leap(y) == (y % 4 = 0 /\ y % 100 # 0) \/ y % 400 = 0
MonthDays(y) == <<31, IF Leap(y) THEN 29 ELSE 28, 31, 30, 31, 30, 31, 31, 30, 31, 30, 31>>

RECURSIVE DaysBefore(_, _)
DaysBefore(y, m) == IF m = 1 THEN 0 ELSE MonthDays(y)[m - 1] + DaysBefore(y, m - 1)
YearDays(y) == 365 * (y - 2000) + ((y - 1997) \div 4) - ((y - 1901) \div 100) + ((y - 1601) \div 400)

Only(set) == CHOOSE x \in set : TRUE

\* DateTime::parse_from_rfc3339 on a complete timestamp: the instant in
\* seconds since 2000 and nanoseconds, with the zone in minutes.  A leap
\* second is second 59 with more than a second of nanoseconds.
parse_from_rfc3339(t) ==
    LET z == Only(t.Z)
        zone == (IF z[1] = Plus THEN 1 ELSE -1) * (60 * z[2] + z[3])
        s == Only(t.s)
    IN  IF \/ t.neg
           \/ Only(t.D) > MonthDays(t.Y)[Only(t.M)]
           \/ Only(t.h) > 23 \/ Only(t.m) > 59 \/ s > 60
           \/ z[2] > 23 \/ z[3] > 59
        THEN {}
        ELSE {[secs |-> DY * (YearDays(t.Y) + DaysBefore(t.Y, Only(t.M)) + Only(t.D) - 1)
                            + HR * Only(t.h) + MN * Only(t.m) + (IF s = 60 THEN 59 ELSE s) - 60 * zone,
               nanos |-> Fraction(t.ss, 1) + (IF s = 60 THEN Second ELSE 0),
               zone |-> zone]}

Iso8601(t) ==
    IF t.Z = {} \/ Zsgn(Only(t.Z)[1]) THEN parse_from_rfc3339(Canonical(t)) ELSE {}

\* DateTime::to_rfc3339 writes the local time of the instant's zone.
Abs(n) == IF n < 0 THEN -n ELSE n
to_rfc3339(v) ==
    LET local == v.secs + 60 * v.zone
        day == local \div DY
        Y == CHOOSE y \in 1990 .. 2030 : YearDays(y) <= day /\ day < YearDays(y + 1)
        M == CHOOSE m \in 1 .. 12 :
                 /\ DaysBefore(Y, m) <= day - YearDays(Y)
                 /\ m < 12 => day - YearDays(Y) < DaysBefore(Y, m + 1)
        rest == local % DY
    IN  [neg |-> FALSE, Y |-> Y, M |-> {M}, D |-> {day - YearDays(Y) - DaysBefore(Y, M) + 1},
         h |-> {rest \div HR}, m |-> {(rest % HR) \div MN},
         s |-> {(rest % MN) + (IF v.nanos >= Second THEN 1 ELSE 0)},
         ss |-> TrimEnd(Digits(v.nanos % Second)),
         Z |-> {<<IF v.zone < 0 THEN Hyphen ELSE Plus, Abs(v.zone) \div 60, Abs(v.zone) % 60>>}]

\* Instants are ordered by time, whatever the zone.
Before(a, b) == a.secs < b.secs \/ (a.secs = b.secs /\ a.nanos < b.nanos)

\* Iso8601 +- Into<Duration>: nothing when the duration or the result is out
\* of chrono's range.
Checked(v, d, secs, nanos) ==
    IF d.secs > MaxDuration \/ Abs(secs) > MaxTime THEN {}
    ELSE {[v EXCEPT !.secs = secs, !.nanos = nanos]}

Add(v, d) == Checked(v, d, v.secs + d.secs + ((v.nanos + d.nanos) \div Second),
                     (v.nanos + d.nanos) % Second)

Sub(v, d) == Checked(v, d, v.secs - d.secs + ((v.nanos - d.nanos) \div Second),
                     (v.nanos - d.nanos) % Second)

-----------------------------------------------------------------------------
(* The tables of the repository's tests: [parts, out], `out' being the     *)
(* text the parsed value is formatted to, or nothing for an error.         *)

Frac(n, ds) == <<[n |-> n, unit |-> "s", fra |-> ds]>>
Weeks123 == Part(2, "y") \o Part(18, "w") \o Part(4, "d") \o Part(12, "h")
UpToMinutes == Part(1, "y") \o Part(2, "w") \o Part(3, "d") \o Part(4, "h") \o Part(5, "m")
Same(parts) == [parts |-> parts, out |-> {parts}]
To(parts, out) == [parts |-> parts, out |-> {out}]
Bad(parts) == [parts |-> parts, out |-> {}]

test_period_basic ==
    {Same(Part(0, "s")), Same(Part(123, "ms")), Same(Part(120, "us")), Same(Part(100, "ns")),
     Same(Part(1, "w") \o Frac(1, <<1, 2, 3>>)), Same(Part(1, "w") \o Part(123, "ms")),
     Same(Part(2, "y") \o Part(3, "w") \o Part(4, "d") \o Part(5, "h") \o Part(6, "m")
              \o Frac(7, <<1, 2, 3, 4, 5, 6, 7, 8, 9>>)),
     Bad(Frac(1, <<2, 3>>) \o Part(456, "ns")), Bad(Part(456, "ns") \o Part(123, "us")),
     Same(Part(1, "w")),
     To(Part(123, "w") \o Part(456, "ns"), Weeks123 \o Part(456, "ns")),
     To(Weeks123 \o Frac(0, <<0, 0, 0, 0, 0, 3, 4, 5, 6>>), Weeks123 \o Part(3456, "ns")),
     To(Weeks123 \o Frac(0, <<0, 0, 0, 4, 5, 6>>), Weeks123 \o Part(456, "us")),
     To(Weeks123 \o Frac(0, <<0, 0, 0, 0, 0, 3, 4, 5, 6, 7, 8>>), Weeks123 \o Part(3456, "ns")),
     To(Part(1, "y") \o Part(60000, "ms") \o Part(25, "us") \o Part(100, "ns"),
        Part(1, "y") \o Part(1, "m") \o Part(25100, "ns")),
     To(Part(600, "ms") \o Part(25, "us") \o Part(100, "ns"), Frac(0, <<6, 0, 0, 0, 2, 5, 1>>)),
     To(Part(25, "us") \o Part(100, "ns"), Part(25100, "ns")),
     To(Frac(0, <<0, 0, 0, 0, 2, 5, 1>>), Part(25100, "ns")),
     To(Frac(0, <<0, 0, 0, 0, 2, 5>>), Part(25, "us")),
     To(UpToMinutes \o Part(6, "s") \o Part(7, "ms") \o Part(8, "us") \o Part(9, "ns"),
        UpToMinutes \o Frac(6, <<0, 0, 7, 0, 0, 8, 0, 0, 9>>))}

Zone(sign, hrs) == {<<sign, hrs, 0>>}
Utc == Zone(Plus, 0)
Stamp(Y, M, D, h, m, s, ss, Z) ==
    [neg |-> FALSE, Y |-> Y, M |-> M, D |-> D, h |-> h, m |-> m, s |-> s, ss |-> ss, Z |-> Z]
October(Z) == Stamp(2018, {10}, {11}, {3}, {23}, {38}, <<>>, Z)
January(M, D, s, Z) == Stamp(2018, M, D, {3}, {23}, s, <<>>, Z)
LeapSecond(Z) == Stamp(2015, {2}, {18}, {23}, {59}, {60}, <<2, 3, 4, 5, 6, 7>>, Z)

test_iso_8601_basic ==
    {To(October(Z), October(Utc)) : Z \in {{}, Utc, Zone(Minus, 0)}}
      \union {To(January(M, D, s, Z), January({1}, {1}, {0}, Utc)) :
                 M \in {{}, {1}}, D \in {{}, {1}}, s \in {{}, {0}}, Z \in {{}, Utc}}
      \union {To(LeapSecond(Zone(sign, 5)), LeapSecond(Zone(Hyphen, 5))) : sign \in {Hyphen, Minus}}
      \union {Same(Stamp(2009, {2}, {13}, {23}, {31}, {30}, <<1, 2, 3, 4, 5, 6, 7, 8, 9>>, Utc))}
      \union {Bad(LeapSecond(Zone(Plus, 25))), Bad([October(Utc) EXCEPT !.neg = TRUE])}

\* Timestamps with some other character in the place of the zone's sign:
\* one before the range of Zsgn, a digit, letters, one after it.
OddZones == {October(Zone(c, 5)) : c \in {42, 48, 65, 97, 8723}}

At339(s, Z) == Iso8601(Stamp(2018, {10}, {11}, {3}, {23}, {s}, <<>>, Z))
test_iso_8601_sorting ==
    <<At339(39, Zone(Plus, 11)), At339(39, Zone(Plus, 4)), At339(39, Zone(Plus, 3)), At339(39, Utc),
      At339(40, {}), At339(39, Zone(Hyphen, 6)), At339(39, Zone(Hyphen, 7)),
      At339(39, Zone(Hyphen, 8)), At339(39, Zone(Minus, 9))>>

May(D, h, m, s, ss) == Iso8601(Stamp(2019, {5}, {D}, h, m, s, ss, {}))
Midnight == Only(May(5, {0}, {0}, {0}, <<>>))
Nines(n) == [i \in 1 .. n |-> 9]
test_period_timeout ==
    /\ Add(Midnight, [secs |-> 0, nanos |-> 1000]) = May(5, {0}, {0}, {0}, <<0, 0, 0, 0, 0, 1>>)
    /\ Add(Midnight, [secs |-> 0, nanos |-> 1000000]) = May(5, {0}, {0}, {0}, <<0, 0, 1>>)
    /\ Add(Midnight, [secs |-> 1, nanos |-> 1]) = May(5, {0}, {0}, {1}, <<0, 0, 0, 0, 0, 0, 0, 0, 1>>)
    /\ Sub(Midnight, [secs |-> 0, nanos |-> 1000]) = May(4, {23}, {59}, {59}, Nines(6))
    /\ Sub(Midnight, [secs |-> 0, nanos |-> 1000000]) = May(4, {23}, {59}, {59}, Nines(3))
    /\ Sub(Midnight, [secs |-> 1, nanos |-> 1]) = May(4, {23}, {59}, {58}, Nines(9))
    /\ Add(Midnight, [secs |-> MaxDuration + 1, nanos |-> 0]) = {}

-----------------------------------------------------------------------------
NoText == <<[none |-> TRUE]>>

Init ==
    \/ /\ kind = "period"
       /\ first \in {{p} : p \in Periods}
       /\ value = first
       /\ text = NoText
       /\ turn = [do |-> "format", n |-> 0]
       /\ wanted = [known |-> FALSE, out |-> {}]
    \/ /\ kind \in {"period", "time"}
       /\ \E t \in IF kind = "period" THEN test_period_basic ELSE test_iso_8601_basic :
              /\ text = t.parts
              /\ wanted = [known |-> TRUE, out |-> t.out]
       /\ value = {}
       /\ first = {}
       /\ turn = [do |-> "parse", n |-> 0]
    \/ /\ kind = "time"
       /\ text \in OddZones
       /\ wanted = [known |-> FALSE, out |-> {}]
       /\ value = {}
       /\ first = {}
       /\ turn = [do |-> "parse", n |-> 0]

Format ==
    /\ turn.do = "format"
    /\ turn.n < 2
    /\ value # {}
    /\ text' = IF kind = "period" THEN Display(Only(value)) ELSE to_rfc3339(Only(value))
    /\ turn' = [do |-> "parse", n |-> turn.n + 1]
    /\ UNCHANGED <<kind, value, first, wanted>>

Parse ==
    /\ turn.do = "parse"
    /\ value' = IF kind = "period" THEN from_str(text) ELSE Iso8601(text)
    /\ first' = IF first = {} THEN value' ELSE first
    /\ turn' = [turn EXCEPT !.do = "format"]
    /\ UNCHANGED <<kind, text, wanted>>

Next == Format \/ Parse

Spec == Init /\ [][Next]_vars

-----------------------------------------------------------------------------
\* A formatted period or timestamp is parsed to the value it was made from,
\* at full precision (Display and FromStr of Period and Iso8601; both are
\* serialized through their texts).
RoundTrip == first # {} /\ value # {} => value = first

\* The canonical texts, errors, order and sums that the repository's tests
\* assert.
TestsPass ==
    /\ wanted.known =>
           /\ turn.n = 1 => wanted.out = {text}
           /\ turn = [do |-> "format", n |-> 0] => (value = {} <=> wanted.out = {})
    /\ \A i, j \in DOMAIN test_iso_8601_sorting :
           i < j => Before(Only(test_iso_8601_sorting[i]), Only(test_iso_8601_sorting[j]))
    /\ test_period_timeout

\* A longer period is never a shorter timeout, up to and beyond the largest
\* timeout there is (From<Period> for Timeout counts milliseconds in a usize).
TimeoutsOrdered ==
    (kind = "period" /\ turn.n = 0) =>
        \A d \in value, e \in Periods : ~Before(e, d) => Timeout(d) <= Timeout(e)

\* What is added to a timestamp can be subtracted again, across the borders
\* of seconds (Add and Sub of Iso8601).
SumsUndone ==
    kind = "time" =>
        \A v \in value : v.nanos < Second =>
            \A d \in Periods : \A x \in Add(v, d) : Sub(x, d) = {v}

\* The sign of a zone in an accepted timestamp is a plus, a hyphen or a minus:
\* "Zone sign allows UTF8 minus or ASCII hyphen as per RFC/ISO" (time.rs:656).
ZoneSigns ==
    (kind = "time" /\ turn.n = 0 /\ value # {} /\ text.Z # {}) =>
        Only(text.Z)[1] \in {Plus, Hyphen, Minus}
=============================================================================
