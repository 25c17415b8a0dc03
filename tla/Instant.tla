------------------------------ MODULE Instant -------------------------------
(***************************************************************************)
(* cryptovalid_acta: RFC 3339 texts as ordered keys.  A text is            *)
(* [min, s, frac, off]: the local minute (counted from some midnight), the *)
(* second 0..60, the digits after the point, the offset in minutes.        *)
(***************************************************************************)
EXTENDS Integers, Sequences

Texts == [min : Int, s : 0..60, frac : Seq(0..9), off : Int]

UtcMinute(t) == t.min - t.off

\* _instant: second 60 exists only at 23:59 UTC.
ValidInstant(t) == t.s <= 60 /\ (t.s = 60 => UtcMinute(t) % 1440 = 1439)

\* rstrip("0"): up to the last digit that is not zero.
LastDigit(frac) ==
  CHOOSE n \in 0..Len(frac) : (n > 0 => frac[n] # 0) /\ \A i \in n + 1..Len(frac) : frac[i] = 0

StripZeros(frac) == SubSeq(frac, 1, LastDigit(frac))

InstantKey_Rounded(t) ==
  <<UtcMinute(t) * 60 + (IF t.s = 60 THEN 59 ELSE t.s), IF t.s = 60 THEN 1 ELSE 0,
    StripZeros(SubSeq(t.frac, 1, IF Len(t.frac) > 1 THEN 1 ELSE Len(t.frac)))>>

\* _instant_exact: whole second, leap flag, every digit but trailing zeros.
InstantKey(t) ==
  <<UtcMinute(t) * 60 + (IF t.s = 60 THEN 59 ELSE t.s), IF t.s = 60 THEN 1 ELSE 0, StripZeros(t.frac)>>

\* Comparison of digit strings, and of the keys as tuples.
DigitsBefore(a, b) ==
  \E k \in 1..Len(b) : /\ \A j \in 1..(k - 1) : j <= Len(a) /\ a[j] = b[j]
                       /\ k > Len(a) \/ a[k] < b[k]
KeyBefore(a, b) ==
  \/ a[1] < b[1]
  \/ a[1] = b[1] /\ a[2] < b[2]
  \/ a[1] = b[1] /\ a[2] = b[2] /\ DigitsBefore(a[3], b[3])

\* The instants themselves, whatever text they are written as: by minute, second
\* (60 before the next minute) and decimal fraction.
Digit(t, k) == IF k <= Len(t.frac) THEN t.frac[k] ELSE 0
Earlier(t, u) ==
  \/ UtcMinute(t) < UtcMinute(u)
  \/ UtcMinute(t) = UtcMinute(u) /\ t.s < u.s
  \/ UtcMinute(t) = UtcMinute(u) /\ t.s = u.s
     /\ \E k \in 1..Len(u.frac) : Digit(t, k) < Digit(u, k) /\ \A j \in 1..(k - 1) : Digit(t, j) = Digit(u, j)

NoBound  == [kind |-> "none"]
BadBound == [kind |-> "unreadable"]
At(t)    == [kind |-> "at", at |-> t]

(* _outside_window: [from, until); a bound that can be read and excludes   *)
(* the instant decides before one that cannot be read.                     *)
Window(t, from, until) ==
  LET key == InstantKey(t)
  IN  IF from.kind = "at"  /\ KeyBefore(key, InstantKey(from.at))        THEN "outside"
      ELSE IF until.kind = "at" /\ ~KeyBefore(key, InstantKey(until.at)) THEN "outside"
      ELSE IF BadBound \in {from, until}                                 THEN "bound"
      ELSE "inside"
=============================================================================
