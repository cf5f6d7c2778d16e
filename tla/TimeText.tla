------------------------------ MODULE TimeText ------------------------------
(***************************************************************************)
(* Every timestamp column of the store is TEXT in time.RFC3339Nano form    *)
(* (timeLayout in internal/core/store/sqlite/store.go) and every deadline  *)
(* is decided by comparing two such texts: expires_at > now,               *)
(* retain_until < now, created_at >= cutoff.  The date and time down to    *)
(* the second have a fixed width; the fraction does not: RFC3339Nano drops *)
(* its trailing zeros, and the point with them.                            *)
(***************************************************************************)
EXTENDS Naturals, Sequences

CONSTANTS
  Second,      \* bound: seconds 0 .. Second
  Digit,       \* digits a fraction may have
  Precision    \* digits of a fraction (9 in the code)

ASSUME TimeTextAssumption ==
  /\ Second \in Nat /\ Precision \in Nat \ {0}
  /\ Digit \subseteq 0 .. 9

Instant == [sec : 0 .. Second, frac : [1 .. Precision -> Digit]]

(* The instants as points in time. *)
FracBefore(f, g) == \E i \in 1 .. Precision : f[i] < g[i] /\ \A j \in 1 .. i - 1 : f[j] = g[j]
Before(t, u) == t.sec < u.sec \/ (t.sec = u.sec /\ FracBefore(t.frac, u.frac))

-----------------------------------------------------------------------------
(* Format(time.RFC3339Nano).  Characters by their rank in the byte order:  *)
(* the point sorts before the digits, and Z after them.                    *)

Point == 0
DigitChar(d) == 1 + d
Zulu == 11

SignificantOneLess(f) ==
  IF \A i \in 1 .. Precision : f[i] = 0 THEN 0
  ELSE (CHOOSE i \in 1 .. Precision : f[i] # 0 /\ \A j \in i + 1 .. Precision : f[j] = 0) - 1
Significant(f) ==
  IF \A i \in 1 .. Precision : f[i] = 0 THEN 0
  ELSE CHOOSE i \in 1 .. Precision : f[i] # 0 /\ \A j \in i + 1 .. Precision : f[j] = 0

Format(t) ==
  LET n == Significant(t.frac)
  IN  IF n = 0 THEN <<t.sec, Zulu>>
      ELSE <<t.sec, Point>> \o [i \in 1 .. n |-> DigitChar(t.frac[i])] \o <<Zulu>>

(* SQLite compares TEXT byte by byte; no text here is a prefix of another. *)
TextBeforeShorterFirst(s, r) == Len(s) < Len(r)
TextBefore(s, r) ==
  \E i \in 1 .. Len(s) : i <= Len(r) /\ s[i] < r[i] /\ \A j \in 1 .. i - 1 : s[j] = r[j]
=============================================================================
