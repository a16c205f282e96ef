---------------------------- MODULE StringValues ----------------------------
(***************************************************************************)
(* What a program may rely on of strings: each has a value of its own, and *)
(* an operation on one changes that one alone.                             *)
(***************************************************************************)
EXTENDS Naturals, Sequences

CONSTANTS
  Strings,
  Letters,
  Gone     \* instead of a value: the string does not exist

ASSUME GoneAssumption == Gone \notin Seq(Letters)

VARIABLE text

TextTypeOK == text \in [Strings -> Seq(Letters) \cup {Gone}]

TextInit == text = [s \in Strings |-> Gone]

\* n characters of v behind the first k.
PartOf(v, k, n) == SubSeq(v, k + 1, k + n)

IsPart(v, k, n) == k \in 0..Len(v) /\ n \in 0..(Len(v) - k)

\* v with w instead of n characters behind the first k.
Spliced(v, k, n, w) == PartOf(v, 0, k) \o w \o SubSeq(v, k + n + 1, Len(v))

IsNow(s, v) == text' = [text EXCEPT ![s] = v]

Exchanged(s, u) == text' = [text EXCEPT ![s] = text[u], ![u] = text[s]]
=============================================================================
