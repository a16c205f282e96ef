------------------------------ MODULE FileText ------------------------------
(***************************************************************************)
(* Texts of files, as the system keeps them.                               *)
(***************************************************************************)
EXTENDS Integers, Sequences

EOF == -1
Nul == 0

\* text with str written over it from offset from on; a gap is filled.
Overwritten(text, from, str) ==
  LET end == from + Len(str)
      len == IF end > Len(text) THEN end ELSE Len(text)
  IN  IF str = <<>> THEN text
      ELSE [i \in 1 .. len |-> IF i \in from + 1 .. end THEN str[i - from]
                               ELSE IF i <= Len(text) THEN text[i] ELSE Nul]
=============================================================================
