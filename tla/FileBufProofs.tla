--------------------------- MODULE FileBufProofs ----------------------------
(***************************************************************************)
(* Proofs about FileBuf, for any characters, any file, any size of the     *)
(* buffer and of the room before what is read: a stream behaves as its     *)
(* file, the refinement of PositionedFile.                                 *)
(*                                                                         *)
(* The invariant, BufSound, says what the two pointer triples mean: what   *)
(* was read ahead is what stands in the file before its position, what is  *)
(* to be written is in the buffer and begins at that position, and         *)
(* last_seek is that position or unknown.  ContentOf and PositionOf read   *)
(* off it what the program sees, and each function of the class is shown   *)
(* to keep both, or to move them as its call must (Ends).                  *)
(***************************************************************************)
EXTENDS FileBuf, SequenceTheorems, TLAPS

\* Characters of a file, gaps included.
Codes == Chars \cup {Nul}

Memories == UNION {[D -> Codes] : D \in SUBSET Nat}

Bufs == [opened : BOOLEAN, mode : {"none", "plain", "append"}, unbuf : BOOLEAN,
         base : {0, Base}, mem : Memories,
         pbase : Nat, pptr : Nat, epptr : Nat,
         eback : Nat, gptr : Nat, egptr : Nat, in_start : Nat,
         last_seek : Nat \cup {EOF}]

Files == [text : Seq(Codes), at : Nat, append : BOOLEAN]

Calls == [fb : Bufs, os : Files, ret : Int, lost : BOOLEAN]

\* What stays when the pointers change.
SameFile(f, g) == /\ g.opened = f.opened /\ g.mode = f.mode
                  /\ g.unbuf = f.unbuf /\ g.base = f.base

NoInput(f)  == f.eback = 0 /\ f.gptr = 0 /\ f.egptr = 0
NoOutput(f) == f.pbase = 0 /\ f.pptr = 0 /\ f.epptr = 0

LEMMA NoMemory == <<>> \in Memories
<1>1. <<>> \in [{} -> Codes]
  OBVIOUS
<1>. QED  BY <1>1 DEF Memories

LEMMA HeldMemory ==
  ASSUME NEW m \in Memories, NEW x \in Nat, NEW ch \in Codes
  PROVE  [y \in DOMAIN m \cup {x} |-> IF y = x THEN ch ELSE m[y]] \in Memories
<1>1. PICK D \in SUBSET Nat : m \in [D -> Codes]
  BY DEF Memories
<1>2. [y \in DOMAIN m \cup {x} |-> IF y = x THEN ch ELSE m[y]] \in [D \cup {x} -> Codes]
  BY <1>1
<1>. QED  BY <1>2 DEF Memories

LEMMA SetPFields ==
  ASSUME NEW f \in Bufs, NEW p \in Nat, NEW ep \in Nat
  PROVE  LET g == SetP(f, p, ep)
         IN  /\ g \in Bufs /\ SameFile(f, g)
             /\ g.pbase = p /\ g.pptr = p /\ g.epptr = ep /\ g.mem = <<>>
             /\ g.eback = f.eback /\ g.gptr = f.gptr /\ g.egptr = f.egptr
             /\ g.in_start = f.in_start /\ g.last_seek = f.last_seek
BY NoMemory DEF Bufs, SetP, SameFile

LEMMA SetGFields ==
  ASSUME NEW f \in Bufs, NEW eb \in Nat, NEW g0 \in Nat, NEW eg \in Nat
  PROVE  LET g == SetG(f, eb, g0, eg)
         IN  /\ g \in Bufs /\ SameFile(f, g)
             /\ g.eback = eb /\ g.gptr = g0 /\ g.egptr = eg /\ g.mem = f.mem
             /\ g.pbase = f.pbase /\ g.pptr = f.pptr /\ g.epptr = f.epptr
             /\ g.in_start = f.in_start /\ g.last_seek = f.last_seek
BY DEF Bufs, SetG, SameFile

LEMMA UnknownFields ==
  ASSUME NEW f \in Bufs
  PROVE  LET g == Unknown(f)
         IN  /\ g \in Bufs /\ SameFile(f, g) /\ g.last_seek = EOF /\ g.mem = f.mem
             /\ g.pbase = f.pbase /\ g.pptr = f.pptr /\ g.epptr = f.epptr
             /\ g.eback = f.eback /\ g.gptr = f.gptr /\ g.egptr = f.egptr
             /\ g.in_start = f.in_start
BY DEF Bufs, Unknown, SameFile

LEMMA MovedFields ==
  ASSUME NEW f \in Bufs, NEW n \in Nat
  PROVE  LET g == Moved(f, n)
         IN  /\ g \in Bufs /\ SameFile(f, g) /\ g.mem = f.mem
             /\ g.last_seek # EOF => g.last_seek = f.last_seek + n /\ f.last_seek # EOF
                                     /\ f.mode = "plain"
             /\ g.pbase = f.pbase /\ g.pptr = f.pptr /\ g.epptr = f.epptr
             /\ g.eback = f.eback /\ g.gptr = f.gptr /\ g.egptr = f.egptr
             /\ g.in_start = f.in_start
BY DEF Bufs, Moved, SameFile, Arithmetic, EOF

LEMMA HoldingFields ==
  ASSUME NEW f \in Bufs, NEW x \in Nat, NEW ch \in Codes
  PROVE  LET g == Holding(f, x, ch)
         IN  /\ g \in Bufs /\ SameFile(f, g)
             /\ DOMAIN g.mem = DOMAIN f.mem \cup {x}
             /\ g.mem[x] = ch
             /\ \A y \in DOMAIN f.mem : y # x => g.mem[y] = f.mem[y]
             /\ g.pbase = f.pbase /\ g.pptr = f.pptr /\ g.epptr = f.epptr
             /\ g.eback = f.eback /\ g.gptr = f.gptr /\ g.egptr = f.egptr
             /\ g.in_start = f.in_start /\ g.last_seek = f.last_seek
<1>. f.mem \in Memories
  BY DEF Bufs
<1>1. [y \in DOMAIN f.mem \cup {x} |-> IF y = x THEN ch ELSE f.mem[y]] \in Memories
  BY HeldMemory
<1>. QED  BY <1>1 DEF Bufs, Holding, SameFile

\* One pointer moves.
WithPptr(f, p) == [f EXCEPT !.pptr = p]
WithGptr(f, p) == [f EXCEPT !.gptr = p]

LEMMA WithPptrFields ==
  ASSUME NEW f \in Bufs, NEW p \in Nat
  PROVE  LET g == WithPptr(f, p)
         IN  /\ g \in Bufs /\ SameFile(f, g) /\ g.pptr = p
             /\ g.pbase = f.pbase /\ g.epptr = f.epptr /\ g.mem = f.mem
             /\ g.eback = f.eback /\ g.gptr = f.gptr /\ g.egptr = f.egptr
             /\ g.in_start = f.in_start /\ g.last_seek = f.last_seek
BY DEF Bufs, WithPptr, SameFile

LEMMA WithGptrFields ==
  ASSUME NEW f \in Bufs, NEW p \in Nat
  PROVE  LET g == WithGptr(f, p)
         IN  /\ g \in Bufs /\ SameFile(f, g) /\ g.gptr = p
             /\ g.pbase = f.pbase /\ g.pptr = f.pptr /\ g.epptr = f.epptr
             /\ g.eback = f.eback /\ g.egptr = f.egptr /\ g.mem = f.mem
             /\ g.in_start = f.in_start /\ g.last_seek = f.last_seek
BY DEF Bufs, WithGptr, SameFile

\* What is read into the buffer.
WithInStart(f, p) == [f EXCEPT !.in_start = p]
WithMem(f, m)     == [f EXCEPT !.mem = m]

LEMMA WithInStartFields ==
  ASSUME NEW f \in Bufs, NEW p \in Nat
  PROVE  LET g == WithInStart(f, p)
         IN  /\ g \in Bufs /\ SameFile(f, g) /\ g.in_start = p
             /\ g.pbase = f.pbase /\ g.pptr = f.pptr /\ g.epptr = f.epptr
             /\ g.eback = f.eback /\ g.gptr = f.gptr /\ g.egptr = f.egptr
             /\ g.mem = f.mem /\ g.last_seek = f.last_seek
BY DEF Bufs, WithInStart, SameFile

LEMMA WithMemFields ==
  ASSUME NEW f \in Bufs, NEW m \in Memories
  PROVE  LET g == WithMem(f, m)
         IN  /\ g \in Bufs /\ SameFile(f, g) /\ g.mem = m
             /\ g.pbase = f.pbase /\ g.pptr = f.pptr /\ g.epptr = f.epptr
             /\ g.eback = f.eback /\ g.gptr = f.gptr /\ g.egptr = f.egptr
             /\ g.in_start = f.in_start /\ g.last_seek = f.last_seek
BY DEF Bufs, WithMem, SameFile

LEMMA AllocatedFields ==
  ASSUME NEW f \in Bufs, f.unbuf => f.base = 0
  PROVE  LET g == Allocated(f)
         IN  /\ g \in Bufs /\ g.opened = f.opened /\ g.mode = f.mode
             /\ g.unbuf = f.unbuf /\ g.base = (IF f.unbuf THEN 0 ELSE Base)
             /\ g.mem = f.mem
             /\ g.pbase = f.pbase /\ g.pptr = f.pptr /\ g.epptr = f.epptr
             /\ g.eback = f.eback /\ g.gptr = f.gptr /\ g.egptr = f.egptr
             /\ g.in_start = f.in_start /\ g.last_seek = f.last_seek
BY DEF Bufs, Allocated, Base

-----------------------------------------------------------------------------
(* What is written. *)

\* What is written over from, character by character.
WrittenAs(text, from, str, w) ==
  /\ w \in Seq(Codes)
  /\ Len(w) = (IF str = <<>> \/ from + Len(str) <= Len(text) THEN Len(text)
               ELSE from + Len(str))
  /\ \A i \in 1 .. Len(w) :
       w[i] = IF i \in from + 1 .. from + Len(str) THEN str[i - from]
              ELSE IF i <= Len(text) THEN text[i] ELSE Nul

LEMMA OverwrittenIsText ==
  ASSUME NEW text \in Seq(Codes), NEW from \in Nat, NEW str \in Seq(Codes)
  PROVE  WrittenAs(text, from, str, Overwritten(text, from, str))
<1>1. CASE str = <<>>
  BY <1>1 DEF Overwritten, WrittenAs
<1>2. CASE str # <<>>
  <2>. DEFINE end == from + Len(str)
              len == IF end > Len(text) THEN end ELSE Len(text)
              ch(i) == IF i \in from + 1 .. end THEN str[i - from]
                       ELSE IF i <= Len(text) THEN text[i] ELSE Nul
  <2>1. len \in Nat /\ end \in Nat
    OBVIOUS
  <2>2. ASSUME NEW i \in 1 .. len
        PROVE  ch(i) \in Codes
    BY <2>1 DEF Codes
  <2>3. Overwritten(text, from, str) = [i \in 1 .. len |-> ch(i)]
    BY <1>2 DEF Overwritten
  <2>. HIDE DEF ch, len
  <2>4. [i \in 1 .. len |-> ch(i)] \in Seq(Codes) /\ Len([i \in 1 .. len |-> ch(i)]) = len
    BY <2>1, <2>2
  <2>5. \A i \in 1 .. len : [j \in 1 .. len |-> ch(j)][i] = ch(i)
    OBVIOUS
  <2>. QED  BY <1>2, <2>3, <2>4, <2>5 DEF len, ch, WrittenAs
<1>. QED  BY <1>1, <1>2

\* s is str and ch.
OneLonger(str, s, ch) ==
  /\ s \in Seq(Codes) /\ Len(s) = Len(str) + 1 /\ s[Len(str) + 1] = ch
  /\ \A i \in 1 .. Len(str) : s[i] = str[i]

LEMMA WrittenOnce ==
  ASSUME NEW text \in Seq(Codes), NEW from \in Nat, NEW str \in Seq(Codes), NEW ch \in Codes,
         NEW s, OneLonger(str, s, ch)
  PROVE  Overwritten(text, from, s) =
           Overwritten(Overwritten(text, from, str), from + Len(str), <<ch>>)
<1>. DEFINE t == Overwritten(text, from, str)
            o == <<ch>>
            u == Overwritten(text, from, s)
            to == from + Len(str)
            w == Overwritten(t, to, o)
<1>0. /\ s \in Seq(Codes) /\ Len(s) = Len(str) + 1 /\ s[Len(str) + 1] = ch
      /\ \A i \in 1 .. Len(str) : s[i] = str[i]
  BY DEF OneLonger
<1>. HIDE DEF t, o, u, to, w
<1>1. o \in Seq(Codes) /\ o # <<>> /\ Len(o) = 1 /\ o[1] = ch /\ to \in Nat
  BY DEF o, to
<1>2. WrittenAs(text, from, str, t) /\ t \in Seq(Codes)
  BY OverwrittenIsText DEF WrittenAs, t
<1>3. WrittenAs(text, from, s, u)
  BY <1>0, OverwrittenIsText DEF u
<1>4. WrittenAs(t, to, o, w)
  BY <1>1, <1>2, OverwrittenIsText DEF w
<1>5. u \in Seq(Codes) /\ w \in Seq(Codes) /\ s # <<>>
  BY <1>0, <1>1, <1>3, <1>4 DEF WrittenAs
<1>6. Len(u) = Len(w)
  BY <1>0, <1>1, <1>2, <1>3, <1>4, <1>5 DEF WrittenAs, to
<1>7. ASSUME NEW i \in 1 .. Len(u)
      PROVE  u[i] = w[i]
  <2>1. u[i] = IF i \in from + 1 .. from + Len(s) THEN s[i - from]
               ELSE IF i <= Len(text) THEN text[i] ELSE Nul
    BY <1>3 DEF WrittenAs
  <2>2. w[i] = IF i = to + 1 THEN ch ELSE IF i <= Len(t) THEN t[i] ELSE Nul
    BY <1>1, <1>2, <1>4, <1>6 DEF WrittenAs
  <2>3. i <= Len(t) => t[i] = IF i \in from + 1 .. to THEN str[i - from]
                              ELSE IF i <= Len(text) THEN text[i] ELSE Nul
    BY <1>2 DEF WrittenAs, to
  <2>4. Len(t) = IF str = <<>> \/ to <= Len(text) THEN Len(text) ELSE to
    BY <1>2 DEF WrittenAs, to
  <2>5. i \in Nat /\ Len(str) \in Nat /\ Len(text) \in Nat /\ i >= 1
        /\ to = from + Len(str) /\ from + Len(s) = to + 1
    BY <1>0, <1>5 DEF to
  <2>6. CASE i = to + 1
    BY <1>0, <2>1, <2>2, <2>5, <2>6
  <2>7. CASE i \in from + 1 .. to
    <3>1. i <= Len(t)
      BY <2>4, <2>5, <2>7
    <3>2. s[i - from] = str[i - from]
      BY <1>0, <2>5, <2>7
    <3>. QED  BY <1>0, <2>1, <2>2, <2>3, <2>5, <2>7, <3>1, <3>2
  <2>8. CASE i # to + 1 /\ i \notin from + 1 .. to
    <3>1. i \notin from + 1 .. from + Len(s)
      <4>1. Len(s) \in Nat
        BY <1>0
      <4>. QED  BY <2>5, <2>8, <4>1
    <3>2. u[i] = IF i <= Len(text) THEN text[i] ELSE Nul
      BY <2>1, <3>1
    <3>. QED  BY <2>2, <2>3, <2>4, <2>5, <2>8, <3>2
  <2>. QED  BY <2>6, <2>7, <2>8
<1>8. u = w
  BY <1>5, <1>6, <1>7, SeqEqual
<1>. QED  BY <1>8 DEF u, w, t, o, to

LEMMA WriteOutFields ==
  ASSUME NEW o \in Files, NEW str \in Seq(Codes)
  PROVE  LET w == WriteOut(o, str)
         IN  /\ w \in Files /\ w.append = o.append
             /\ ~ o.append => /\ w.at = o.at + Len(str)
                              /\ w.text = Overwritten(o.text, o.at, str)
<1>. DEFINE from == IF o.append THEN Len(o.text) ELSE o.at
<1>1. from \in Nat /\ o.text \in Seq(Codes) /\ o.at \in Nat
  BY DEF Files
<1>2. Overwritten(o.text, from, str) \in Seq(Codes)
  BY <1>1, OverwrittenIsText DEF WrittenAs
<1>. HIDE DEF from
<1>3. CASE str = <<>>
  BY <1>1, <1>3 DEF WriteOut, Overwritten
<1>4. CASE str # <<>>
  <2>1. WriteOut(o, str) = [o EXCEPT !.text = Overwritten(o.text, from, str),
                                     !.at = from + Len(str)]
    BY <1>4 DEF WriteOut, from
  <2>2. from + Len(str) \in Nat
    BY <1>1
  <2>3. /\ WriteOut(o, str) \in Files /\ WriteOut(o, str).append = o.append
        /\ WriteOut(o, str).text = Overwritten(o.text, from, str)
        /\ WriteOut(o, str).at = from + Len(str)
    BY <2>1, <2>2, <1>1, <1>2 DEF Files
  <2>. QED  BY <2>3 DEF from
<1>. QED  BY <1>3, <1>4

-----------------------------------------------------------------------------
(* The invariant. *)

\* The characters to be written are in the buffer.
OutputSound(f) ==
  /\ f.base = Base /\ f.pbase = Base /\ f.epptr = Base + BufSize
  /\ f.pptr \in Base .. f.epptr
  /\ Base .. f.pptr - 1 \subseteq DOMAIN f.mem

\* What was read ahead is what stands in the file before its position, from
\* the character that is next, and from in_start, to egptr.
InputSound(f, o) ==
  /\ f.eback > 0 /\ f.eback <= f.gptr /\ f.gptr <= f.egptr
  /\ f.egptr - f.gptr <= o.at
  /\ f.gptr .. f.egptr - 1 \subseteq DOMAIN f.mem
  /\ ~ f.unbuf => /\ f.eback <= f.in_start /\ f.in_start <= f.egptr
                  /\ f.in_start .. f.egptr - 1 \subseteq DOMAIN f.mem
  /\ \A x \in DOMAIN f.mem : x < f.egptr =>
       /\ f.egptr - x <= o.at
       /\ o.at - (f.egptr - x) < Len(o.text)
       /\ f.mem[x] = o.text[o.at - (f.egptr - x) + 1]

\* Sound, but for what was read ahead.
Writable(f, o) ==
  /\ f \in Bufs /\ o \in Files
  /\ f.unbuf => f.base = 0
  /\ f.last_seek # EOF => f.last_seek = o.at
  /\ f.mode = "plain" => ~ o.append
  /\ f.pptr = 0 => f.epptr = 0
  /\ f.pptr # 0 => OutputSound(f)

BufSound(f, o) ==
  /\ Writable(f, o)
  /\ ~ f.opened => f.gptr = f.egptr /\ f.pptr \in {0, f.base}
  /\ f.pptr # 0 => f.gptr = f.egptr /\ f.gptr = f.eback
  /\ f.pptr = 0 /\ f.gptr # 0 => InputSound(f, o)
  /\ f.pptr = 0 /\ f.gptr = 0 => f.eback = 0 /\ f.egptr = 0

\* What the program sees of a filebuf and its file.
PositionOf(f, o) == IF f.pptr # 0 THEN o.at + (f.pptr - f.base)
                    ELSE IF f.gptr # 0 THEN o.at - (f.egptr - f.gptr)
                    ELSE o.at
ContentOf(f, o) == WriteOut(o, Pending(f)).text

\* Nothing is seen of going from f and o to g and q.
Same(f, o, g, q) ==
  /\ q.append = o.append
  /\ ContentOf(g, q) = ContentOf(f, o)
  /\ o.append \/ PositionOf(g, q) = PositionOf(f, o)

-----------------------------------------------------------------------------
LEMMA PendingIsText ==
  ASSUME NEW f, NEW o, Writable(f, o)
  PROVE  /\ Pending(f) \in Seq(Codes)
         /\ Len(Pending(f)) = IF f.pptr = 0 THEN 0 ELSE f.pptr - f.base
         /\ f.pptr # 0 => \A i \in 1 .. f.pptr - f.base : Pending(f)[i] = f.mem[f.base + i - 1]
<1>1. CASE f.pptr = 0
  BY <1>1 DEF Pending
<1>2. CASE f.pptr # 0
  <2>. DEFINE n == f.pptr - f.base
  <2>1. n \in Nat /\ f.base = 1 /\ 1 .. f.pptr - 1 \subseteq DOMAIN f.mem
    BY <1>2 DEF Writable, OutputSound, Base, Bufs
  <2>2. PICK D \in SUBSET Nat : f.mem \in [D -> Codes]
    BY DEF Writable, Bufs, Memories
  <2>3. \A i \in 1 .. n : f.mem[f.base + i - 1] \in Codes
    BY <2>1, <2>2
  <2>4. Pending(f) = [i \in 1 .. n |-> f.mem[f.base + i - 1]]
    BY <1>2 DEF Pending
  <2>. HIDE DEF n
  <2>5. [i \in 1 .. n |-> f.mem[f.base + i - 1]] \in Seq(Codes)
    BY <2>1, <2>3
  <2>6. Len([i \in 1 .. n |-> f.mem[f.base + i - 1]]) = n
    BY <2>1
  <2>. QED  BY <1>2, <2>4, <2>5, <2>6 DEF n
<1>. QED  BY <1>1, <1>2

LEMMA IdleSeen ==
  ASSUME NEW f, NEW o, f.pptr = 0
  PROVE  ContentOf(f, o) = o.text
BY DEF ContentOf, Pending, WriteOut

LEMMA ContentIsText ==
  ASSUME NEW f, NEW o, Writable(f, o)
  PROVE  ContentOf(f, o) \in Seq(Codes)
BY PendingIsText, WriteOutFields DEF ContentOf, Writable, Files

-----------------------------------------------------------------------------
(* overflow(). *)

\* Everything that was to be written is in the file.
AllWritten(c, d) ==
  /\ d.ret = 0 /\ d.lost = c.lost
  /\ SameFile(c.fb, d.fb)
  /\ d.os.append = c.os.append /\ d.os.text = ContentOf(c.fb, c.os)
  /\ ~ c.os.append =>
       d.os.at = c.os.at + (IF c.fb.pptr = 0 THEN 0 ELSE c.fb.pptr - c.fb.base)
  /\ d.fb.last_seek # EOF => d.fb.last_seek = d.os.at

\* The device has failed, at a moment at which nothing is lost or at a bad one.
Failed(c, d) ==
  /\ d.ret = EOF
  /\ d.lost # c.lost => d.lost = TRUE
  /\ d.lost = c.lost => d.os = c.os /\ d.fb = Unknown(c.fb)

LEMMA DrainedOrFailed ==
  ASSUME NEW c \in Calls, c.lost = FALSE, Writable(c.fb, c.os), NEW d \in Drained(c)
  PROVE  d \in Calls /\ (Failed(c, d) \/ AllWritten(c, d))
<1>. DEFINE str == Pending(c.fb)
            n == Len(str)
<1>1. /\ str \in Seq(Codes) /\ n \in Nat
      /\ n = IF c.fb.pptr = 0 THEN 0 ELSE c.fb.pptr - c.fb.base
  BY PendingIsText
<1>2. c.fb \in Bufs /\ c.os \in Files /\ DOMAIN c = {"fb", "os", "ret", "lost"}
  BY DEF Calls
<1>3. PICK k \in 0 .. n :
        d = IF k = n
            THEN [c EXCEPT !.fb = IF n = 0 THEN c.fb ELSE Moved(c.fb, n),
                           !.os = WriteOut(c.os, str), !.ret = 0]
            ELSE [c EXCEPT !.fb = Unknown(c.fb), !.os = WriteOut(c.os, SubSeq(str, 1, k)),
                           !.ret = EOF, !.lost = c.lost \/ k > 0]
  BY DEF Drained
<1>. HIDE DEF n, str
<1>4. CASE k = n
  <2>. DEFINE w == WriteOut(c.os, str)
              f == IF n = 0 THEN c.fb ELSE Moved(c.fb, n)
  <2>1. w \in Files /\ w.append = c.os.append /\ (~ c.os.append => w.at = c.os.at + n)
    BY <1>1, <1>2, WriteOutFields DEF n
  <2>2. f \in Bufs /\ SameFile(c.fb, f)
    BY <1>1, <1>2, MovedFields DEF SameFile
  <2>3. f.last_seek # EOF => f.last_seek = w.at
    <3>1. CASE n = 0
      <4>1. str = <<>>
        BY <1>1, <3>1 DEF n
      <4>2. w = c.os
        BY <4>1 DEF WriteOut
      <4>. QED  BY <3>1, <4>2 DEF Writable
    <3>2. CASE n # 0
      <4>1. f.last_seek # EOF => /\ f.last_seek = c.fb.last_seek + n
                                 /\ c.fb.last_seek # EOF /\ c.fb.mode = "plain"
        BY <1>1, <1>2, <3>2, MovedFields
      <4>. QED  BY <2>1, <4>1 DEF Writable
    <3>. QED  BY <3>1, <3>2
  <2>4. d = [c EXCEPT !.fb = f, !.os = w, !.ret = 0]
    BY <1>3, <1>4
  <2>. HIDE DEF f, w
  <2>5. f \in Bufs /\ w \in Files /\ 0 \in Int
    BY <2>1, <2>2
  <2>6. d \in Calls /\ d.fb = f /\ d.os = w /\ d.ret = 0 /\ d.lost = c.lost
    BY <2>4, <2>5 DEF Calls
  <2>7. w.text = ContentOf(c.fb, c.os)
    BY DEF ContentOf, str, w
  <2>. QED  BY <1>1, <2>1, <2>2, <2>3, <2>6, <2>7 DEF AllWritten
<1>5. CASE k # n
  <2>. DEFINE w == WriteOut(c.os, SubSeq(str, 1, k))
  <2>1. SubSeq(str, 1, k) \in Seq(Codes)
    BY <1>1 DEF n
  <2>2. w \in Files
    BY <1>2, <2>1, WriteOutFields
  <2>3. Unknown(c.fb) \in Bufs
    BY <1>2, UnknownFields
  <2>. HIDE DEF w
  <2>4. d = [c EXCEPT !.fb = Unknown(c.fb), !.os = w, !.ret = EOF, !.lost = c.lost \/ k > 0]
    BY <1>3, <1>5 DEF w
  <2>5. (c.lost \/ k > 0) \in BOOLEAN /\ EOF \in Int
    BY DEF EOF
  <2>6. /\ d \in Calls /\ d.fb = Unknown(c.fb) /\ d.os = w /\ d.ret = EOF
        /\ d.lost = (c.lost \/ k > 0)
    BY <2>2, <2>3, <2>4, <2>5 DEF Calls
  <2>8. CASE k = 0
    <3>1. SubSeq(str, 1, k) = <<>>
      BY <2>8, <1>1
    <3>2. w = c.os
      BY <3>1 DEF w, WriteOut
    <3>3. ~ (k > 0)
      BY <2>8
    <3>4. d.lost = FALSE
      BY <2>6, <3>3, Zenon
    <3>. QED  BY <2>6, <3>2, <3>4 DEF Failed
  <2>9. CASE k # 0
    <3>1. k > 0
      BY <1>1, <2>9
    <3>2. d.lost = TRUE
      BY <2>6, <3>1, Zenon
    <3>. QED  BY <2>6, <3>2 DEF Failed
  <2>. QED  BY <2>8, <2>9
<1>. QED  BY <1>4, <1>5

LEMMA EmptiedFields ==
  ASSUME NEW c \in Calls
  PROVE  LET d == Emptied(c)
         IN  /\ d \in Calls /\ d.os = c.os /\ d.ret = c.ret /\ d.lost = c.lost
             /\ SameFile(c.fb, d.fb) /\ NoInput(d.fb) /\ NoOutput(d.fb)
             /\ d.fb.last_seek = EOF
<1>. DEFINE p == SetP(c.fb, 0, 0)
            g == SetG(p, 0, 0, 0)
            u == Unknown(g)
<1>1. c.fb \in Bufs /\ DOMAIN c = {"fb", "os", "ret", "lost"}
  BY DEF Calls
<1>2. p \in Bufs /\ SameFile(c.fb, p) /\ NoOutput(p)
  BY <1>1, SetPFields DEF NoOutput
<1>. HIDE DEF p
<1>3. g \in Bufs /\ SameFile(c.fb, g) /\ NoOutput(g) /\ NoInput(g)
  BY <1>2, SetGFields DEF NoOutput, NoInput, SameFile
<1>. HIDE DEF g
<1>4. u \in Bufs /\ SameFile(c.fb, u) /\ NoOutput(u) /\ NoInput(u) /\ u.last_seek = EOF
  BY <1>3, UnknownFields DEF NoOutput, NoInput, SameFile
<1>. HIDE DEF u
<1>5. Emptied(c) = [c EXCEPT !.fb = u]
  BY DEF Emptied, u, g, p
<1>. QED  BY <1>1, <1>4, <1>5 DEF Calls

\* Nothing is in the buffer, of a filebuf that was sound but for its input.
LEMMA EmptySound ==
  ASSUME NEW f, NEW o, NEW g, NEW q, g \in Bufs, q \in Files, Writable(f, o),
         SameFile(f, g), q.append = o.append, NoInput(g), NoOutput(g),
         g.last_seek # EOF => g.last_seek = q.at
  PROVE  BufSound(g, q) /\ PositionOf(g, q) = q.at /\ ContentOf(g, q) = q.text
BY IdleSeen DEF BufSound, Writable, SameFile, NoInput, NoOutput, PositionOf

LEMMA InputGivenBack ==
  ASSUME NEW c \in Calls, BufSound(c.fb, c.os), c.fb.pptr = 0, c.fb.gptr # 0
  PROVE  LET d == Emptied(InputSynced(c))
         IN  /\ d \in Calls /\ d.ret = 0 /\ d.lost = c.lost
             /\ BufSound(d.fb, d.os) /\ Same(c.fb, c.os, d.fb, d.os)
             /\ SameFile(c.fb, d.fb) /\ NoInput(d.fb) /\ NoOutput(d.fb)
<1>. DEFINE to == c.os.at + c.fb.gptr - c.fb.egptr
            s == InputSynced(c)
            q == [c.os EXCEPT !.at = to]
<1>1. /\ c.fb \in Bufs /\ c.os \in Files /\ DOMAIN c = {"fb", "os", "ret", "lost"}
      /\ c.os.at \in Nat /\ c.fb.gptr \in Nat /\ c.fb.egptr \in Nat
  BY DEF Calls, Files, Bufs
<1>2. to \in Nat /\ to = PositionOf(c.fb, c.os)
  BY <1>1 DEF BufSound, InputSound, PositionOf
<1>. HIDE DEF to
<1>3. s = [c EXCEPT !.os.at = to, !.ret = 0]
  BY <1>2 DEF InputSynced, to
<1>4. q \in Files /\ q.at = to /\ q.append = c.os.append /\ q.text = c.os.text
  BY <1>1, <1>2 DEF Files
<1>5. s \in Calls /\ s.fb = c.fb /\ s.os = q /\ s.ret = 0 /\ s.lost = c.lost
  <2>1. s = [c EXCEPT !.os = q, !.ret = 0]
    BY <1>1, <1>3
  <2>. HIDE DEF s, q
  <2>2. q \in Files /\ 0 \in Int
    BY <1>4
  <2>. QED  BY <1>1, <2>1, <2>2 DEF Calls
<1>. HIDE DEF s, q
<1>. DEFINE d == Emptied(s)
<1>6. /\ d \in Calls /\ d.os = q /\ d.ret = 0 /\ d.lost = c.lost
      /\ SameFile(c.fb, d.fb) /\ NoInput(d.fb) /\ NoOutput(d.fb) /\ d.fb.last_seek = EOF
  BY <1>5, EmptiedFields
<1>7. d.fb \in Bufs
  BY <1>6 DEF Calls
<1>. HIDE DEF d
<1>8. BufSound(d.fb, d.os) /\ PositionOf(d.fb, d.os) = to /\ ContentOf(d.fb, d.os) = c.os.text
  BY <1>4, <1>6, <1>7, EmptySound DEF BufSound
<1>9. ContentOf(c.fb, c.os) = c.os.text
  BY IdleSeen
<1>10. Same(c.fb, c.os, d.fb, d.os)
  BY <1>2, <1>4, <1>6, <1>8, <1>9 DEF Same
<1>. QED  BY <1>6, <1>8, <1>10 DEF d, s

\* ch has been written at the position of f and o.
PutAt(f, o, ch, g, q) ==
  /\ q.append = o.append
  /\ ~ o.append =>
       /\ ContentOf(g, q) = Overwritten(ContentOf(f, o), PositionOf(f, o), <<ch>>)
       /\ PositionOf(g, q) = PositionOf(f, o) + 1

LEMMA OneMore ==
  ASSUME NEW f, NEW o, BufSound(f, o), f.opened = TRUE, f.pptr # 0, f.pptr < f.epptr,
         NEW ch \in Codes
  PROVE  LET g == [Holding(f, f.pptr, ch) EXCEPT !.pptr = @ + 1]
         IN  BufSound(g, o) /\ PutAt(f, o, ch, g, o)
<1>. DEFINE h == Holding(f, f.pptr, ch)
            g == WithPptr(h, h.pptr + 1)
<1>1. /\ Writable(f, o) /\ f \in Bufs /\ o \in Files /\ f.pptr \in Nat /\ f.base = 1
      /\ f.pptr >= 1 /\ OutputSound(f) /\ o.text \in Seq(Codes) /\ o.at \in Nat
  BY DEF BufSound, Writable, OutputSound, Bufs, Files, Base
<1>2. /\ h \in Bufs /\ SameFile(f, h)
      /\ DOMAIN h.mem = DOMAIN f.mem \cup {f.pptr} /\ h.mem[f.pptr] = ch
      /\ \A y \in DOMAIN f.mem : y # f.pptr => h.mem[y] = f.mem[y]
      /\ h.pbase = f.pbase /\ h.pptr = f.pptr /\ h.epptr = f.epptr
      /\ h.eback = f.eback /\ h.gptr = f.gptr /\ h.egptr = f.egptr
      /\ h.last_seek = f.last_seek
  BY <1>1, HoldingFields
<1>. HIDE DEF h
<1>3. /\ g \in Bufs /\ SameFile(f, g) /\ g.mem = h.mem
      /\ g.pbase = f.pbase /\ g.pptr = f.pptr + 1 /\ g.epptr = f.epptr
      /\ g.eback = f.eback /\ g.gptr = f.gptr /\ g.egptr = f.egptr
      /\ g.last_seek = f.last_seek
  <2>1. h.pptr + 1 = f.pptr + 1 /\ f.pptr + 1 \in Nat
    BY <1>1, <1>2
  <2>. QED  BY <1>2, <2>1, WithPptrFields DEF SameFile
<1>. HIDE DEF g
<1>4. OutputSound(g)
  <2>1. Base .. g.pptr - 1 \subseteq DOMAIN g.mem
    BY <1>1, <1>2, <1>3 DEF OutputSound, Base
  <2>. QED  BY <1>1, <1>3, <2>1, SizesAssumption DEF OutputSound, SameFile, Base
<1>5. Writable(g, o)
  BY <1>1, <1>3, <1>4 DEF Writable, SameFile
<1>6. BufSound(g, o)
  BY <1>1, <1>3, <1>5 DEF BufSound, SameFile
<1>. DEFINE p == Pending(f)
            r == Pending(g)
<1>7. /\ p \in Seq(Codes) /\ Len(p) = f.pptr - 1
      /\ \A i \in 1 .. f.pptr - 1 : p[i] = f.mem[i]
  BY <1>1, PendingIsText
<1>8. /\ r \in Seq(Codes) /\ Len(r) = f.pptr /\ g.base = 1 /\ g.pptr = f.pptr + 1
      /\ \A i \in 1 .. f.pptr : r[i] = g.mem[i]
  <2>1. g.base = 1 /\ g.pptr = f.pptr + 1 /\ g.pptr # 0 /\ g.pptr - g.base = f.pptr
    BY <1>1, <1>3 DEF SameFile
  <2>2. /\ r \in Seq(Codes) /\ Len(r) = f.pptr
        /\ \A i \in 1 .. f.pptr : r[i] = g.mem[g.base + i - 1]
    BY <1>5, <2>1, PendingIsText
  <2>3. \A i \in 1 .. f.pptr : g.base + i - 1 = i
    BY <1>1, <2>1
  <2>. QED  BY <2>1, <2>2, <2>3
<1>9. \A i \in 1 .. f.pptr - 1 : i \in DOMAIN f.mem
  BY <1>1 DEF OutputSound, Base
<1>. HIDE DEF p, r
<1>10. OneLonger(p, r, ch)
  <2>1. Len(r) = Len(p) + 1 /\ Len(p) + 1 = f.pptr
    BY <1>1, <1>7, <1>8
  <2>2. r[f.pptr] = ch
    BY <1>1, <1>2, <1>3, <1>8
  <2>3. ASSUME NEW i \in 1 .. f.pptr - 1
        PROVE  r[i] = p[i]
    <3>1. i \in 1 .. f.pptr /\ i # f.pptr /\ i \in DOMAIN f.mem
      BY <1>1, <1>9
    <3>2. r[i] = h.mem[i] /\ p[i] = f.mem[i]
      BY <1>3, <1>7, <1>8, <3>1
    <3>. QED  BY <1>2, <3>1, <3>2
  <2>. QED  BY <2>1, <2>2, <2>3, <1>8 DEF OneLonger
<1>11. Overwritten(o.text, o.at, r) =
         Overwritten(Overwritten(o.text, o.at, p), o.at + Len(p), <<ch>>)
  <2>1. /\ o.text \in Seq(Codes) /\ o.at \in Nat /\ ch \in Codes
        /\ p \in Seq(Codes) /\ OneLonger(p, r, ch)
    BY <1>1, <1>7, <1>10
  <2>. QED  BY ONLY <2>1, WrittenOnce
<1>12. ASSUME ~ o.append
       PROVE  /\ ContentOf(g, o) = Overwritten(ContentOf(f, o), PositionOf(f, o), <<ch>>)
              /\ PositionOf(g, o) = PositionOf(f, o) + 1
  <2>1. ContentOf(f, o) = Overwritten(o.text, o.at, p)
    BY <1>1, <1>7, <1>12, WriteOutFields DEF ContentOf, p
  <2>2. ContentOf(g, o) = Overwritten(o.text, o.at, r)
    BY <1>1, <1>8, <1>12, WriteOutFields DEF ContentOf, r
  <2>3. PositionOf(f, o) = o.at + Len(p)
    BY <1>1, <1>7 DEF PositionOf
  <2>4. PositionOf(g, o) = PositionOf(f, o) + 1
    BY <1>1, <1>8 DEF PositionOf
  <2>. QED  BY <1>11, <2>1, <2>2, <2>3, <2>4
<1>13. PutAt(f, o, ch, g, o)
  BY <1>12 DEF PutAt
<1>14. g = [Holding(f, f.pptr, ch) EXCEPT !.pptr = @ + 1]
  BY DEF g, h, WithPptr
<1>. QED  BY <1>6, <1>13, <1>14

\* Everything is written, and there is a buffer unless none is wanted.
Fresh(f, o) ==
  /\ f \in Bufs /\ o \in Files
  /\ f.base = (IF f.unbuf THEN 0 ELSE Base)
  /\ f.last_seek # EOF => f.last_seek = o.at
  /\ f.mode = "plain" => ~ o.append

\* The buffer of Started().
StartedBuf(f) == SetG(SetP(f, f.base, Ebuf(f)), 0, 0, 0)

LEMMA StartedBufSound ==
  ASSUME NEW f, NEW o, Fresh(f, o)
  PROVE  LET g == StartedBuf(f)
         IN  /\ BufSound(g, o) /\ SameFile(f, g)
             /\ g.pbase = f.base /\ g.pptr = f.base /\ g.epptr = Ebuf(f) /\ NoInput(g)
             /\ PositionOf(g, o) = o.at /\ ContentOf(g, o) = o.text
<1>. DEFINE p == SetP(f, f.base, Ebuf(f))
            g == SetG(p, 0, 0, 0)
<1>1. f \in Bufs /\ o \in Files /\ f.base \in Nat /\ Ebuf(f) \in Nat
  BY SizesAssumption DEF Fresh, Bufs, Ebuf, Base
<1>2. /\ p \in Bufs /\ SameFile(f, p) /\ p.pbase = f.base /\ p.pptr = f.base
      /\ p.epptr = Ebuf(f) /\ p.last_seek = f.last_seek
  BY ONLY <1>1, NoMemory DEF Bufs, SetP, SameFile
<1>. HIDE DEF p
<1>3. /\ g \in Bufs /\ SameFile(f, g) /\ NoInput(g)
      /\ g.pbase = f.base /\ g.pptr = f.base /\ g.epptr = Ebuf(f)
      /\ g.last_seek = f.last_seek
  BY <1>2, SetGFields DEF SameFile, NoInput
<1>. HIDE DEF g
<1>4. Writable(g, o)
  BY <1>1, <1>3, SizesAssumption DEF Writable, Fresh, SameFile, OutputSound, Ebuf, Base
<1>5. BufSound(g, o)
  BY <1>3, <1>4 DEF BufSound, SameFile, NoInput
<1>6. o.at \in Nat /\ g.base = f.base
  BY <1>1, <1>3 DEF Files, SameFile
<1>7. PositionOf(g, o) = o.at
  BY <1>1, <1>3, <1>6 DEF PositionOf, NoInput
<1>8. Pending(g) = <<>>
  BY <1>1, <1>3, <1>6, <1>4, PendingIsText
<1>9. ContentOf(g, o) = o.text
  BY <1>8 DEF ContentOf, WriteOut
<1>. QED  BY <1>3, <1>5, <1>7, <1>9 DEF StartedBuf, g, p

LEMMA UnknownSeen ==
  ASSUME NEW f, NEW o, Writable(f, o)
  PROVE  LET g == Unknown(f)
         IN  /\ Writable(g, o) /\ (BufSound(f, o) => BufSound(g, o)) /\ SameFile(f, g)
             /\ PositionOf(g, o) = PositionOf(f, o) /\ ContentOf(g, o) = ContentOf(f, o)
             /\ g.pptr = f.pptr
<1>. DEFINE g == Unknown(f)
<1>1. /\ g \in Bufs /\ SameFile(f, g) /\ g.last_seek = EOF /\ g.mem = f.mem
      /\ g.pbase = f.pbase /\ g.pptr = f.pptr /\ g.epptr = f.epptr
      /\ g.eback = f.eback /\ g.gptr = f.gptr /\ g.egptr = f.egptr
      /\ g.in_start = f.in_start
  BY UnknownFields DEF Writable
<1>. HIDE DEF g
<1>2. Writable(g, o)
  BY <1>1 DEF Writable, OutputSound, SameFile
<1>3. BufSound(f, o) => BufSound(g, o)
  BY <1>1, <1>2 DEF BufSound, InputSound, SameFile
<1>4. PositionOf(g, o) = PositionOf(f, o)
  BY <1>1 DEF PositionOf, SameFile
<1>5. Pending(g) = Pending(f)
  BY <1>1 DEF Pending, SameFile
<1>. QED  BY <1>1, <1>2, <1>3, <1>4, <1>5 DEF ContentOf, g

LEMMA AllocatedSeen ==
  ASSUME NEW f, NEW o, Writable(f, o)
  PROVE  LET g == Allocated(f)
         IN  /\ Writable(g, o) /\ (BufSound(f, o) => BufSound(g, o))
             /\ PositionOf(g, o) = PositionOf(f, o) /\ ContentOf(g, o) = ContentOf(f, o)
             /\ g.pptr = f.pptr /\ g.gptr = f.gptr
             /\ g.opened = f.opened /\ g.unbuf = f.unbuf /\ g.mode = f.mode
             /\ g.base = (IF f.unbuf THEN 0 ELSE Base)
<1>. DEFINE g == Allocated(f)
<1>1. /\ g \in Bufs /\ g.opened = f.opened /\ g.mode = f.mode
      /\ g.unbuf = f.unbuf /\ g.base = (IF f.unbuf THEN 0 ELSE Base)
      /\ g.mem = f.mem
      /\ g.pbase = f.pbase /\ g.pptr = f.pptr /\ g.epptr = f.epptr
      /\ g.eback = f.eback /\ g.gptr = f.gptr /\ g.egptr = f.egptr
      /\ g.in_start = f.in_start /\ g.last_seek = f.last_seek
  BY AllocatedFields DEF Writable
<1>. HIDE DEF g
<1>2. f.pptr # 0 => g.base = f.base
  BY <1>1 DEF Writable, OutputSound, Base
<1>3. Writable(g, o)
  BY <1>1, <1>2 DEF Writable, OutputSound
<1>4. BufSound(f, o) => BufSound(g, o)
  BY <1>1, <1>2, <1>3 DEF BufSound, InputSound
<1>5. PositionOf(g, o) = PositionOf(f, o)
  BY <1>1, <1>2 DEF PositionOf
<1>6. Pending(g) = Pending(f)
  BY <1>1, <1>2 DEF Pending
<1>. QED  BY <1>1, <1>3, <1>4, <1>5, <1>6 DEF ContentOf, g

LEMMA StartedFlush ==
  ASSUME NEW c \in Calls, Fresh(c.fb, c.os), NEW d \in Started(c, EOF)
  PROVE  /\ d \in Calls /\ d.ret = 0 /\ d.lost = c.lost /\ d.os = c.os
         /\ BufSound(d.fb, d.os) /\ SameFile(c.fb, d.fb)
         /\ PositionOf(d.fb, d.os) = c.os.at /\ ContentOf(d.fb, d.os) = c.os.text
<1>. DEFINE g == StartedBuf(c.fb)
<1>1. /\ BufSound(g, c.os) /\ SameFile(c.fb, g)
      /\ PositionOf(g, c.os) = c.os.at /\ ContentOf(g, c.os) = c.os.text
  BY StartedBufSound
<1>2. d = [c EXCEPT !.fb = g, !.ret = 0]
  BY DEF Started, StartedBuf
<1>3. g \in Bufs /\ 0 \in Int
  BY <1>1 DEF BufSound, Writable
<1>. HIDE DEF g
<1>4. d \in Calls /\ d.fb = g /\ d.os = c.os /\ d.ret = 0 /\ d.lost = c.lost
  BY <1>2, <1>3 DEF Calls
<1>. QED  BY <1>1, <1>4

\* ch is the first character in the buffer, or is written at once.
Begun(c, ch, d) ==
  /\ d.lost = c.lost /\ BufSound(d.fb, d.os)
  /\ \/ /\ d.ret = EOF /\ d.os = c.os
        /\ PositionOf(d.fb, d.os) = c.os.at /\ ContentOf(d.fb, d.os) = c.os.text
     \/ /\ d.ret = ch /\ d.os.append = c.os.append
        /\ ~ c.os.append =>
             /\ ContentOf(d.fb, d.os) = Overwritten(c.os.text, c.os.at, <<ch>>)
             /\ PositionOf(d.fb, d.os) = c.os.at + 1

LEMMA StartedPut ==
  ASSUME NEW c \in Calls, Fresh(c.fb, c.os), c.fb.opened = TRUE,
         NEW ch \in Chars, NEW d \in Started(c, ch)
  PROVE  d \in Calls /\ Begun(c, ch, d)
<1>. DEFINE g == StartedBuf(c.fb)
<1>1. /\ BufSound(g, c.os) /\ SameFile(c.fb, g)
      /\ g.pbase = c.fb.base /\ g.pptr = c.fb.base /\ g.epptr = Ebuf(c.fb) /\ NoInput(g)
      /\ PositionOf(g, c.os) = c.os.at /\ ContentOf(g, c.os) = c.os.text
  BY StartedBufSound
<1>2. ch \in Nat /\ ch # EOF /\ ch \in Codes /\ ch \in Int /\ EOF \in Int
  BY CharsAssumption DEF Codes, EOF
<1>3. Writable(g, c.os) /\ g \in Bufs /\ c.os \in Files
  BY <1>1 DEF BufSound, Writable
<1>4. d \in IF g.unbuf
            THEN {[c EXCEPT !.fb = Unknown(g), !.os = WriteOut(c.os, <<ch>>), !.ret = ch],
                  [c EXCEPT !.fb = Unknown(g), !.ret = EOF]}
            ELSE {[c EXCEPT !.fb = [Holding(g, g.pptr, ch) EXCEPT !.pptr = @ + 1],
                            !.ret = ch]}
  BY <1>2 DEF Started, StartedBuf
<1>. HIDE DEF g
<1>5. CASE g.unbuf
  <2>. DEFINE u == Unknown(g)
              w == WriteOut(c.os, <<ch>>)
  <2>1. /\ BufSound(u, c.os) /\ u \in Bufs /\ SameFile(g, u) /\ Writable(u, c.os)
        /\ PositionOf(u, c.os) = c.os.at /\ ContentOf(u, c.os) = c.os.text
        /\ u.last_seek = EOF
    BY <1>1, <1>3, UnknownSeen, UnknownFields DEF Writable
  <2>2. NoInput(u) /\ NoOutput(u)
    <3>1. g.pbase = 0 /\ g.pptr = 0 /\ g.epptr = 0
      BY <1>1, <1>5 DEF Fresh, SameFile, Ebuf
    <3>. QED  BY <1>1, <1>3, <3>1, UnknownFields DEF NoInput, NoOutput
  <2>3. /\ w \in Files /\ w.append = c.os.append
        /\ ~ c.os.append => /\ w.at = c.os.at + 1
                            /\ w.text = Overwritten(c.os.text, c.os.at, <<ch>>)
    <3>. DEFINE o == <<ch>>
    <3>1. o \in Seq(Codes) /\ Len(o) = 1
      BY <1>2
    <3>. HIDE DEF o
    <3>2. LET v == WriteOut(c.os, o)
          IN  /\ v \in Files /\ v.append = c.os.append
              /\ ~ c.os.append => /\ v.at = c.os.at + 1
                                  /\ v.text = Overwritten(c.os.text, c.os.at, o)
      BY <1>3, <3>1, WriteOutFields
    <3>. QED  BY <3>2 DEF o
  <2>. HIDE DEF u, w
  <2>4. BufSound(u, w) /\ PositionOf(u, w) = w.at /\ ContentOf(u, w) = w.text
    BY <2>1, <2>2, <2>3, EmptySound DEF SameFile
  <2>5. \/ d = [c EXCEPT !.fb = u, !.os = w, !.ret = ch]
        \/ d = [c EXCEPT !.fb = u, !.ret = EOF]
    BY <1>4, <1>5 DEF u, w
  <2>6. CASE d = [c EXCEPT !.fb = u, !.os = w, !.ret = ch]
    <3>1. d \in Calls /\ d.fb = u /\ d.os = w /\ d.ret = ch /\ d.lost = c.lost
      BY <1>2, <2>1, <2>3, <2>6 DEF Calls
    <3>. QED  BY <2>3, <2>4, <3>1 DEF Begun
  <2>7. CASE d = [c EXCEPT !.fb = u, !.ret = EOF]
    <3>1. d \in Calls /\ d.fb = u /\ d.os = c.os /\ d.ret = EOF /\ d.lost = c.lost
      BY <1>2, <2>1, <2>7 DEF Calls
    <3>. QED  BY <2>1, <3>1 DEF Begun
  <2>. QED  BY <2>5, <2>6, <2>7
<1>6. CASE ~ g.unbuf
  <2>. DEFINE h == [Holding(g, g.pptr, ch) EXCEPT !.pptr = @ + 1]
  <2>1. g.pptr # 0 /\ g.pptr < g.epptr
    BY <1>1, <1>6, SizesAssumption DEF Fresh, SameFile, Ebuf, Base
  <2>2. g.opened = TRUE
    BY <1>1 DEF SameFile
  <2>3. BufSound(h, c.os) /\ PutAt(g, c.os, ch, h, c.os)
    BY <1>1, <1>2, <2>1, <2>2, OneMore
  <2>4. d = [c EXCEPT !.fb = h, !.ret = ch]
    BY <1>4, <1>6
  <2>. HIDE DEF h
  <2>5. h \in Bufs
    BY <2>3 DEF BufSound, Writable
  <2>6. d \in Calls /\ d.fb = h /\ d.os = c.os /\ d.ret = ch /\ d.lost = c.lost
    BY <1>2, <2>4, <2>5 DEF Calls
  <2>. QED  BY <1>1, <2>3, <2>6 DEF PutAt, Begun
<1>. QED  BY <1>5, <1>6

\* What overflow() may be called on: sound, or sound but for input that is no
\* longer wanted.
Flushable(f, o) == Writable(f, o) /\ (f.pptr # 0 \/ BufSound(f, o))

\* The device has failed, and this is seen if it was at a bad moment.
Lost(d) == d.lost = TRUE /\ d.ret = EOF

\* It has failed, and nothing has happened.
Refused(c, d) ==
  /\ d.lost = c.lost /\ d.ret = EOF
  /\ Same(c.fb, c.os, d.fb, d.os)
  /\ BufSound(c.fb, c.os) => BufSound(d.fb, d.os)

HasBuffer(f, g) ==
  /\ g.opened = f.opened /\ g.unbuf = f.unbuf /\ g.mode = f.mode
  /\ g.base = (IF g.unbuf THEN 0 ELSE Base)

\* What was to be written is written; and then ch is, if it is not EOF.
Flushed(c, d) ==
  /\ d.lost = c.lost /\ d.ret = 0
  /\ BufSound(d.fb, d.os) /\ Same(c.fb, c.os, d.fb, d.os)
  /\ HasBuffer(c.fb, d.fb)
  /\ PositionOf(d.fb, d.os) = d.os.at /\ ContentOf(d.fb, d.os) = d.os.text

TookChar(c, ch, d) ==
  /\ d.lost = c.lost /\ d.ret = ch
  /\ BufSound(d.fb, d.os) /\ PutAt(c.fb, c.os, ch, d.fb, d.os)

\* The file is where the program is, and the buffer is free.
Cleared(c, e) ==
  /\ e \in Calls /\ e.ret = 0 /\ e.lost = c.lost
  /\ Fresh(e.fb, e.os) /\ HasBuffer(c.fb, e.fb)
  /\ e.os.append = c.os.append /\ e.os.text = ContentOf(c.fb, c.os)
  /\ c.os.append \/ e.os.at = PositionOf(c.fb, c.os)

LEMMA OverflowClears ==
  ASSUME NEW c \in Calls, c.lost = FALSE, Flushable(c.fb, c.os), c.fb.opened = TRUE,
         NEW ch \in Chars \cup {EOF}, NEW d \in Overflow(c, ch)
  PROVE  \/ d \in Calls /\ (Lost(d) \/ Refused(c, d))
         \/ \E e : Cleared(c, e) /\ d \in Started(e, ch)
<1>. DEFINE f == Allocated(c.fb)
            a == [c EXCEPT !.fb = f]
            b == IF LastOp(a.fb) = "input" THEN InputSynced(a) ELSE Returns(a, 0)
            s == IF LastOp(a.fb) = "input" THEN Emptied(b) ELSE b
<1>1. /\ Writable(c.fb, c.os) /\ c.fb \in Bufs /\ c.os \in Files
      /\ c.fb.pptr \in Nat /\ c.fb.base \in Nat /\ c.os.at \in Nat
  BY DEF Flushable, Writable, Bufs, Files, Base
<1>2. /\ Writable(f, c.os) /\ (BufSound(c.fb, c.os) => BufSound(f, c.os))
      /\ PositionOf(f, c.os) = PositionOf(c.fb, c.os)
      /\ ContentOf(f, c.os) = ContentOf(c.fb, c.os)
      /\ f.pptr = c.fb.pptr /\ f.gptr = c.fb.gptr
      /\ HasBuffer(c.fb, f)
  BY <1>1, AllocatedSeen DEF HasBuffer
<1>3. f \in Bufs /\ 0 \in Int
  BY <1>2 DEF Writable
<1>4. \E x \in {s} : IF x.ret = EOF THEN d = x
                     ELSE \E e \in Drained(x) : IF e.ret = EOF THEN d = e
                                               ELSE d \in Started(e, ch)
  BY Zenon DEF Overflow
<1>. HIDE DEF f
<1>5. a \in Calls /\ a.fb = f /\ a.os = c.os /\ a.lost = c.lost
  BY <1>3 DEF Calls
<1>6. Returns(a, 0) \in Calls /\ Returns(a, 0).fb = f /\ Returns(a, 0).os = c.os
      /\ Returns(a, 0).ret = 0 /\ Returns(a, 0).lost = c.lost
  BY <1>3, <1>5 DEF Calls, Returns
<1>. HIDE DEF a
<1>7. /\ s \in Calls /\ s.ret = 0 /\ s.lost = c.lost
      /\ Writable(s.fb, s.os) /\ (BufSound(c.fb, c.os) => BufSound(s.fb, s.os))
      /\ Same(c.fb, c.os, s.fb, s.os)
      /\ HasBuffer(c.fb, s.fb) /\ (s.fb.pptr = 0 => s.fb.gptr = 0)
  <2>1. CASE f.pptr = 0 /\ f.gptr # 0
    <3>1. LastOp(a.fb) = "input"
      BY <2>1, <1>5 DEF LastOp
    <3>2. BufSound(a.fb, a.os) /\ a.fb.pptr = 0 /\ a.fb.gptr # 0
      BY <2>1, <1>2, <1>5 DEF Flushable
    <3>3. s = Emptied(InputSynced(a))
      BY <3>1
    <3>. HIDE DEF s
    <3>4. /\ s \in Calls /\ s.ret = 0 /\ s.lost = a.lost
          /\ BufSound(s.fb, s.os) /\ Same(a.fb, a.os, s.fb, s.os)
          /\ SameFile(a.fb, s.fb) /\ NoInput(s.fb)
      BY <1>5, <3>2, <3>3, InputGivenBack
    <3>5. Same(c.fb, c.os, s.fb, s.os)
      BY <3>4, <1>2, <1>5 DEF Same
    <3>. QED  BY <3>4, <3>5, <1>2, <1>5 DEF BufSound, HasBuffer, SameFile, NoInput
  <2>2. CASE ~ (f.pptr = 0 /\ f.gptr # 0)
    <3>1. LastOp(a.fb) # "input"
      BY <2>2, <1>5 DEF LastOp
    <3>2. s = Returns(a, 0)
      BY <3>1
    <3>. HIDE DEF s
    <3>3. Same(c.fb, c.os, s.fb, s.os)
      BY <3>2, <1>2, <1>6 DEF Same
    <3>. QED  BY <2>2, <3>2, <3>3, <1>2, <1>6
  <2>. QED  BY <2>1, <2>2
<1>. HIDE DEF s
<1>8. PICK e \in Drained(s) : IF e.ret = EOF THEN d = e ELSE d \in Started(e, ch)
  BY <1>4, <1>7 DEF EOF
<1>9. e \in Calls /\ (Failed(s, e) \/ AllWritten(s, e))
  BY <1>7, DrainedOrFailed
<1>10. CASE Failed(s, e)
  <2>1. d = e /\ d.ret = EOF
    BY <1>8, <1>10 DEF Failed
  <2>2. CASE e.lost = s.lost
    <3>1. e.os = s.os /\ e.fb = Unknown(s.fb)
      BY <1>10, <2>2 DEF Failed
    <3>2. Same(c.fb, c.os, e.fb, e.os)
      BY <3>1, <1>7, UnknownSeen DEF Same
    <3>3. BufSound(s.fb, s.os) => BufSound(e.fb, e.os)
      BY <3>1, <1>7, UnknownSeen
    <3>. QED  BY <2>1, <2>2, <3>2, <3>3, <1>7, <1>9 DEF Refused
  <2>3. CASE e.lost # s.lost
    BY <2>1, <2>3, <1>9, <1>10 DEF Failed, Lost
  <2>. QED  BY <2>2, <2>3
<1>11. CASE AllWritten(s, e)
  <2>1. d \in Started(e, ch)
    BY <1>8, <1>11 DEF AllWritten, EOF
  <2>2. e.fb \in Bufs /\ e.os \in Files
    BY <1>9 DEF Calls
  <2>3. Fresh(e.fb, e.os)
    BY <2>2, <1>7, <1>11 DEF Fresh, AllWritten, SameFile, HasBuffer, Writable
  <2>4. e.os.text = ContentOf(c.fb, c.os) /\ e.os.append = c.os.append
    BY <1>7, <1>11 DEF AllWritten, Same
  <2>5. ~ c.os.append => e.os.at = PositionOf(s.fb, s.os)
    <3>1. s.os.at \in Nat /\ s.fb.pptr \in Nat /\ s.fb.base \in Nat
      <4>1. s.fb \in Bufs /\ s.os \in Files
        BY <1>7 DEF Calls
      <4>. QED  BY <4>1 DEF Files, Bufs, Base
    <3>. QED  BY <3>1, <1>7, <1>11 DEF AllWritten, PositionOf, Same
  <2>6. Cleared(c, e)
    BY <2>3, <2>4, <2>5, <1>7, <1>9, <1>11 DEF Cleared, AllWritten, HasBuffer, SameFile, Same
  <2>. QED  BY <2>1, <2>6
<1>. QED  BY <1>9, <1>10, <1>11

LEMMA OverflowFlushes ==
  ASSUME NEW c \in Calls, c.lost = FALSE, Flushable(c.fb, c.os), c.fb.opened = TRUE,
         NEW d \in Overflow(c, EOF)
  PROVE  d \in Calls /\ (Lost(d) \/ Refused(c, d) \/ Flushed(c, d))
<1>1. CASE d \in Calls /\ (Lost(d) \/ Refused(c, d))
  BY <1>1
<1>2. ASSUME NEW e, Cleared(c, e), d \in Started(e, EOF)
      PROVE  d \in Calls /\ Flushed(c, d)
  <2>1. e \in Calls /\ Fresh(e.fb, e.os)
    BY <1>2 DEF Cleared
  <2>2. /\ d \in Calls /\ d.ret = 0 /\ d.lost = e.lost /\ d.os = e.os
        /\ BufSound(d.fb, d.os) /\ SameFile(e.fb, d.fb)
        /\ PositionOf(d.fb, d.os) = e.os.at /\ ContentOf(d.fb, d.os) = e.os.text
    BY <1>2, <2>1, StartedFlush
  <2>. QED  BY <2>2, <1>2 DEF Flushed, Cleared, Same, HasBuffer, SameFile
<1>3. \/ d \in Calls /\ (Lost(d) \/ Refused(c, d))
      \/ \E e : Cleared(c, e) /\ d \in Started(e, EOF)
  BY OverflowClears
<1>. QED  BY <1>1, <1>2, <1>3

LEMMA OverflowPuts ==
  ASSUME NEW c \in Calls, c.lost = FALSE, Flushable(c.fb, c.os), c.fb.opened = TRUE,
         NEW ch \in Chars, NEW d \in Overflow(c, ch)
  PROVE  d \in Calls /\ (Lost(d) \/ Refused(c, d) \/ TookChar(c, ch, d))
<1>1. CASE d \in Calls /\ (Lost(d) \/ Refused(c, d))
  BY <1>1
<1>2. ASSUME NEW e, Cleared(c, e), d \in Started(e, ch)
      PROVE  d \in Calls /\ (Refused(c, d) \/ TookChar(c, ch, d))
  <2>1. e \in Calls /\ Fresh(e.fb, e.os) /\ e.fb.opened = TRUE
    BY <1>2 DEF Cleared, HasBuffer
  <2>2. d \in Calls /\ Begun(e, ch, d)
    BY <1>2, <2>1, StartedPut
  <2>. QED  BY <2>2, <1>2 DEF Begun, Refused, TookChar, PutAt, Cleared, Same
<1>3. \/ d \in Calls /\ (Lost(d) \/ Refused(c, d))
      \/ \E e : Cleared(c, e) /\ d \in Started(e, ch)
  BY OverflowClears
<1>. QED  BY <1>1, <1>2, <1>3

-----------------------------------------------------------------------------
(* sync(). *)

LEMMA SyncCases ==
  ASSUME NEW c
  PROVE  Sync(c) = IF LastOp(c.fb) = "input" THEN {Emptied(InputSynced(c))}
                   ELSE IF LastOp(c.fb) = "output"
                   THEN {Emptied([d EXCEPT !.lost = @ \/ d.ret = EOF]) : d \in Overflow(c, EOF)}
                   ELSE {Emptied(Returns(c, 0))}
<1>1. CASE LastOp(c.fb) = "input"
  BY <1>1, Zenon DEF Sync
<1>2. CASE LastOp(c.fb) = "output"
  BY <1>2, Zenon DEF Sync
<1>3. CASE LastOp(c.fb) \notin {"input", "output"}
  BY <1>3, Zenon DEF Sync
<1>. QED  BY <1>1, <1>2, <1>3

\* Nothing is seen of it, and nothing is in the buffer.
Synced(c, d) ==
  /\ d.lost = c.lost /\ d.ret = 0
  /\ BufSound(d.fb, d.os) /\ Same(c.fb, c.os, d.fb, d.os)
  /\ d.fb.opened = c.fb.opened /\ (c.fb.pptr # 0 => HasBuffer(c.fb, d.fb))

LEMMA SyncSound ==
  ASSUME NEW c \in Calls, c.lost = FALSE, Flushable(c.fb, c.os), c.fb.opened = TRUE,
         NEW d \in Sync(c)
  PROVE  /\ d \in Calls /\ (Lost(d) \/ Synced(c, d))
         /\ NoInput(d.fb) /\ NoOutput(d.fb)
<1>1. CASE c.fb.pptr # 0
  <2>1. LastOp(c.fb) = "output"
    BY <1>1 DEF LastOp
  <2>2. Sync(c) = {Emptied([e EXCEPT !.lost = @ \/ e.ret = EOF]) : e \in Overflow(c, EOF)}
    BY <2>1, SyncCases
  <2>3. PICK e \in Overflow(c, EOF) : d = Emptied([e EXCEPT !.lost = @ \/ e.ret = EOF])
    BY <2>2
  <2>4. e \in Calls /\ (Lost(e) \/ Refused(c, e) \/ Flushed(c, e))
    BY OverflowFlushes
  <2>. DEFINE l == e.lost \/ e.ret = EOF
              s == [e EXCEPT !.lost = l]
  <2>5. l \in BOOLEAN
    OBVIOUS
  <2>6. d = Emptied(s)
    BY <2>3
  <2>. HIDE DEF l
  <2>7. s \in Calls /\ s.fb = e.fb /\ s.os = e.os /\ s.ret = e.ret /\ s.lost = l
    BY <2>4, <2>5 DEF Calls
  <2>. HIDE DEF s
  <2>8. /\ d \in Calls /\ d.os = e.os /\ d.ret = e.ret /\ d.lost = l
        /\ SameFile(e.fb, d.fb) /\ NoInput(d.fb) /\ NoOutput(d.fb)
        /\ d.fb.last_seek = EOF
    BY <2>6, <2>7, EmptiedFields
  <2>9. CASE e.ret = EOF
    <3>1. l = TRUE
      BY <2>9, Zenon DEF l
    <3>. QED  BY <2>8, <2>9, <3>1 DEF Lost
  <2>10. CASE e.ret # EOF
    <3>1. Flushed(c, e)
      BY <2>4, <2>10 DEF Lost, Refused
    <3>2. l = FALSE
      <4>1. e.lost = FALSE
        BY <3>1 DEF Flushed
      <4>. QED  BY <2>10, <4>1, Zenon DEF l
    <3>3. d.fb \in Bufs /\ e.os \in Files /\ Writable(e.fb, e.os) /\ e.fb.opened = TRUE
      BY <2>4, <2>8, <3>1 DEF Calls, Flushed, BufSound, HasBuffer
    <3>4. /\ SameFile(e.fb, d.fb) /\ NoInput(d.fb) /\ NoOutput(d.fb)
          /\ (d.fb.last_seek # EOF => d.fb.last_seek = e.os.at)
      BY <2>8
    <3>5. /\ BufSound(d.fb, e.os) /\ PositionOf(d.fb, e.os) = e.os.at
          /\ ContentOf(d.fb, e.os) = e.os.text
      BY <3>3, <3>4, EmptySound
    <3>6. Same(c.fb, c.os, d.fb, e.os)
      BY <3>1, <3>5 DEF Flushed, Same
    <3>7. Synced(c, d)
      BY <2>8, <3>1, <3>2, <3>5, <3>6 DEF Flushed, Synced, HasBuffer, SameFile
    <3>. QED  BY <2>8, <3>7
  <2>. QED  BY <2>9, <2>10
<1>2. CASE c.fb.pptr = 0 /\ c.fb.gptr # 0
  <2>1. LastOp(c.fb) = "input"
    BY <1>2 DEF LastOp
  <2>2. d = Emptied(InputSynced(c))
    BY <2>1, SyncCases
  <2>3. BufSound(c.fb, c.os)
    BY <1>2 DEF Flushable
  <2>4. /\ d \in Calls /\ d.ret = 0 /\ d.lost = c.lost
        /\ BufSound(d.fb, d.os) /\ Same(c.fb, c.os, d.fb, d.os)
        /\ SameFile(c.fb, d.fb) /\ NoInput(d.fb) /\ NoOutput(d.fb)
    BY <1>2, <2>2, <2>3, InputGivenBack
  <2>. QED  BY <1>2, <2>4 DEF Synced, SameFile
<1>3. CASE c.fb.pptr = 0 /\ c.fb.gptr = 0
  <2>. DEFINE s == Returns(c, 0)
  <2>1. LastOp(c.fb) = "none"
    BY <1>3 DEF LastOp
  <2>2. d = Emptied(s)
    BY <2>1, SyncCases
  <2>3. 0 \in Int /\ BufSound(c.fb, c.os) /\ Writable(c.fb, c.os) /\ c.os \in Files
    BY <1>3 DEF Flushable, Writable
  <2>4. s \in Calls /\ s.fb = c.fb /\ s.os = c.os /\ s.ret = 0 /\ s.lost = c.lost
    BY <2>3 DEF Calls, Returns
  <2>. HIDE DEF s
  <2>5. /\ d \in Calls /\ d.os = c.os /\ d.ret = 0 /\ d.lost = c.lost
        /\ SameFile(c.fb, d.fb) /\ NoInput(d.fb) /\ NoOutput(d.fb)
        /\ (d.fb.last_seek # EOF => d.fb.last_seek = c.os.at)
    BY <2>2, <2>4, EmptiedFields
  <2>6. d.fb \in Bufs
    BY <2>5 DEF Calls
  <2>7. /\ BufSound(d.fb, c.os) /\ PositionOf(d.fb, c.os) = c.os.at
        /\ ContentOf(d.fb, c.os) = c.os.text
    BY <2>3, <2>5, <2>6, EmptySound
  <2>8. ContentOf(c.fb, c.os) = c.os.text /\ PositionOf(c.fb, c.os) = c.os.at
    BY <1>3, IdleSeen DEF PositionOf
  <2>. QED  BY <1>3, <2>5, <2>7, <2>8 DEF Synced, Same, SameFile
<1>. QED  BY <1>1, <1>2, <1>3

-----------------------------------------------------------------------------
(* underflow(). *)

\* Where the program is when nothing is left of what was read ahead.
Reached(f, o) == IF f.pptr # 0 THEN o.at + (f.pptr - f.base) ELSE o.at

\* The character that is next is in the buffer, or there is none.
Looked(c, d) ==
  /\ d.lost = c.lost /\ d.fb.opened = TRUE
  /\ BufSound(d.fb, d.os)
  /\ d.os.append = c.os.append /\ ContentOf(d.fb, d.os) = ContentOf(c.fb, c.os)
  /\ c.os.append \/ PositionOf(d.fb, d.os) = Reached(c.fb, c.os)
  /\ \/ d.ret = EOF /\ d.fb.gptr = d.fb.egptr
     \/ /\ d.fb.gptr # 0 /\ d.fb.gptr < d.fb.egptr
        /\ d.ret = d.fb.mem[d.fb.gptr]

LEMMA ReadManyLooks ==
  ASSUME NEW c \in Calls, Writable(c.fb, c.os), c.fb.pptr = 0, c.fb.opened = TRUE,
         c.fb.unbuf = FALSE, c.fb.base = Base,
         NEW count \in Amounts(c.os, BufSize - Reserve)
  PROVE  LET d == ReadMany(c, count)
         IN  d \in Calls /\ d.fb.pptr = 0 /\ Looked(c, d)
<1>. DEFINE start == c.fb.base + Reserve
            v == IF count < 0 THEN Unknown(c.fb) ELSE Moved(c.fb, count)
            p == SetP(v, 0, 0)
            f == WithInStart(p, start)
            d == ReadMany(c, count)
            text == c.os.text
            at == c.os.at
<1>1. /\ c.fb \in Bufs /\ c.os \in Files /\ text \in Seq(Codes) /\ at \in Nat
      /\ c.fb.base = 1 /\ BufSize \in Nat /\ Reserve \in Nat
  BY SizesAssumption DEF Writable, Files, Base
<1>2. start \in Nat /\ start >= 1 /\ start >= c.fb.base
  BY <1>1
<1>. HIDE DEF start, v, p, f, d, text, at
<1>3. /\ count \in Int /\ (count < 0 \/ count \in Nat)
      /\ count > 0 => at + count <= Len(text)
  <2>1. count = -1 \/ count = 0 \/ count \in 1 .. Len(text) - at
    BY <1>1 DEF Amounts, text, at
  <2>. QED  BY <1>1, <2>1
<1>4. /\ v \in Bufs /\ SameFile(c.fb, v)
      /\ v.last_seek # EOF => v.last_seek = at + count /\ count >= 0
  <2>1. CASE count < 0
    <3>1. v = Unknown(c.fb)
      BY <2>1 DEF v
    <3>. QED  BY <1>1, <3>1, UnknownFields
  <2>2. CASE ~ (count < 0)
    <3>1. count \in Nat /\ v = Moved(c.fb, count)
      BY <1>3, <2>2 DEF v
    <3>2. v \in Bufs /\ SameFile(c.fb, v)
      BY <1>1, <3>1, MovedFields
    <3>3. v.last_seek # EOF => v.last_seek = c.fb.last_seek + count /\ c.fb.last_seek # EOF
      BY <1>1, <3>1, MovedFields
    <3>. QED  BY <3>1, <3>2, <3>3 DEF Writable, at
  <2>. QED  BY <2>1, <2>2
<1>5. /\ p \in Bufs /\ SameFile(c.fb, p) /\ NoOutput(p) /\ p.last_seek = v.last_seek
  <2>1. /\ SetP(v, 0, 0) \in Bufs /\ SameFile(v, SetP(v, 0, 0))
        /\ SetP(v, 0, 0).pbase = 0 /\ SetP(v, 0, 0).pptr = 0 /\ SetP(v, 0, 0).epptr = 0
        /\ SetP(v, 0, 0).last_seek = v.last_seek
    BY <1>4, SetPFields
  <2>. QED  BY <1>4, <2>1 DEF SameFile, NoOutput, p
<1>6. /\ f \in Bufs /\ SameFile(c.fb, f) /\ NoOutput(f) /\ f.last_seek = v.last_seek
      /\ f.in_start = start
  BY <1>2, <1>5, WithInStartFields DEF SameFile, NoOutput, f
<1>7. d = IF count <= 0 THEN [c EXCEPT !.fb = SetG(f, 0, 0, 0), !.ret = EOF]
          ELSE [c EXCEPT
              !.fb = WithMem(SetG(f, f.base, start, start + count),
                             [x \in start .. start + count - 1 |-> text[at + x - start + 1]]),
              !.os = [c.os EXCEPT !.at = at + count],
              !.ret = text[at + 1]]
  BY DEF ReadMany, WithMem, WithInStart, f, p, v, d, text, at, start
<1>8. ContentOf(c.fb, c.os) = text /\ Reached(c.fb, c.os) = at
  BY IdleSeen DEF Reached, text, at
<1>9. CASE count <= 0
  <2>. DEFINE g == SetG(f, 0, 0, 0)
  <2>1. g \in Bufs /\ SameFile(c.fb, g) /\ NoOutput(g) /\ NoInput(g) /\ g.last_seek = v.last_seek
    BY <1>6, SetGFields DEF SameFile, NoOutput, NoInput
  <2>. HIDE DEF g
  <2>2. g.last_seek # EOF => g.last_seek = c.os.at
    BY <1>1, <1>3, <1>4, <1>9, <2>1 DEF at
  <2>3. /\ BufSound(g, c.os) /\ PositionOf(g, c.os) = c.os.at
        /\ ContentOf(g, c.os) = c.os.text
    BY <1>1, <2>1, <2>2, EmptySound
  <2>4. d = [c EXCEPT !.fb = g, !.ret = EOF] /\ EOF \in Int
    BY <1>7, <1>9 DEF g, EOF
  <2>5. d \in Calls /\ d.fb = g /\ d.os = c.os /\ d.ret = EOF /\ d.lost = c.lost
    BY <2>1, <2>4 DEF Calls
  <2>6. g.opened = TRUE /\ g.pptr = 0 /\ g.gptr = g.egptr
    BY <2>1 DEF NoInput, NoOutput, SameFile
  <2>7. /\ PositionOf(d.fb, d.os) = Reached(c.fb, c.os)
        /\ ContentOf(d.fb, d.os) = ContentOf(c.fb, c.os)
    BY <1>8, <2>3, <2>5 DEF at, text
  <2>. QED  BY <2>3, <2>5, <2>6, <2>7 DEF Looked, d
<1>10. CASE ~ (count <= 0)
  <2>. DEFINE m == [x \in start .. start + count - 1 |-> text[at + x - start + 1]]
              h == SetG(f, f.base, start, start + count)
              g == WithMem(h, m)
              q == [c.os EXCEPT !.at = at + count]
  <2>1. count \in Nat /\ count > 0 /\ at + count <= Len(text) /\ start + count \in Nat
    BY <1>2, <1>3, <1>10
  <2>2. f.base \in Nat /\ f.base = 1
    BY <1>1, <1>6 DEF SameFile
  <2>3. h \in Bufs /\ SameFile(c.fb, h) /\ NoOutput(h) /\ h.last_seek = v.last_seek
        /\ h.in_start = start /\ h.eback = 1 /\ h.gptr = start /\ h.egptr = start + count
    <3>. DEFINE e == start + count
                b == f.base
                u == SetG(f, b, start, e)
    <3>1. e \in Nat /\ b \in Nat /\ start \in Nat /\ f \in Bufs
      BY <1>2, <1>6, <2>1, <2>2
    <3>. HIDE DEF e, b
    <3>2. /\ u \in Bufs /\ SameFile(f, u) /\ u.last_seek = f.last_seek
          /\ u.pbase = f.pbase /\ u.pptr = f.pptr /\ u.epptr = f.epptr
          /\ u.in_start = f.in_start /\ u.eback = b /\ u.gptr = start /\ u.egptr = e
      BY <3>1, SetGFields
    <3>3. h = u
      BY DEF h, u, e, b
    <3>. HIDE DEF u, h
    <3>. QED  BY <1>6, <2>2, <3>2, <3>3 DEF SameFile, NoOutput, e, b
  <2>. HIDE DEF h
  <2>4. m \in Memories
    <3>1. start .. start + count - 1 \in SUBSET Nat
      BY <1>2, <2>1
    <3>2. \A x \in start .. start + count - 1 : text[at + x - start + 1] \in Codes
      BY <1>1, <1>2, <2>1
    <3>3. m \in [start .. start + count - 1 -> Codes]
      BY <3>2
    <3>. QED  BY <3>1, <3>3 DEF Memories
  <2>5. /\ DOMAIN m = start .. start + count - 1
        /\ \A x \in DOMAIN m : m[x] = text[at + x - start + 1]
    OBVIOUS
  <2>. HIDE DEF m
  <2>6. g \in Bufs /\ SameFile(c.fb, g) /\ NoOutput(g) /\ g.last_seek = v.last_seek
        /\ g.in_start = start /\ g.eback = 1 /\ g.gptr = start /\ g.egptr = start + count
        /\ g.mem = m
    BY <2>3, <2>4, WithMemFields DEF SameFile, NoOutput
  <2>. HIDE DEF g
  <2>7. q \in Files /\ q.at = at + count /\ q.append = c.os.append /\ q.text = text
    <3>1. at + count \in Nat
      BY <1>1, <2>1
    <3>. QED  BY <1>1, <3>1 DEF Files, text
  <2>8. text[at + 1] \in Codes /\ text[at + 1] \in Int
    <3>1. text[at + 1] \in Codes
      BY <1>1, <2>1
    <3>2. Codes \subseteq Int
      BY CharsAssumption DEF Codes, Nul
    <3>. QED  BY <3>1, <3>2
  <2>9. d = [c EXCEPT !.fb = g, !.os = q, !.ret = text[at + 1]]
    BY <1>7, <1>10 DEF g, h, m
  <2>. HIDE DEF q
  <2>10. d \in Calls /\ d.fb = g /\ d.os = q /\ d.ret = text[at + 1] /\ d.lost = c.lost
    BY <2>6, <2>7, <2>8, <2>9 DEF Calls
  <2>11. Writable(g, q)
    BY <1>4, <2>1, <2>6, <2>7 DEF Writable, NoOutput, SameFile
  <2>12. InputSound(g, q)
    <3>1. g.egptr - g.gptr <= q.at
      BY <1>1, <1>2, <2>1, <2>6, <2>7
    <3>2. /\ g.gptr .. g.egptr - 1 \subseteq DOMAIN g.mem
          /\ g.in_start .. g.egptr - 1 \subseteq DOMAIN g.mem
      BY <1>2, <2>1, <2>5, <2>6
    <3>3. ASSUME NEW x \in DOMAIN g.mem
          PROVE  /\ g.egptr - x <= q.at
                 /\ q.at - (g.egptr - x) < Len(q.text)
                 /\ g.mem[x] = q.text[q.at - (g.egptr - x) + 1]
      <4>1. x \in start .. start + count - 1 /\ g.mem[x] = text[at + x - start + 1]
        BY <2>5, <2>6
      <4>2. q.at - (g.egptr - x) = at + x - start
        BY <1>1, <1>2, <2>1, <2>6, <2>7, <4>1
      <4>3. q.at - (g.egptr - x) + 1 = at + x - start + 1
        BY <4>2
      <4>. QED  BY <1>1, <1>2, <2>1, <2>6, <2>7, <4>1, <4>2, <4>3
    <3>. QED  BY <1>2, <2>1, <2>6, <3>1, <3>2, <3>3 DEF InputSound
  <2>13. BufSound(g, q)
    BY <1>2, <2>6, <2>11, <2>12 DEF BufSound, NoOutput, SameFile
  <2>14. PositionOf(g, q) = at
    BY <1>1, <1>2, <2>1, <2>6, <2>7 DEF PositionOf, NoOutput
  <2>15. ContentOf(g, q) = text
    BY <2>6, <2>7, IdleSeen DEF NoOutput
  <2>16. g.gptr # 0 /\ g.gptr < g.egptr /\ g.mem[g.gptr] = text[at + 1]
    <3>1. start \in DOMAIN m /\ at + start - start + 1 = at + 1
      BY <1>1, <1>2, <2>1, <2>5
    <3>. QED  BY <1>2, <2>1, <2>5, <2>6, <3>1
  <2>17. g.opened = TRUE /\ g.pptr = 0
    BY <2>6 DEF NoOutput, SameFile
  <2>. QED  BY <1>8, <2>7, <2>10, <2>13, <2>14, <2>15, <2>16, <2>17 DEF Looked, d
<1>. QED  BY <1>9, <1>10 DEF d

LEMMA ReadOneLooks ==
  ASSUME NEW c \in Calls, c.lost = FALSE, Writable(c.fb, c.os), c.fb.pptr = 0,
         c.fb.opened = TRUE, c.fb.unbuf = TRUE,
         NEW count \in Amounts(c.os, 1)
  PROVE  LET d == ReadOne(c, count)
         IN  d \in Calls /\ d.fb.pptr = 0 /\ (Lost(d) \/ Looked(c, d))
<1>. DEFINE p == SetP(c.fb, 0, 0)
            v == Unknown(p)
            e == Lahead + count
            f == SetG(v, Lahead, Lahead, e)
            d == ReadOne(c, count)
            text == c.os.text
            at == c.os.at
            ch == text[at + 1]
            Goal == d \in Calls /\ d.fb.pptr = 0 /\ (Lost(d) \/ Looked(c, d))
<1>. SUFFICES Goal
  OBVIOUS
<1>1. /\ c.fb \in Bufs /\ c.os \in Files /\ text \in Seq(Codes) /\ at \in Nat
      /\ BufSize \in Nat /\ Lahead \in Nat /\ Lahead = BufSize + 2
  BY SizesAssumption DEF Writable, Files, Lahead
<1>. HIDE DEF p, v, e, f, d, text, at, ch
<1>2. count = -1 \/ count = 0 \/ (count = 1 /\ at < Len(text))
  BY <1>1 DEF Amounts, text, at
<1>3. e \in Nat /\ e = BufSize + 2 + count
  BY <1>1, <1>2 DEF e
<1>4. p \in Bufs /\ SameFile(c.fb, p) /\ NoOutput(p) /\ p.mem = <<>>
  BY <1>1, SetPFields DEF p, NoOutput
<1>5. v \in Bufs /\ SameFile(c.fb, v) /\ NoOutput(v) /\ v.mem = <<>> /\ v.last_seek = EOF
  BY <1>4, UnknownFields DEF v, NoOutput, SameFile
<1>6. /\ f \in Bufs /\ SameFile(c.fb, f) /\ NoOutput(f) /\ f.mem = <<>> /\ f.last_seek = EOF
      /\ f.eback = Lahead /\ f.gptr = Lahead /\ f.egptr = e
  <2>. DEFINE a == Lahead
              u == SetG(v, a, a, e)
  <2>1. v \in Bufs /\ a \in Nat /\ e \in Nat
    BY <1>1, <1>3, <1>5
  <2>. HIDE DEF a
  <2>2. /\ u \in Bufs /\ SameFile(v, u) /\ u.mem = v.mem /\ u.last_seek = v.last_seek
        /\ u.pbase = v.pbase /\ u.pptr = v.pptr /\ u.epptr = v.epptr
        /\ u.eback = a /\ u.gptr = a /\ u.egptr = e
    BY <2>1 DEF SetG, Bufs, SameFile
  <2>3. f = u
    BY DEF f, u, a
  <2>. HIDE DEF u
  <2>. QED  BY <1>5, <2>2, <2>3 DEF NoOutput, SameFile, a
<1>7. d = IF count <= 0
          THEN [c EXCEPT !.fb = f, !.ret = EOF, !.lost = c.lost \/ count < 0]
          ELSE [c EXCEPT !.fb = Holding(f, Lahead, ch),
                         !.os = [c.os EXCEPT !.at = at + 1], !.ret = ch]
  BY DEF ReadOne, d, f, v, p, e, ch, text, at
<1>8. ContentOf(c.fb, c.os) = text /\ Reached(c.fb, c.os) = at
  BY IdleSeen DEF Reached, text, at
<1>9. CASE count <= 0
  <2>. DEFINE l == c.lost \/ count < 0
  <2>1. l \in BOOLEAN /\ EOF \in Int
    BY DEF EOF
  <2>2. d = [c EXCEPT !.fb = f, !.ret = EOF, !.lost = l]
    BY <1>7, <1>9
  <2>. HIDE DEF l
  <2>3. d \in Calls /\ d.fb = f /\ d.os = c.os /\ d.ret = EOF /\ d.lost = l
    BY <1>6, <2>1, <2>2 DEF Calls
  <2>4. CASE count = -1
    <3>1. count < 0
      BY <2>4
    <3>2. l = TRUE
      BY <3>1, Zenon DEF l
    <3>. QED  BY <1>6, <2>3, <3>2 DEF Lost, NoOutput
  <2>5. CASE count = 0
    <3>1. ~ (count < 0)
      BY <2>5
    <3>2. l = FALSE
      BY <3>1, Zenon DEF l
    <3>3. f.egptr = f.gptr /\ f.gptr = f.eback /\ f.gptr > 0 /\ f.gptr \in Nat
      BY <1>1, <1>3, <1>6, <2>5
    <3>4. InputSound(f, c.os)
      <4>1. DOMAIN f.mem = {}
        BY <1>6
      <4>2. f.gptr .. f.egptr - 1 = {}
        BY <3>3
      <4>3. f.egptr - f.gptr <= c.os.at
        BY <1>1, <3>3 DEF at
      <4>4. f.unbuf = TRUE
        BY <1>6 DEF SameFile
      <4>. QED  BY <3>3, <4>1, <4>2, <4>3, <4>4 DEF InputSound
    <3>5. Writable(f, c.os)
      BY <1>1, <1>6 DEF Writable, NoOutput, SameFile
    <3>6. BufSound(f, c.os) /\ f.opened = TRUE /\ f.pptr = 0
      BY <1>6, <3>3, <3>4, <3>5 DEF BufSound, NoOutput, SameFile
    <3>7. PositionOf(f, c.os) = at
      BY <1>1, <3>3, <3>6 DEF PositionOf, at
    <3>8. ContentOf(f, c.os) = text
      BY <3>6, IdleSeen DEF text
    <3>. QED  BY <1>8, <2>3, <3>2, <3>3, <3>6, <3>7, <3>8 DEF Looked
  <2>. QED  BY <1>2, <1>9, <2>4, <2>5
<1>10. CASE ~ (count <= 0)
  <2>. DEFINE g == Holding(f, Lahead, ch)
              q == [c.os EXCEPT !.at = at + 1]
  <2>1. count = 1 /\ at < Len(text) /\ e = Lahead + 1 /\ at + 1 \in Nat /\ Lahead > 0
    BY <1>1, <1>2, <1>3, <1>10
  <2>2. ch \in Codes
    BY <1>1, <2>1 DEF ch
  <2>3. ch \in Int
    <3>1. Codes \subseteq Int
      BY CharsAssumption DEF Codes, Nul
    <3>. QED  BY <2>2, <3>1
  <2>4. /\ g \in Bufs /\ SameFile(f, g)
        /\ DOMAIN g.mem = DOMAIN f.mem \cup {Lahead} /\ g.mem[Lahead] = ch
        /\ g.pbase = f.pbase /\ g.pptr = f.pptr /\ g.epptr = f.epptr
        /\ g.eback = f.eback /\ g.gptr = f.gptr /\ g.egptr = f.egptr
        /\ g.last_seek = f.last_seek
    <3>. DEFINE a == Lahead
                u == Holding(f, a, ch)
    <3>1. f \in Bufs /\ a \in Nat
      BY <1>1, <1>6
    <3>. HIDE DEF a
    <3>2. /\ u \in Bufs /\ SameFile(f, u)
          /\ DOMAIN u.mem = DOMAIN f.mem \cup {a} /\ u.mem[a] = ch
          /\ u.pbase = f.pbase /\ u.pptr = f.pptr /\ u.epptr = f.epptr
          /\ u.eback = f.eback /\ u.gptr = f.gptr /\ u.egptr = f.egptr
          /\ u.last_seek = f.last_seek
      BY <2>2, <3>1, HoldingFields
    <3>3. g = u
      BY DEF g, u, a
    <3>. QED  BY <3>2, <3>3 DEF a
  <2>5. q \in Files /\ q.at = at + 1 /\ q.append = c.os.append /\ q.text = text
    BY <1>1, <2>1 DEF Files, text
  <2>6. d = [c EXCEPT !.fb = g, !.os = q, !.ret = ch]
    BY <1>7, <1>10
  <2>. HIDE DEF g, q
  <2>7. d \in Calls /\ d.fb = g /\ d.os = q /\ d.ret = ch /\ d.lost = c.lost
    BY <2>3, <2>4, <2>5, <2>6 DEF Calls
  <2>8. /\ SameFile(c.fb, g) /\ NoOutput(g) /\ g.last_seek = EOF
        /\ g.eback = Lahead /\ g.gptr = Lahead /\ g.egptr = Lahead + 1
        /\ g.opened = TRUE /\ g.unbuf = TRUE /\ g.pptr = 0
    BY <1>6, <2>1, <2>4 DEF SameFile, NoOutput
  <2>9. DOMAIN g.mem = {Lahead}
    <3>1. DOMAIN f.mem = {}
      BY <1>6
    <3>. QED  BY <2>4, <3>1
  <2>10. InputSound(g, q)
    <3>1. g.gptr .. g.egptr - 1 \subseteq DOMAIN g.mem
      BY <1>1, <2>8, <2>9
    <3>2. ASSUME NEW x \in DOMAIN g.mem
          PROVE  /\ g.egptr - x <= q.at
                 /\ q.at - (g.egptr - x) < Len(q.text)
                 /\ g.mem[x] = q.text[q.at - (g.egptr - x) + 1]
      <4>1. x = Lahead /\ g.egptr - x = 1
        BY <1>1, <2>8, <2>9
      <4>2. q.at - (g.egptr - x) = at
        BY <1>1, <2>5, <4>1
      <4>3. g.mem[x] = text[at + 1]
        BY <2>4, <4>1 DEF ch
      <4>. QED  BY <1>1, <2>1, <2>5, <4>1, <4>2, <4>3
    <3>. QED  BY <1>1, <2>1, <2>5, <2>8, <3>1, <3>2 DEF InputSound
  <2>11. Writable(g, q)
    BY <1>1, <2>4, <2>5, <2>8 DEF Writable, NoOutput, SameFile
  <2>12. BufSound(g, q)
    BY <1>1, <2>1, <2>8, <2>10, <2>11 DEF BufSound, NoOutput
  <2>13. PositionOf(g, q) = at
    BY <1>1, <2>1, <2>5, <2>8 DEF PositionOf
  <2>14. ContentOf(g, q) = text
    BY <2>5, <2>8, IdleSeen
  <2>15. g.gptr # 0 /\ g.gptr < g.egptr /\ g.mem[g.gptr] = ch
    BY <1>1, <2>1, <2>4, <2>8
  <2>. QED  BY <1>8, <2>5, <2>7, <2>8, <2>12, <2>13, <2>14, <2>15 DEF Looked
<1>. QED  BY <1>9, <1>10

\* Of a filebuf whose device has failed already nothing else is known.
LEMMA UnderflowLost ==
  ASSUME NEW c \in Calls, c.lost = TRUE, c.fb.pptr = 0, NEW d \in Underflow(c)
  PROVE  d.lost = TRUE
<1>. DEFINE f == Allocated(c.fb)
            a == [c EXCEPT !.fb = f]
            s == Returns(a, 0)
<1>1. c.fb \in Bufs /\ DOMAIN c = {"fb", "os", "ret", "lost"}
  BY DEF Calls
<1>2. f.pptr = 0
  BY <1>1 DEF Allocated, Bufs
<1>3. Underflow(c) =
        IF ~ c.fb.opened THEN {Returns(c, EOF)}
        ELSE UNION {IF x.ret = EOF THEN {x}
                    ELSE IF x.fb.unbuf THEN {ReadOne(x, n) : n \in Amounts(x.os, 1)}
                    ELSE {ReadMany(x, n) : n \in Amounts(x.os, BufSize - Reserve)} :
                    x \in IF LastOp(a.fb) = "output" THEN Sync(a) ELSE {s}}
  BY Zenon DEF Underflow
<1>. HIDE DEF f
<1>4. a.fb = f /\ a.lost = TRUE /\ DOMAIN a = {"fb", "os", "ret", "lost"}
  BY <1>1
<1>. HIDE DEF a
<1>5. LastOp(a.fb) # "output"
  BY <1>2, <1>4 DEF LastOp
<1>6. s.lost = TRUE /\ DOMAIN s = {"fb", "os", "ret", "lost"}
  BY <1>4 DEF Returns
<1>7. Returns(c, EOF).lost = TRUE
  BY <1>1 DEF Returns
<1>. HIDE DEF s
<1>8. \/ d = Returns(c, EOF) \/ d = s
      \/ \E n : d = ReadOne(s, n) \/ d = ReadMany(s, n)
  BY <1>3, <1>5
<1>9. ASSUME NEW n
      PROVE  ReadMany(s, n).lost = TRUE
  BY <1>6 DEF ReadMany
<1>10. ASSUME NEW n
       PROVE  ReadOne(s, n).lost = TRUE
  <2>1. CASE n <= 0
    <3>. DEFINE l == s.lost \/ n < 0
    <3>1. ReadOne(s, n).lost = l
      BY <2>1, <1>6 DEF ReadOne
    <3>2. l = TRUE
      BY <1>6, Zenon
    <3>. QED  BY <3>1, <3>2
  <2>2. CASE ~ (n <= 0)
    BY <2>2, <1>6 DEF ReadOne
  <2>. QED  BY <2>1, <2>2
<1>. QED  BY <1>6, <1>7, <1>8, <1>9, <1>10

\* The state in which underflow() reads.
Asked(c, s) ==
  /\ s \in Calls /\ s.lost = c.lost /\ Writable(s.fb, s.os)
  /\ s.fb.pptr = 0 /\ HasBuffer(c.fb, s.fb)
  /\ s.os.append = c.os.append /\ s.os.text = ContentOf(c.fb, c.os)
  /\ c.os.append \/ s.os.at = Reached(c.fb, c.os)

LEMMA UnderflowLooks ==
  ASSUME NEW c \in Calls, c.lost = FALSE, Writable(c.fb, c.os), c.fb.opened = TRUE,
         NEW d \in Underflow(c)
  PROVE  d \in Calls /\ d.fb.pptr = 0 /\ (Lost(d) \/ Looked(c, d))
<1>. DEFINE f == Allocated(c.fb)
            a == [c EXCEPT !.fb = f]
            S == IF LastOp(a.fb) = "output" THEN Sync(a) ELSE {Returns(a, 0)}
            ReadFrom(s) == IF s.fb.unbuf THEN {ReadOne(s, n) : n \in Amounts(s.os, 1)}
                           ELSE {ReadMany(s, n) : n \in Amounts(s.os, BufSize - Reserve)}
<1>1. PICK s \in S : IF s.ret = EOF THEN d = s ELSE d \in ReadFrom(s)
  <2>1. Underflow(c) = UNION {IF s.ret = EOF THEN {s} ELSE ReadFrom(s) : s \in S}
    BY Zenon DEF Underflow
  <2>. HIDE DEF S, ReadFrom
  <2>. QED  BY <2>1, Zenon
<1>2. /\ Writable(f, c.os)
      /\ PositionOf(f, c.os) = PositionOf(c.fb, c.os)
      /\ ContentOf(f, c.os) = ContentOf(c.fb, c.os)
      /\ f.pptr = c.fb.pptr /\ HasBuffer(c.fb, f)
  BY AllocatedSeen DEF HasBuffer
<1>3. f \in Bufs /\ 0 \in Int
  BY <1>2 DEF Writable
<1>. HIDE DEF f
<1>4. a \in Calls /\ a.fb = f /\ a.os = c.os /\ a.lost = c.lost
  BY <1>3 DEF Calls
<1>5. Returns(a, 0) \in Calls /\ Returns(a, 0).fb = f /\ Returns(a, 0).os = c.os
      /\ Returns(a, 0).ret = 0 /\ Returns(a, 0).lost = c.lost
  BY <1>3, <1>4 DEF Calls, Returns
<1>. HIDE DEF a
<1>6. ASSUME Asked(c, s), s.ret # EOF
      PROVE  d \in Calls /\ d.fb.pptr = 0 /\ (Lost(d) \/ Looked(c, d))
  <2>1. /\ s \in Calls /\ s.lost = FALSE /\ Writable(s.fb, s.os) /\ s.fb.pptr = 0
        /\ s.fb.opened = TRUE /\ s.fb.base = (IF s.fb.unbuf THEN 0 ELSE Base)
    BY <1>6 DEF Asked, HasBuffer
  <2>2. d \in ReadFrom(s)
    BY <1>1, <1>6
  <2>3. d \in Calls /\ d.fb.pptr = 0 /\ (Lost(d) \/ Looked(s, d))
    <3>1. CASE s.fb.unbuf = TRUE
      <4>1. PICK n \in Amounts(s.os, 1) : d = ReadOne(s, n)
        BY <2>2, <3>1
      <4>. QED  BY <2>1, <3>1, <4>1, ReadOneLooks
    <3>2. CASE s.fb.unbuf = FALSE
      <4>1. PICK n \in Amounts(s.os, BufSize - Reserve) : d = ReadMany(s, n)
        BY <2>2, <3>2
      <4>2. s.fb.base = Base
        BY <2>1, <3>2
      <4>. QED  BY <2>1, <3>2, <4>1, <4>2, ReadManyLooks
    <3>3. s.fb.unbuf \in BOOLEAN
      <4>1. s.fb \in Bufs
        BY <2>1 DEF Calls
      <4>. QED  BY <4>1 DEF Bufs
    <3>. QED  BY <3>1, <3>2, <3>3
  <2>4. ContentOf(s.fb, s.os) = s.os.text /\ Reached(s.fb, s.os) = s.os.at
    BY <2>1, IdleSeen DEF Reached
  <2>5. CASE Looked(s, d)
    BY <2>3, <2>4, <2>5, <1>6 DEF Looked, Asked
  <2>. QED  BY <2>3, <2>5
<1>. HIDE DEF ReadFrom
<1>7. CASE c.fb.pptr # 0
  <2>1. LastOp(a.fb) = "output"
    BY <1>2, <1>4, <1>7 DEF LastOp
  <2>2. s \in Sync(a)
    BY <2>1, <1>1
  <2>3. Flushable(a.fb, a.os) /\ a.fb.opened = TRUE /\ a.fb.pptr # 0
    BY <1>2, <1>4, <1>7 DEF Flushable, HasBuffer
  <2>4. /\ s \in Calls /\ (Lost(s) \/ Synced(a, s))
        /\ NoInput(s.fb) /\ NoOutput(s.fb)
    BY <1>4, <2>2, <2>3, SyncSound
  <2>5. CASE Lost(s)
    BY <1>1, <2>4, <2>5 DEF Lost, NoOutput
  <2>6. CASE Synced(a, s)
    <3>1. s.ret # EOF
      BY <2>6 DEF Synced, EOF
    <3>2. ContentOf(s.fb, s.os) = s.os.text /\ PositionOf(s.fb, s.os) = s.os.at
      BY <2>4, IdleSeen DEF NoInput, NoOutput, PositionOf
    <3>3. Same(a.fb, a.os, s.fb, s.os) /\ HasBuffer(a.fb, s.fb) /\ BufSound(s.fb, s.os)
          /\ s.lost = a.lost
      BY <2>3, <2>6 DEF Synced
    <3>4. PositionOf(c.fb, c.os) = Reached(c.fb, c.os)
      BY <1>7 DEF PositionOf, Reached
    <3>5. Asked(c, s)
      BY <1>2, <1>4, <2>4, <3>2, <3>3, <3>4 DEF Asked, Same, HasBuffer, BufSound, NoOutput
    <3>. QED  BY <1>6, <3>1, <3>5
  <2>. QED  BY <2>4, <2>5, <2>6
<1>8. CASE c.fb.pptr = 0
  <2>1. LastOp(a.fb) # "output"
    BY <1>2, <1>4, <1>8 DEF LastOp
  <2>2. s = Returns(a, 0)
    BY <2>1, <1>1
  <2>3. s.ret # EOF
    BY <1>5, <2>2 DEF EOF
  <2>4. ContentOf(f, c.os) = c.os.text /\ Reached(c.fb, c.os) = c.os.at
    BY <1>2, <1>8, IdleSeen DEF Reached
  <2>5. Asked(c, s)
    BY <1>2, <1>5, <1>8, <2>2, <2>4 DEF Asked
  <2>. QED  BY <1>6, <2>3, <2>5
<1>. QED  BY <1>7, <1>8

-----------------------------------------------------------------------------
(* The calls that read. *)

\* The next character is in the buffer.
Ready(f) == f.gptr # 0 /\ f.gptr < f.egptr

LEMMA NextInBuffer ==
  ASSUME NEW f, NEW o, BufSound(f, o), f.gptr < f.egptr
  PROVE  /\ Ready(f) /\ f.pptr = 0
         /\ PositionOf(f, o) \in Nat /\ PositionOf(f, o) = o.at - (f.egptr - f.gptr)
         /\ PositionOf(f, o) < Len(ContentOf(f, o))
         /\ f.mem[f.gptr] = ContentOf(f, o)[PositionOf(f, o) + 1]
         /\ f.mem[f.gptr] \in Codes
<1>1. /\ f \in Bufs /\ o \in Files /\ f.gptr \in Nat /\ f.egptr \in Nat /\ f.eback \in Nat
      /\ o.at \in Nat /\ o.text \in Seq(Codes)
  <2>1. f \in Bufs /\ o \in Files
    BY DEF BufSound, Writable
  <2>. QED  BY <2>1 DEF Bufs, Files
<1>2. f.pptr = 0 /\ f.gptr # 0
  BY <1>1 DEF BufSound
<1>3. InputSound(f, o)
  BY <1>2 DEF BufSound
<1>. DEFINE x == f.gptr
<1>4. x \in DOMAIN f.mem
  BY <1>1, <1>3 DEF InputSound
<1>5. /\ f.egptr - x <= o.at
      /\ o.at - (f.egptr - x) < Len(o.text)
      /\ f.mem[x] = o.text[o.at - (f.egptr - x) + 1]
  BY <1>3, <1>4 DEF InputSound
<1>6. PositionOf(f, o) = o.at - (f.egptr - f.gptr) /\ ContentOf(f, o) = o.text
  BY <1>2, IdleSeen DEF PositionOf
<1>7. o.at - (f.egptr - f.gptr) \in Nat
  BY <1>1, <1>5
<1>8. o.text[o.at - (f.egptr - f.gptr) + 1] \in Codes
  BY <1>1, <1>5, <1>7
<1>. QED  BY <1>2, <1>5, <1>6, <1>7, <1>8 DEF Ready

\* Past the next character.
LEMMA Bumps ==
  ASSUME NEW f, NEW o, BufSound(f, o), f.gptr < f.egptr, f.opened = TRUE
  PROVE  LET g == WithGptr(f, f.gptr + 1)
         IN  /\ g \in Bufs /\ BufSound(g, o) /\ g.opened = TRUE
             /\ ContentOf(g, o) = ContentOf(f, o)
             /\ PositionOf(g, o) = PositionOf(f, o) + 1
<1>. DEFINE n == f.gptr + 1
            g == WithGptr(f, n)
<1>1. /\ f \in Bufs /\ f.gptr \in Nat /\ f.egptr \in Nat /\ f.eback \in Nat /\ o.at \in Nat
  <2>1. f \in Bufs /\ o \in Files
    BY DEF BufSound, Writable
  <2>. QED  BY <2>1 DEF Bufs, Files
<1>2. n \in Nat /\ n = f.gptr + 1
  BY <1>1
<1>3. f.pptr = 0 /\ PositionOf(f, o) = o.at - (f.egptr - f.gptr) /\ f.gptr # 0
  BY NextInBuffer DEF Ready
<1>. HIDE DEF n
<1>4. /\ g \in Bufs /\ SameFile(f, g) /\ g.gptr = n
      /\ g.pbase = f.pbase /\ g.pptr = f.pptr /\ g.epptr = f.epptr
      /\ g.eback = f.eback /\ g.egptr = f.egptr /\ g.mem = f.mem
      /\ g.in_start = f.in_start /\ g.last_seek = f.last_seek
  BY ONLY <1>1, <1>2 DEF Bufs, WithGptr, SameFile
<1>. HIDE DEF g
<1>5. Writable(g, o)
  BY <1>3, <1>4 DEF BufSound, Writable, SameFile
<1>6. InputSound(f, o)
  BY <1>3 DEF BufSound
<1>7. InputSound(g, o)
  <2>1. g.gptr .. g.egptr - 1 \subseteq DOMAIN g.mem
    BY <1>1, <1>2, <1>4, <1>6 DEF InputSound
  <2>2. g.eback > 0 /\ g.eback <= g.gptr /\ g.gptr <= g.egptr /\ g.egptr - g.gptr <= o.at
    BY <1>1, <1>2, <1>4, <1>6 DEF InputSound
  <2>. QED  BY <1>4, <1>6, <2>1, <2>2 DEF InputSound, SameFile
<1>8. BufSound(g, o)
  BY <1>1, <1>2, <1>3, <1>4, <1>5, <1>7 DEF BufSound, SameFile
<1>9. PositionOf(g, o) = PositionOf(f, o) + 1
  BY <1>1, <1>2, <1>3, <1>4 DEF PositionOf
<1>10. ContentOf(g, o) = ContentOf(f, o)
  BY <1>3, <1>4, IdleSeen
<1>. QED  BY <1>4, <1>8, <1>9, <1>10 DEF g, n, SameFile

\* sgetc(): the next character, or EOF.
Peeks(c, d) ==
  /\ d.lost = c.lost /\ d.fb.opened = TRUE
  /\ BufSound(d.fb, d.os) /\ Same(c.fb, c.os, d.fb, d.os)
  /\ \/ d.ret = EOF /\ d.fb.gptr = d.fb.egptr
     \/ Ready(d.fb) /\ d.ret = d.fb.mem[d.fb.gptr]

LEMMA PeekSound ==
  ASSUME NEW c \in Calls, c.lost = FALSE, BufSound(c.fb, c.os), c.fb.opened = TRUE,
         NEW d \in Peeked(c)
  PROVE  d \in Calls /\ (Lost(d) \/ Peeks(c, d))
<1>0. c.fb \in Bufs /\ c.fb.gptr \in Nat /\ c.fb.egptr \in Nat /\ c.os.at \in Nat
  <2>1. c.fb \in Bufs /\ c.os \in Files
    BY DEF Calls
  <2>. QED  BY <2>1 DEF Bufs, Files
<1>1. CASE c.fb.gptr >= c.fb.egptr
  <2>1. d \in Underflow(c)
    BY <1>1 DEF Peeked
  <2>2. d \in Calls /\ (Lost(d) \/ Looked(c, d))
    BY <2>1, UnderflowLooks DEF BufSound
  <2>3. PositionOf(c.fb, c.os) = Reached(c.fb, c.os)
    <3>1. c.fb.pptr = 0 /\ c.fb.gptr # 0 => c.fb.gptr = c.fb.egptr
      BY <1>0, <1>1 DEF BufSound, InputSound
    <3>. QED  BY <1>0, <3>1 DEF PositionOf, Reached
  <2>. QED  BY <2>2, <2>3 DEF Looked, Peeks, Same, Ready
<1>2. CASE c.fb.gptr < c.fb.egptr
  <2>. DEFINE r == c.fb.mem[c.fb.gptr]
  <2>1. d = Returns(c, r)
    BY <1>0, <1>2 DEF Peeked
  <2>2. Ready(c.fb) /\ r \in Codes
    BY <1>2, NextInBuffer
  <2>3. r \in Int
    <3>1. Codes \subseteq Int
      BY CharsAssumption DEF Codes, Nul
    <3>. QED  BY <2>2, <3>1
  <2>. HIDE DEF r
  <2>4. d \in Calls /\ d.fb = c.fb /\ d.os = c.os /\ d.ret = r /\ d.lost = c.lost
    BY <2>1, <2>3 DEF Calls, Returns
  <2>. QED  BY <2>2, <2>4 DEF Peeks, Same, r
<1>. QED  BY <1>0, <1>1, <1>2

\* What a call may end in: the device is lost, or the filebuf is sound and what
\* the program sees, of a file that is not opened to append, is as it must be.
Ends(c, d, seen) ==
  \/ d.lost = TRUE
  \/ d.lost = FALSE /\ BufSound(d.fb, d.os) /\ (c.os.append \/ seen)

\* ... nothing is seen but the failure.
FailureSeen(c, d) ==
  /\ d.ret = EOF
  /\ ContentOf(d.fb, d.os) = ContentOf(c.fb, c.os)
  /\ PositionOf(d.fb, d.os) = PositionOf(c.fb, c.os)

\* ... the program is after a character that was there.
PassedSeen(c, d) ==
  /\ PositionOf(c.fb, c.os) < Len(ContentOf(c.fb, c.os))
  /\ ContentOf(d.fb, d.os) = ContentOf(c.fb, c.os)
  /\ PositionOf(d.fb, d.os) = PositionOf(c.fb, c.os) + 1

GetSeen(c, d) ==
  PassedSeen(c, d) /\ d.ret = ContentOf(c.fb, c.os)[PositionOf(c.fb, c.os) + 1]

PeekSeen(c, d) ==
  /\ PositionOf(c.fb, c.os) < Len(ContentOf(c.fb, c.os))
  /\ ContentOf(d.fb, d.os) = ContentOf(c.fb, c.os)
  /\ PositionOf(d.fb, d.os) = PositionOf(c.fb, c.os)
  /\ d.ret = ContentOf(c.fb, c.os)[PositionOf(c.fb, c.os) + 1]

SkipSeen(c, d) ==
  /\ PassedSeen(c, d)
  /\ \/ d.ret = EOF
     \/ /\ PositionOf(c.fb, c.os) + 1 < Len(ContentOf(c.fb, c.os))
        /\ d.ret = ContentOf(c.fb, c.os)[PositionOf(c.fb, c.os) + 1 + 1]

LEMMA PeekEnds ==
  ASSUME NEW c \in Calls, c.lost = FALSE, BufSound(c.fb, c.os), c.fb.opened = TRUE,
         NEW d \in Peeked(c)
  PROVE  Ends(c, d, FailureSeen(c, d) \/ PeekSeen(c, d))
<1>1. d \in Calls /\ (Lost(d) \/ Peeks(c, d))
  BY PeekSound
<1>2. CASE Lost(d)
  BY <1>2 DEF Lost, Ends
<1>3. CASE Peeks(c, d) /\ d.ret = EOF
  BY <1>3 DEF Peeks, Same, FailureSeen, Ends
<1>4. CASE Peeks(c, d) /\ d.ret # EOF
  <2>1. Ready(d.fb) /\ d.ret = d.fb.mem[d.fb.gptr] /\ BufSound(d.fb, d.os)
        /\ d.lost = FALSE
    BY <1>4 DEF Peeks
  <2>2. /\ PositionOf(d.fb, d.os) < Len(ContentOf(d.fb, d.os))
        /\ d.fb.mem[d.fb.gptr] = ContentOf(d.fb, d.os)[PositionOf(d.fb, d.os) + 1]
    BY <2>1, NextInBuffer DEF Ready
  <2>3. Same(c.fb, c.os, d.fb, d.os)
    BY <1>4 DEF Peeks
  <2>4. c.os.append \/ PeekSeen(c, d)
    BY <2>1, <2>2, <2>3 DEF Same, PeekSeen
  <2>. QED  BY <2>1, <2>4 DEF Ends
<1>. QED  BY <1>1, <1>2, <1>3, <1>4

LEMMA GetEnds ==
  ASSUME NEW c \in Calls, c.lost = FALSE, BufSound(c.fb, c.os), c.fb.opened = TRUE,
         NEW d \in Got(c)
  PROVE  Ends(c, d, FailureSeen(c, d) \/ GetSeen(c, d))
<1>1. PICK s \in Peeked(c) :
        d = IF s.ret = EOF THEN s
            ELSE [s EXCEPT !.fb = WithGptr(s.fb, s.fb.gptr + 1)]
  BY DEF Got, WithGptr
<1>2. s \in Calls /\ (Lost(s) \/ Peeks(c, s))
  BY PeekSound
<1>3. CASE s.ret = EOF
  <2>1. d = s
    BY <1>1, <1>3
  <2>2. Lost(s) \/ FailureSeen(c, s) \/ c.os.append
    BY <1>2, <1>3 DEF Peeks, Same, FailureSeen
  <2>. QED  BY <1>2, <2>1, <2>2 DEF Lost, Peeks, Ends
<1>4. CASE s.ret # EOF
  <2>1. /\ Ready(s.fb) /\ s.ret = s.fb.mem[s.fb.gptr] /\ BufSound(s.fb, s.os)
        /\ s.lost = FALSE /\ s.fb.opened = TRUE /\ Same(c.fb, c.os, s.fb, s.os)
    BY <1>2, <1>4 DEF Peeks, Lost
  <2>. DEFINE g == WithGptr(s.fb, s.fb.gptr + 1)
  <2>2. /\ g \in Bufs /\ BufSound(g, s.os)
        /\ ContentOf(g, s.os) = ContentOf(s.fb, s.os)
        /\ PositionOf(g, s.os) = PositionOf(s.fb, s.os) + 1
    BY <2>1, Bumps DEF Ready
  <2>3. d = [s EXCEPT !.fb = g]
    BY <1>1, <1>4
  <2>. HIDE DEF g
  <2>4. d.fb = g /\ d.os = s.os /\ d.ret = s.ret /\ d.lost = FALSE
    BY <1>2, <2>1, <2>3 DEF Calls
  <2>5. /\ PositionOf(s.fb, s.os) < Len(ContentOf(s.fb, s.os))
        /\ s.fb.mem[s.fb.gptr] = ContentOf(s.fb, s.os)[PositionOf(s.fb, s.os) + 1]
    BY <2>1, NextInBuffer DEF Ready
  <2>6. c.os.append \/ GetSeen(c, d)
    BY <2>1, <2>2, <2>4, <2>5 DEF Same, GetSeen, PassedSeen
  <2>. QED  BY <2>2, <2>4, <2>6 DEF Ends
<1>. QED  BY <1>3, <1>4

LEMMA PeekLost ==
  ASSUME NEW c \in Calls, c.lost = TRUE, c.fb.pptr = 0, NEW d \in Peeked(c)
  PROVE  d.lost = TRUE
<1>1. d \in Underflow(c) \/ \E r : d = Returns(c, r)
  BY DEF Peeked
<1>2. ASSUME NEW r, d = Returns(c, r)
      PROVE  d.lost = TRUE
  BY <1>2 DEF Returns, Calls
<1>. QED  BY <1>1, <1>2, UnderflowLost

LEMMA SkipEnds ==
  ASSUME NEW c \in Calls, c.lost = FALSE, BufSound(c.fb, c.os), c.fb.opened = TRUE,
         NEW d \in Skipped(c)
  PROVE  Ends(c, d, FailureSeen(c, d) \/ SkipSeen(c, d))
<1>. DEFINE g == WithGptr(c.fb, c.fb.gptr + 1)
            past == [c EXCEPT !.fb = g]
            Bumped(s) == [s EXCEPT !.fb = WithGptr(s.fb, s.fb.gptr + 1),
                                   !.lost = s.lost \/ (s.ret = EOF /\ s.os.at < Len(s.os.text))]
<1>1. /\ c.fb \in Bufs /\ c.os \in Files /\ c.fb.gptr \in Nat /\ c.fb.egptr \in Nat
      /\ c.fb.gptr + 1 \in Nat /\ c.os.at \in Nat
  <2>1. c.fb \in Bufs /\ c.os \in Files
    BY DEF Calls
  <2>. QED  BY SMTT(30), <2>1 DEF Bufs, Files
<1>2. IF g.gptr <= g.egptr THEN d \in Peeked(past)
      ELSE \E s \in Underflow(past) : d \in Peeked(Bumped(s))
  <2>1. past = [c EXCEPT !.fb.gptr = @ + 1] /\ past.fb = g
    BY DEF past, WithGptr, Calls
  <2>. QED  BY <2>1 DEF Skipped, WithGptr
<1>3. /\ g \in Bufs /\ SameFile(c.fb, g) /\ g.gptr = c.fb.gptr + 1 /\ g.egptr = c.fb.egptr
      /\ g.pptr = c.fb.pptr /\ g.pbase = c.fb.pbase /\ g.epptr = c.fb.epptr /\ g.mem = c.fb.mem
      /\ g.last_seek = c.fb.last_seek
  BY ONLY <1>1 DEF Bufs, WithGptr, SameFile
<1>. HIDE DEF g
<1>4. past \in Calls /\ past.fb = g /\ past.os = c.os /\ past.lost = FALSE
  BY <1>3 DEF Calls
<1>. HIDE DEF past, Bumped
<1>5. CASE g.gptr <= g.egptr
  <2>1. c.fb.gptr < c.fb.egptr
    BY <1>1, <1>3, <1>5
  <2>2. /\ BufSound(g, c.os) /\ g.opened = TRUE
        /\ ContentOf(g, c.os) = ContentOf(c.fb, c.os)
        /\ PositionOf(g, c.os) = PositionOf(c.fb, c.os) + 1
    BY <2>1, Bumps DEF g
  <2>3. PositionOf(c.fb, c.os) < Len(ContentOf(c.fb, c.os))
    BY <2>1, NextInBuffer
  <2>4. Ends(past, d, FailureSeen(past, d) \/ PeekSeen(past, d))
    BY <1>2, <1>4, <1>5, <2>2, PeekEnds
  <2>5. FailureSeen(past, d) \/ PeekSeen(past, d) => SkipSeen(c, d)
    BY <1>4, <2>2, <2>3 DEF FailureSeen, PeekSeen, SkipSeen, PassedSeen
  <2>. QED  BY <1>4, <2>4, <2>5 DEF Ends
<1>6. CASE ~ (g.gptr <= g.egptr)
  <2>1. PICK s \in Underflow(past) : d \in Peeked(Bumped(s))
    BY <1>2, <1>6
  <2>2. Writable(past.fb, past.os) /\ past.fb.opened = TRUE
    BY <1>3, <1>4 DEF BufSound, Writable, OutputSound, SameFile
  <2>3. s \in Calls /\ s.fb.pptr = 0 /\ (Lost(s) \/ Looked(past, s))
    BY <1>4, <2>1, <2>2, UnderflowLooks
  <2>4. ContentOf(g, c.os) = ContentOf(c.fb, c.os)
    BY <1>3 DEF ContentOf, Pending, SameFile
  <2>5. Reached(g, c.os) = PositionOf(c.fb, c.os)
    <3>1. c.fb.pptr = 0 /\ c.fb.gptr # 0 => c.fb.gptr = c.fb.egptr
      BY <1>1, <1>3, <1>6 DEF BufSound, InputSound
    <3>. QED  BY <1>1, <1>3, <3>1 DEF PositionOf, Reached, SameFile
  <2>. DEFINE h == WithGptr(s.fb, s.fb.gptr + 1)
              l == s.lost \/ (s.ret = EOF /\ s.os.at < Len(s.os.text))
              b == Bumped(s)
  <2>6. s.fb \in Bufs /\ s.fb.gptr + 1 \in Nat /\ s.fb.gptr \in Nat /\ s.fb.egptr \in Nat
        /\ s.os.at \in Nat /\ s.os.text \in Seq(Codes)
    <3>1. s.fb \in Bufs /\ s.os \in Files
      BY <2>3 DEF Calls
    <3>. QED  BY <3>1 DEF Bufs, Files
  <2>7. /\ h \in Bufs /\ SameFile(s.fb, h) /\ h.gptr = s.fb.gptr + 1 /\ h.egptr = s.fb.egptr
        /\ h.pptr = s.fb.pptr /\ h.pbase = s.fb.pbase /\ h.epptr = s.fb.epptr /\ h.mem = s.fb.mem
        /\ h.last_seek = s.fb.last_seek
    BY ONLY <2>6 DEF Bufs, WithGptr, SameFile
  <2>8. b = [s EXCEPT !.fb = h, !.lost = l] /\ l \in BOOLEAN
    BY DEF Bumped
  <2>. HIDE DEF h, l, b
  <2>9. b \in Calls /\ b.fb = h /\ b.os = s.os /\ b.lost = l
    BY <2>3, <2>7, <2>8 DEF Calls
  <2>10. d \in Peeked(b)
    BY <2>1 DEF b
  <2>11. CASE l = TRUE
    BY <2>3, <2>7, <2>9, <2>10, <2>11, PeekLost DEF Ends
  <2>12. CASE l = FALSE
    <3>1. ~ Lost(s) /\ ~ (s.ret = EOF /\ s.os.at < Len(s.os.text))
      BY <2>12, Zenon DEF l, Lost
    <3>2. Looked(past, s)
      BY <2>3, <3>1
    <3>3. /\ s.fb.opened = TRUE /\ BufSound(s.fb, s.os) /\ s.os.append = c.os.append
          /\ ContentOf(s.fb, s.os) = ContentOf(c.fb, c.os)
          /\ c.os.append \/ PositionOf(s.fb, s.os) = PositionOf(c.fb, c.os)
      BY <1>4, <2>4, <2>5, <3>2 DEF Looked
    <3>4. CASE s.ret # EOF
      <4>1. Ready(s.fb)
        BY <3>2, <3>4 DEF Looked, Ready
      <4>2. /\ BufSound(h, s.os) /\ h.opened = TRUE
            /\ ContentOf(h, s.os) = ContentOf(s.fb, s.os)
            /\ PositionOf(h, s.os) = PositionOf(s.fb, s.os) + 1
        BY <3>3, <4>1, Bumps DEF Ready, h
      <4>3. PositionOf(s.fb, s.os) < Len(ContentOf(s.fb, s.os))
        BY <3>3, <4>1, NextInBuffer DEF Ready
      <4>4. Ends(b, d, FailureSeen(b, d) \/ PeekSeen(b, d))
        BY <2>9, <2>10, <2>12, <4>2, PeekEnds
      <4>5. c.os.append \/ (FailureSeen(b, d) \/ PeekSeen(b, d) => SkipSeen(c, d))
        BY <2>9, <3>3, <4>2, <4>3 DEF FailureSeen, PeekSeen, SkipSeen, PassedSeen
      <4>. QED  BY <2>9, <3>3, <4>4, <4>5 DEF Ends
    <3>5. CASE s.ret = EOF
      <4>1. s.fb.gptr = s.fb.egptr
        <5>1. EOF \notin Codes
          BY CharsAssumption DEF Codes, Nul, EOF
        <5>2. s.fb.gptr < s.fb.egptr => s.fb.mem[s.fb.gptr] \in Codes
          BY <3>3, NextInBuffer
        <5>. QED  BY <3>2, <3>5, <5>1, <5>2 DEF Looked
      <4>2. d \in Underflow(b)
        BY <2>6, <2>7, <2>9, <2>10, <4>1 DEF Peeked
      <4>3. Writable(b.fb, b.os) /\ b.fb.opened = TRUE
        BY <2>3, <2>7, <2>9, <3>3 DEF BufSound, Writable, SameFile
      <4>4. d \in Calls /\ (Lost(d) \/ Looked(b, d))
        BY <2>9, <2>12, <4>2, <4>3, UnderflowLooks
      <4>5. CASE Lost(d)
        BY <4>5 DEF Lost, Ends
      <4>6. CASE Looked(b, d)
        <5>1. ContentOf(b.fb, b.os) = s.os.text /\ ContentOf(s.fb, s.os) = s.os.text
          BY <2>3, <2>7, <2>9, IdleSeen
        <5>2. Reached(b.fb, b.os) = s.os.at /\ PositionOf(s.fb, s.os) = s.os.at
          BY <2>3, <2>6, <2>7, <2>9, <4>1 DEF Reached, PositionOf
        <5>3. /\ d.lost = FALSE /\ BufSound(d.fb, d.os) /\ ContentOf(d.fb, d.os) = s.os.text
              /\ c.os.append \/ PositionOf(d.fb, d.os) = s.os.at
          BY <2>9, <2>12, <3>3, <4>6, <5>1, <5>2 DEF Looked
        <5>4. c.os.append \/ d.ret = EOF
          <6>1. SUFFICES ASSUME ~ c.os.append, d.ret # EOF
                         PROVE  FALSE
            OBVIOUS
          <6>2. d.fb.gptr < d.fb.egptr
            BY <4>6, <6>1 DEF Looked
          <6>3. PositionOf(d.fb, d.os) < Len(ContentOf(d.fb, d.os))
            BY <5>3, <6>2, NextInBuffer
          <6>4. s.os.at < Len(s.os.text)
            BY <5>3, <6>1, <6>3
          <6>. QED  BY <3>1, <3>5, <6>4
        <5>5. c.os.append \/ FailureSeen(c, d)
          BY <3>3, <5>1, <5>2, <5>3, <5>4 DEF FailureSeen
        <5>. QED  BY <5>3, <5>5 DEF Ends
      <4>. QED  BY <4>4, <4>5, <4>6
    <3>. QED  BY <3>4, <3>5
  <2>. QED  BY <2>8, <2>11, <2>12
<1>. QED  BY <1>5, <1>6

-----------------------------------------------------------------------------
(* The calls that write, and that put back. *)

PutSeen(c, ch, d) ==
  /\ d.ret = ch
  /\ ContentOf(d.fb, d.os) =
       Overwritten(ContentOf(c.fb, c.os), PositionOf(c.fb, c.os), <<ch>>)
  /\ PositionOf(d.fb, d.os) = PositionOf(c.fb, c.os) + 1

LEMMA PutEnds ==
  ASSUME NEW c \in Calls, c.lost = FALSE, BufSound(c.fb, c.os), c.fb.opened = TRUE,
         NEW ch \in Chars, NEW d \in Stored(c, ch)
  PROVE  Ends(c, d, FailureSeen(c, d) \/ PutSeen(c, ch, d))
<1>1. c.fb \in Bufs /\ c.fb.pptr \in Nat /\ c.fb.epptr \in Nat
  <2>1. c.fb \in Bufs
    BY DEF Calls
  <2>. QED  BY <2>1 DEF Bufs
<1>2. CASE c.fb.pptr >= c.fb.epptr
  <2>1. d \in Overflow(c, ch) /\ Flushable(c.fb, c.os)
    BY <1>2 DEF Stored, Flushable, BufSound
  <2>2. Lost(d) \/ Refused(c, d) \/ TookChar(c, ch, d)
    BY <2>1, OverflowPuts
  <2>. QED  BY <2>2 DEF Lost, Refused, TookChar, Same, PutAt, Ends, FailureSeen, PutSeen
<1>3. CASE c.fb.pptr < c.fb.epptr
  <2>. DEFINE h == [Holding(c.fb, c.fb.pptr, ch) EXCEPT !.pptr = @ + 1]
  <2>1. c.fb.pptr # 0
    BY <1>1, <1>3 DEF BufSound, Writable
  <2>2. ch \in Codes /\ ch \in Int
    BY CharsAssumption DEF Codes
  <2>3. BufSound(h, c.os) /\ PutAt(c.fb, c.os, ch, h, c.os)
    BY <1>3, <2>1, <2>2, OneMore
  <2>4. d = [c EXCEPT !.fb = h, !.ret = ch]
    <3>1. ~ (c.fb.pptr >= c.fb.epptr)
      BY <1>1, <1>3
    <3>2. d \in {[c EXCEPT !.fb = [Holding(c.fb, c.fb.pptr, ch) EXCEPT !.pptr = @ + 1], !.ret = ch]}
      BY <3>1, Zenon DEF Stored
    <3>. QED  BY <3>2, Zenon
  <2>. HIDE DEF h
  <2>5. d.fb = h /\ d.os = c.os /\ d.ret = ch /\ d.lost = FALSE
    BY <2>4 DEF Calls
  <2>. QED  BY <2>3, <2>5 DEF PutAt, Ends, PutSeen
<1>. QED  BY <1>1, <1>2, <1>3

PutBackSeen(c, ch, d) ==
  /\ d.ret = ch
  /\ ContentOf(d.fb, d.os) = ContentOf(c.fb, c.os)
  /\ PositionOf(d.fb, d.os) = PositionOf(c.fb, c.os) - 1

LEMMA PutBackEnds ==
  ASSUME NEW c \in Calls, c.lost = FALSE, BufSound(c.fb, c.os), c.fb.opened = TRUE,
         PositionOf(c.fb, c.os) \in 1 .. Len(ContentOf(c.fb, c.os)),
         NEW ch, ch = ContentOf(c.fb, c.os)[PositionOf(c.fb, c.os)],
         NEW d \in PutBefore(c, ch)
  PROVE  Ends(c, d, FailureSeen(c, d) \/ PutBackSeen(c, ch, d))
<1>. DEFINE f == c.fb
            o == c.os
            x == f.gptr - 1
            h == Holding(f, x, ch)
            g == WithGptr(h, x)
<1>1. /\ f \in Bufs /\ f.gptr \in Nat /\ f.egptr \in Nat /\ f.eback \in Nat
      /\ o \in Files /\ o.at \in Nat /\ o.text \in Seq(Codes)
      /\ ContentOf(f, o) \in Seq(Codes)
  <2>1. f \in Bufs /\ o \in Files
    BY DEF Calls
  <2>. QED  BY <2>1, ContentIsText DEF Bufs, Files, BufSound
<1>2. CASE ~ (f.gptr > f.eback)
  <2>1. d = Returns(c, EOF)
    BY <1>2 DEF PutBefore
  <2>2. d.fb = f /\ d.os = o /\ d.ret = EOF /\ d.lost = FALSE
    BY <2>1 DEF Calls, Returns
  <2>. QED  BY <2>2 DEF Ends, FailureSeen
<1>3. CASE f.gptr > f.eback
  <2>1. f.pptr = 0 /\ f.gptr # 0 /\ InputSound(f, o)
    BY <1>1, <1>3 DEF BufSound
  <2>2. f.eback > 0 /\ f.gptr <= f.egptr /\ f.egptr - f.gptr <= o.at
    BY <2>1 DEF InputSound
  <2>3. x \in Nat /\ x >= f.eback /\ x = f.gptr - 1 /\ x # 0
    BY <1>1, <1>3, <2>2
  <2>. DEFINE p == o.at - (f.egptr - f.gptr)
  <2>4. PositionOf(f, o) = p /\ ContentOf(f, o) = o.text
    BY <2>1, IdleSeen DEF PositionOf
  <2>5. p \in 1 .. Len(o.text) /\ ch = o.text[p]
    BY <2>4
  <2>6. ch \in Codes
    BY <1>1, <2>5
  <2>7. ch \in Int
    BY <2>6, CharsAssumption DEF Codes, Nul
  <2>8. d = [c EXCEPT !.fb = g, !.ret = ch]
    <3>1. d = [c EXCEPT !.fb = [Holding(f, f.gptr - 1, ch) EXCEPT !.gptr = @ - 1], !.ret = ch]
      <4>1. d \in {[c EXCEPT !.fb = [Holding(c.fb, c.fb.gptr - 1, ch) EXCEPT !.gptr = @ - 1],
                             !.ret = ch]}
        BY <1>3, Zenon DEF PutBefore
      <4>. QED  BY <4>1, Zenon
    <3>2. Holding(f, f.gptr - 1, ch).gptr = f.gptr
      BY <1>1 DEF Holding, Bufs
    <3>. QED  BY <3>1, <3>2 DEF WithGptr
  <2>. HIDE DEF x, f, o, p
  <2>9. /\ h \in Bufs /\ SameFile(f, h)
        /\ DOMAIN h.mem = DOMAIN f.mem \cup {x} /\ h.mem[x] = ch
        /\ \A y \in DOMAIN f.mem : y # x => h.mem[y] = f.mem[y]
        /\ h.pbase = f.pbase /\ h.pptr = f.pptr /\ h.epptr = f.epptr
        /\ h.eback = f.eback /\ h.egptr = f.egptr
        /\ h.in_start = f.in_start /\ h.last_seek = f.last_seek
    <3>1. f \in Bufs /\ x \in Nat
      BY <1>1, <2>3
    <3>. QED  BY <2>6, <3>1, HoldingFields
  <2>. HIDE DEF h
  <2>10. /\ g \in Bufs /\ SameFile(f, g) /\ g.gptr = x /\ g.mem = h.mem
         /\ g.pbase = f.pbase /\ g.pptr = f.pptr /\ g.epptr = f.epptr
         /\ g.eback = f.eback /\ g.egptr = f.egptr
         /\ g.in_start = f.in_start /\ g.last_seek = f.last_seek
    <3>1. h \in Bufs /\ x \in Nat
      BY <2>3, <2>9
    <3>2. /\ g \in Bufs /\ SameFile(h, g) /\ g.gptr = x /\ g.mem = h.mem
          /\ g.pbase = h.pbase /\ g.pptr = h.pptr /\ g.epptr = h.epptr
          /\ g.eback = h.eback /\ g.egptr = h.egptr
          /\ g.in_start = h.in_start /\ g.last_seek = h.last_seek
      BY <3>1, WithGptrFields
    <3>. QED  BY <2>9, <3>2 DEF SameFile
  <2>. HIDE DEF g
  <2>11. d.fb = g /\ d.os = o /\ d.ret = ch /\ d.lost = FALSE
    BY <2>8 DEF Calls, o
  <2>12. InputSound(g, o)
    <3>1. g.eback > 0 /\ g.eback <= g.gptr /\ g.gptr <= g.egptr /\ g.egptr - g.gptr <= o.at
      BY SMTT(30), <1>1, <2>2, <2>3, <2>5, <2>10 DEF p
    <3>2. g.gptr .. g.egptr - 1 \subseteq DOMAIN g.mem
      BY SMTT(30), <1>1, <2>1, <2>2, <2>3, <2>9, <2>10 DEF InputSound
    <3>3. ~ g.unbuf => /\ g.eback <= g.in_start /\ g.in_start <= g.egptr
                       /\ g.in_start .. g.egptr - 1 \subseteq DOMAIN g.mem
      BY <2>1, <2>9, <2>10 DEF InputSound, SameFile
    <3>4. ASSUME NEW y \in DOMAIN g.mem, y < g.egptr
          PROVE  /\ g.egptr - y <= o.at
                 /\ o.at - (g.egptr - y) < Len(o.text)
                 /\ g.mem[y] = o.text[o.at - (g.egptr - y) + 1]
      <4>1. CASE y = x
        <5>1. o.at - (g.egptr - y) = p - 1 /\ g.egptr - y <= o.at
          <6>1. p = o.at - (f.egptr - f.gptr) /\ p >= 1
            BY <2>5 DEF p
          <6>2. g.egptr - y = f.egptr - f.gptr + 1
            BY <1>1, <2>3, <2>10, <4>1
          <6>. QED  BY <1>1, <6>1, <6>2
        <5>2. p - 1 < Len(o.text) /\ p - 1 + 1 = p
          BY <1>1, <2>5
        <5>. QED  BY <2>5, <2>9, <2>10, <4>1, <5>1, <5>2
      <4>2. CASE y # x
        <5>1. y \in DOMAIN f.mem /\ g.mem[y] = f.mem[y] /\ y < f.egptr
          BY <2>9, <2>10, <3>4, <4>2
        <5>. QED  BY <2>1, <2>10, <5>1 DEF InputSound
      <4>. QED  BY <4>1, <4>2
    <3>. QED  BY <3>1, <3>2, <3>3, <3>4 DEF InputSound
  <2>13. BufSound(g, o)
    <3>1. BufSound(f, o) /\ f.opened = TRUE
      BY DEF f, o
    <3>. QED  BY <2>1, <2>3, <2>10, <2>12, <3>1 DEF BufSound, Writable, SameFile
  <2>14. PositionOf(g, o) = p - 1
    BY <1>1, <2>1, <2>2, <2>3, <2>10 DEF PositionOf, p
  <2>15. ContentOf(g, o) = o.text
    BY <2>1, <2>10, IdleSeen
  <2>. QED  BY <2>4, <2>11, <2>13, <2>14, <2>15 DEF Ends, PutBackSeen, f, o
<1>. QED  BY <1>2, <1>3

-----------------------------------------------------------------------------
(* seekoff(). *)

\* last_seek is brought up to date.
WithLastSeek(f, n) == [f EXCEPT !.last_seek = n]

LEMMA WithLastSeekFields ==
  ASSUME NEW f \in Bufs, NEW n \in Nat
  PROVE  LET g == WithLastSeek(f, n)
         IN  /\ g \in Bufs /\ SameFile(f, g) /\ g.last_seek = n /\ g.mem = f.mem
             /\ g.pbase = f.pbase /\ g.pptr = f.pptr /\ g.epptr = f.epptr
             /\ g.eback = f.eback /\ g.gptr = f.gptr /\ g.egptr = f.egptr
             /\ g.in_start = f.in_start
BY DEF Bufs, WithLastSeek, SameFile

LEMMA LastSeekSeen ==
  ASSUME NEW f, NEW o, BufSound(f, o)
  PROVE  LET g == WithLastSeek(f, o.at)
         IN  /\ BufSound(g, o) /\ SameFile(f, g) /\ g.last_seek = o.at
             /\ PositionOf(g, o) = PositionOf(f, o) /\ ContentOf(g, o) = ContentOf(f, o)
<1>. DEFINE n == o.at
            g == WithLastSeek(f, n)
<1>1. f \in Bufs /\ n \in Nat /\ Writable(f, o)
  BY DEF BufSound, Writable, Files
<1>. HIDE DEF n
<1>2. /\ g \in Bufs /\ SameFile(f, g) /\ g.last_seek = n /\ g.mem = f.mem
      /\ g.pbase = f.pbase /\ g.pptr = f.pptr /\ g.epptr = f.epptr
      /\ g.eback = f.eback /\ g.gptr = f.gptr /\ g.egptr = f.egptr
      /\ g.in_start = f.in_start
  BY <1>1, WithLastSeekFields
<1>. HIDE DEF g
<1>3. Writable(g, o)
  BY <1>1, <1>2 DEF Writable, OutputSound, SameFile, n
<1>4. BufSound(g, o)
  BY <1>2, <1>3 DEF BufSound, InputSound, SameFile
<1>5. PositionOf(g, o) = PositionOf(f, o)
  BY <1>2 DEF PositionOf, SameFile
<1>6. Pending(g) = Pending(f)
  BY <1>2 DEF Pending, SameFile
<1>. QED  BY <1>2, <1>4, <1>5, <1>6 DEF ContentOf, g, n

LEMMA RefPositionIs ==
  ASSUME NEW f, NEW o, BufSound(f, o), f.last_seek = o.at
  PROVE  RefPosition(f) = PositionOf(f, o)
<1>1. /\ f.pptr \in Nat /\ f.gptr \in Nat /\ f.egptr \in Nat /\ f.base \in Nat
      /\ f.pbase \in Nat /\ o.at \in Nat
  <2>1. f \in Bufs /\ o \in Files
    BY DEF BufSound, Writable
  <2>. QED  BY <2>1 DEF Bufs, Files, Base
<1>2. CASE f.pptr # 0
  <2>1. LastOp(f) = "output" /\ f.pbase = f.base
    BY <1>2 DEF LastOp, BufSound, Writable, OutputSound
  <2>2. RefPosition(f) = f.last_seek + f.pptr - f.pbase
    BY <2>1, Zenon DEF RefPosition
  <2>. QED  BY <1>1, <1>2, <2>1, <2>2 DEF PositionOf
<1>3. CASE f.pptr = 0 /\ f.gptr # 0
  <2>1. LastOp(f) = "input"
    BY <1>3 DEF LastOp
  <2>2. RefPosition(f) = f.last_seek - (f.egptr - f.gptr)
    BY <2>1, Zenon DEF RefPosition
  <2>. QED  BY <1>1, <1>3, <2>2 DEF PositionOf
<1>4. CASE f.pptr = 0 /\ f.gptr = 0
  <2>1. LastOp(f) = "none"
    BY <1>4 DEF LastOp
  <2>2. RefPosition(f) = f.last_seek
    BY <2>1, Zenon DEF RefPosition
  <2>. QED  BY <1>4, <2>2 DEF PositionOf
<1>. QED  BY <1>2, <1>3, <1>4

\* Where a call goes that seeks p from d.
Aim(c, p, d) ==
  IF d = "beg" THEN p
  ELSE IF d = "cur" THEN PositionOf(c.fb, c.os) + p
  ELSE Len(ContentOf(c.fb, c.os)) + p

SeekSeen(c, p, d, e) ==
  /\ Aim(c, p, d) >= 0 /\ e.ret = Aim(c, p, d)
  /\ ContentOf(e.fb, e.os) = ContentOf(c.fb, c.os)
  /\ PositionOf(e.fb, e.os) = Aim(c, p, d)

\* Within the buffer.
LEMMA SeekInside ==
  ASSUME NEW f, NEW o, BufSound(f, o), f.opened = TRUE, f.last_seek = o.at, ~ f.unbuf,
         NEW need \in Int, need \in Available(f)
  PROVE  LET g == IF LastOp(f) = "input"
                  THEN WithGptr(f, f.gptr + need - RefPosition(f)) ELSE f
         IN  /\ g \in Bufs /\ BufSound(g, o)
             /\ ContentOf(g, o) = ContentOf(f, o)
             /\ PositionOf(g, o) = need /\ need >= 0
<1>1. /\ f \in Bufs /\ o \in Files /\ f.pptr \in Nat /\ f.gptr \in Nat /\ f.egptr \in Nat
      /\ f.eback \in Nat /\ f.in_start \in Nat /\ f.base \in Nat
      /\ f.pbase \in Nat /\ o.at \in Nat
  <2>1. f \in Bufs /\ o \in Files
    BY DEF BufSound, Writable
  <2>. QED  BY <2>1 DEF Bufs, Files, Base
<1>2. RefPosition(f) = PositionOf(f, o)
  BY RefPositionIs
<1>3. CASE f.pptr # 0
  <2>1. LastOp(f) = "output"
    BY <1>3 DEF LastOp
  <2>2. Available(f) = {RefPosition(f)}
    BY <2>1, Zenon DEF Available
  <2>3. PositionOf(f, o) >= 0
    <3>1. f.pptr >= f.base
      BY <1>1, <1>3 DEF BufSound, Writable, OutputSound
    <3>. QED  BY <1>1, <1>3, <3>1 DEF PositionOf
  <2>. QED  BY <1>1, <1>2, <2>1, <2>2, <2>3
<1>4. CASE f.pptr = 0 /\ f.gptr # 0
  <2>. DEFINE n == f.gptr + need - RefPosition(f)
              g == WithGptr(f, n)
  <2>1. LastOp(f) = "input"
    BY <1>4 DEF LastOp
  <2>2. need \in f.last_seek - (f.egptr - f.in_start) .. f.last_seek - 1
    BY <2>1, Zenon DEF Available
  <2>3. InputSound(f, o)
    BY <1>4 DEF BufSound
  <2>4. PositionOf(f, o) = o.at - (f.egptr - f.gptr)
    BY <1>4 DEF PositionOf
  <2>5. n = need - o.at + f.egptr /\ n \in f.in_start .. f.egptr - 1
    BY <1>1, <1>2, <2>2, <2>4
  <2>6. n \in Nat /\ n >= f.eback /\ n < f.egptr /\ n # 0
    <3>1. f.eback > 0 /\ f.eback <= f.in_start
      BY <2>3 DEF InputSound
    <3>. HIDE DEF n
    <3>2. n \in Int /\ f.in_start <= n /\ n <= f.egptr - 1
      BY <1>1, <2>5
    <3>. QED  BY <1>1, <3>1, <3>2
  <2>7. n \in DOMAIN f.mem
    BY <2>3, <2>5 DEF InputSound
  <2>8. f.egptr - n <= o.at
    BY <2>3, <2>6, <2>7 DEF InputSound
  <2>. HIDE DEF n
  <2>9. /\ g \in Bufs /\ SameFile(f, g) /\ g.gptr = n
        /\ g.pbase = f.pbase /\ g.pptr = f.pptr /\ g.epptr = f.epptr
        /\ g.eback = f.eback /\ g.egptr = f.egptr /\ g.mem = f.mem
        /\ g.in_start = f.in_start /\ g.last_seek = f.last_seek
    BY ONLY <1>1, <2>6 DEF Bufs, WithGptr, SameFile
  <2>. HIDE DEF g
  <2>10. InputSound(g, o)
    <3>1. g.gptr .. g.egptr - 1 \subseteq DOMAIN g.mem
      <4>1. f.in_start .. f.egptr - 1 \subseteq DOMAIN f.mem
        BY <2>3 DEF InputSound
      <4>2. n .. f.egptr - 1 \subseteq f.in_start .. f.egptr - 1
        BY <1>1, <2>5, <2>6
      <4>. QED  BY <2>9, <4>1, <4>2
    <3>2. g.eback > 0 /\ g.eback <= g.gptr /\ g.gptr <= g.egptr /\ g.egptr - g.gptr <= o.at
      BY <1>1, <2>3, <2>6, <2>8, <2>9 DEF InputSound
    <3>. QED  BY <2>3, <2>9, <3>1, <3>2 DEF InputSound, SameFile
  <2>11. Writable(g, o)
    BY <1>4, <2>9 DEF BufSound, Writable, SameFile
  <2>12. BufSound(g, o)
    BY <1>4, <2>6, <2>9, <2>10, <2>11 DEF BufSound, SameFile
  <2>13. PositionOf(g, o) = need
    BY <1>1, <1>4, <2>5, <2>6, <2>9 DEF PositionOf
  <2>14. need >= 0
    BY <1>1, <2>5, <2>6, <2>8
  <2>15. ContentOf(g, o) = ContentOf(f, o)
    BY <1>4, <2>9, IdleSeen
  <2>. QED  BY <2>1, <2>9, <2>12, <2>13, <2>14, <2>15 DEF g, n
<1>5. CASE f.pptr = 0 /\ f.gptr = 0
  <2>1. LastOp(f) = "none"
    BY <1>5 DEF LastOp
  <2>2. Available(f) = {}
    BY <2>1, Zenon DEF Available
  <2>. QED  BY <2>2
<1>. QED  BY <1>3, <1>4, <1>5

\* The system is asked; nothing is in the buffer.
LEMMA SystemSeekIs ==
  ASSUME NEW c \in Calls, NEW p \in Int, NEW d \in {"beg", "cur", "end"}
  PROVE  LET to == IF d = "beg" THEN p
                   ELSE IF d = "cur" THEN c.os.at + p ELSE Len(c.os.text) + p
         IN  SystemSeek(c, p, d) =
               IF to < 0 THEN [c EXCEPT !.fb = Unknown(@), !.ret = EOF]
               ELSE [c EXCEPT !.fb.last_seek = to, !.os.at = to, !.ret = to]
<1>1. CASE d = "beg"
  BY <1>1, Zenon DEF SystemSeek
<1>2. CASE d = "cur"
  BY <1>2, Zenon DEF SystemSeek
<1>3. CASE d = "end"
  BY <1>3, Zenon DEF SystemSeek
<1>. QED  BY <1>1, <1>2, <1>3

LEMMA SystemSeekEnds ==
  ASSUME NEW c \in Calls, c.lost = FALSE, BufSound(c.fb, c.os), c.fb.opened = TRUE,
         NoInput(c.fb), NoOutput(c.fb),
         NEW p \in Int, NEW d \in {"beg", "cur", "end"}
  PROVE  LET e == SystemSeek(c, p, d)
         IN  Ends(c, e, FailureSeen(c, e) \/ SeekSeen(c, p, d, e))
<1>. DEFINE to == IF d = "beg" THEN p
                  ELSE IF d = "cur" THEN c.os.at + p ELSE Len(c.os.text) + p
            e == SystemSeek(c, p, d)
            g == WithLastSeek(c.fb, to)
            q == [c.os EXCEPT !.at = to]
<1>1. /\ c.fb \in Bufs /\ c.os \in Files /\ c.os.at \in Nat /\ c.os.text \in Seq(Codes)
      /\ Writable(c.fb, c.os)
  <2>1. c.fb \in Bufs /\ c.os \in Files
    BY DEF Calls
  <2>. QED  BY <2>1 DEF Files, BufSound
<1>2. to \in Int
  BY <1>1
<1>3. PositionOf(c.fb, c.os) = c.os.at /\ ContentOf(c.fb, c.os) = c.os.text
  BY IdleSeen DEF NoInput, NoOutput, PositionOf
<1>4. to = Aim(c, p, d)
  BY <1>3 DEF Aim
<1>5. e = IF to < 0 THEN [c EXCEPT !.fb = Unknown(c.fb), !.ret = EOF]
          ELSE [c EXCEPT !.fb = g, !.os = q, !.ret = to]
  <2>1. e = IF to < 0 THEN [c EXCEPT !.fb = Unknown(@), !.ret = EOF]
            ELSE [c EXCEPT !.fb.last_seek = to, !.os.at = to, !.ret = to]
    BY SystemSeekIs, Zenon
  <2>. HIDE DEF to, e
  <2>. QED  BY <2>1 DEF WithLastSeek
<1>. HIDE DEF to, e
<1>6. CASE to < 0
  <2>1. e = [c EXCEPT !.fb = Unknown(c.fb), !.ret = EOF]
    BY <1>5, <1>6
  <2>2. e.fb = Unknown(c.fb) /\ e.os = c.os /\ e.ret = EOF /\ e.lost = FALSE
    BY <2>1 DEF Calls
  <2>3. /\ BufSound(Unknown(c.fb), c.os)
        /\ PositionOf(Unknown(c.fb), c.os) = PositionOf(c.fb, c.os)
        /\ ContentOf(Unknown(c.fb), c.os) = ContentOf(c.fb, c.os)
    BY <1>1, UnknownSeen
  <2>. QED  BY <2>2, <2>3 DEF Ends, FailureSeen, e
<1>7. CASE ~ (to < 0)
  <2>1. to \in Nat
    BY <1>2, <1>7
  <2>2. /\ g \in Bufs /\ SameFile(c.fb, g) /\ NoInput(g) /\ NoOutput(g) /\ g.last_seek = to
    BY <1>1, <2>1, WithLastSeekFields DEF NoInput, NoOutput
  <2>3. q \in Files /\ q.at = to /\ q.append = c.os.append /\ q.text = c.os.text
    BY <1>1, <2>1 DEF Files
  <2>4. e = [c EXCEPT !.fb = g, !.os = q, !.ret = to]
    BY <1>5, <1>7
  <2>. HIDE DEF g, q
  <2>5. e.fb = g /\ e.os = q /\ e.ret = to /\ e.lost = FALSE
    BY <2>4 DEF Calls
  <2>6. g.last_seek # EOF => g.last_seek = q.at
    BY <2>2, <2>3
  <2>7. BufSound(g, q) /\ PositionOf(g, q) = q.at /\ ContentOf(g, q) = q.text
    <3>1. /\ g \in Bufs /\ q \in Files /\ Writable(c.fb, c.os) /\ SameFile(c.fb, g)
          /\ q.append = c.os.append /\ NoInput(g) /\ NoOutput(g)
          /\ (g.last_seek # EOF => g.last_seek = q.at)
      BY <1>1, <2>2, <2>3, <2>6
    <3>. QED  BY ONLY <3>1, EmptySound
  <2>8. SeekSeen(c, p, d, e)
    BY <1>3, <1>4, <2>1, <2>3, <2>5, <2>7 DEF SeekSeen
  <2>. QED  BY <2>5, <2>7, <2>8 DEF Ends, e
<1>. QED  BY <1>6, <1>7 DEF e

LEMMA SeekEnds ==
  ASSUME NEW c \in Calls, c.lost = FALSE, BufSound(c.fb, c.os), c.fb.opened = TRUE,
         NEW p \in Int, NEW d \in {"beg", "cur", "end"}, NEW e \in Sought(c, p, d)
  PROVE  Ends(c, e, FailureSeen(c, e) \/ SeekSeen(c, p, d, e))
<1>. DEFINE f == IF c.fb.last_seek = EOF THEN WithLastSeek(c.fb, c.os.at) ELSE c.fb
            need == IF d = "cur" THEN RefPosition(f) + p ELSE p
            g == IF LastOp(f) = "input"
                 THEN WithGptr(f, f.gptr + need - RefPosition(f)) ELSE f
            a == [c EXCEPT !.fb = f]
<1>1. IF ~ f.unbuf /\ d # "end" /\ need \in Available(f)
      THEN e = [c EXCEPT !.ret = need, !.fb = g]
      ELSE \E s \in Sync(a) : e = IF s.ret = EOF THEN s ELSE SystemSeek(s, p, d)
  BY DEF Sought, WithLastSeek, WithGptr
<1>2. /\ BufSound(f, c.os) /\ SameFile(c.fb, f) /\ f.last_seek = c.os.at
      /\ PositionOf(f, c.os) = PositionOf(c.fb, c.os) /\ ContentOf(f, c.os) = ContentOf(c.fb, c.os)
  <2>1. CASE c.fb.last_seek = EOF
    BY <2>1, LastSeekSeen
  <2>2. CASE c.fb.last_seek # EOF
    BY <2>2 DEF BufSound, Writable, SameFile
  <2>. QED  BY <2>1, <2>2
<1>3. f \in Bufs /\ f.opened = TRUE /\ Flushable(f, c.os)
  BY <1>2 DEF BufSound, Writable, SameFile, Flushable
<1>. HIDE DEF f
<1>4. PositionOf(f, c.os) \in Int
  <2>1. f.pptr \in Nat /\ f.gptr \in Nat /\ f.egptr \in Nat /\ f.base \in Nat
    BY <1>3 DEF Bufs, Base
  <2>2. c.os.at \in Nat
    <3>1. c.os \in Files
      BY DEF Calls
    <3>. QED  BY <3>1 DEF Files
  <2>. QED  BY <2>1, <2>2 DEF PositionOf
<1>5. RefPosition(f) = PositionOf(f, c.os) /\ need \in Int
  BY <1>2, <1>4, RefPositionIs
<1>6. CASE ~ f.unbuf /\ d # "end" /\ need \in Available(f)
  <2>1. need = Aim(c, p, d)
    BY <1>2, <1>5, <1>6 DEF Aim
  <2>. HIDE DEF need
  <2>2. /\ g \in Bufs /\ BufSound(g, c.os)
        /\ ContentOf(g, c.os) = ContentOf(f, c.os)
        /\ PositionOf(g, c.os) = need /\ need >= 0
    BY <1>2, <1>3, <1>5, <1>6, SeekInside
  <2>3. e = [c EXCEPT !.ret = need, !.fb = g]
    BY <1>1, <1>6
  <2>. HIDE DEF g
  <2>4. e.fb = g /\ e.os = c.os /\ e.ret = need /\ e.lost = FALSE
    BY <2>3 DEF Calls
  <2>. QED  BY <1>2, <2>1, <2>2, <2>4 DEF Ends, SeekSeen
<1>7. CASE ~ (~ f.unbuf /\ d # "end" /\ need \in Available(f))
  <2>1. PICK s \in Sync(a) : e = IF s.ret = EOF THEN s ELSE SystemSeek(s, p, d)
    BY <1>1, <1>7
  <2>2. a \in Calls /\ a.fb = f /\ a.os = c.os /\ a.lost = FALSE
    BY <1>3 DEF Calls
  <2>. HIDE DEF a
  <2>3. /\ s \in Calls /\ (Lost(s) \/ Synced(a, s))
        /\ NoInput(s.fb) /\ NoOutput(s.fb)
    BY <1>3, <2>1, <2>2, SyncSound
  <2>4. CASE Lost(s)
    BY <2>1, <2>4 DEF Lost, Ends
  <2>5. CASE Synced(a, s)
    <3>1. s.ret # EOF
      BY <2>5 DEF Synced, EOF
    <3>2. /\ s.lost = FALSE /\ BufSound(s.fb, s.os) /\ s.fb.opened = TRUE
          /\ Same(f, c.os, s.fb, s.os)
      BY <1>3, <2>2, <2>5 DEF Synced
    <3>3. e = SystemSeek(s, p, d)
      BY <2>1, <3>1
    <3>4. Ends(s, e, FailureSeen(s, e) \/ SeekSeen(s, p, d, e))
      BY <2>3, <3>2, <3>3, SystemSeekEnds
    <3>5. /\ s.os.append = c.os.append
          /\ ContentOf(s.fb, s.os) = ContentOf(c.fb, c.os)
          /\ c.os.append \/ PositionOf(s.fb, s.os) = PositionOf(c.fb, c.os)
      BY <1>2, <3>2 DEF Same
    <3>6. c.os.append \/ (FailureSeen(s, e) => FailureSeen(c, e))
      BY <3>5 DEF FailureSeen
    <3>7. c.os.append \/ (SeekSeen(s, p, d, e) => SeekSeen(c, p, d, e))
      BY <3>5 DEF SeekSeen, Aim
    <3>. QED  BY <3>4, <3>5, <3>6, <3>7 DEF Ends
  <2>. QED  BY <2>3, <2>4, <2>5
<1>. QED  BY <1>6, <1>7

-----------------------------------------------------------------------------
(* sync() and close(). *)

FlushSeen(c, d) ==
  /\ d.ret = 0
  /\ ContentOf(d.fb, d.os) = ContentOf(c.fb, c.os)
  /\ PositionOf(d.fb, d.os) = PositionOf(c.fb, c.os)

LEMMA SyncEnds ==
  ASSUME NEW c \in Calls, c.lost = FALSE, BufSound(c.fb, c.os), c.fb.opened = TRUE,
         NEW d \in Sync(c)
  PROVE  Ends(c, d, FailureSeen(c, d) \/ FlushSeen(c, d))
<1>1. Lost(d) \/ Synced(c, d)
  BY SyncSound DEF Flushable, BufSound
<1>. QED  BY <1>1 DEF Lost, Synced, Same, Ends, FlushSeen

\* A filebuf with nothing in its buffer, opened or closed.
Rested(f, opened, mode) ==
  [Unknown(SetG(SetP(f, 0, 0), 0, 0, 0)) EXCEPT !.opened = opened, !.mode = mode]

LEMMA RestedSound ==
  ASSUME NEW f, NEW o, Writable(f, o), NEW q \in Files,
         NEW opened \in BOOLEAN, NEW mode \in {"none", "plain", "append"},
         mode = "plain" => ~ q.append
  PROVE  LET g == Rested(f, opened, mode)
         IN  /\ g \in Bufs /\ BufSound(g, q)
             /\ PositionOf(g, q) = q.at /\ ContentOf(g, q) = q.text
<1>. DEFINE p == SetP(f, 0, 0)
            r == SetG(p, 0, 0, 0)
            u == Unknown(r)
            g == Rested(f, opened, mode)
<1>1. f \in Bufs
  BY DEF Writable
<1>2. p \in Bufs /\ SameFile(f, p) /\ NoOutput(p)
  BY <1>1, SetPFields DEF NoOutput
<1>. HIDE DEF p
<1>3. r \in Bufs /\ SameFile(f, r) /\ NoOutput(r) /\ NoInput(r)
  BY <1>2, SetGFields DEF NoOutput, NoInput, SameFile
<1>. HIDE DEF r
<1>4. u \in Bufs /\ SameFile(f, u) /\ NoOutput(u) /\ NoInput(u) /\ u.last_seek = EOF
  BY <1>3, UnknownFields DEF NoOutput, NoInput, SameFile
<1>. HIDE DEF u
<1>5. g = [u EXCEPT !.opened = opened, !.mode = mode]
  BY DEF Rested, u, r, p
<1>. HIDE DEF g
<1>6. /\ g \in Bufs /\ g.mode = mode /\ g.unbuf = u.unbuf /\ g.base = u.base
      /\ g.last_seek = EOF
  BY <1>4, <1>5 DEF Bufs
<1>7. NoInput(g) /\ NoOutput(g)
  BY <1>4, <1>5 DEF Bufs, NoInput, NoOutput
<1>8. Writable(g, q)
  BY <1>4, <1>6, <1>7 DEF Writable, SameFile, NoOutput
<1>9. BufSound(g, q)
  BY <1>7, <1>8 DEF BufSound, NoInput, NoOutput
<1>10. PositionOf(g, q) = q.at /\ ContentOf(g, q) = q.text
  BY <1>7, IdleSeen DEF PositionOf, NoInput, NoOutput
<1>. QED  BY <1>6, <1>9, <1>10 DEF g

CloseSeen(c, d) ==
  /\ d.ret = 0
  /\ ContentOf(d.fb, d.os) = ContentOf(c.fb, c.os)
  /\ PositionOf(d.fb, d.os) \in Nat

LEMMA CloseEnds ==
  ASSUME NEW c \in Calls, c.lost = FALSE, BufSound(c.fb, c.os), c.fb.opened = TRUE,
         c.ret = 0, NEW d \in Closed(c)
  PROVE  Ends(c, d, CloseSeen(c, d))
<1>1. PICK s \in IF LastOp(c.fb) = "output" THEN Overflow(c, EOF) ELSE {c} :
        d = [s EXCEPT !.fb = Rested(s.fb, FALSE, "none"),
                      !.lost = s.lost \/ s.ret = EOF, !.ret = 0]
  BY Zenon DEF Closed, Rested
<1>2. \/ s \in Calls /\ (Lost(s) \/ Refused(c, s))
      \/ /\ s \in Calls /\ s.lost = FALSE /\ s.ret = 0 /\ BufSound(s.fb, s.os)
         /\ s.os.append = c.os.append /\ s.os.text = ContentOf(c.fb, c.os)
  <2>1. CASE LastOp(c.fb) = "output"
    <3>1. s \in Calls /\ (Lost(s) \/ Refused(c, s) \/ Flushed(c, s))
      BY <1>1, <2>1, OverflowFlushes DEF Flushable, BufSound
    <3>. QED  BY <3>1 DEF Flushed, Same
  <2>2. CASE LastOp(c.fb) # "output"
    <3>1. s = c /\ c.fb.pptr = 0
      BY <1>1, <2>2 DEF LastOp
    <3>. QED  BY <3>1, IdleSeen
  <2>. QED  BY <2>1, <2>2
<1>. DEFINE g == Rested(s.fb, FALSE, "none")
            l == s.lost \/ s.ret = EOF
<1>3. d = [s EXCEPT !.fb = g, !.lost = l, !.ret = 0]
  BY <1>1
<1>. HIDE DEF g, l
<1>4. d.fb = g /\ d.os = s.os /\ d.ret = 0 /\ d.lost = l
  BY <1>2, <1>3 DEF Calls
<1>5. CASE s.ret = EOF
  <2>1. l = TRUE
    BY <1>5, Zenon DEF l
  <2>. QED  BY <1>4, <2>1 DEF Ends
<1>6. CASE s.ret # EOF
  <2>1. /\ s \in Calls /\ s.lost = FALSE /\ BufSound(s.fb, s.os)
        /\ s.os.append = c.os.append /\ s.os.text = ContentOf(c.fb, c.os)
    BY <1>2, <1>6 DEF Lost, Refused
  <2>2. l = FALSE
    BY <1>6, <2>1, Zenon DEF l
  <2>3. s.os \in Files /\ s.os.at \in Nat /\ Writable(s.fb, s.os)
    <3>1. s.os \in Files
      BY <2>1 DEF Calls
    <3>. QED  BY <2>1, <3>1 DEF Files, BufSound
  <2>4. BufSound(g, s.os) /\ PositionOf(g, s.os) = s.os.at /\ ContentOf(g, s.os) = s.os.text
    BY <2>3, RestedSound DEF g
  <2>. QED  BY <1>4, <2>1, <2>2, <2>3, <2>4 DEF Ends, CloseSeen
<1>. QED  BY <1>5, <1>6

-----------------------------------------------------------------------------
(* setbuf(). *)

LEMMA WithBufferSeen ==
  ASSUME NEW f, NEW o, Writable(f, o)
  PROVE  LET g == WithBuffer(f)
         IN  /\ BufSound(g, o)
             /\ PositionOf(g, o) = o.at /\ ContentOf(g, o) = o.text
<1>. DEFINE b == [f EXCEPT !.base = Base, !.unbuf = FALSE]
            r == SetG(b, Base, Base, Base)
            ep == Base + BufSize
            g == SetP(r, Base, ep)
<1>1. f \in Bufs /\ Base \in Nat /\ ep \in Nat /\ o.at \in Nat /\ BufSize \in Nat
  BY SizesAssumption DEF Writable, Base, Files
<1>2. /\ b \in Bufs /\ b.base = Base /\ b.unbuf = FALSE /\ b.opened = f.opened
      /\ b.mode = f.mode /\ b.last_seek = f.last_seek
  BY <1>1 DEF Bufs
<1>. HIDE DEF b, ep
<1>3. /\ r \in Bufs /\ SameFile(b, r) /\ r.last_seek = b.last_seek
      /\ r.gptr = Base /\ r.egptr = Base /\ r.eback = Base
  BY <1>1, <1>2, SetGFields
<1>. HIDE DEF r
<1>4. /\ g \in Bufs /\ SameFile(r, g) /\ g.last_seek = r.last_seek
      /\ g.gptr = r.gptr /\ g.egptr = r.egptr /\ g.eback = r.eback
      /\ g.pbase = Base /\ g.pptr = Base /\ g.epptr = ep
  <2>1. r \in Bufs /\ Base \in Nat /\ ep \in Nat
    BY <1>1, <1>3
  <2>. QED  BY ONLY <2>1, NoMemory DEF Bufs, SetP, SameFile
<1>. HIDE DEF g
<1>5. OutputSound(g)
  BY <1>1, <1>2, <1>3, <1>4 DEF OutputSound, SameFile, Base, ep
<1>6. Writable(g, o)
  BY <1>2, <1>3, <1>4, <1>5 DEF Writable, SameFile, Base
<1>7. BufSound(g, o)
  BY <1>2, <1>3, <1>4, <1>6 DEF BufSound, SameFile, Base
<1>8. PositionOf(g, o) = o.at
  BY <1>1, <1>2, <1>3, <1>4 DEF PositionOf, SameFile, Base
<1>9. Pending(g) = <<>>
  BY <1>2, <1>3, <1>4, <1>6, PendingIsText DEF SameFile, Base
<1>10. ContentOf(g, o) = o.text
  BY <1>9 DEF ContentOf, WriteOut
<1>. QED  BY <1>7, <1>8, <1>10 DEF WithBuffer, g, r, b, ep

LEMMA WithoutBufferSeen ==
  ASSUME NEW f, NEW o, Writable(f, o)
  PROVE  LET g == WithoutBuffer(f)
         IN  /\ BufSound(g, o)
             /\ PositionOf(g, o) = o.at /\ ContentOf(g, o) = o.text
<1>. DEFINE b == [f EXCEPT !.base = 0, !.unbuf = TRUE]
            r == SetG(b, 0, 0, 0)
            g == SetP(r, 0, 0)
<1>1. f \in Bufs /\ 0 \in {0, Base}
  BY DEF Writable
<1>2. /\ b \in Bufs /\ b.base = 0 /\ b.opened = f.opened
      /\ b.mode = f.mode /\ b.last_seek = f.last_seek
  BY <1>1 DEF Bufs
<1>. HIDE DEF b
<1>3. r \in Bufs /\ SameFile(b, r) /\ r.last_seek = b.last_seek /\ NoInput(r)
  BY <1>2, SetGFields DEF NoInput
<1>. HIDE DEF r
<1>4. /\ g \in Bufs /\ SameFile(r, g) /\ g.last_seek = r.last_seek
      /\ NoInput(g) /\ NoOutput(g)
  BY <1>3, SetPFields DEF NoInput, NoOutput
<1>. HIDE DEF g
<1>5. Writable(g, o)
  BY <1>2, <1>3, <1>4 DEF Writable, SameFile, NoOutput
<1>6. BufSound(g, o)
  BY <1>4, <1>5 DEF BufSound, NoInput, NoOutput
<1>7. PositionOf(g, o) = o.at /\ ContentOf(g, o) = o.text
  BY <1>4, IdleSeen DEF PositionOf, NoInput, NoOutput
<1>. QED  BY <1>6, <1>7 DEF WithoutBuffer, g, r, b

-----------------------------------------------------------------------------
(* What the program sees, in a state. *)

LEMMA PositionIs ==
  ASSUME NEW f, NEW o, BufSound(f, o)
  PROVE  (CASE LastOp(f) = "input" -> o.at - (f.egptr - f.gptr)
            [] LastOp(f) = "output" -> o.at + f.pptr - f.base
            [] OTHER -> o.at) = PositionOf(f, o)
<1>1. f.pptr \in Nat /\ f.base \in Nat /\ o.at \in Nat
  <2>1. f \in Bufs /\ o \in Files
    BY DEF BufSound, Writable
  <2>. QED  BY <2>1 DEF Bufs, Files, Base
<1>2. CASE f.pptr # 0
  <2>1. LastOp(f) = "output"
    BY <1>2 DEF LastOp
  <2>2. (CASE LastOp(f) = "input" -> o.at - (f.egptr - f.gptr)
           [] LastOp(f) = "output" -> o.at + f.pptr - f.base
           [] OTHER -> o.at) = o.at + f.pptr - f.base
    BY <2>1, Zenon
  <2>3. PositionOf(f, o) = o.at + (f.pptr - f.base)
    BY <1>2 DEF PositionOf
  <2>4. o.at + (f.pptr - f.base) = o.at + f.pptr - f.base
    BY <1>1
  <2>. QED  BY <2>2, <2>3, <2>4, Zenon
<1>3. CASE f.pptr = 0 /\ f.gptr # 0
  <2>1. LastOp(f) = "input"
    BY <1>3 DEF LastOp
  <2>2. PositionOf(f, o) = o.at - (f.egptr - f.gptr)
    BY <1>3 DEF PositionOf
  <2>. QED  BY <2>1, <2>2, Zenon
<1>4. CASE f.pptr = 0 /\ f.gptr = 0
  <2>1. LastOp(f) = "none"
    BY <1>4 DEF LastOp
  <2>2. PositionOf(f, o) = o.at
    BY <1>4 DEF PositionOf
  <2>. QED  BY <2>1, <2>2, Zenon
<1>. QED  BY <1>2, <1>3, <1>4

\* The buffer and the file agree until the device fails at a bad moment.
BufInv == lost \in BOOLEAN /\ (~ lost => BufSound(fb, os))

LEMMA SeenIs ==
  ASSUME BufInv, ~ lost
  PROVE  /\ BufSound(fb, os)
         /\ Position = PositionOf(fb, os) /\ Content = ContentOf(fb, os)
<1>1. BufSound(fb, os)
  BY DEF BufInv
<1>2. Position = PositionOf(fb, os)
  BY <1>1, PositionIs, Zenon DEF Position
<1>. QED  BY <1>1, <1>2 DEF Content, ContentOf

LEMMA SeenNext ==
  ASSUME BufSound(fb, os)'
  PROVE  /\ Position' = PositionOf(fb, os)'
         /\ Content' = ContentOf(fb, os)'
<1>1. BufSound(fb', os')
  OBVIOUS
<1>2. Position' = PositionOf(fb', os')
  BY <1>1, PositionIs, Zenon DEF Position
<1>. QED  BY <1>2 DEF Content, ContentOf

LEMMA HereIs ==
  ASSUME BufSound(fb, os)
  PROVE  /\ Here \in Calls /\ Here.fb = fb /\ Here.os = os
         /\ Here.ret = 0 /\ Here.lost = FALSE
<1>1. fb \in Bufs /\ os \in Files /\ 0 \in Int
  BY DEF BufSound, Writable
<1>. QED  BY <1>1 DEF Here, At, Calls

\* The next state is what the call c ends in, of a state that is not lost.
Arrives(c) ==
  /\ fb' = c.fb /\ os' = c.os /\ ret' = c.ret
  /\ (c.lost = TRUE => lost' = TRUE) /\ (c.lost = FALSE => lost' = FALSE)

LEMMA DoArrives ==
  ASSUME BufInv, NEW what, NEW outcomes, Do(what, outcomes)
  PROVE  /\ lost => lost' = TRUE
         /\ ~ lost => \E c \in outcomes : Arrives(c)
         /\ call' = what /\ fb.opened
<1>1. PICK c \in outcomes : /\ fb' = c.fb /\ os' = c.os /\ ret' = c.ret
                           /\ lost' = (lost \/ c.lost)
  BY DEF Do
<1>2. lost => lost' = TRUE
  BY <1>1, Zenon
<1>3. ~ lost /\ c.lost = TRUE => lost' = TRUE
  BY <1>1, Zenon
<1>4. ~ lost /\ c.lost = FALSE => lost' = FALSE
  BY <1>1, Zenon
<1>5. ~ lost => Arrives(c)
  BY <1>1, <1>3, <1>4 DEF Arrives
<1>. QED  BY <1>2, <1>5 DEF Do

\* After the device is lost, and of a file opened to append, nothing is said.
LEMMA Unsure ==
  ASSUME lost \/ lost' \/ os.append
  PROVE  Stream!Next
BY DEF Stream!Next

LEMMA LostStep ==
  ASSUME lost' = TRUE
  PROVE  BufInv' /\ Stream!Next
BY Unsure DEF BufInv

\* What a call shows is what is seen in the two states.
LEMMA ArrivalSeen ==
  ASSUME BufInv, ~ lost, NEW c, Arrives(c), c.lost = FALSE, BufSound(c.fb, c.os)
  PROVE  /\ BufInv' /\ ret' = c.ret
         /\ Position = PositionOf(Here.fb, Here.os) /\ Content = ContentOf(Here.fb, Here.os)
         /\ Position' = PositionOf(c.fb, c.os) /\ Content' = ContentOf(c.fb, c.os)
<1>1. BufSound(fb, os)'
  BY DEF Arrives
<1>2. BufInv'
  BY <1>1 DEF BufInv, Arrives
<1>3. Position' = PositionOf(fb, os)' /\ Content' = ContentOf(fb, os)'
  BY <1>1, SeenNext
<1>. QED  BY <1>2, <1>3, SeenIs, HereIs DEF Arrives

LEMMA FailureStep ==
  ASSUME BufInv, ~ lost, NEW c, Arrives(c), c.lost = FALSE, BufSound(c.fb, c.os),
         FailureSeen(Here, c)
  PROVE  Stream!Next
<1>1. ret' = EOF /\ Content' = Content /\ Position' = Position
  BY ArrivalSeen DEF FailureSeen
<1>. QED  BY <1>1 DEF Stream!Next, Stream!Fails, Stream!EOF, EOF

LEMMA HereOpened ==
  ASSUME BufInv, ~ lost, fb.opened
  PROVE  /\ Here \in Calls /\ Here.ret = 0 /\ Here.lost = FALSE
         /\ BufSound(Here.fb, Here.os) /\ Here.fb.opened = TRUE
         /\ Here.os.append = os.append
<1>1. BufSound(fb, os) /\ fb \in Bufs
  BY DEF BufInv, BufSound, Writable
<1>2. fb.opened = TRUE
  BY <1>1 DEF Bufs
<1>. QED  BY <1>1, <1>2, HereIs

LEMMA PutStep ==
  ASSUME BufInv, NEW ch \in Chars, PutChar(ch)
  PROVE  BufInv' /\ Stream!Next
<1>1. /\ lost => lost' = TRUE
      /\ ~ lost => \E c \in Stored(Here, ch) : Arrives(c)
      /\ call' = <<"put", ch>> /\ fb.opened
  BY DoArrives DEF PutChar
<1>2. CASE lost
  BY <1>1, <1>2, LostStep
<1>3. CASE ~ lost
  <2>1. PICK c \in Stored(Here, ch) : Arrives(c)
    BY <1>1, <1>3
  <2>2. Ends(Here, c, FailureSeen(Here, c) \/ PutSeen(Here, ch, c))
    BY <1>1, <1>3, <2>1, HereOpened, PutEnds
  <2>3. CASE c.lost = TRUE
    BY <2>1, <2>3, LostStep DEF Arrives
  <2>4. CASE c.lost = FALSE /\ os.append
    <3>1. BufSound(c.fb, c.os)
      BY <2>2, <2>4 DEF Ends
    <3>. QED  BY <1>3, <2>1, <2>4, <3>1, ArrivalSeen, Unsure
  <2>5. CASE c.lost = FALSE /\ ~ os.append
    <3>1. BufSound(c.fb, c.os) /\ (FailureSeen(Here, c) \/ PutSeen(Here, ch, c))
      BY <1>1, <1>3, <2>2, <2>5, HereOpened DEF Ends
    <3>2. /\ BufInv' /\ ret' = c.ret
          /\ Position = PositionOf(Here.fb, Here.os) /\ Content = ContentOf(Here.fb, Here.os)
          /\ Position' = PositionOf(c.fb, c.os) /\ Content' = ContentOf(c.fb, c.os)
      BY <1>3, <2>1, <2>5, <3>1, ArrivalSeen
    <3>3. CASE FailureSeen(Here, c)
      BY <1>3, <2>1, <2>5, <3>1, <3>2, <3>3, FailureStep
    <3>4. CASE PutSeen(Here, ch, c)
      <4>1. Stream!Put
        BY <1>1, <3>2, <3>4 DEF Stream!Put, Stream!Did, PutSeen,
          Stream!Overwritten, Overwritten, Stream!Nul, Nul
      <4>. QED  BY <3>2, <4>1 DEF Stream!Next
    <3>. QED  BY <3>1, <3>3, <3>4
  <2>. QED  BY <2>2, <2>3, <2>4, <2>5 DEF Ends
<1>. QED  BY <1>2, <1>3

LEMMA GetStep ==
  ASSUME BufInv, GetChar
  PROVE  BufInv' /\ Stream!Next
<1>1. /\ lost => lost' = TRUE
      /\ ~ lost => \E c \in Got(Here) : Arrives(c)
      /\ call' = <<"get">> /\ fb.opened
  BY DoArrives DEF GetChar
<1>2. CASE lost
  BY <1>1, <1>2, LostStep
<1>3. CASE ~ lost
  <2>1. PICK c \in Got(Here) : Arrives(c)
    BY <1>1, <1>3
  <2>2. Ends(Here, c, FailureSeen(Here, c) \/ GetSeen(Here, c))
    BY <1>1, <1>3, <2>1, HereOpened, GetEnds
  <2>3. CASE c.lost = TRUE
    BY <2>1, <2>3, LostStep DEF Arrives
  <2>4. CASE c.lost = FALSE /\ os.append
    <3>1. BufSound(c.fb, c.os)
      BY <2>2, <2>4 DEF Ends
    <3>. QED  BY <1>3, <2>1, <2>4, <3>1, ArrivalSeen, Unsure
  <2>5. CASE c.lost = FALSE /\ ~ os.append
    <3>1. BufSound(c.fb, c.os) /\ (FailureSeen(Here, c) \/ GetSeen(Here, c))
      BY <1>1, <1>3, <2>2, <2>5, HereOpened DEF Ends
    <3>2. /\ BufInv' /\ ret' = c.ret
          /\ Position = PositionOf(Here.fb, Here.os) /\ Content = ContentOf(Here.fb, Here.os)
          /\ Position' = PositionOf(c.fb, c.os) /\ Content' = ContentOf(c.fb, c.os)
      BY <1>3, <2>1, <2>5, <3>1, ArrivalSeen
    <3>3. CASE FailureSeen(Here, c)
      BY <1>3, <2>1, <2>5, <3>1, <3>2, <3>3, FailureStep
    <3>4. CASE GetSeen(Here, c)
      <4>1. Stream!Get
        BY <1>1, <3>2, <3>4 DEF Stream!Get, Stream!Did, GetSeen, PassedSeen
      <4>. QED  BY <3>2, <4>1 DEF Stream!Next
    <3>. QED  BY <3>1, <3>3, <3>4
  <2>. QED  BY <2>2, <2>3, <2>4, <2>5 DEF Ends
<1>. QED  BY <1>2, <1>3

LEMMA PeekStep ==
  ASSUME BufInv, Peek
  PROVE  BufInv' /\ Stream!Next
<1>1. /\ lost => lost' = TRUE
      /\ ~ lost => \E c \in Peeked(Here) : Arrives(c)
      /\ call' = <<"peek">> /\ fb.opened
  BY DoArrives DEF Peek
<1>2. CASE lost
  BY <1>1, <1>2, LostStep
<1>3. CASE ~ lost
  <2>1. PICK c \in Peeked(Here) : Arrives(c)
    BY <1>1, <1>3
  <2>2. Ends(Here, c, FailureSeen(Here, c) \/ PeekSeen(Here, c))
    BY <1>1, <1>3, <2>1, HereOpened, PeekEnds
  <2>3. CASE c.lost = TRUE
    BY <2>1, <2>3, LostStep DEF Arrives
  <2>4. CASE c.lost = FALSE /\ os.append
    <3>1. BufSound(c.fb, c.os)
      BY <2>2, <2>4 DEF Ends
    <3>. QED  BY <1>3, <2>1, <2>4, <3>1, ArrivalSeen, Unsure
  <2>5. CASE c.lost = FALSE /\ ~ os.append
    <3>1. BufSound(c.fb, c.os) /\ (FailureSeen(Here, c) \/ PeekSeen(Here, c))
      BY <1>1, <1>3, <2>2, <2>5, HereOpened DEF Ends
    <3>2. /\ BufInv' /\ ret' = c.ret
          /\ Position = PositionOf(Here.fb, Here.os) /\ Content = ContentOf(Here.fb, Here.os)
          /\ Position' = PositionOf(c.fb, c.os) /\ Content' = ContentOf(c.fb, c.os)
      BY <1>3, <2>1, <2>5, <3>1, ArrivalSeen
    <3>3. CASE FailureSeen(Here, c)
      BY <1>3, <2>1, <2>5, <3>1, <3>2, <3>3, FailureStep
    <3>4. CASE PeekSeen(Here, c)
      <4>1. Stream!Peek
        BY <1>1, <3>2, <3>4 DEF Stream!Peek, Stream!Did, PeekSeen
      <4>. QED  BY <3>2, <4>1 DEF Stream!Next
    <3>. QED  BY <3>1, <3>3, <3>4
  <2>. QED  BY <2>2, <2>3, <2>4, <2>5 DEF Ends
<1>. QED  BY <1>2, <1>3

LEMMA SkipStep ==
  ASSUME BufInv, Skip
  PROVE  BufInv' /\ Stream!Next
<1>1. /\ lost => lost' = TRUE
      /\ ~ lost => \E c \in Skipped(Here) : Arrives(c)
      /\ call' = <<"next">> /\ fb.opened
  BY DoArrives DEF Skip
<1>2. CASE lost
  BY <1>1, <1>2, LostStep
<1>3. CASE ~ lost
  <2>1. PICK c \in Skipped(Here) : Arrives(c)
    BY <1>1, <1>3
  <2>2. Ends(Here, c, FailureSeen(Here, c) \/ SkipSeen(Here, c))
    BY <1>1, <1>3, <2>1, HereOpened, SkipEnds
  <2>3. CASE c.lost = TRUE
    BY <2>1, <2>3, LostStep DEF Arrives
  <2>4. CASE c.lost = FALSE /\ os.append
    <3>1. BufSound(c.fb, c.os)
      BY <2>2, <2>4 DEF Ends
    <3>. QED  BY <1>3, <2>1, <2>4, <3>1, ArrivalSeen, Unsure
  <2>5. CASE c.lost = FALSE /\ ~ os.append
    <3>1. BufSound(c.fb, c.os) /\ (FailureSeen(Here, c) \/ SkipSeen(Here, c))
      BY <1>1, <1>3, <2>2, <2>5, HereOpened DEF Ends
    <3>2. /\ BufInv' /\ ret' = c.ret
          /\ Position = PositionOf(Here.fb, Here.os) /\ Content = ContentOf(Here.fb, Here.os)
          /\ Position' = PositionOf(c.fb, c.os) /\ Content' = ContentOf(c.fb, c.os)
      BY <1>3, <2>1, <2>5, <3>1, ArrivalSeen
    <3>3. CASE FailureSeen(Here, c)
      BY <1>3, <2>1, <2>5, <3>1, <3>2, <3>3, FailureStep
    <3>4. CASE SkipSeen(Here, c)
      <4>1. Stream!Skip
        BY <1>1, <3>2, <3>4 DEF Stream!Skip, Stream!Did, SkipSeen, PassedSeen, Stream!EOF, EOF
      <4>. QED  BY <3>2, <4>1 DEF Stream!Next
    <3>. QED  BY <3>1, <3>3, <3>4
  <2>. QED  BY <2>2, <2>3, <2>4, <2>5 DEF Ends
<1>. QED  BY <1>2, <1>3

LEMMA FlushStep ==
  ASSUME BufInv, Flush
  PROVE  BufInv' /\ Stream!Next
<1>1. /\ lost => lost' = TRUE
      /\ ~ lost => \E c \in Sync(Here) : Arrives(c)
      /\ call' = <<"sync">> /\ fb.opened
  BY DoArrives DEF Flush
<1>2. CASE lost
  BY <1>1, <1>2, LostStep
<1>3. CASE ~ lost
  <2>1. PICK c \in Sync(Here) : Arrives(c)
    BY <1>1, <1>3
  <2>2. Ends(Here, c, FailureSeen(Here, c) \/ FlushSeen(Here, c))
    BY <1>1, <1>3, <2>1, HereOpened, SyncEnds
  <2>3. CASE c.lost = TRUE
    BY <2>1, <2>3, LostStep DEF Arrives
  <2>4. CASE c.lost = FALSE /\ os.append
    <3>1. BufSound(c.fb, c.os)
      BY <2>2, <2>4 DEF Ends
    <3>. QED  BY <1>3, <2>1, <2>4, <3>1, ArrivalSeen, Unsure
  <2>5. CASE c.lost = FALSE /\ ~ os.append
    <3>1. BufSound(c.fb, c.os) /\ (FailureSeen(Here, c) \/ FlushSeen(Here, c))
      BY <1>1, <1>3, <2>2, <2>5, HereOpened DEF Ends
    <3>2. /\ BufInv' /\ ret' = c.ret
          /\ Position = PositionOf(Here.fb, Here.os) /\ Content = ContentOf(Here.fb, Here.os)
          /\ Position' = PositionOf(c.fb, c.os) /\ Content' = ContentOf(c.fb, c.os)
      BY <1>3, <2>1, <2>5, <3>1, ArrivalSeen
    <3>3. CASE FailureSeen(Here, c)
      BY <1>3, <2>1, <2>5, <3>1, <3>2, <3>3, FailureStep
    <3>4. CASE FlushSeen(Here, c)
      <4>1. Stream!Sync
        BY <1>1, <3>2, <3>4 DEF Stream!Sync, Stream!Did, FlushSeen
      <4>. QED  BY <3>2, <4>1 DEF Stream!Next
    <3>. QED  BY <3>1, <3>3, <3>4
  <2>. QED  BY <2>2, <2>3, <2>4, <2>5 DEF Ends
<1>. QED  BY <1>2, <1>3

LEMMA CloseStep ==
  ASSUME BufInv, Close
  PROVE  BufInv' /\ Stream!Next
<1>1. /\ lost => lost' = TRUE
      /\ ~ lost => \E c \in Closed(Here) : Arrives(c)
      /\ call' = <<"close">> /\ fb.opened
  BY DoArrives DEF Close
<1>2. CASE lost
  BY <1>1, <1>2, LostStep
<1>3. CASE ~ lost
  <2>1. PICK c \in Closed(Here) : Arrives(c)
    BY <1>1, <1>3
  <2>2. Ends(Here, c, CloseSeen(Here, c))
    BY <1>1, <1>3, <2>1, HereOpened, CloseEnds
  <2>3. CASE c.lost = TRUE
    BY <2>1, <2>3, LostStep DEF Arrives
  <2>4. CASE c.lost = FALSE /\ os.append
    <3>1. BufSound(c.fb, c.os)
      BY <2>2, <2>4 DEF Ends
    <3>. QED  BY <1>3, <2>1, <2>4, <3>1, ArrivalSeen, Unsure
  <2>5. CASE c.lost = FALSE /\ ~ os.append
    <3>1. BufSound(c.fb, c.os) /\ (CloseSeen(Here, c))
      BY <1>1, <1>3, <2>2, <2>5, HereOpened DEF Ends
    <3>2. /\ BufInv' /\ ret' = c.ret
          /\ Position = PositionOf(Here.fb, Here.os) /\ Content = ContentOf(Here.fb, Here.os)
          /\ Position' = PositionOf(c.fb, c.os) /\ Content' = ContentOf(c.fb, c.os)
      BY <1>3, <2>1, <2>5, <3>1, ArrivalSeen
    <3>4. CASE CloseSeen(Here, c)
      <4>1. Stream!Close
        BY <1>1, <3>2, <3>4 DEF Stream!Close, Stream!Did, CloseSeen
      <4>. QED  BY <3>2, <4>1 DEF Stream!Next
    <3>. QED  BY <3>1, <3>4
  <2>. QED  BY <2>2, <2>3, <2>4, <2>5 DEF Ends
<1>. QED  BY <1>2, <1>3

LEMMA PutBackStep ==
  ASSUME BufInv, PutBackChar
  PROVE  BufInv' /\ Stream!Next
<1>. DEFINE ch == Content[Position]
<1>1. /\ lost => lost' = TRUE
      /\ ~ lost => \E c \in PutBefore(Here, ch) : Arrives(c)
      /\ call' = <<"putback">> /\ fb.opened
  BY DoArrives DEF PutBackChar
<1>2. CASE lost
  BY <1>1, <1>2, LostStep
<1>3. CASE ~ lost
  <2>1. PICK c \in PutBefore(Here, ch) : Arrives(c)
    BY <1>1, <1>3
  <2>2. /\ Position = PositionOf(Here.fb, Here.os) /\ Content = ContentOf(Here.fb, Here.os)
        /\ Position \in 1 .. Len(Content)
    BY <1>3, SeenIs, HereIs DEF PutBackChar
  <2>3. Ends(Here, c, FailureSeen(Here, c) \/ PutBackSeen(Here, ch, c))
    <3>1. /\ PositionOf(Here.fb, Here.os) \in 1 .. Len(ContentOf(Here.fb, Here.os))
          /\ ch = ContentOf(Here.fb, Here.os)[PositionOf(Here.fb, Here.os)]
      BY <2>2
    <3>. HIDE DEF ch
    <3>. QED  BY <1>1, <1>3, <2>1, <3>1, HereOpened, PutBackEnds
  <2>4. CASE c.lost = TRUE
    BY <2>1, <2>4, LostStep DEF Arrives
  <2>5. CASE c.lost = FALSE /\ os.append
    <3>1. BufSound(c.fb, c.os)
      BY <2>3, <2>5 DEF Ends
    <3>. QED  BY <1>3, <2>1, <2>5, <3>1, ArrivalSeen, Unsure
  <2>6. CASE c.lost = FALSE /\ ~ os.append
    <3>1. BufSound(c.fb, c.os) /\ (FailureSeen(Here, c) \/ PutBackSeen(Here, ch, c))
      BY <1>1, <1>3, <2>3, <2>6, HereOpened DEF Ends
    <3>2. /\ BufInv' /\ ret' = c.ret
          /\ Position' = PositionOf(c.fb, c.os) /\ Content' = ContentOf(c.fb, c.os)
      BY <1>3, <2>1, <2>6, <3>1, ArrivalSeen
    <3>3. CASE FailureSeen(Here, c)
      BY <1>3, <2>1, <2>6, <3>1, <3>2, <3>3, FailureStep
    <3>4. CASE PutBackSeen(Here, ch, c)
      <4>1. Stream!PutBack
        BY <1>1, <2>2, <3>2, <3>4 DEF Stream!PutBack, Stream!Did, PutBackSeen
      <4>. QED  BY <3>2, <4>1 DEF Stream!Next
    <3>. QED  BY <3>1, <3>3, <3>4
  <2>. QED  BY <2>3, <2>4, <2>5, <2>6 DEF Ends
<1>. QED  BY <1>2, <1>3

LEMMA TargetIs ==
  ASSUME NEW p \in Int, NEW d \in {"beg", "cur", "end"},
         Position = PositionOf(Here.fb, Here.os), Content = ContentOf(Here.fb, Here.os)
  PROVE  Stream!Target(p, d) = Aim(Here, p, d)
<1>1. CASE d = "beg"
  <2>1. Stream!Target(p, d) = p
    BY <1>1, Zenon DEF Stream!Target
  <2>. QED  BY <1>1, <2>1 DEF Aim
<1>2. CASE d = "cur"
  <2>1. Stream!Target(p, d) = Position + p
    BY <1>2, Zenon DEF Stream!Target
  <2>. QED  BY <1>2, <2>1 DEF Aim
<1>3. CASE d = "end"
  <2>1. Stream!Target(p, d) = Len(Content) + p
    BY <1>3, Zenon DEF Stream!Target
  <2>. QED  BY <1>3, <2>1 DEF Aim
<1>. QED  BY <1>1, <1>2, <1>3

LEMMA SeekStep ==
  ASSUME BufInv, NEW p \in Offsets, NEW d \in {"beg", "cur", "end"}, Seek(p, d)
  PROVE  BufInv' /\ Stream!Next
<1>0. p \in Int
  BY OffsetsAssumption
<1>1. /\ lost => lost' = TRUE
      /\ ~ lost => \E c \in Sought(Here, p, d) : Arrives(c)
      /\ call' = <<"seek", p, d>> /\ fb.opened
  BY DoArrives DEF Seek
<1>2. CASE lost
  BY <1>1, <1>2, LostStep
<1>3. CASE ~ lost
  <2>1. PICK c \in Sought(Here, p, d) : Arrives(c)
    BY <1>1, <1>3
  <2>2. Ends(Here, c, FailureSeen(Here, c) \/ SeekSeen(Here, p, d, c))
    BY <1>0, <1>1, <1>3, <2>1, HereOpened, SeekEnds
  <2>3. CASE c.lost = TRUE
    BY <2>1, <2>3, LostStep DEF Arrives
  <2>4. CASE c.lost = FALSE /\ os.append
    <3>1. BufSound(c.fb, c.os)
      BY <2>2, <2>4 DEF Ends
    <3>. QED  BY <1>3, <2>1, <2>4, <3>1, ArrivalSeen, Unsure
  <2>5. CASE c.lost = FALSE /\ ~ os.append
    <3>1. BufSound(c.fb, c.os) /\ (FailureSeen(Here, c) \/ SeekSeen(Here, p, d, c))
      BY <1>1, <1>3, <2>2, <2>5, HereOpened DEF Ends
    <3>2. /\ BufInv' /\ ret' = c.ret
          /\ Position = PositionOf(Here.fb, Here.os) /\ Content = ContentOf(Here.fb, Here.os)
          /\ Position' = PositionOf(c.fb, c.os) /\ Content' = ContentOf(c.fb, c.os)
      BY <1>3, <2>1, <2>5, <3>1, ArrivalSeen
    <3>3. CASE FailureSeen(Here, c)
      BY <1>3, <2>1, <2>5, <3>1, <3>2, <3>3, FailureStep
    <3>4. CASE SeekSeen(Here, p, d, c)
      <4>1. Stream!Target(p, d) = Aim(Here, p, d)
        BY <1>0, <3>2, TargetIs
      <4>2. Stream!Seek
        BY <1>1, <3>2, <3>4, <4>1 DEF Stream!Seek, Stream!Did, SeekSeen
      <4>. QED  BY <3>2, <4>2 DEF Stream!Next
    <3>. QED  BY <3>1, <3>3, <3>4
  <2>. QED  BY <2>2, <2>3, <2>4, <2>5 DEF Ends
<1>. QED  BY <1>2, <1>3

\* A filebuf that is closed, or has no buffer, has nothing in it.
LEMMA NothingIn ==
  ASSUME NEW f, NEW o, BufSound(f, o), f.pptr \in {0, f.base}, f.gptr = f.egptr
  PROVE  PositionOf(f, o) = o.at /\ ContentOf(f, o) = o.text
<1>1. f.pptr \in Nat /\ f.gptr \in Nat /\ o.at \in Nat
  <2>1. f \in Bufs /\ o \in Files
    BY DEF BufSound, Writable
  <2>. QED  BY <2>1 DEF Bufs, Files
<1>2. PositionOf(f, o) = o.at
  BY <1>1 DEF PositionOf
<1>3. Pending(f) = <<>>
  BY <1>1, PendingIsText DEF BufSound
<1>. QED  BY <1>2, <1>3 DEF ContentOf, WriteOut

LEMMA OpenStep ==
  ASSUME BufInv, NEW trunc \in BOOLEAN, NEW ate \in BOOLEAN, NEW append \in BOOLEAN,
         Open(trunc, ate, append)
  PROVE  BufInv' /\ Stream!Next
<1>. DEFINE text == IF trunc THEN <<>> ELSE os.text
            mode == IF append THEN "append" ELSE "plain"
<1>1. CASE lost
  <2>1. lost' = TRUE
    BY <1>1 DEF Open, BufInv
  <2>. QED  BY <2>1, LostStep
<1>2. CASE ~ lost
  <2>1. /\ BufSound(fb, os) /\ os \in Files /\ Writable(fb, os) /\ ~ fb.opened
        /\ Content = ContentOf(fb, os)
    BY <1>2, SeenIs DEF BufSound, Writable, Open
  <2>2. Content = os.text
    BY <2>1, NothingIn DEF BufSound
  <2>3. text \in Seq(Codes) /\ Len(text) \in Nat /\ text \in {Content, <<>>}
    BY <2>1, <2>2 DEF Files
  <2>4. os' = [text |-> text, at |-> IF ate \/ append THEN Len(text) ELSE 0,
               append |-> append]
    BY DEF Open
  <2>. HIDE DEF text
  <2>5. /\ os' \in Files /\ os'.text = text /\ os'.append = append
        /\ os'.at \in {0, Len(text)}
    BY <2>3, <2>4 DEF Files
  <2>6. fb' = Rested(fb, TRUE, mode) /\ mode \in {"none", "plain", "append"}
    BY DEF Open, Opened, Rested
  <2>7. mode = "plain" => ~ os'.append
    BY <2>5
  <2>. HIDE DEF mode
  <2>8. /\ BufSound(fb', os') /\ PositionOf(fb', os') = os'.at
        /\ ContentOf(fb', os') = os'.text
    BY <2>1, <2>5, <2>6, <2>7, RestedSound
  <2>9. BufInv' /\ Position' = os'.at /\ Content' = os'.text
    BY <1>2, <2>8, SeenNext DEF BufInv, Open
  <2>10. Stream!Open
    BY <2>3, <2>5, <2>9 DEF Open, Stream!Open, Stream!Did
  <2>. QED  BY <2>9, <2>10 DEF Stream!Next
<1>. QED  BY <1>1, <1>2

LEMMA AttachStep ==
  ASSUME BufInv, Attach
  PROVE  BufInv' /\ Stream!Next
<1>1. CASE lost
  <2>1. lost' = TRUE
    BY <1>1 DEF Attach, BufInv
  <2>. QED  BY <2>1, LostStep
<1>2. CASE ~ lost
  <2>1. /\ BufSound(fb, os) /\ os \in Files /\ Writable(fb, os) /\ ~ fb.opened
        /\ Position = PositionOf(fb, os) /\ Content = ContentOf(fb, os)
    BY <1>2, SeenIs DEF BufSound, Writable, Attach
  <2>2. Position = os.at /\ Content = os.text
    BY <2>1, NothingIn DEF BufSound
  <2>3. fb' = Rested(fb, TRUE, "none") /\ os' = os
    BY DEF Attach, Opened, Rested
  <2>4. /\ BufSound(fb', os') /\ PositionOf(fb', os') = os'.at
        /\ ContentOf(fb', os') = os'.text
    BY <2>1, <2>3, RestedSound
  <2>5. BufInv' /\ Position' = Position /\ Content' = Content
    BY <1>2, <2>2, <2>3, <2>4, SeenNext DEF BufInv, Attach
  <2>6. Stream!Attach
    BY <2>5 DEF Attach, Stream!Attach, Stream!Did
  <2>. QED  BY <2>5, <2>6 DEF Stream!Next
<1>. QED  BY <1>1, <1>2

LEMMA SetBufStep ==
  ASSUME BufInv, SetBuf
  PROVE  BufInv' /\ Stream!Next
<1>1. CASE lost \/ fb.gptr # fb.egptr
  <2>1. lost' = TRUE
    BY <1>1, Zenon DEF SetBuf
  <2>. QED  BY <2>1, LostStep
<1>2. CASE ~ (lost \/ fb.gptr # fb.egptr)
  <2>1. /\ BufSound(fb, os) /\ os \in Files /\ Writable(fb, os)
        /\ Position = PositionOf(fb, os) /\ Content = ContentOf(fb, os)
    BY <1>2, SeenIs DEF BufSound, Writable
  <2>2. fb.pptr \in {0, fb.base}
    BY <2>1 DEF SetBuf, BufSound, Writable, OutputSound, Base
  <2>3. Position = os.at /\ Content = os.text
    BY <1>2, <2>1, <2>2, NothingIn
  <2>4. lost' = FALSE
    BY <1>2, Zenon DEF SetBuf
  <2>5. os' = os /\ fb' \in {WithBuffer(fb), WithoutBuffer(fb)}
    BY DEF SetBuf
  <2>6. /\ BufSound(fb', os') /\ PositionOf(fb', os') = os.at
        /\ ContentOf(fb', os') = os.text
    BY <2>1, <2>5, WithBufferSeen, WithoutBufferSeen
  <2>7. BufInv' /\ Position' = Position /\ Content' = Content
    BY <2>3, <2>4, <2>6, SeenNext DEF BufInv
  <2>8. Stream!SetBuf
    BY <2>7 DEF SetBuf, Stream!SetBuf, Stream!Did
  <2>. QED  BY <2>7, <2>8 DEF Stream!Next
<1>. QED  BY <1>1, <1>2

LEMMA BufStart ==
  ASSUME BufInit
  PROVE  BufInv /\ Stream!Init
<1>. DEFINE mode == IF os.append THEN "append" ELSE "plain"
            fd == [Unopened EXCEPT !.opened = TRUE, !.mode = mode]
<1>1. /\ os \in Files /\ os.at = 0 /\ os.text \in Seq(Chars)
      /\ mode \in {"none", "plain", "append"} /\ (mode = "plain" => ~ os.append)
  BY CharsAssumption DEF BufInit, Files, Codes
<1>2. fb \in {Unopened, fd, WithBuffer(fd)}
  BY DEF BufInit
<1>. HIDE DEF mode
<1>3. Unopened \in Bufs
  BY NoMemory DEF Unopened, Bufs, EOF, Base
<1>4. fd \in Bufs
  BY <1>1, <1>3 DEF Bufs
<1>5. /\ Unopened.pptr = 0 /\ Unopened.epptr = 0 /\ Unopened.gptr = 0
      /\ Unopened.egptr = 0 /\ Unopened.eback = 0 /\ Unopened.last_seek = EOF
      /\ Unopened.mode = "none" /\ Unopened.base = 0
  BY DEF Unopened
<1>6. /\ fd.pptr = 0 /\ fd.epptr = 0 /\ fd.gptr = 0
      /\ fd.egptr = 0 /\ fd.eback = 0 /\ fd.last_seek = EOF
      /\ fd.mode = mode /\ fd.base = 0
  BY DEF Unopened
<1>. HIDE DEF fd
<1>7. Writable(Unopened, os) /\ Writable(fd, os)
  BY <1>1, <1>3, <1>4, <1>5, <1>6 DEF Writable
<1>8. BufSound(Unopened, os) /\ BufSound(fd, os)
  BY <1>5, <1>6, <1>7 DEF BufSound
<1>9. /\ PositionOf(Unopened, os) = os.at /\ ContentOf(Unopened, os) = os.text
      /\ PositionOf(fd, os) = os.at /\ ContentOf(fd, os) = os.text
  BY <1>5, <1>6, <1>8, NothingIn
<1>10. /\ BufSound(fb, os)
       /\ PositionOf(fb, os) = os.at /\ ContentOf(fb, os) = os.text
  BY <1>2, <1>7, <1>8, <1>9, WithBufferSeen
<1>11. lost = FALSE /\ call = <<"none">> /\ ret = 0
  BY DEF BufInit
<1>12. BufInv /\ Position = os.at /\ Content = os.text
  BY <1>10, <1>11, SeenIs DEF BufInv
<1>. QED  BY <1>1, <1>11, <1>12 DEF Stream!Init

LEMMA BufStep ==
  ASSUME BufInv, [BufNext]_bufVars
  PROVE  BufInv' /\ [Stream!Next]_(Stream!fileVars)
<1>1. CASE BufNext
  BY <1>1, PutStep, GetStep, PeekStep, SkipStep, PutBackStep, SeekStep, FlushStep,
     CloseStep, OpenStep, AttachStep, SetBufStep, Zenon DEF BufNext
<1>2. CASE UNCHANGED bufVars
  <2>1. fb' = fb /\ os' = os /\ call' = call /\ ret' = ret /\ lost' = lost
    BY <1>2 DEF bufVars
  <2>2. BufInv'
    BY <2>1 DEF BufInv
  <2>3. Position' = Position /\ Content' = Content
    BY <2>1, Zenon DEF Position, Content
  <2>. QED  BY <2>1, <2>2, <2>3 DEF Stream!fileVars
<1>. QED  BY <1>1, <1>2

\* Until the device fails at a bad moment the buffer and the file agree: what
\* underflow() read ahead is what stands in the file, what overflow() is to
\* write begins at its position, and seekoff() may trust last_seek.
THEOREM FileIsSound == BufSpec => []BufInv
<1>1. BufInit => BufInv
  BY BufStart
<1>2. BufInv /\ [BufNext]_bufVars => BufInv'
  BY BufStep
<1>. QED  BY <1>1, <1>2, PTL DEF BufSpec

\* A program that reads, writes, seeks, puts back, flushes, closes and opens
\* again sees of a filebuf what it would see of the file itself, whatever the
\* sizes of the buffer and however little the system reads and writes at a time.
THEOREM StreamIsItsFile == BufSpec => BehavesAsFile
<1>1. BufInit => Stream!Init
  BY BufStart
<1>2. BufInv /\ [BufNext]_bufVars => [Stream!Next]_(Stream!fileVars)
  BY BufStep
<1>. QED  BY <1>1, <1>2, FileIsSound, PTL DEF BufSpec, BehavesAsFile, Stream!Spec
=============================================================================
