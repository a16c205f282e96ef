------------------------------ MODULE FileBuf ------------------------------
(***************************************************************************)
(* Class filebuf of the iostream library (src/lib/stream/filebuf.C), with  *)
(* the inline members of streambuf: one buffer that serves reading and     *)
(* writing in turn, and the file behind it.  Pointers are addresses: 0 is  *)
(* null, the buffer begins at Base, the two characters lahead at Lahead.   *)
(*                                                                         *)
(* The system may read and write less than it is asked to, and fail.       *)
(***************************************************************************)
EXTENDS FileText

CONSTANTS
  Chars,      \* characters
  BufSize,       \* length of the buffer
  Reserve,    \* room before what is read, for characters put back
  Texts,      \* what may be in the file at first
  Offsets,    \* arguments of seekoff()
  MaxText     \* a bound on positions

\* The end of the file is told from every character.
ASSUME CharsAssumption == Chars \subseteq Nat /\ Texts \subseteq Seq(Chars)
ASSUME SizesAssumption == BufSize \in Nat \ {0} /\ Reserve \in Nat /\ MaxText \in Nat
ASSUME OffsetsAssumption == Offsets \subseteq Int

Base == 1
Lahead == BufSize + 2

VARIABLES
  fb,     \* the filebuf: a record of the members of the class
  os,     \* the open file: [text, at, append]
  call,   \* the last call
  ret,    \* ... what it returned
  lost    \* the device has failed at a moment at which the buffer cannot
          \* make up for it

bufVars == <<fb, os, call, ret, lost>>

\* A call under way is a record c of fb, os, ret and lost.
At(f, o, r) == [fb |-> f, os |-> o, ret |-> r, lost |-> FALSE]
Returns(c, r) == [c EXCEPT !.ret = r]

-----------------------------------------------------------------------------
(* Members of streambuf. *)

\* What the buffer held is not used again.
SetP(f, p, ep) == [f EXCEPT !.pbase = p, !.pptr = p, !.epptr = ep, !.mem = <<>>]
Holding(f, x, ch) ==
  [f EXCEPT !.mem = [y \in DOMAIN @ \cup {x} |-> IF y = x THEN ch ELSE @[y]]]

SetG(f, eb, g, eg) == [f EXCEPT !.eback = eb, !.gptr = g, !.egptr = eg]

Ebuf(f) == IF f.base = 0 THEN 0 ELSE f.base + BufSize

\* A buffer is allocated when it is first needed.
Allocated(f) == IF f.base = 0 /\ ~ f.unbuf THEN [f EXCEPT !.base = Base] ELSE f

LastOp(f) == IF f.pptr # 0 THEN "output"
             ELSE IF f.gptr # 0 THEN "input" ELSE "none"

\* What is in the buffer and not yet in the file.
Pending(f) == IF f.pptr = 0 THEN <<>>
              ELSE [i \in 1 .. f.pptr - f.base |-> f.mem[f.base + i - 1]]

\* last_seek can be kept up to date without asking the system.
Arithmetic(f) == f.last_seek # EOF /\ f.mode = "plain"

Moved(f, n) == [f EXCEPT !.last_seek = IF Arithmetic(f) THEN @ + n ELSE EOF]
Unknown(f) == [f EXCEPT !.last_seek = EOF]

\* The system writes str.
WriteOut(o, str) ==
  LET from == IF o.append THEN Len(o.text) ELSE o.at
  IN  IF str = <<>> THEN o
      ELSE [o EXCEPT !.text = Overwritten(o.text, from, str),
                     !.at = from + Len(str)]

-----------------------------------------------------------------------------
(* overflow(), sync() and underflow().  Each gives the set of calls it may *)
(* end in.                                                                 *)

\* The loop of overflow(): writes until everything is written, or one fails.
Drained(c) ==
  LET str == Pending(c.fb)
      n == Len(str)
  IN  {IF k = n
       THEN [c EXCEPT !.fb = IF n = 0 THEN @ ELSE Moved(@, n),
                      !.os = WriteOut(@, str), !.ret = 0]
       ELSE [c EXCEPT !.fb = Unknown(@), !.os = WriteOut(@, SubSeq(str, 1, k)),
                      !.ret = EOF, !.lost = @ \/ k > 0] : k \in 0 .. n}

\* Bug: what was read ahead is not given back.
InputKept(c) == [c EXCEPT !.ret = 0]

\* The file goes back to the character that is to be read next.
InputSynced(c) ==
  LET to == c.os.at + c.fb.gptr - c.fb.egptr
  IN  IF to < 0 THEN Returns(c, EOF)
      ELSE [c EXCEPT !.os.at = to, !.ret = 0]

Emptied(c) == [c EXCEPT !.fb = Unknown(SetG(SetP(@, 0, 0), 0, 0, 0))]

\* overflow() with the character ch, or with EOF.
Started(c, ch) ==
  LET f == SetG(SetP(c.fb, c.fb.base, Ebuf(c.fb)), 0, 0, 0)
  IN  IF ch = EOF THEN {[c EXCEPT !.fb = f, !.ret = 0]}
      ELSE IF f.unbuf
      THEN {[c EXCEPT !.fb = Unknown(f), !.os = WriteOut(@, <<ch>>), !.ret = ch],
            [c EXCEPT !.fb = Unknown(f), !.ret = EOF]}
      ELSE {[c EXCEPT !.fb = [Holding(f, f.pptr, ch) EXCEPT !.pptr = @ + 1],
                      !.ret = ch]}

Overflow(c, ch) ==
  IF ~ c.fb.opened THEN {Returns(c, EOF)}
  ELSE LET a == [c EXCEPT !.fb = Allocated(@)]
           b == IF LastOp(a.fb) = "input" THEN InputSynced(a) ELSE Returns(a, 0)
           s == IF LastOp(a.fb) = "input" THEN Emptied(b) ELSE b
       IN  IF s.ret = EOF THEN {s}
           ELSE UNION {IF d.ret = EOF THEN {d} ELSE Started(d, ch) : d \in Drained(s)}

\* What was to be written and could not be is thrown away.
Sync(c) ==
  CASE LastOp(c.fb) = "input" -> {Emptied(InputSynced(c))}
    [] LastOp(c.fb) = "output" ->
         {Emptied([d EXCEPT !.lost = @ \/ d.ret = EOF]) : d \in Overflow(c, EOF)}
    [] OTHER -> {Emptied(Returns(c, 0))}

\* The read of underflow(): -1 is a failure, 0 the end of the file.
Amounts(o, n) ==
  {-1} \cup (IF o.at < Len(o.text)
             THEN 1 .. (IF Len(o.text) - o.at < n THEN Len(o.text) - o.at ELSE n)
             ELSE {0})

ReadMany(c, count) ==
  LET start == c.fb.base + Reserve
      f == [SetP(IF count < 0 THEN Unknown(c.fb) ELSE Moved(c.fb, count), 0, 0)
              EXCEPT !.in_start = start]
  IN  IF count <= 0 THEN [c EXCEPT !.fb = SetG(f, 0, 0, 0), !.ret = EOF]
      ELSE [c EXCEPT
              !.fb = [SetG(f, f.base, start, start + count) EXCEPT
                        !.mem = [x \in start .. start + count - 1 |->
                                   c.os.text[c.os.at + x - start + 1]]],
              !.os.at = @ + count,
              !.ret = c.os.text[c.os.at + 1]]

\* One character; after a failed read egptr is before gptr.
ReadOne(c, count) ==
  LET f == SetG(Unknown(SetP(c.fb, 0, 0)), Lahead, Lahead, Lahead + count)
  IN  IF count <= 0
      THEN [c EXCEPT !.fb = f, !.ret = EOF, !.lost = @ \/ count < 0]
      ELSE [c EXCEPT !.fb = Holding(f, Lahead, c.os.text[c.os.at + 1]),
                     !.os.at = @ + 1, !.ret = c.os.text[c.os.at + 1]]

Underflow(c) ==
  IF ~ c.fb.opened THEN {Returns(c, EOF)}
  ELSE LET a == [c EXCEPT !.fb = Allocated(@)]
       IN  UNION {
             IF s.ret = EOF THEN {s}
             ELSE IF s.fb.unbuf THEN {ReadOne(s, n) : n \in Amounts(s.os, 1)}
             ELSE {ReadMany(s, n) : n \in Amounts(s.os, BufSize - Reserve)} :
             s \in IF LastOp(a.fb) = "output" THEN Sync(a) ELSE {Returns(a, 0)}}

-----------------------------------------------------------------------------
(* The calls of a program. *)

\* sgetc(): the next character.
Peeked(c) == IF c.fb.gptr >= c.fb.egptr THEN Underflow(c)
             ELSE {Returns(c, c.fb.mem[c.fb.gptr])}

\* sbumpc(): ... and past it.
Got(c) == {IF s.ret = EOF THEN s ELSE [s EXCEPT !.fb.gptr = @ + 1] : s \in Peeked(c)}

\* snextc(): past a character, and the next one.  If none is in the buffer one
\* is read to be passed over, and nobody asks whether that worked.
Skipped(c) ==
  LET past == [c EXCEPT !.fb.gptr = @ + 1]
      Bumped(s) == [s EXCEPT !.fb.gptr = @ + 1,
                             !.lost = @ \/ (s.ret = EOF /\ s.os.at < Len(s.os.text))]
  IN  IF past.fb.gptr <= past.fb.egptr THEN Peeked(past)
      ELSE UNION {Peeked(Bumped(s)) : s \in Underflow(past)}

\* sputc()
Stored(c, ch) ==
  IF c.fb.pptr >= c.fb.epptr THEN Overflow(c, ch)
  ELSE {[c EXCEPT !.fb = [Holding(c.fb, c.fb.pptr, ch) EXCEPT !.pptr = @ + 1],
                  !.ret = ch]}

\* sputbackc()
PutBefore(c, ch) ==
  IF c.fb.gptr > c.fb.eback
  THEN {[c EXCEPT !.fb = [Holding(c.fb, c.fb.gptr - 1, ch) EXCEPT !.gptr = @ - 1],
                  !.ret = ch]}
  ELSE {Returns(c, EOF)}

\* Where the program is, told from last_seek: the position of the buffer's end
\* on input, of its beginning on output.
RefPosition(f) ==
  CASE LastOp(f) = "input" -> f.last_seek - (f.egptr - f.gptr)
    [] LastOp(f) = "output" -> f.last_seek + f.pptr - f.pbase
    [] OTHER -> f.last_seek

\* Positions that seekoff() reaches within the buffer.
Available(f) ==
  CASE LastOp(f) = "input" -> f.last_seek - (f.egptr - f.in_start) .. f.last_seek - 1
    [] LastOp(f) = "output" -> {RefPosition(f)}
    [] OTHER -> {}

\* lseek()
SystemSeek(c, p, d) ==
  LET to == CASE d = "beg" -> p
              [] d = "cur" -> c.os.at + p
              [] d = "end" -> Len(c.os.text) + p
  IN  IF to < 0 THEN [c EXCEPT !.fb = Unknown(@), !.ret = EOF]
      ELSE [c EXCEPT !.fb.last_seek = to, !.os.at = to, !.ret = to]

Sought(c, p, d) ==
  LET f == IF c.fb.last_seek = EOF THEN [c.fb EXCEPT !.last_seek = c.os.at]
           ELSE c.fb
      need == IF d = "cur" THEN RefPosition(f) + p ELSE p
  IN  IF ~ f.unbuf /\ d # "end" /\ need \in Available(f)
      THEN {[c EXCEPT !.ret = need,
                      !.fb = IF LastOp(f) = "input"
                             THEN [f EXCEPT !.gptr = @ + need - RefPosition(f)]
                             ELSE f]}
      ELSE {IF s.ret = EOF THEN s ELSE SystemSeek(s, p, d) :
              s \in Sync([c EXCEPT !.fb = f])}

\* close() and detach(): that the last characters cannot be written is not told.
Closed(c) ==
  LET Flushed == IF LastOp(c.fb) = "output" THEN Overflow(c, EOF) ELSE {c}
  IN  {[s EXCEPT !.fb = [Unknown(SetG(SetP(@, 0, 0), 0, 0, 0))
                           EXCEPT !.opened = FALSE, !.mode = "none"],
                 !.lost = @ \/ s.ret = EOF, !.ret = 0] : s \in Flushed}

\* open() and attach(), once the file is open.
Opened(f, mode) ==
  [Unknown(SetG(SetP(f, 0, 0), 0, 0, 0)) EXCEPT !.opened = TRUE, !.mode = mode]

\* setbuf(), with a buffer or without.
WithBuffer(f) == SetP(SetG([f EXCEPT !.base = Base, !.unbuf = FALSE],
                           Base, Base, Base), Base, Base + BufSize)
WithoutBuffer(f) == SetP(SetG([f EXCEPT !.base = 0, !.unbuf = TRUE], 0, 0, 0), 0, 0)

-----------------------------------------------------------------------------
(* What the program sees. *)

Position == CASE LastOp(fb) = "input" -> os.at - (fb.egptr - fb.gptr)
              [] LastOp(fb) = "output" -> os.at + fb.pptr - fb.base
              [] OTHER -> os.at

Content == WriteOut(os, Pending(fb)).text

Unopened == [opened |-> FALSE, mode |-> "none", unbuf |-> FALSE, base |-> 0,
          mem |-> <<>>,
          pbase |-> 0, pptr |-> 0, epptr |-> 0,
          eback |-> 0, gptr |-> 0, egptr |-> 0, in_start |-> 0, last_seek |-> EOF]

\* filebuf(), filebuf(fd) and filebuf(fd, p, len).
BufInit ==
  /\ os \in [text : Texts, at : {0}, append : BOOLEAN]
  /\ LET ModeOf == IF os.append THEN "append" ELSE "plain"
         OnFd == [Unopened EXCEPT !.opened = TRUE, !.mode = ModeOf]
     IN  fb \in {Unopened, OnFd, WithBuffer(OnFd)}
  /\ call = <<"none">> /\ ret = 0 /\ lost = FALSE

Do(what, outcomes) ==
  /\ fb.opened /\ os.at <= MaxText
  /\ \E c \in outcomes :
       /\ fb' = c.fb /\ os' = c.os /\ ret' = c.ret
       /\ lost' = (lost \/ c.lost)
  /\ call' = what

Here == At(fb, os, 0)

PutChar(ch) == Len(Content) < MaxText /\ Position < MaxText
           /\ Do(<<"put", ch>>, Stored(Here, ch))
GetChar == Do(<<"get">>, Got(Here))
Peek == Do(<<"peek">>, Peeked(Here))
Skip == Do(<<"next">>, Skipped(Here))

\* A program puts back what stands before its position.
PutBackChar == /\ Position \in 1 .. Len(Content)
           /\ Do(<<"putback">>, PutBefore(Here, Content[Position]))

Seek(p, d) == /\ Position + p <= MaxText /\ p <= MaxText /\ Len(Content) + p <= MaxText
              /\ Do(<<"seek", p, d>>, Sought(Here, p, d))
Flush == Do(<<"sync">>, Sync(Here))
Close == Do(<<"close">>, Closed(Here))

Open(trunc, ate, append) ==
  /\ ~ fb.opened
  /\ LET text == IF trunc THEN <<>> ELSE os.text
     IN  os' = [text |-> text, at |-> IF ate \/ append THEN Len(text) ELSE 0,
                append |-> append]
  /\ fb' = Opened(fb, IF append THEN "append" ELSE "plain")
  /\ call' = <<"open">> /\ ret' = 0 /\ lost' = lost

Attach ==
  /\ ~ fb.opened
  /\ fb' = Opened(fb, "none")
  /\ call' = <<"attach">> /\ ret' = 0
  /\ UNCHANGED <<os, lost>>

\* A character that was read and not taken is forgotten.
SetBuf ==
  /\ ~ (fb.opened /\ fb.base # 0)
  /\ fb' \in {WithBuffer(fb), WithoutBuffer(fb)}
  /\ lost' = (lost \/ fb.gptr # fb.egptr)
  /\ call' = <<"setbuf">> /\ ret' = 0 /\ os' = os

BufNext ==
  \/ \E ch \in Chars : PutChar(ch)
  \/ GetChar \/ Peek \/ Skip \/ PutBackChar
  \/ \E p \in Offsets, d \in {"beg", "cur", "end"} : Seek(p, d)
  \/ Flush \/ Close
  \/ \E trunc, ate, append \in BOOLEAN : Open(trunc, ate, append)
  \/ Attach \/ SetBuf

BufSpec == BufInit /\ [][BufNext]_bufVars
-----------------------------------------------------------------------------
(* Properties. *)

BufTypeOK ==
  /\ os.at \in Nat /\ os.append \in BOOLEAN
  /\ os.text \in Seq(Chars \cup {Nul})
  /\ fb.base \in {0, Base} /\ (fb.unbuf => fb.base = 0)
  /\ fb.mode \in {"none", "plain", "append"}
  /\ fb.last_seek \in Nat \cup {EOF}
  /\ fb.pptr # 0 => /\ fb.base # 0 /\ fb.pbase = fb.base
                    /\ fb.epptr = Ebuf(fb) /\ fb.pptr \in fb.base .. fb.epptr
  /\ fb.gptr # 0 => fb.eback # 0 /\ fb.egptr # 0

\* The stream behaves as its file: what calls return, where they leave the
\* program and what they write is what they would on the file itself, however
\* reading, writing, seeking and putting back are mixed and however little the
\* system reads and writes at a time, until a device fails in the middle.
\* (Not for files that are opened to append: writing moves to their end.)
Stream == INSTANCE PositionedFile WITH
            content <- Content, at <- Position, sure <- ~ lost /\ ~ os.append
BehavesAsFile == Stream!Spec
=============================================================================
