---------------------------- MODULE SharedString ----------------------------
(***************************************************************************)
(* The string class of lib/string (std_str.C, str_imp.h).  A string points *)
(* to a representation, which it shares with its copies; refc counts them. *)
(* Who changes a string takes a representation of its own first, unless it *)
(* is the only holder and there is room.  The empty string has a           *)
(* representation that is never counted.                                   *)
(*                                                                         *)
(* Each action also says, in terms of StringValues, what the call is for:  *)
(* text is not a variable of the program.                                  *)
(***************************************************************************)
EXTENDS StringValues, FiniteSets

CONSTANTS
  Reps,         \* places in memory
  NullRep,      \* nullrep_
  MAXS, MAXL,   \* room in a small and in a larger representation
  LongRoom,     \* of the length of a long one: its room, get_long()
  MaxLength,    \* a bound on the lengths of strings
  Literals,     \* characters from outside: sequences of letters
  RashStrings   \* what the program does that a careful one does not

ASSUME RepsAssumption ==
  /\ NullRep \notin Reps /\ Gone \notin Reps \cup {NullRep}
  /\ IsFiniteSet(Strings)

Lengths == 0..MaxLength

ASSUME LiteralsAssumption ==
  Literals \subseteq Seq(Letters) /\ \A v \in Literals : Len(v) <= MaxLength

ASSUME RoomAssumption ==
  /\ MAXS \in Nat \ {0} /\ MAXL \in Nat /\ MaxLength \in Nat
  /\ \A n \in Lengths : LongRoom[n] \in Nat /\ n < LongRoom[n]

VARIABLES
  d,    \* of every string: its representation, or Gone
  rep   \* of every place: [max_size, refc, str], the length is that of str

stringVars == <<text, d, rep>>

Free == [max_size |-> 0, refc |-> 0, str |-> <<>>]

StringTypeOK ==
  /\ TextTypeOK
  /\ d \in [Strings -> Reps \cup {NullRep, Gone}]
  /\ rep \in [Reps \cup {NullRep} -> [max_size : Nat, refc : Nat, str : Seq(Letters)]]
  /\ \A r \in Reps : Len(rep[r].str) <= MaxLength

StringInit ==
  /\ TextInit
  /\ d = [s \in Strings |-> Gone]
  /\ rep = [r \in Reps \cup {NullRep} |-> Free]

Living == {s \in Strings : d[s] # Gone}
Str(s) == rep[d[s]].str

-----------------------------------------------------------------------------
(* Representations.  mem is what rep is at some point of a call.           *)

\* new_srep(): which place it may return, and what is there then.
Room(n) == IF n < MAXS THEN MAXS ELSE IF n < MAXL THEN MAXL ELSE LongRoom[n]

Vacant(mem, n) == IF n = 0 THEN {NullRep} ELSE {r \in Reps : mem[r].refc = 0}

NewRep(mem, r, v) ==
  IF v = <<>> THEN mem
  ELSE [mem EXCEPT ![r] = [max_size |-> Room(Len(v)), refc |-> 1, str |-> v]]

\* rcdec() and rcinc(): nothing is counted where refc is 0.
Released(mem, r) ==
  CASE mem[r].refc = 0 -> mem
    [] mem[r].refc = 1 -> [mem EXCEPT ![r] = Free]
    [] OTHER           -> [mem EXCEPT ![r].refc = @ - 1]

Held(mem, r) == IF mem[r].refc = 0 THEN mem ELSE [mem EXCEPT ![r].refc = @ + 1]

\* Bug: only the room is looked at.
MovesForRoom(s, n) == n >= rep[d[s]].max_size

\* May the string not hold n characters where it is?
MustMove(s, n) == rep[d[s]].refc > 1 \/ n >= rep[d[s]].max_size

InPlace(s, v) == rep' = [rep EXCEPT ![d[s]].str = v] /\ UNCHANGED d

\* The new representation is made before the old one is released ...
MovedAway(s, v) ==
  \E r \in Vacant(rep, Len(v)) :
    /\ rep' = Released(NewRep(rep, r, v), d[s])
    /\ d' = [d EXCEPT ![s] = r]

\* ... in assign() after.
MovedAfter(s, v) ==
  LET left == Released(rep, d[s]) IN
  \E r \in Vacant(left, Len(v)) :
    /\ rep' = NewRep(left, r, v)
    /\ d' = [d EXCEPT ![s] = r]

Change(s, v) == IF MustMove(s, Len(v)) THEN MovedAway(s, v) ELSE InPlace(s, v)

\* A string begins, with the representation of another or with its own.
BeginsAs(s, u) == rep' = Held(rep, d[u]) /\ d' = [d EXCEPT ![s] = d[u]]

Begins(s, v) ==
  \E r \in Vacant(rep, Len(v)) :
    rep' = NewRep(rep, r, v) /\ d' = [d EXCEPT ![s] = r]

-----------------------------------------------------------------------------
(* Constructors and the destructor.                                        *)

Construct(s, v) == d[s] = Gone /\ Begins(s, v) /\ IsNow(s, v)

\* string(s, pos, n): any n makes a copy of the whole when pos is 0.
Whole(u, k, n) == k = 0 /\ (n = Len(Str(u)) \/ Str(u) # <<>>)

Careful(habit) == habit \notin RashStrings

ConstructPart(s, u, k, n) ==
  /\ d[s] = Gone /\ u \in Living /\ IsPart(Str(u), k, n)
  /\ Careful("copies a first part") => (k = 0 => n = Len(Str(u)))
  /\ IF Whole(u, k, n) THEN BeginsAs(s, u) ELSE Begins(s, PartOf(Str(u), k, n))
  /\ IsNow(s, PartOf(text[u], k, n))

\* substr()
SubString(s, u, k, n) ==
  /\ d[s] = Gone /\ u \in Living /\ IsPart(Str(u), k, n)
  /\ IF k = 0 /\ n = Len(Str(u)) THEN BeginsAs(s, u) ELSE Begins(s, PartOf(Str(u), k, n))
  /\ IsNow(s, PartOf(text[u], k, n))

\* operator+
Concatenate(s, u, v) ==
  /\ d[s] = Gone /\ {u, v} \subseteq Living
  /\ Len(Str(u)) + Len(Str(v)) <= MaxLength
  /\ CASE Str(v) = <<>>                  -> BeginsAs(s, u)
       [] Str(v) # <<>> /\ Str(u) = <<>> -> BeginsAs(s, v)
       [] OTHER                          -> Begins(s, Str(u) \o Str(v))
  /\ IsNow(s, text[u] \o text[v])

Destroy(s) ==
  /\ s \in Living
  /\ rep' = Released(rep, d[s]) /\ d' = [d EXCEPT ![s] = Gone]
  /\ IsNow(s, Gone)

-----------------------------------------------------------------------------
(* Assignment.                                                             *)

\* operator=(const string&)
AssignString(s, u) ==
  /\ {s, u} \subseteq Living
  /\ rep' = Released(Held(rep, d[u]), d[s]) /\ d' = [d EXCEPT ![s] = d[u]]
  /\ IsNow(s, text[u])

\* assign() of characters
Assign(s, v) ==
  /\ s \in Living
  /\ IF MustMove(s, Len(v)) THEN MovedAfter(s, v) ELSE InPlace(s, v)
  /\ IsNow(s, v)

\* assign(const string&, pos, n) reads the other string when this one has
\* moved: what it finds there in a string that is assigned to itself is undefined.
AssignPart(s, u, k, n) ==
  /\ {s, u} \subseteq Living /\ IsPart(Str(u), k, n)
  /\ Careful("assigns to itself") => s # u \/ ~ MustMove(s, n)
  /\ IF MustMove(s, n)
     THEN \E v \in IF s = u THEN [1..n -> Letters] ELSE {PartOf(Str(u), k, n)} :
            MovedAfter(s, v)
     ELSE InPlace(s, PartOf(Str(u), k, n))
  /\ IsNow(s, PartOf(text[u], k, n))

Exchange(s, u) ==
  /\ {s, u} \subseteq Living
  /\ d' = [d EXCEPT ![s] = d[u], ![u] = d[s]]
  /\ UNCHANGED rep
  /\ Exchanged(s, u)

-----------------------------------------------------------------------------
(* Changes in the middle.                                                  *)

\* append(), insert(), replace(), remove() and resize() with characters from
\* outside: w instead of n characters behind the first k.
Replace(s, k, n, w) ==
  /\ s \in Living /\ IsPart(Str(s), k, n)
  /\ Len(Str(s)) - n + Len(w) <= MaxLength
  /\ Change(s, Spliced(Str(s), k, n, w))
  /\ IsNow(s, Spliced(text[s], k, n, w))

\* strncpy() to behind k of n characters from behind j, in one string, from the
\* first to the last: where it reads what it has written, it repeats itself.
Apart(j, k, n) == k <= j \/ j + n <= k

Smeared(v, j, k, n) ==
  IF Apart(j, k, n) THEN PartOf(v, j, n)
  ELSE [i \in 1..n |-> v[j + 1 + ((i - 1) % (k - j))]]

\* ... with m characters of another string, or of this one, from behind j.
ReplacePart(s, k, n, u, j, m) ==
  /\ {s, u} \subseteq Living /\ IsPart(Str(s), k, n) /\ IsPart(Str(u), j, m)
  /\ Len(Str(s)) - n + m <= MaxLength
  /\ Careful("inserts into itself") =>
       s # u \/ MustMove(s, Len(Str(s)) - n + m) \/ Apart(j, k, m)
  /\ LET w == IF s = u /\ ~ MustMove(s, Len(Str(s)) - n + m)
              THEN Smeared(Str(u), j, k, m) ELSE PartOf(Str(u), j, m) IN
     Change(s, Spliced(Str(s), k, n, w))
  /\ IsNow(s, Spliced(text[s], k, n, PartOf(text[u], j, m)))

\* operator[], at() or begin(), and an assignment to the character at once.
SetChar(s, k, c) ==
  /\ s \in Living /\ k \in 1..Len(Str(s))
  /\ LET v == [Str(s) EXCEPT ![k] = c] IN
     IF rep[d[s]].refc # 1 THEN MovedAway(s, v) ELSE InPlace(s, v)
  /\ IsNow(s, [text[s] EXCEPT ![k] = c])

\* operator>> and getline(): uniq(), then what fits goes where the string is,
\* the rest is appended.
ReadInto(s, v) ==
  /\ s \in Living /\ v # <<>>
  /\ IF rep[d[s]].refc > 1
     THEN \E r \in Vacant(rep, Len(Str(s))) :
            LET old == NewRep(rep, r, Str(s)) IN
            IF Len(v) < old[r].max_size
            THEN /\ rep' = [Released(old, d[s]) EXCEPT ![r].str = v]
                 /\ d' = [d EXCEPT ![s] = r]
            ELSE \E q \in Vacant(old, Len(v)) :
                   /\ rep' = Released(Released(NewRep(old, q, v), r), d[s])
                   /\ d' = [d EXCEPT ![s] = q]
     ELSE Change(s, v)
  /\ IsNow(s, v)

\* reserve(): there will be room for n.
Enlarge(s, n) ==
  /\ s \in Living /\ n >= rep[d[s]].max_size
  /\ \E r \in Vacant(rep, n) :
       /\ r # NullRep
       /\ rep' = Released([rep EXCEPT ![r] = [max_size |-> Room(n), refc |-> 1, str |-> Str(s)]],
                          d[s])
       /\ d' = [d EXCEPT ![s] = r]
  /\ UNCHANGED text

-----------------------------------------------------------------------------
BirthsAndDeaths ==
  \E s \in Strings :
    \/ \E v \in Literals : Construct(s, v)
    \/ \E u \in Strings, k, n \in Lengths : ConstructPart(s, u, k, n) \/ SubString(s, u, k, n)
    \/ \E u, v \in Strings : Concatenate(s, u, v)
    \/ Destroy(s)

Assignments ==
  \E s \in Strings :
    \/ \E v \in Literals : Assign(s, v)
    \/ \E u \in Strings : AssignString(s, u) \/ Exchange(s, u)
    \/ \E u \in Strings, k, n \in Lengths : AssignPart(s, u, k, n)

Changes ==
  \E s \in Strings :
    \/ \E k, n \in Lengths, w \in Literals : Replace(s, k, n, w)
    \/ \E k, n, j, m \in Lengths, u \in Strings : ReplacePart(s, k, n, u, j, m)
    \/ \E k \in Lengths, c \in Letters : SetChar(s, k, c)
    \/ \E v \in Literals : ReadInto(s, v)
    \/ \E n \in Lengths : Enlarge(s, n)

StringNext == BirthsAndDeaths \/ Assignments \/ Changes

StringSpec == StringInit /\ [][StringNext]_stringVars

-----------------------------------------------------------------------------
\* Each string holds what the calls made on it alone would have given it.
StringsAreValues == \A s \in Strings : text[s] = IF d[s] = Gone THEN Gone ELSE Str(s)

\* A representation counts the strings that hold it; its characters leave room
\* for the null that c_str() writes behind them; and "nullrep always has
\* refc == 0 and max_size == 0" (str_imp.h:68).
HoldersCounted ==
  /\ \A r \in Reps :
       /\ rep[r].refc = Cardinality({s \in Strings : d[s] = r})
       /\ rep[r].refc # 0 => Len(rep[r].str) < rep[r].max_size
  /\ rep[NullRep] = Free

\* However strings share: nothing that is done to one changes its copies, for no
\* representation is changed, or released, under another string that holds it,
\* and each goes with its last string (rcinc() and rcdec() in str_imp.h and
\* their uses in std_str.C).
SharingSound == StringsAreValues /\ HoldersCounted
=============================================================================
