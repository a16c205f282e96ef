---------------------------- MODULE TemplateLink ----------------------------
(***************************************************************************)
(* ptlink, the link-time half of the template instantiation system         *)
(* (src/tools/pt/ptlink.c), on the members of one template class.  A link  *)
(* locks its own repository, simulates the link, and until no member is    *)
(* undefined it looks for an object that has them in the repositories it   *)
(* searches, or compiles one into its own.  What a repository keeps of     *)
(* the class is the instantiation file (src), the object (obj), the        *)
(* header cache beside it (he) and the list of members that the object is  *)
(* supposed to have (cs).  Times are whole seconds.                        *)
(*                                                                         *)
(* Around the links headers are edited, a declaration moves to another     *)
(* header, time passes, and a link may be killed.  cpp and the compiler    *)
(* read every header at one instant: nobody edits while they run.          *)
(***************************************************************************)
EXTENDS Naturals, Sequences, FiniteSets, FiniteSetsExt, SequencesExt

CONSTANTS
  Links, Reps,   \* programs that are linked, and template repositories
  Setups,        \* how they are set up: see setup
  Members,       \* members of the class
  Defined,       \* ... that the template headers do define
  Calls,         \* [Members -> SUBSET Members]: what an instance refers to
  Headers,
  Root,          \* Root[decl][i]: the header that names the class under -Ii
  None,
  MaxTime        \* a bound: how long the world is looked at

\* What setup, below, may be: a link has a repository of its own, and the class
\* has a header under its options.
ASSUME SetupsAssumption ==
  \A s \in Setups :
    /\ s.search \in [Links -> Seq(Reps)]
    /\ s.needs \in [Links -> SUBSET Members]
    /\ s.budget \in [runs : Nat, edits : Nat, moves : Nat, kills : Nat]
    /\ \A l \in Links : /\ s.search[l] # <<>>
                        /\ Root[1][s.i[l]] \in Headers /\ Root[2][s.i[l]] \in Headers

ASSUME ClassAssumption ==
  /\ IsFiniteSet(Members) /\ IsFiniteSet(Headers)
  /\ Defined \subseteq Members /\ Calls \in [Members -> SUBSET Members]
  /\ MaxTime \in Nat \ {0}

Whens == 0 .. MaxTime
OptionsI == {s.i[l] : s \in Setups, l \in Links}
OptionsD == {s.d[l] : s \in Setups, l \in Links}

\* The files that a repository may have.
Sources == [time : Whens, decl : {1, 2}]
Objects(H) == [time : Whens, i : OptionsI, d : OptionsD, seen : [H -> Nat],
               members : SUBSET Defined]   \* H: the headers it was made from
Caches == [time : Whens, i : OptionsI, d : OptionsD, hdrs : SUBSET Headers,
           whole : BOOLEAN]

ASSUME NoneAssumption ==
  /\ None \notin Links
  /\ None \notin Sources \cup Caches
  /\ \A H \in SUBSET Headers : None \notin Objects(H)
  /\ \A S \in SUBSET Members : None # S

VARIABLES
  setup,   \* [search, i, d, needs, budget]: per link the repositories, its own
           \* first, the -I and -D options and the members its objects use;
           \* budget: the value that left starts from
  now,     \* the time
  decl,    \* which declaration of the class the name maps hold
  hdr,     \* [Headers -> [time, ver, uses]]: uses = headers it includes
  lock,    \* [Reps -> holder]
  src,     \* [Reps -> None or [time, decl]]: the .C file
  obj,     \* [Reps -> None or [time, i, d, seen, members]]: the .o file
  he,      \* [Reps -> None or [time, i, d, hdrs, whole]]: the .he file
  cs,      \* [Reps -> None or SUBSET Members]: the .cs file
  pc,      \* [Links -> where the link is]
  at,      \* [Links -> index in search of the repository dodep looks at]
  dip,     \* [Links -> members it asked for so far]
  und,     \* [Links -> undefined members, this round and the one before]
  flist,   \* [Links -> sequence of [rep, members]: objects it has adopted]
  left     \* [runs, edits, moves, kills]: how many there may still be

files == <<src, obj, he, cs>>
locals == <<at, dip, und, flist>>
vars == <<setup, now, decl, hdr, lock, files, pc, locals, left>>

Main(l) == setup.search[l][1]
Rep(l) == setup.search[l][at[l]]

-----------------------------------------------------------------------------
(* The preprocessor and the compiler. *)

\* The headers that header h brings in: itself, what it uses, and so on.
Reaches(h) ==
  LET Wider(S) == S \cup UNION {hdr[g].uses : g \in S}
      reach[n \in 0 .. Cardinality(Headers)] ==
        IF n = 0 THEN {h} ELSE Wider(reach[n - 1])
  IN  reach[Cardinality(Headers)]

\* What cpp reports of the instantiation file s under link l's options.
Included(l, s) == Reaches(Root[s.decl][setup.i[l]])

\* The object that the compiler makes of it.
Compiled(l, s) ==
  [time |-> now, i |-> setup.i[l], d |-> setup.d[l],
   seen |-> [h \in Included(l, s) |-> hdr[h].ver],
   members |-> dip[l] \cap Defined]

-----------------------------------------------------------------------------
(* The simulated link. *)

\* Bug: what an instance refers to is not looked up.
LinkedAlone(l) == [refs |-> setup.needs[l],
                   defs |-> UNION {f.members : f \in Range(flist[l])}]

\* Objects are taken in the order of flist; one that defines what an earlier
\* one defines is not added.
Linked(l) ==
  LET Add(acc, f) ==
        IF f.members \cap acc.defs # {} THEN acc
        ELSE [defs |-> acc.defs \cup f.members,
              refs |-> acc.refs \cup UNION {Calls[m] : m \in f.members}]
  IN  FoldLeft(Add, [defs |-> {}, refs |-> setup.needs[l]], flist[l])

Undefined(l) == Linked(l).refs \ Linked(l).defs

\* Bug: an object that is read again is put beside its old self.
AdoptedTwice(l, r) == <<[rep |-> r, members |-> obj[r].members]>> \o flist[l]

\* A link with the object of repository r read: in the place of the one read
\* from there before, else in front.
Adopted(l, r) ==
  LET entry == [rep |-> r, members |-> obj[r].members]
  IN  IF \E k \in DOMAIN flist[l] : flist[l][k].rep = r
      THEN [k \in DOMAIN flist[l] |->
              IF flist[l][k].rep = r THEN entry ELSE flist[l][k]]
      ELSE <<entry>> \o flist[l]

-----------------------------------------------------------------------------
(* The dependency check: is the object of repository r good for link l?   *)
(* check_time reads r's cache; one that cannot be used is made anew, in    *)
(* the link's own repository and for the link's options.                   *)

\* The cache that build_cache writes into l's own repository.
NewCache(l) ==
  [time |-> now, i |-> setup.i[l], d |-> setup.d[l],
   hdrs |-> Included(l, src[Main(l)]), whole |-> TRUE]

CacheOld(r) == he[r] = None \/ src[r].time > he[r].time

OtherD(l, r) == he[r].whole /\ he[r].d # setup.d[l]
OtherI(l, r) == he[r].whole /\ he[r].i # setup.i[l]

\* Bug: a header of the second in which the cache was made is taken for older.
HeaderLater(r) == \E h \in he[r].hdrs : hdr[h].time > he[r].time

\* A header that is newer than the cache may include others than it says.
HeaderPastCache(r) == \E h \in he[r].hdrs : hdr[h].time >= he[r].time

HeaderPastObject(S, r) == \E h \in S : hdr[h].time >= obj[r].time

\* The cache is rebuilt.
Redo(l, r) == \/ CacheOld(r)
              \/ ~ he[r].whole
              \/ OtherD(l, r)
              \/ OtherI(l, r)
              \/ HeaderPastCache(r)

\* The object is out of date whatever the times of the headers: other -D, or
\* an -I under which other headers are found.
OtherSource(l, r) ==
  \/ CacheOld(r)
  \/ OtherD(l, r)
  \/ OtherI(l, r) /\ he[r].hdrs # {} /\ he[r].hdrs # NewCache(l).hdrs

UpToDate(l, r) ==
  /\ ~ OtherSource(l, r)
  /\ ~ HeaderPastObject(IF Redo(l, r) THEN NewCache(l).hdrs ELSE he[r].hdrs, r)

-----------------------------------------------------------------------------
NoneYet == [now |-> {}, before |-> {}]

Init ==
  /\ setup \in Setups
  /\ now = 1
  /\ decl = 1
  /\ hdr = [h \in Headers |-> [time |-> 0, ver |-> 0, uses |-> {}]]
  /\ lock = [r \in Reps |-> None]
  /\ src = [r \in Reps |-> None]
  /\ obj = [r \in Reps |-> None]
  /\ he = [r \in Reps |-> None]
  /\ cs = [r \in Reps |-> None]
  /\ pc = [l \in Links |-> "idle"]
  /\ at = [l \in Links |-> 1]
  /\ dip = [l \in Links |-> {}]
  /\ und = [l \in Links |-> NoneYet]
  /\ flist = [l \in Links |-> <<>>]
  /\ left = setup.budget

Goto(l, where) == pc' = [pc EXCEPT ![l] = where]

\* CC runs ptlink.
Start(l) ==
  /\ pc[l] = "idle"
  /\ left.runs > 0
  /\ left' = [left EXCEPT !.runs = @ - 1]
  /\ Goto(l, "lock")
  /\ UNCHANGED <<setup, now, decl, hdr, lock, files, locals>>

\* Only its own repository is locked.
Lock(l) ==
  /\ pc[l] = "lock"
  /\ lock[Main(l)] = None
  /\ lock' = [lock EXCEPT ![Main(l)] = l]
  /\ Goto(l, "link")
  /\ UNCHANGED <<setup, now, decl, hdr, files, locals, left>>

\* The process ends: its lock is freed and what it knew is gone.
Ends(l) ==
  /\ lock' = [r \in Reps |-> IF lock[r] = l THEN None ELSE lock[r]]
  /\ at' = [at EXCEPT ![l] = 1]
  /\ dip' = [dip EXCEPT ![l] = {}]
  /\ und' = [und EXCEPT ![l] = NoneYet]
  /\ flist' = [flist EXCEPT ![l] = <<>>]
  /\ Goto(l, "idle")

\* LOCK_MAX attempts have failed.
GiveUp(l) ==
  /\ pc[l] = "lock"
  /\ lock[Main(l)] # None
  /\ Ends(l)
  /\ UNCHANGED <<setup, now, decl, hdr, files, left>>

\* The top of the main loop.  A member that is undefined twice running is
\* taken for one that no compile will define.
Finish(l) ==
  /\ pc[l] = "link"
  /\ LET u == Undefined(l)
     IN  /\ u = {} \/ u \cap und[l].now # {}
         /\ und' = [und EXCEPT ![l] = [now |-> u, before |-> und[l].now]]
         /\ Goto(l, IF u = {} THEN "done" ELSE "unresolved")
  /\ UNCHANGED <<setup, now, decl, hdr, lock, files, at, dip, flist, left>>

\* Bug: each round asks for what it misses only.
AskAnew(l) ==
  /\ pc[l] = "link"
  /\ LET u == Undefined(l)
     IN  /\ u # {} /\ u \cap und[l].now = {}
         /\ und' = [und EXCEPT ![l] = [now |-> u, before |-> und[l].now]]
         /\ dip' = [dip EXCEPT ![l] = u]
  /\ src' = IF src[Main(l)] # None THEN src
            ELSE [src EXCEPT ![Main(l)] = [time |-> now, decl |-> decl]]
  /\ at' = [at EXCEPT ![l] = 1]
  /\ Goto(l, "dep")
  /\ UNCHANGED <<setup, now, decl, hdr, lock, obj, he, cs, flist, left>>

\* Otherwise the undefined members join those asked for, and the
\* instantiation file is written if it differs from the one there.
Ask(l) ==
  /\ pc[l] = "link"
  /\ LET u == Undefined(l)
     IN  /\ u # {} /\ u \cap und[l].now = {}
         /\ und' = [und EXCEPT ![l] = [now |-> u, before |-> und[l].now]]
         /\ dip' = [dip EXCEPT ![l] = @ \cup u]
  /\ src' = IF src[Main(l)] # None /\ src[Main(l)].decl = decl THEN src
            ELSE [src EXCEPT ![Main(l)] = [time |-> now, decl |-> decl]]
  /\ at' = [at EXCEPT ![l] = 1]
  /\ Goto(l, "dep")
  /\ UNCHANGED <<setup, now, decl, hdr, lock, obj, he, cs, flist, left>>

NextRep(l) == /\ at' = [at EXCEPT ![l] = @ + 1]
              /\ Goto(l, "dep")

\* The cache check of one repository rebuilds the link's own cache.
Rebuilds(l) ==
  /\ pc[l] = "dep"
  /\ at[l] <= Len(setup.search[l])
  /\ src[Rep(l)] # None
  /\ obj[Rep(l)] # None => Redo(l, Rep(l))

\* dodep, one repository: the files that must be there and their times.
CheckTime(l) ==
  /\ pc[l] = "dep"
  /\ at[l] <= Len(setup.search[l])
  /\ he' = IF Rebuilds(l) THEN [he EXCEPT ![Main(l)] = NewCache(l)] ELSE he
  /\ IF src[Rep(l)] # None /\ obj[Rep(l)] # None /\ UpToDate(l, Rep(l))
     THEN Goto(l, "members") /\ UNCHANGED at
     ELSE NextRep(l)
  /\ UNCHANGED <<setup, now, decl, hdr, lock, src, obj, cs, dip, und, flist,
                 left>>

\* Bug: any list of members will do.
AnyMembers(l) ==
  /\ pc[l] = "members"
  /\ IF cs[Rep(l)] # None THEN Goto(l, "adopt") /\ UNCHANGED at ELSE NextRep(l)
  /\ UNCHANGED <<setup, now, decl, hdr, lock, files, dip, und, flist, left>>

\* ... and the members that the object is supposed to have.
CheckMembers(l) ==
  /\ pc[l] = "members"
  /\ IF cs[Rep(l)] # None /\ dip[l] \subseteq cs[Rep(l)]
     THEN Goto(l, "adopt") /\ UNCHANGED at
     ELSE NextRep(l)
  /\ UNCHANGED <<setup, now, decl, hdr, lock, files, dip, und, flist, left>>

\* No repository will do: docomp compiles into the link's own.
DropObject(l) ==
  /\ pc[l] = "dep"
  /\ at[l] > Len(setup.search[l])
  /\ obj' = [obj EXCEPT ![Main(l)] = None]
  /\ at' = [at EXCEPT ![l] = 1]
  /\ Goto(l, "compile")
  /\ UNCHANGED <<setup, now, decl, hdr, lock, src, he, cs, dip, und, flist,
                 left>>

Compile(l) ==
  /\ pc[l] = "compile"
  /\ obj' = [obj EXCEPT ![Main(l)] = Compiled(l, src[Main(l)])]
  /\ Goto(l, "drop")
  /\ UNCHANGED <<setup, now, decl, hdr, lock, src, he, cs, locals, left>>

CompileFails(l) ==
  /\ pc[l] = "compile"
  /\ Ends(l)
  /\ UNCHANGED <<setup, now, decl, hdr, files, left>>

\* The list of members is removed, then written.
DropMembers(l) ==
  /\ pc[l] = "drop"
  /\ cs' = [cs EXCEPT ![Main(l)] = None]
  /\ Goto(l, "write")
  /\ UNCHANGED <<setup, now, decl, hdr, lock, src, obj, he, locals, left>>

WriteMembers(l) ==
  /\ pc[l] = "write"
  /\ cs' = [cs EXCEPT ![Main(l)] = dip[l]]
  /\ Goto(l, "adopt")
  /\ UNCHANGED <<setup, now, decl, hdr, lock, src, obj, he, locals, left>>

\* The object is read; one that has gone meanwhile brings nothing.
Adopt(l) ==
  /\ pc[l] = "adopt"
  /\ flist' = IF obj[Rep(l)] = None THEN flist
              ELSE [flist EXCEPT ![l] = Adopted(l, Rep(l))]
  /\ Goto(l, "link")
  /\ UNCHANGED <<setup, now, decl, hdr, lock, files, at, dip, und, left>>

Exit(l) ==
  /\ pc[l] \in {"done", "unresolved"}
  /\ Ends(l)
  /\ UNCHANGED <<setup, now, decl, hdr, files, left>>

\* A signal ends it anywhere; a cache that is being rebuilt is then missing or
\* empty.
Kill(l) ==
  /\ pc[l] # "idle"
  /\ left.kills > 0
  /\ left' = [left EXCEPT !.kills = @ - 1]
  /\ Ends(l)
  /\ \/ he' = he
     \/ /\ Rebuilds(l)
        /\ \E rest \in {None, [time |-> now, i |-> setup.i[l],
                               d |-> setup.d[l], hdrs |-> {}, whole |-> FALSE]} :
             he' = [he EXCEPT ![Main(l)] = rest]
  /\ UNCHANGED <<setup, now, decl, hdr, src, obj, cs>>

-----------------------------------------------------------------------------
(* The world. *)

\* A header gets a new text, which may include other headers.
Edit(h) ==
  /\ left.edits > 0
  /\ left' = [left EXCEPT !.edits = @ - 1]
  /\ \E uses \in SUBSET (Headers \ {h}) :
       hdr' = [hdr EXCEPT ![h] = [time |-> now, ver |-> hdr[h].ver + 1,
                                  uses |-> uses]]
  /\ UNCHANGED <<setup, now, decl, lock, files, pc, locals>>

\* A compile finds the class declared in another header, and puts that in the
\* map while nobody holds the repository.  A second has passed since the last
\* link: the code takes a file of the same second for an older one.
Move ==
  /\ left.moves > 0
  /\ left' = [left EXCEPT !.moves = @ - 1]
  /\ decl' = 3 - decl
  /\ \A r \in Reps : lock[r] = None /\ (he[r] # None => now > he[r].time)
  /\ UNCHANGED <<setup, now, hdr, lock, files, pc, locals>>

Tick ==
  /\ now < MaxTime
  /\ now' = now + 1
  /\ UNCHANGED <<setup, decl, hdr, lock, files, pc, locals, left>>

LinkStep(l) ==
  \/ Lock(l) \/ GiveUp(l) \/ Finish(l) \/ Ask(l)
  \/ CheckTime(l) \/ CheckMembers(l)
  \/ DropObject(l) \/ Compile(l) \/ CompileFails(l)
  \/ DropMembers(l) \/ WriteMembers(l) \/ Adopt(l) \/ Exit(l)

Next ==
  \/ \E l \in Links : Start(l) \/ LinkStep(l) \/ Kill(l)
  \/ \E h \in Headers : Edit(h)
  \/ Move
  \/ Tick

\* A started ptlink goes on running.
Fairness == \A l \in Links : WF_vars(LinkStep(l))

Spec == Init /\ [][Next]_vars /\ Fairness

-----------------------------------------------------------------------------
(* Properties. *)

LTypeOK ==
  /\ setup \in Setups
  /\ now \in Whens /\ decl \in {1, 2}
  /\ hdr \in [Headers -> [time : Whens, ver : Nat, uses : SUBSET Headers]]
  /\ lock \in [Reps -> Links \cup {None}]
  /\ src \in [Reps -> Sources \cup {None}]
  /\ DOMAIN obj = Reps
  /\ \A r \in Reps : obj[r] = None \/ \E H \in SUBSET Headers : obj[r] \in Objects(H)
  /\ he \in [Reps -> Caches \cup {None}]
  /\ cs \in [Reps -> {None} \cup SUBSET Members]
  /\ pc \in [Links -> {"idle", "lock", "link", "dep", "members", "compile",
                       "drop", "write", "adopt", "done", "unresolved"}]
  /\ dip \in [Links -> SUBSET Members]
  /\ und \in [Links -> [now : SUBSET Members, before : SUBSET Members]]
  /\ flist \in [Links -> Seq([rep : Reps, members : SUBSET Defined])]
  /\ at \in [Links -> Nat]
  /\ \A l \in Links : /\ at[l] \in 1 .. Len(setup.search[l]) + 1
                      /\ pc[l] # "dep" => at[l] <= Len(setup.search[l])
                      /\ Len(flist[l]) <= Len(setup.search[l])
  /\ left \in [runs : Nat, edits : Nat, moves : Nat, kills : Nat]

Killed == left.kills # setup.budget.kills
Moved == left.moves # setup.budget.moves

SameOptions(l, r) == obj[r].i = setup.i[l] /\ obj[r].d = setup.d[l]

\* The compiler would make the object of repository r again for link l, from
\* the headers as they are now.
Current(l, r) ==
  /\ obj[r].d = setup.d[l]
  /\ obj[r].seen = Compiled(l, src[Main(l)]).seen

\* Those who write into l's own repository search no other.
Alone(l) ==
  \A k \in Links : Main(k) = Main(l) => Len(setup.search[k]) = 1

\* The object is one of this link's -I, or the cache is of the object's -I and
\* no header that it names has changed since.
KnownI(l, r) ==
  obj[r].i = setup.i[l] \/ (he[r].i = obj[r].i /\ ~ HeaderPastCache(r))

\* An object that passes the check of dodep is the one that a compile would
\* give now: same -D, same headers, none changed since, nested ones included,
\* although the check sees only times and a list it made some time before.
\* So it is for the object in the link's own repository, whatever the -D and
\* the declaration it was compiled with, and if no link was killed.  A killed
\* link may have replaced that list and left the object, and who searches
\* elsewhere looks at what another link is writing: then it is so for objects
\* compiled with the options of the link, while the declaration stays.
AcceptedIsCurrent ==
  [][\A l \in Links :
       (pc[l] = "dep" /\ pc'[l] = "members"
        /\ \/ ~ Killed /\ Alone(l) /\ KnownI(l, Rep(l))
           \/ SameOptions(l, Rep(l)) /\ ~ Moved)
       => Current(l, Rep(l))]_vars

\* "An object will also be considered out of date if the -I/-D options are
\* changed from the previous time" (README.ptenv): one that was compiled with
\* other -D options than the link's does not pass the check.
OtherOptionsAreOut ==
  [][\A l \in Links : pc[l] = "dep" /\ pc'[l] = "members"
                     => obj[Rep(l)].d = setup.d[l]]_vars

\* "Template symbols cannot be resolved" (ptlink.c) is said of members that
\* the headers do not define, and never of others: what is asked for twice in
\* vain is not to be had.  For links that search no repository but the one
\* they lock, and as long as none was killed.
ReportedIsUndefined ==
  \A l \in Links :
    (pc[l] = "unresolved" /\ ~ Killed /\ Len(setup.search[l]) = 1)
    => und[l].now \cap und[l].before \cap Defined = {}

\* What the program needs of the class, directly or through other members.
Needed(l) ==
  LET Wider(S) == S \cup UNION {Calls[m] : m \in S}
      need[n \in 0 .. Cardinality(Members)] ==
        IF n = 0 THEN setup.needs[l] ELSE Wider(need[n - 1])
  IN  need[Cardinality(Members)]

\* When ptlink is done, the one object it hands to the linker for the class,
\* the last it adopted, has every member the program needs, although each
\* round asked only for those that it then found undefined.
DoneIsResolved ==
  \A l \in Links :
    (pc[l] = "done" /\ Needed(l) # {} /\ Len(setup.search[l]) = 1)
    => \E k \in DOMAIN flist[l] : /\ flist[l][k].rep = Rep(l)
                                  /\ Needed(l) \subseteq flist[l][k].members

\* A link comes to an end: the rounds do not go on for ever.
LinkEnds == \A l \in Links : pc[l] = "lock" ~> pc[l] = "idle"
=============================================================================
