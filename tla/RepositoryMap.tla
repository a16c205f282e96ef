--------------------------- MODULE RepositoryMap ---------------------------
(***************************************************************************)
(* ptcomp, the compile-time half of the template instantiation system      *)
(* (src/tools/pt/ptcomp.c): after each compile it merges what cfront says  *)
(* of the types and function templates the program uses into the map       *)
(* defmap of the repository.  An entry of the map names a type, the        *)
(* headers that declare it and the programs that said so; ptlink includes  *)
(* these headers when it instantiates.                                     *)
(*                                                                         *)
(* Compiles run at the same time, under the lock of the repository; they   *)
(* are interrupted, and killed while they rewrite the map.                 *)
(***************************************************************************)
EXTENDS Naturals, Sequences, FiniteSets, SequencesExt

CONSTANTS
  Programs,   \* base names of the files that are compiled
  Functions,  \* names of function templates; the others are types
  Outputs,    \* what cfront may say: sequences of [name, file]
  Nothing,
  Torn,       \* a file that ends in the middle of a line
  MaxCompiles, MaxMapKills   \* bounds

VARIABLES
  defmap,   \* the map file: Nothing, Torn or a sequence of entries
  backup,   \* defmap.old: Nothing or a sequence of entries
  holder,   \* the program whose compile holds the lock, or Nothing
  job,      \* [Programs -> [step, out, table]]: the ptcomp of the program
  last,     \* [Programs -> its output when last merged, or Nothing]
  forgot,   \* programs that once ceased to name a header they had named
  strike,   \* "no"; "struck" by a kill while the map was being rewritten;
            \* "over" when a later compile has begun to rewrite it
  compiles  \* bounded by MaxCompiles

mapFiles == <<defmap, backup>>
history == <<last, forgot, strike>>
mapVars == <<mapFiles, holder, job, history, compiles>>

Named(out) == {out[k].file : k \in DOMAIN out}

Records == UNION {Range(out) : out \in Outputs}
Names   == {rec.name : rec \in Records}
Files   == {rec.file : rec \in Records}
Entry   == [name : Names, files : SUBSET Files, bns : SUBSET Programs]

\* One compile sees one declaration of a type.
ASSUME MapAssumption ==
  /\ Records \subseteq [name : Names, file : Files]
  /\ Outputs \subseteq Seq(Records)
  /\ \A out \in Outputs : \A j, k \in DOMAIN out :
       out[j].name = out[k].name /\ out[j].name \notin Functions
       => out[j].file = out[k].file
  /\ Nothing \notin Programs \cup Outputs \cup {Torn}
  /\ Nothing \notin Seq(Entry) /\ Torn \notin Seq(Entry)

-----------------------------------------------------------------------------
(* The merge.  An entry that is deleted stays in the table without files   *)
(* and programs until it is written, and may be used again.                *)

\* Bug: nothing is deleted.
KeepOld(table, p, named) == table

\* Entries of program p are deleted if the only header they give is one that
\* the new output names; otherwise they stay.
WithoutOld(table, p, named) ==
  [k \in DOMAIN table |->
     LET e == table[k]
     IN  IF ~ (p \in e.bns /\ Cardinality(e.files) = 1 /\ e.files \subseteq named)
         THEN e
         ELSE IF e.bns = {p} THEN [e EXCEPT !.bns = {}, !.files = {}]
         ELSE [e EXCEPT !.bns = @ \ {p}]]

\* A record joins an entry of its name: any for a function template, for a
\* type one with the same header.
Joins(e, rec) ==
  /\ e.name = rec.name
  /\ \/ rec.name \in Functions
     \/ Cardinality(e.files) # 1
     \/ e.files = {rec.file}

MergedOne(table, rec, p) ==
  LET k == SelectInSeq(table, LAMBDA e : Joins(e, rec))
  IN  IF k # 0
      THEN [table EXCEPT ![k].files = @ \cup {rec.file}, ![k].bns = @ \cup {p}]
      ELSE <<[name |-> rec.name, files |-> {rec.file}, bns |-> {p}]>> \o table

Merged(table, p, out) ==
  LET m[k \in 0 .. Len(out)] ==
        IF k = 0 THEN WithoutOld(table, p, Named(out)) ELSE MergedOne(m[k - 1], out[k], p)
  IN  m[Len(out)]

\* What is written: the entries that have files.
Kept(table) ==
  LET kept[k \in 0 .. Len(table)] ==
        IF k = 0 THEN <<>>
        ELSE IF table[k].files = {} THEN kept[k - 1] ELSE Append(kept[k - 1], table[k])
  IN  kept[Len(table)]

-----------------------------------------------------------------------------
Resting == [step |-> "none", out |-> <<>>, table |-> <<>>]

MapInit ==
  /\ defmap = Nothing /\ backup = Nothing
  /\ holder = Nothing
  /\ job = [p \in Programs |-> Resting]
  /\ last = [p \in Programs |-> Nothing]
  /\ forgot = {}
  /\ strike = "no"
  /\ compiles = 0

To(p, step) == job' = [job EXCEPT ![p].step = step]

Released(p) == IF holder = p THEN Nothing ELSE holder

\* CC runs ptcomp on what cfront said.
CompileSays(p, out) ==
  /\ job[p].step = "none"
  /\ compiles < MaxCompiles
  /\ compiles' = compiles + 1
  /\ job' = [job EXCEPT ![p] = [step |-> "lock", out |-> out, table |-> <<>>]]
  /\ UNCHANGED <<mapFiles, holder, history>>

\* Bug: two compiles hold the lock.
LockUntested(p) ==
  /\ job[p].step = "lock"
  /\ holder' = p
  /\ To(p, "merge")
  /\ UNCHANGED <<mapFiles, history, compiles>>

LockMap(p) ==
  /\ job[p].step = "lock"
  /\ holder = Nothing
  /\ holder' = p
  /\ To(p, "merge")
  /\ UNCHANGED <<mapFiles, history, compiles>>

\* The old map is read, a missing one as an empty one, in front of one another
\* in the chains of a hash table, and merged.  A torn one is a fatal error.
Merge(p) ==
  /\ job[p].step = "merge"
  /\ IF defmap = Torn
     THEN job' = [job EXCEPT ![p] = Resting] /\ holder' = Nothing
     ELSE /\ job' = [job EXCEPT
               ![p].step = IF defmap = Nothing THEN "open" ELSE "drop",
               ![p].table = Merged(IF defmap = Nothing THEN <<>> ELSE Reverse(defmap),
                                   p, job[p].out)]
          /\ UNCHANGED holder
  /\ UNCHANGED <<mapFiles, history, compiles>>

(* Signals are ignored from here on.  mv: the old backup goes, the map gets *)
(* its name as a second one and loses its own.                              *)
DropBackup(p) ==
  /\ job[p].step = "drop"
  /\ backup' = Nothing
  /\ strike' = IF strike = "struck" THEN "over" ELSE strike
  /\ To(p, "link")
  /\ UNCHANGED <<defmap, holder, last, forgot, compiles>>

LinkBackup(p) ==
  /\ job[p].step = "link"
  /\ backup' = defmap
  /\ To(p, "unlink")
  /\ UNCHANGED <<defmap, holder, history, compiles>>

UnlinkMap(p) ==
  /\ job[p].step = "unlink"
  /\ defmap' = Nothing
  /\ To(p, "open")
  /\ UNCHANGED <<backup, holder, history, compiles>>

\* The new file is created, and filled when its buffer is written out.
OpenMap(p) ==
  /\ job[p].step = "open"
  /\ defmap' = <<>>
  /\ To(p, "write")
  /\ UNCHANGED <<backup, holder, history, compiles>>

WriteMap(p) ==
  /\ job[p].step = "write"
  /\ defmap' = Kept(job[p].table)
  /\ last' = [last EXCEPT ![p] = job[p].out]
  /\ forgot' = IF last[p] # Nothing /\ ~ (Named(last[p]) \subseteq Named(job[p].out))
               THEN forgot \cup {p} ELSE forgot
  /\ To(p, "unlock")
  /\ UNCHANGED <<backup, holder, strike, compiles>>

UnlockMap(p) ==
  /\ job[p].step = "unlock"
  /\ holder' = Nothing
  /\ job' = [job EXCEPT ![p] = Resting]
  /\ UNCHANGED <<mapFiles, history, compiles>>

Rewriting(p) == job[p].step \in {"link", "unlink", "open", "write"}

\* Bug: signals are not ignored while the map is rewritten.
InterruptAnywhere(p) ==
  /\ job[p].step # "none"
  /\ job' = [job EXCEPT ![p] = Resting]
  /\ holder' = Released(p)
  /\ UNCHANGED <<mapFiles, history, compiles>>

\* SIGINT and SIGQUIT, or a lock that was not to be had.
Interrupt(p) ==
  /\ job[p].step \in {"lock", "merge"}
  /\ job' = [job EXCEPT ![p] = Resting]
  /\ holder' = Released(p)
  /\ UNCHANGED <<mapFiles, history, compiles>>

\* A signal that cannot be ignored, or a machine that stops.
Struck(p) ==
  /\ Rewriting(p)
  /\ strike = "no" /\ MaxMapKills > 0
  /\ strike' = "struck"
  /\ defmap' \in IF job[p].step = "write" THEN {<<>>, Torn} ELSE {defmap}
  /\ job' = [job EXCEPT ![p] = Resting]
  /\ holder' = Nothing
  /\ UNCHANGED <<backup, last, forgot, compiles>>

MapNext ==
  \E p \in Programs :
    \/ \E out \in Outputs : CompileSays(p, out)
    \/ LockMap(p) \/ Merge(p)
    \/ DropBackup(p) \/ LinkBackup(p) \/ UnlinkMap(p) \/ OpenMap(p)
    \/ WriteMap(p) \/ UnlockMap(p)
    \/ Interrupt(p) \/ Struck(p)

MapSpec == MapInit /\ [][MapNext]_mapVars
-----------------------------------------------------------------------------
(* Properties. *)

Entries(file) == IF file \in {Nothing, Torn} THEN {} ELSE Range(file)

\* What can be read back: no entry without a header or a program.
Readable(file) ==
  \A k \in DOMAIN file : file[k].files # {} /\ file[k].bns # {}

\* The map and its backup are missing, torn or readable, and only who holds
\* the lock is past taking it.
MapTypeOK ==
  /\ defmap \in {Nothing, Torn} \/ Readable(defmap)
  /\ backup = Nothing \/ Readable(backup)
  /\ \A p \in Programs : job[p].step \notin {"none", "lock"} => holder = p
  /\ forgot \subseteq Programs
  /\ strike \in {"no", "struck", "over"}

\* Program p's record rec can be looked up among the entries es.
FoundIn(es, p, rec) ==
  \E e \in es : e.name = rec.name /\ rec.file \in e.files /\ p \in e.bns

AllFoundIn(es) ==
  \A p \in Programs : last[p] # Nothing =>
    \A k \in DOMAIN last[p] : FoundIn(es, p, last[p][k])

\* Compiles of several programs at once, some of them interrupted, do not undo
\* each other's entries: whenever nobody rewrites the map it has all that the
\* last compile of each program put there.
NothingForgotten ==
  (strike = "no" /\ \A p \in Programs : ~ Rewriting(p))
  => AllFoundIn(Entries(defmap))

\* At every instant, also after a kill in the middle of the rewriting, the map
\* and the backup have it between them, until a later compile goes on with
\* what it finds and drops the backup.
BackupHolds ==
  strike # "over" => AllFoundIn(Entries(defmap) \cup Entries(backup))

\* Program p is listed under two entries of one name.
Twice(p) ==
  \E k, n \in DOMAIN defmap :
    /\ k # n /\ defmap[k].name = defmap[n].name
    /\ p \in defmap[k].bns \cap defmap[n].bns

\* A type is not "defined twice in map files" (ptlink.c) for a program by what
\* an earlier compile of the program said, as long as the program goes on
\* naming the headers that it named.
ListedOnce ==
  defmap \notin {Nothing, Torn} => \A p \in Programs \ forgot : ~ Twice(p)

\* A link of programs whose last compiles took a type from the same header
\* finds one entry of the type, so that it is not "defined twice in map files":
\* ptcomp is to "delete all entries from old map file that have a basename
\* matching the current program name being compiled" and to merge a type into
\* an entry if its "header matches".
AgreedIsFoundOnce ==
  defmap \notin {Nothing, Torn} =>
    \A k, n \in DOMAIN defmap :
      (/\ k # n /\ defmap[k].name = defmap[n].name
       /\ defmap[k].name \notin Functions)
      => \A p \in defmap[k].bns, q \in defmap[n].bns :
           ~ \E rec \in Range(last[p]) \cap Range(last[q]) :
               rec.name = defmap[k].name
=============================================================================
