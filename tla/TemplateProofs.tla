------------------------ MODULE TemplateProofs ------------------------
(***************************************************************************)
(* Proofs about the template instantiation system, for any number of       *)
(* programs, headers, repositories, compiles and links, some of them       *)
(* interrupted.                                                            *)
(*                                                                         *)
(* RepositoryMap: what ptcomp writes into the map of the repository holds  *)
(* all that the last compile of each program said, also when one of them   *)
(* is killed while it rewrites the map.                                    *)
(*                                                                         *)
(* TemplateLink: what ptlink calls undefined is undefined, what it hands   *)
(* to the linker resolves the program, and an object that it accepts is    *)
(* the one that a compile would make now.                                  *)
(***************************************************************************)
EXTENDS TemplateLink, RepositoryMap, SequenceTheorems, FiniteSetTheorems, WellFoundedInduction, TLAPS

(***************************************************************************)
(* RepositoryMap: the inductive invariant.                                 *)
(***************************************************************************)

Steps == {"none", "lock", "merge", "drop", "link", "unlink", "open", "write", "unlock"}

\* The steps at which the table has been merged and is not yet written.
Merging(p) == job[p].step \in {"drop", "link", "unlink", "open", "write"}

\* Of a table or a file: an entry has no files when it has no programs, a
\* type has one header, and a function template has one entry.
Tidy(t) ==
  /\ \A i \in DOMAIN t : t[i].files = {} <=> t[i].bns = {}
  /\ \A i \in DOMAIN t : t[i].name \notin Functions =>
       t[i].files = {} \/ \E f \in Files : t[i].files = {f}
  /\ \A i, j \in DOMAIN t : t[i].name = t[j].name /\ t[i].name \in Functions => i = j

\* Program q is in at most one entry of each type, and the headers of these
\* are among named.
Claimed(t, q, named) ==
  /\ \A i, j \in DOMAIN t :
       /\ t[i].name = t[j].name /\ t[i].name \notin Functions
       /\ q \in t[i].bns /\ q \in t[j].bns
       => i = j
  /\ \A i \in DOMAIN t : t[i].name \notin Functions /\ q \in t[i].bns => t[i].files \subseteq named

Found(t, q, rec) ==
  \E i \in DOMAIN t : t[i].name = rec.name /\ rec.file \in t[i].files /\ q \in t[i].bns

\* The headers that the last merged compile of q named.
Said(q) == IF last[q] = Nothing THEN {} ELSE Named(last[q])

MapTyped ==
  /\ defmap \in Seq(Entry) \cup {Nothing, Torn}
  /\ backup \in Seq(Entry) \cup {Nothing}
  /\ holder \in Programs \cup {Nothing}
  /\ job \in [Programs -> [step : Steps, out : Seq(Records), table : Seq(Entry)]]
  /\ \A p \in Programs : job[p].step # "none" => job[p].out \in Outputs
  /\ last \in [Programs -> Outputs \cup {Nothing}]
  /\ forgot \in SUBSET Programs
  /\ strike \in {"no", "struck", "over"}

OneHolder == \A p \in Programs : job[p].step \notin {"none", "lock"} => holder = p

FilesTidy ==
  /\ defmap \in Seq(Entry) => Tidy(defmap) /\ Readable(defmap)
  /\ backup \in Seq(Entry) => Readable(backup)
  /\ defmap \in Seq(Entry) => \A q \in Programs \ forgot : Claimed(defmap, q, Said(q))

\* What a step of the rewriting finds.
DiskFits ==
  \A p \in Programs :
    /\ job[p].step \in {"drop", "link", "unlink"} => defmap \in Seq(Entry)
    /\ job[p].step \in {"link", "unlink"} => strike # "struck"
    /\ job[p].step = "unlink" => backup = defmap
    /\ job[p].step = "open" => defmap = Nothing
    /\ job[p].step = "write" => defmap = <<>>

TablesFit ==
  \A p \in Programs : Merging(p) =>
    /\ Tidy(job[p].table)
    /\ \A k \in DOMAIN job[p].out : Found(job[p].table, p, job[p].out[k])
    /\ strike = "no" =>
         \A q \in Programs \ {p} : last[q] # Nothing =>
           \A k \in DOMAIN last[q] : Found(job[p].table, q, last[q][k])
    /\ \A q \in Programs \ (forgot \cup {p}) : Claimed(job[p].table, q, Said(q))
    /\ p \notin forgot /\ Said(p) \subseteq Named(job[p].out)
       => Claimed(job[p].table, p, Named(job[p].out))

MapWhole ==
  (strike = "no" /\ \A p \in Programs : job[p].step \notin {"open", "write"})
  => AllFoundIn(Entries(defmap))

MapInv ==
  /\ MapTyped /\ OneHolder /\ FilesTidy /\ DiskFits /\ TablesFit
  /\ MapWhole /\ BackupHolds

(***************************************************************************)
(* Numbers and folds.                                                      *)
(***************************************************************************)

LEMMA Least ==
  ASSUME NEW T \in SUBSET Nat, NEW n \in T
  PROVE  \E m \in T : \A k \in T : m <= k
<1>1. PICK m \in T : \A k \in T : ~ (<<k, m>> \in OpToRel(<, Nat))
  BY NatLessThanWellFounded, WFMin
<1>2. \A k \in T : ~ (k < m)
  BY <1>1 DEF OpToRel
<1>3. \A k \in T : m <= k
  BY <1>2
<1> QED  BY <1>3

(* Induction over 0 .. n, for the set of the numbers that have the property.*)
LEMMA UpTo ==
  ASSUME NEW n \in Nat, NEW T \in SUBSET (0 .. n), 0 \in T,
         \A k \in 1 .. n : k - 1 \in T => k \in T
  PROVE  T = 0 .. n
<1> SUFFICES ASSUME NEW x \in (0 .. n) \ T PROVE FALSE
  OBVIOUS
<1>1. (0 .. n) \ T \in SUBSET Nat
  OBVIOUS
<1>2. PICK m \in (0 .. n) \ T : \A k \in (0 .. n) \ T : m <= k
  BY <1>1, Least
<1>3. m \in 1 .. n /\ m - 1 \in 0 .. n /\ ~ (m <= m - 1)
  BY <1>2
<1>4. m - 1 \in T
  BY <1>2, <1>3
<1> QED  BY <1>2, <1>3, <1>4

(* The folds of Merged and of Kept are defined.                            *)
MergeFold(t, p, out) ==
  CHOOSE m : m = [k \in 0 .. Len(out) |->
    IF k = 0 THEN WithoutOld(t, p, Named(out)) ELSE MergedOne(m[k - 1], out[k], p)]

LEMMA MergeFoldIs ==
  ASSUME NEW t, NEW p, NEW out, Len(out) \in Nat
  PROVE  /\ MergeFold(t, p, out)[0] = WithoutOld(t, p, Named(out))
         /\ \A k \in 1 .. Len(out) :
              MergeFold(t, p, out)[k] = MergedOne(MergeFold(t, p, out)[k - 1], out[k], p)
         /\ Merged(t, p, out) = MergeFold(t, p, out)[Len(out)]
<1> DEFINE F(m, k) == IF k = 0 THEN WithoutOld(t, p, Named(out))
                      ELSE MergedOne(m[k - 1], out[k], p)
           Is(m, n) == m = [k \in 0 .. n |-> F(m, k)]
           T == {n \in 0 .. Len(out) : \E m : Is(m, n)}
<1>1. 0 \in T
  <2> DEFINE m == [k \in 0 .. 0 |-> WithoutOld(t, p, Named(out))]
  <2>1. Is(m, 0)
    OBVIOUS
  <2>2. 0 \in 0 .. Len(out)
    OBVIOUS
  <2> HIDE DEF m, Is
  <2> QED  BY <2>1, <2>2
<1>2. ASSUME NEW n \in 1 .. Len(out), n - 1 \in T PROVE n \in T
  <2>1. PICK m : Is(m, n - 1)
    BY <1>2
  <2> DEFINE l == [k \in 0 .. n |-> IF k = n THEN MergedOne(m[n - 1], out[n], p) ELSE m[k]]
  <2>2. \A k \in 0 .. (n - 1) : m[k] = F(m, k)
    BY <2>1
  <2>3. \A k \in 0 .. n : l[k] = F(l, k)
    <3> SUFFICES ASSUME NEW k \in 0 .. n PROVE l[k] = F(l, k)
      OBVIOUS
    <3>1. CASE k = 0
      BY <2>2, <3>1
    <3>2. CASE k = n
      <4>1. n # 0 /\ n - 1 \in 0 .. n /\ n - 1 # n
        OBVIOUS
      <4>2. l[n - 1] = m[n - 1]
        BY <4>1
      <4> QED  BY <3>2, <4>1, <4>2
    <3>3. CASE k # 0 /\ k # n
      <4>1. k \in 0 .. (n - 1) /\ k - 1 \in 0 .. n /\ k - 1 # n
        BY <3>3
      <4>2. l[k] = m[k] /\ l[k - 1] = m[k - 1]
        BY <3>3, <4>1
      <4> QED  BY <2>2, <3>3, <4>1, <4>2
    <3> QED  BY <3>1, <3>2, <3>3
  <2>4. Is(l, n)
    <3> HIDE DEF F
    <3> QED  BY <2>3
  <2> HIDE DEF l, Is
  <2> QED  BY <2>4
<1>3. T = 0 .. Len(out)
  <2> HIDE DEF T
  <2>1. T \in SUBSET (0 .. Len(out))
    BY DEF T
  <2> QED  BY <1>1, <1>2, <2>1, UpTo
<1>4. Is(MergeFold(t, p, out), Len(out))
  <2>1. PICK m : Is(m, Len(out))
    BY <1>3
  <2> QED  BY <2>1 DEF MergeFold
<1>5. Merged(t, p, out) = MergeFold(t, p, out)[Len(out)]
  BY DEF Merged, MergeFold
<1>6. \A k \in 0 .. Len(out) : MergeFold(t, p, out)[k] = F(MergeFold(t, p, out), k)
  BY <1>4
<1>7. 0 \in 0 .. Len(out) /\ \A k \in 1 .. Len(out) : k \in 0 .. Len(out) /\ k # 0
  OBVIOUS
<1> QED  BY <1>5, <1>6, <1>7

(***************************************************************************)
(* One record is merged.                                                   *)
(***************************************************************************)

Blank(t, rec) == <<[name |-> rec.name, files |-> {}, bns |-> {}]>> \o t

Grown(b, i, rec, p) ==
  [b EXCEPT ![i] = [name |-> b[i].name, files |-> b[i].files \cup {rec.file},
                    bns |-> b[i].bns \cup {p}]]

NoneJoins(t, rec, n) == \A j \in 1 .. n : ~ Joins(t[j], rec)

LEMMA MergedOneIs ==
  ASSUME NEW t \in Seq(Entry), NEW rec \in Records, NEW p \in Programs
  PROVE  \/ \E i \in DOMAIN t :
              /\ Joins(t[i], rec) /\ NoneJoins(t, rec, i - 1)
              /\ MergedOne(t, rec, p) = Grown(t, i, rec, p)
         \/ /\ NoneJoins(t, rec, Len(t))
            /\ MergedOne(t, rec, p) = Grown(Blank(t, rec), 1, rec, p)
<1> DEFINE I == {i \in 1 .. Len(t) : Joins(t[i], rec)}
           k == SelectInSeq(t, LAMBDA e : Joins(e, rec))
           new == [name |-> rec.name, files |-> {rec.file}, bns |-> {p}]
<1>1. k = IF I # {} THEN Min(I) ELSE 0
  BY DEF SelectInSeq
<1>2. MergedOne(t, rec, p) =
        IF k # 0
        THEN [t EXCEPT ![k].files = @ \cup {rec.file}, ![k].bns = @ \cup {p}]
        ELSE <<new>> \o t
  BY DEF MergedOne
<1>3. I \in SUBSET Nat /\ DOMAIN t = 1 .. Len(t) /\ Len(t) \in Nat
  OBVIOUS
<1> HIDE DEF k
<1>4. CASE I # {}
  <2>1. PICK i \in I : \A j \in I : i <= j
    BY <1>3, <1>4, Least
  <2>2. Min(I) \in I /\ \A j \in I : Min(I) <= j
    BY <2>1 DEF Min
  <2>3. k = Min(I) /\ k \in DOMAIN t /\ k # 0 /\ Joins(t[k], rec)
    BY <1>1, <1>3, <1>4, <2>2
  <2>4. NoneJoins(t, rec, k - 1)
    <3> SUFFICES ASSUME NEW j \in 1 .. (k - 1), Joins(t[j], rec) PROVE FALSE
      BY DEF NoneJoins
    <3>1. j \in I /\ ~ (k <= j)
      BY <1>3, <2>3
    <3> QED  BY <2>2, <2>3, <3>1
  <2>5. [t EXCEPT ![k].files = @ \cup {rec.file}, ![k].bns = @ \cup {p}] = Grown(t, k, rec, p)
    <3>1. t[k] \in Entry
      BY <2>3
    <3>2. [[t[k] EXCEPT !.files = @ \cup {rec.file}] EXCEPT !.bns = @ \cup {p}]
            = [name |-> t[k].name, files |-> t[k].files \cup {rec.file},
               bns |-> t[k].bns \cup {p}]
      <4>1. \A e \in Entry : \A F, B : [[e EXCEPT !.files = F] EXCEPT !.bns = B]
              = [name |-> e.name, files |-> F, bns |-> B]
        <5> SUFFICES ASSUME NEW e \in Entry, NEW F, NEW B
                     PROVE  [[e EXCEPT !.files = F] EXCEPT !.bns = B]
                              = [name |-> e.name, files |-> F, bns |-> B]
          OBVIOUS
        <5>1. e = [name |-> e.name, files |-> e.files, bns |-> e.bns]
          BY DEF Entry
        <5>2. [e EXCEPT !.files = F] = [name |-> e.name, files |-> F, bns |-> e.bns]
          BY <5>1
        <5>3. \A n, x : [[name |-> n, files |-> F, bns |-> x] EXCEPT !.bns = B]
                          = [name |-> n, files |-> F, bns |-> B]
          OBVIOUS
        <5> QED  BY <5>2, <5>3
      <4> QED  BY <3>1, <4>1
    <3> QED  BY <2>3, <3>2 DEF Grown
  <2> QED  BY <1>2, <2>3, <2>4, <2>5
<1>5. CASE I = {}
  <2>1. k = 0
    BY <1>1, <1>5
  <2>2. NoneJoins(t, rec, Len(t))
    BY <1>5 DEF NoneJoins
  <2>3. <<new>> \o t = Grown(Blank(t, rec), 1, rec, p)
    <3> DEFINE bare == [name |-> rec.name, files |-> {}, bns |-> {}]
               b == <<bare>> \o t
    <3>1. <<new>> \in Seq({new}) /\ <<bare>> \in Seq({bare})
      OBVIOUS
    <3>2. Len(b) = Len(t) + 1 /\ DOMAIN b = 1 .. Len(t) + 1 /\ b[1] = bare
      BY <1>3
    <3>3. [name |-> b[1].name, files |-> b[1].files \cup {rec.file},
           bns |-> b[1].bns \cup {p}] = new
      <4> HIDE DEF b
      <4> QED  BY <3>2
    <3>4. [b EXCEPT ![1] = new] = <<new>> \o t
      <4>1. Len(<<new>> \o t) = Len(t) + 1 /\ (<<new>> \o t)[1] = new
        BY <1>3
      <4>2. \A j \in 2 .. Len(t) + 1 : b[j] = t[j - 1] /\ (<<new>> \o t)[j] = t[j - 1]
        BY <1>3
      <4>3. DOMAIN (<<new>> \o t) = 1 .. Len(t) + 1
        BY <1>3
      <4>4. <<new>> \o t \in Seq(Entry \cup {new}) /\ b \in Seq(Entry \cup {bare})
        BY <1>3
      <4> HIDE DEF new, b, bare
      <4>5. [b EXCEPT ![1] = new] \in Seq(Entry \cup {new, bare})
            /\ <<new>> \o t \in Seq(Entry \cup {new, bare})
        BY <3>2, <4>4
      <4>6. Len([b EXCEPT ![1] = new]) = Len(t) + 1
        BY <3>2
      <4>7. \A j \in 1 .. Len(t) + 1 : [b EXCEPT ![1] = new][j] = (<<new>> \o t)[j]
        <5> SUFFICES ASSUME NEW j \in 1 .. Len(t) + 1
                     PROVE  [b EXCEPT ![1] = new][j] = (<<new>> \o t)[j]
          OBVIOUS
        <5>1. CASE j = 1
          BY <3>2, <4>1, <5>1
        <5>2. CASE j # 1
          BY <1>3, <3>2, <4>2, <5>2
        <5> QED  BY <5>1, <5>2
      <4> QED  BY <4>1, <4>5, <4>6, <4>7, SeqEqual
    <3> HIDE DEF new, b
    <3>5. Grown(b, 1, rec, p) = [b EXCEPT ![1] = new]
      BY <3>3 DEF Grown
    <3>6. Blank(t, rec) = b
      BY DEF Blank, b
    <3> QED  BY <3>4, <3>5, <3>6
  <2> HIDE DEF new
  <2> QED  BY <1>2, <2>1, <2>2, <2>3
<1> QED  BY <1>4, <1>5

LEMMA BlankIs ==
  ASSUME NEW t \in Seq(Entry), NEW rec \in Records,
         rec \in [name : Names, file : Files]
  PROVE  /\ Blank(t, rec) \in Seq(Entry)
         /\ DOMAIN Blank(t, rec) = 1 .. Len(t) + 1 /\ DOMAIN t = 1 .. Len(t)
         /\ Len(t) \in Nat
         /\ Blank(t, rec)[1] = [name |-> rec.name, files |-> {}, bns |-> {}]
         /\ \A j \in 2 .. Len(t) + 1 :
              j - 1 \in 1 .. Len(t) /\ Blank(t, rec)[j] = t[j - 1]
         /\ \A j \in 1 .. Len(t) :
              j + 1 \in 1 .. Len(t) + 1 /\ Blank(t, rec)[j + 1] = t[j]
<1>1. [name |-> rec.name, files |-> {}, bns |-> {}] \in Entry
  BY DEF Entry
<1> QED  BY <1>1 DEF Blank

(* Of a tidy entry: what it is to join it.                                 *)
LEMMA JoinsIs ==
  ASSUME NEW t \in Seq(Entry), Tidy(t), NEW i \in DOMAIN t, NEW rec \in Records,
         t[i].name = rec.name, rec.name \notin Functions
  PROVE  Joins(t[i], rec) <=> t[i].files = {} \/ t[i].files = {rec.file}
<1>1. t[i].files = {} \/ \E f \in Files : t[i].files = {f}
  BY DEF Tidy
<1>2. Cardinality({}) = 0
  BY FS_EmptySet
<1>3. \A f : Cardinality({f}) = 1
  BY FS_Singleton
<1>4. CASE t[i].files = {}
  BY <1>2, <1>4 DEF Joins
<1>5. CASE \E f \in Files : t[i].files = {f}
  <2>1. PICK f \in Files : t[i].files = {f}
    BY <1>5
  <2>2. Cardinality(t[i].files) = 1
    BY <1>3, <2>1
  <2> QED  BY <2>1, <2>2 DEF Joins
<1> QED  BY <1>1, <1>4, <1>5

\* The first entry of its name that has no files or has these.
First(t, i) ==
  \A j \in 1 .. i - 1 :
    t[j].name = t[i].name => t[j].files # {} /\ t[j].files # t[i].files

\* The entry i of a type is one that p's output out gives, by its first k records.
Given(t, i, out, k) ==
  /\ First(t, i)
  /\ \E j \in 1 .. k : out[j].name = t[i].name /\ t[i].files = {out[j].file}

\* All entries of types that p is in are such ones.
New(t, p, out, k) ==
  \A i \in DOMAIN t :
    t[i].name \notin Functions /\ p \in t[i].bns => Given(t, i, out, k)

\* An entry i of b for record k of out.
Ready(b, i, p, out, k) ==
  /\ b \in Seq(Entry) /\ Tidy(b) /\ i \in DOMAIN b
  /\ Joins(b[i], out[k]) /\ NoneJoins(b, out[k], i - 1)

ReadyNew(b, i, p, out, k) ==
  \A j \in DOMAIN b \ {i} :
    b[j].name \notin Functions /\ p \in b[j].bns
    => b[j].name # out[k].name /\ Given(b, j, out, k - 1)

\* What b keeps of t.
Keeps(t, b, p, q) ==
  /\ \A rec \in Records : Found(t, q, rec) => Found(b, q, rec)
  /\ q # p => \A named : Claimed(t, q, named) => Claimed(b, q, named)

LEMMA BlankReady ==
  ASSUME NEW t \in Seq(Entry), Tidy(t), NEW p \in Programs, NEW out \in Outputs,
         NEW k \in 1 .. Len(out), NoneJoins(t, out[k], Len(t)), out[k] \in Records
  PROVE  LET b == Blank(t, out[k]) IN
         /\ Ready(b, 1, p, out, k)
         /\ \A q \in Programs : Keeps(t, b, p, q)
         /\ New(t, p, out, k - 1) => ReadyNew(b, 1, p, out, k)
<1> DEFINE rec == out[k]
           b == Blank(t, rec)
<1>1. rec \in Records /\ rec \in [name : Names, file : Files]
  BY MapAssumption
<1>2. /\ b \in Seq(Entry) /\ DOMAIN b = 1 .. Len(t) + 1 /\ DOMAIN t = 1 .. Len(t)
      /\ Len(t) \in Nat /\ b[1] = [name |-> rec.name, files |-> {}, bns |-> {}]
      /\ \A j \in 2 .. Len(t) + 1 : j - 1 \in 1 .. Len(t) /\ b[j] = t[j - 1]
      /\ \A j \in 1 .. Len(t) : j + 1 \in 1 .. Len(t) + 1 /\ b[j + 1] = t[j]
  BY <1>1, BlankIs
<1> HIDE DEF rec, b
<1>3. b[1].name = rec.name /\ b[1].files = {} /\ b[1].bns = {}
  BY <1>2
<1>4. \A j \in DOMAIN b : j = 1 \/ j \in 2 .. Len(t) + 1
  BY <1>2
<1>5. \A j \in DOMAIN t : ~ Joins(t[j], rec)
  BY <1>2 DEF NoneJoins, rec
<1>6. Tidy(b)
  <2> DEFINE Fine(e) == /\ e.files = {} <=> e.bns = {}
                        /\ e.name \notin Functions =>
                             e.files = {} \/ \E f \in Files : e.files = {f}
  <2>1. \A i \in DOMAIN t : Fine(t[i])
    BY DEF Tidy
  <2>2. \A i \in DOMAIN b : Fine(b[i])
    <3>1. Fine(b[1])
      BY <1>3
    <3> HIDE DEF Fine
    <3> QED  BY <1>2, <1>4, <2>1, <3>1
  <2>3. ASSUME NEW i \in DOMAIN b, NEW j \in DOMAIN b, b[i].name = b[j].name,
               b[i].name \in Functions
        PROVE  i = j
    <3>1. CASE i \in 2 .. Len(t) + 1 /\ j \in 2 .. Len(t) + 1
      <4>1. i - 1 = j - 1
        BY <1>2, <2>3, <3>1 DEF Tidy
      <4> QED  BY <1>2, <3>1, <4>1
    <3>2. \A n \in 2 .. Len(t) + 1 : b[n].name \in Functions => b[n].name # rec.name
      BY <1>2, <1>5 DEF Joins
    <3> QED  BY <1>3, <1>4, <2>3, <3>1, <3>2
  <2> QED  BY <2>1, <2>2, <2>3 DEF Tidy
<1>7. Joins(b[1], rec) /\ NoneJoins(b, rec, 1 - 1)
  BY <1>3, FS_EmptySet DEF Joins, NoneJoins
<1>8. Ready(b, 1, p, out, k)
  BY <1>2, <1>6, <1>7 DEF Ready, rec
<1>9. ASSUME NEW q \in Programs PROVE Keeps(t, b, p, q)
  <2>1. \A r \in Records : Found(t, q, r) => Found(b, q, r)
    BY <1>2 DEF Found
  <2>2. ASSUME NEW named, Claimed(t, q, named) PROVE Claimed(b, q, named)
    <3>1. \A i \in DOMAIN b : q \in b[i].bns => i \in 2 .. Len(t) + 1
      BY <1>3, <1>4
    <3>2. ASSUME NEW i \in DOMAIN b, NEW j \in DOMAIN b, b[i].name = b[j].name,
                 b[i].name \notin Functions, q \in b[i].bns, q \in b[j].bns
          PROVE  i = j
      <4>1. i \in 2 .. Len(t) + 1 /\ j \in 2 .. Len(t) + 1
        BY <3>1, <3>2
      <4>2. i - 1 = j - 1
        BY <1>2, <2>2, <3>2, <4>1 DEF Claimed
      <4> QED  BY <1>2, <4>1, <4>2
    <3>3. \A i \in DOMAIN b : b[i].name \notin Functions /\ q \in b[i].bns
                              => b[i].files \subseteq named
      BY <1>2, <2>2, <3>1 DEF Claimed
    <3> QED  BY <3>2, <3>3 DEF Claimed
  <2> QED  BY <2>1, <2>2 DEF Keeps
<1>10. ASSUME New(t, p, out, k - 1) PROVE ReadyNew(b, 1, p, out, k)
  <2> SUFFICES ASSUME NEW j \in DOMAIN b \ {1}, b[j].name \notin Functions, p \in b[j].bns
               PROVE  b[j].name # rec.name /\ Given(b, j, out, k - 1)
    BY DEF ReadyNew, rec
  <2>1. j \in 2 .. Len(t) + 1 /\ j - 1 \in DOMAIN t /\ b[j] = t[j - 1]
    BY <1>2, <1>4
  <2>2. Given(t, j - 1, out, k - 1)
    BY <1>10, <2>1 DEF New
  <2>3. PICK l \in 1 .. k - 1 : out[l].name = t[j - 1].name /\ t[j - 1].files = {out[l].file}
    BY <2>2 DEF Given
  <2>4. b[j].name # rec.name
    <3> SUFFICES ASSUME b[j].name = rec.name PROVE FALSE
      OBVIOUS
    <3>1. out[l].file = rec.file
      <4>1. l \in DOMAIN out /\ k \in DOMAIN out
        BY <2>3, MapAssumption
      <4> QED  BY <2>1, <2>3, <4>1, MapAssumption DEF rec
    <3>2. Joins(t[j - 1], rec)
      BY <2>1, <2>3, <3>1, <1>1, JoinsIs
    <3> QED  BY <1>5, <2>1, <3>2
  <2>5. First(b, j)
    <3> SUFFICES ASSUME NEW n \in 1 .. j - 1, b[n].name = b[j].name
                 PROVE  b[n].files # {} /\ b[n].files # b[j].files
      BY DEF First
    <3>1. n # 1
      BY <1>3, <2>4
    <3>2. n \in 2 .. Len(t) + 1 /\ n - 1 \in 1 .. (j - 1) - 1 /\ b[n] = t[n - 1]
      BY <1>2, <2>1, <3>1
    <3> QED  BY <2>1, <2>2, <3>2 DEF Given, First
  <2> QED  BY <2>1, <2>3, <2>4, <2>5 DEF Given
<1> QED  BY <1>8, <1>9, <1>10 DEF b, rec

LEMMA GrownIs ==
  ASSUME NEW b \in Seq(Entry), NEW i \in DOMAIN b, NEW rec \in Records, NEW p \in Programs
  PROVE  LET r == Grown(b, i, rec, p) IN
         /\ r \in Seq(Entry) /\ DOMAIN r = DOMAIN b
         /\ r[i].name = b[i].name /\ r[i].files = b[i].files \cup {rec.file}
         /\ r[i].bns = b[i].bns \cup {p}
         /\ \A j \in DOMAIN b \ {i} : r[j] = b[j]
         /\ \A j \in DOMAIN b : r[j].name = b[j].name
<1> DEFINE e == [name |-> b[i].name, files |-> b[i].files \cup {rec.file}, bns |-> b[i].bns \cup {p}]
<1>1. e \in Entry
  <2>1. b[i] \in Entry /\ rec.file \in Files
    BY MapAssumption
  <2> QED  BY <2>1 DEF Entry
<1>2. e.name = b[i].name /\ e.files = b[i].files \cup {rec.file} /\ e.bns = b[i].bns \cup {p}
  OBVIOUS
<1>3. Grown(b, i, rec, p) = [b EXCEPT ![i] = e]
  BY DEF Grown
<1> HIDE DEF e
<1> QED  BY <1>1, <1>2, <1>3

LEMMA GrowKeeps ==
  ASSUME NEW b, NEW i, NEW p \in Programs, NEW out \in Outputs, NEW k \in 1 .. Len(out),
         Ready(b, i, p, out, k), out[k] \in Records
  PROVE  LET r == Grown(b, i, out[k], p) IN
         /\ r \in Seq(Entry) /\ Tidy(r)
         /\ \A q \in Programs : Keeps(b, r, p, q)
         /\ Found(r, p, out[k])
         /\ ReadyNew(b, i, p, out, k) => New(r, p, out, k)
<1> DEFINE rec == out[k]
           r == Grown(b, i, rec, p)
<1>1. rec \in Records /\ rec \in [name : Names, file : Files]
  BY MapAssumption
<1>2. /\ b \in Seq(Entry) /\ Tidy(b) /\ i \in DOMAIN b
      /\ Joins(b[i], rec) /\ NoneJoins(b, rec, i - 1) /\ b[i].name = rec.name
  BY DEF Ready, Joins, rec
<1>3. /\ r \in Seq(Entry) /\ DOMAIN r = DOMAIN b
      /\ r[i].name = b[i].name /\ r[i].files = b[i].files \cup {rec.file}
      /\ r[i].bns = b[i].bns \cup {p}
      /\ \A j \in DOMAIN b \ {i} : r[j] = b[j]
      /\ \A j \in DOMAIN b : r[j].name = b[j].name
  BY <1>1, <1>2, GrownIs
<1> HIDE DEF rec, r
<1>4. rec.name \notin Functions => /\ b[i].files = {} \/ b[i].files = {rec.file}
                                   /\ r[i].files = {rec.file}
  BY <1>1, <1>2, <1>3, JoinsIs
<1>5. Tidy(r)
  <2>1. \A j \in DOMAIN r : r[j].files = {} <=> r[j].bns = {}
    <3>1. \A j \in DOMAIN b \ {i} : b[j].files = {} <=> b[j].bns = {}
      BY <1>2 DEF Tidy
    <3>2. r[i].files # {} /\ r[i].bns # {}
      BY <1>3
    <3> QED  BY <1>3, <3>1, <3>2
  <2>2. ASSUME NEW j \in DOMAIN r, r[j].name \notin Functions
        PROVE  r[j].files = {} \/ \E f \in Files : r[j].files = {f}
    <3>1. CASE j = i
      BY <1>1, <1>2, <1>3, <1>4, <2>2, <3>1
    <3>2. CASE j # i
      BY <1>2, <1>3, <2>2, <3>2 DEF Tidy
    <3> QED  BY <3>1, <3>2
  <2>3. \A j, n \in DOMAIN r : r[j].name = r[n].name /\ r[j].name \in Functions => j = n
    BY <1>2, <1>3 DEF Tidy
  <2> QED  BY <2>1, <2>2, <2>3 DEF Tidy
<1>6. ASSUME NEW q \in Programs PROVE Keeps(b, r, p, q)
  <2>1. \A x \in Records : Found(b, q, x) => Found(r, q, x)
    <3> SUFFICES ASSUME NEW x \in Records, Found(b, q, x) PROVE Found(r, q, x)
      OBVIOUS
    <3>1. PICK j \in DOMAIN b : b[j].name = x.name /\ x.file \in b[j].files /\ q \in b[j].bns
      BY DEF Found
    <3>2. r[j].name = x.name /\ x.file \in r[j].files /\ q \in r[j].bns
      <4>1. CASE j = i
        BY <1>3, <3>1, <4>1
      <4>2. CASE j # i
        BY <1>3, <3>1, <4>2
      <4> QED  BY <4>1, <4>2
    <3> QED  BY <1>3, <3>1, <3>2 DEF Found
  <2>2. ASSUME q # p, NEW named, Claimed(b, q, named) PROVE Claimed(r, q, named)
    <3>1. \A j \in DOMAIN r : q \in r[j].bns => q \in b[j].bns
      BY <1>3, <2>2
    <3>2. \A j \in DOMAIN r : r[j].name \notin Functions /\ q \in r[j].bns => r[j].files = b[j].files
      <4> SUFFICES ASSUME NEW j \in DOMAIN r, r[j].name \notin Functions, q \in r[j].bns
                   PROVE  r[j].files = b[j].files
        OBVIOUS
      <4>1. CASE j # i
        BY <1>3, <4>1
      <4>2. CASE j = i
        <5>1. q \in b[i].bns
          BY <1>3, <3>1, <4>2
        <5>2. b[i].files # {}
          BY <1>2, <5>1 DEF Tidy
        <5> QED  BY <1>2, <1>3, <1>4, <4>2, <5>2
      <4> QED  BY <4>1, <4>2
    <3> QED  BY <1>3, <2>2, <3>1, <3>2 DEF Claimed
  <2> QED  BY <2>1, <2>2 DEF Keeps
<1>7. Found(r, p, rec)
  BY <1>2, <1>3 DEF Found
<1>8. ASSUME ReadyNew(b, i, p, out, k) PROVE New(r, p, out, k)
  <2> SUFFICES ASSUME NEW j \in DOMAIN r, r[j].name \notin Functions, p \in r[j].bns
               PROVE  Given(r, j, out, k)
    BY DEF New
  <2>0. Len(out) \in Nat /\ k \in 1 .. k
    BY MapAssumption
  <2>1. CASE j = i
    <3>1. r[i].files = {rec.file} /\ rec.name \notin Functions
      BY <1>2, <1>3, <1>4, <2>1
    <3>2. First(r, i)
      <4> SUFFICES ASSUME NEW n \in 1 .. i - 1, r[n].name = r[i].name
                   PROVE  r[n].files # {} /\ r[n].files # r[i].files
        BY DEF First
      <4>1. n \in DOMAIN b /\ n # i /\ r[n] = b[n] /\ ~ Joins(b[n], rec) /\ b[n].name = rec.name
        BY <1>2, <1>3 DEF NoneJoins
      <4> QED  BY <1>1, <1>2, <3>1, <4>1, JoinsIs
    <3> QED  BY <1>2, <1>3, <2>0, <2>1, <3>1, <3>2 DEF Given, rec
  <2>2. CASE j # i
    <3>1. r[j] = b[j] /\ b[j].name # rec.name /\ Given(b, j, out, k - 1)
      BY <1>3, <1>8, <2>2 DEF ReadyNew, rec
    <3>2. First(r, j)
      <4> SUFFICES ASSUME NEW n \in 1 .. j - 1, r[n].name = r[j].name
                   PROVE  r[n].files # {} /\ r[n].files # r[j].files
        BY DEF First
      <4>1. n \in DOMAIN b /\ n # i
        BY <1>2, <1>3, <3>1
      <4> QED  BY <1>3, <3>1, <4>1 DEF Given, First
    <3>3. \E l \in 1 .. k : out[l].name = r[j].name /\ r[j].files = {out[l].file}
      BY <2>0, <3>1 DEF Given
    <3> QED  BY <3>2, <3>3 DEF Given
  <2> QED  BY <2>1, <2>2
<1> QED  BY <1>3, <1>5, <1>6, <1>7, <1>8 DEF r, rec

LEMMA OneMerged ==
  ASSUME NEW t \in Seq(Entry), Tidy(t), NEW p \in Programs, NEW out \in Outputs,
         NEW k \in 1 .. Len(out)
  PROVE  LET m == MergedOne(t, out[k], p) IN
         /\ m \in Seq(Entry) /\ Tidy(m)
         /\ \A q \in Programs : Keeps(t, m, p, q)
         /\ Found(m, p, out[k])
         /\ New(t, p, out, k - 1) => New(m, p, out, k)
<1> DEFINE rec == out[k]
           m == MergedOne(t, rec, p)
<1>1. out \in Seq(Records) /\ rec \in Records /\ Len(out) \in Nat
  BY MapAssumption
<1> HIDE DEF rec, m
<1>2. ASSUME NEW i \in DOMAIN t, Joins(t[i], rec), NoneJoins(t, rec, i - 1),
             m = Grown(t, i, rec, p)
      PROVE  /\ m \in Seq(Entry) /\ Tidy(m)
             /\ \A q \in Programs : Keeps(t, m, p, q)
             /\ Found(m, p, rec)
             /\ New(t, p, out, k - 1) => New(m, p, out, k)
  <2>1. Ready(t, i, p, out, k)
    BY <1>2 DEF Ready, rec
  <2>2. ASSUME New(t, p, out, k - 1) PROVE ReadyNew(t, i, p, out, k)
    <3> SUFFICES ASSUME NEW j \in DOMAIN t \ {i}, t[j].name \notin Functions, p \in t[j].bns,
                        t[j].name = rec.name
                 PROVE  FALSE
      BY <2>2 DEF ReadyNew, New, rec
    <3>1. PICK l \in 1 .. k - 1 : out[l].name = t[j].name /\ t[j].files = {out[l].file}
      BY <2>2 DEF New, Given
    <3>2. out[l].file = rec.file
      <4>1. l \in DOMAIN out /\ k \in DOMAIN out
        BY <1>1, <3>1
      <4> QED  BY <3>1, <4>1, MapAssumption DEF rec
    <3>3. Joins(t[j], rec)
      BY <1>1, <3>1, <3>2, JoinsIs
    <3>4. i \in 1 .. j - 1
      BY <1>2, <3>3 DEF NoneJoins
    <3>5. t[i].name = rec.name
      BY <1>2 DEF Joins
    <3>6. t[i].files = {} \/ t[i].files = {rec.file}
      BY <1>1, <1>2, <3>5, JoinsIs
    <3>7. First(t, j)
      BY <2>2 DEF New, Given
    <3> QED  BY <3>1, <3>2, <3>4, <3>5, <3>6, <3>7 DEF First
  <2>3. rec \in Records
    BY <1>1
  <2> QED  BY <1>2, <2>1, <2>2, <2>3, GrowKeeps DEF rec
<1>3. ASSUME NoneJoins(t, rec, Len(t)), m = Grown(Blank(t, rec), 1, rec, p)
      PROVE  /\ m \in Seq(Entry) /\ Tidy(m)
             /\ \A q \in Programs : Keeps(t, m, p, q)
             /\ Found(m, p, rec)
             /\ New(t, p, out, k - 1) => New(m, p, out, k)
  <2> DEFINE b == Blank(t, rec)
  <2>1. /\ Ready(b, 1, p, out, k)
        /\ \A q \in Programs : Keeps(t, b, p, q)
        /\ New(t, p, out, k - 1) => ReadyNew(b, 1, p, out, k)
    BY <1>1, <1>3, BlankReady DEF rec
  <2> HIDE DEF b
  <2>2. /\ m \in Seq(Entry) /\ Tidy(m)
        /\ \A q \in Programs : Keeps(b, m, p, q)
        /\ Found(m, p, rec)
        /\ ReadyNew(b, 1, p, out, k) => New(m, p, out, k)
    BY <1>1, <1>3, <2>1, GrowKeeps DEF rec, b
  <2>3. \A q \in Programs : Keeps(t, m, p, q)
    BY <2>1, <2>2 DEF Keeps
  <2> QED  BY <2>1, <2>2, <2>3
<1>4. \/ \E i \in DOMAIN t :
           /\ Joins(t[i], rec) /\ NoneJoins(t, rec, i - 1)
           /\ m = Grown(t, i, rec, p)
      \/ /\ NoneJoins(t, rec, Len(t))
         /\ m = Grown(Blank(t, rec), 1, rec, p)
  BY <1>1, MergedOneIs DEF m
<1> QED  BY <1>2, <1>3, <1>4 DEF m, rec

(***************************************************************************)
(* All records are merged.                                                 *)
(***************************************************************************)

LEMMA EntryExcept ==
  ASSUME NEW e \in Entry, NEW B
  PROVE  /\ [e EXCEPT !.bns = B] = [name |-> e.name, files |-> e.files, bns |-> B]
         /\ [e EXCEPT !.bns = {}, !.files = {}] = [name |-> e.name, files |-> {}, bns |-> {}]
<1>1. e = [name |-> e.name, files |-> e.files, bns |-> e.bns]
  BY DEF Entry
<1>2. [e EXCEPT !.bns = B] = [name |-> e.name, files |-> e.files, bns |-> B]
  BY <1>1
<1>3. [e EXCEPT !.bns = {}] = [name |-> e.name, files |-> e.files, bns |-> {}]
  BY <1>1
<1>4. \A n, f, x : [[name |-> n, files |-> f, bns |-> x] EXCEPT !.files = {}]
                    = [name |-> n, files |-> {}, bns |-> x]
  OBVIOUS
<1>5. [[e EXCEPT !.bns = {}] EXCEPT !.files = {}] = [name |-> e.name, files |-> {}, bns |-> {}]
  <2> DEFINE c == [name |-> e.name, files |-> e.files, bns |-> {}]
  <2>1. [e EXCEPT !.bns = {}] = c /\ [c EXCEPT !.files = {}] = [name |-> e.name, files |-> {}, bns |-> {}]
    BY <1>3, <1>4
  <2> HIDE DEF c
  <2> QED  BY Zenon, <2>1
<1>6. [e EXCEPT !.bns = {}, !.files = {}] = [[e EXCEPT !.bns = {}] EXCEPT !.files = {}]
  OBVIOUS
<1> QED  BY <1>2, <1>5, <1>6

LEMMA OldGoes ==
  ASSUME NEW b \in Seq(Entry), Tidy(b), NEW p \in Programs, NEW out \in Outputs
  PROVE  LET w == WithoutOld(b, p, Named(out)) IN
         /\ w \in Seq(Entry) /\ Tidy(w)
         /\ \A q \in Programs \ {p} : Keeps(b, w, p, q)
         /\ (\E S \in SUBSET Named(out) : Claimed(b, p, S)) => New(w, p, out, 0)
<1> DEFINE named == Named(out)
           w == WithoutOld(b, p, named)
           Old(e) == p \in e.bns /\ Cardinality(e.files) = 1 /\ e.files \subseteq named
<1>1. DOMAIN w = DOMAIN b /\ DOMAIN b = 1 .. Len(b) /\ Len(b) \in Nat
  BY DEF WithoutOld
<1>2. \A i \in DOMAIN b : b[i] \in Entry
  OBVIOUS
<1>3. ASSUME NEW i \in DOMAIN b
      PROVE  /\ w[i] \in Entry /\ w[i].name = b[i].name
             /\ ~ Old(b[i]) => w[i] = b[i]
             /\ Old(b[i]) /\ b[i].bns = {p} => w[i].files = {} /\ w[i].bns = {}
             /\ Old(b[i]) /\ b[i].bns # {p} => w[i].files = b[i].files /\ w[i].bns = b[i].bns \ {p}
  <2>1. w[i] = IF ~ Old(b[i]) THEN b[i]
               ELSE IF b[i].bns = {p} THEN [b[i] EXCEPT !.bns = {}, !.files = {}]
               ELSE [b[i] EXCEPT !.bns = @ \ {p}]
    BY DEF WithoutOld
  <2>3. [b[i] EXCEPT !.bns = {}, !.files = {}] = [name |-> b[i].name, files |-> {}, bns |-> {}]
    BY <1>2, EntryExcept
  <2>4. [b[i] EXCEPT !.bns = @ \ {p}]
          = [name |-> b[i].name, files |-> b[i].files, bns |-> b[i].bns \ {p}]
    BY <1>2, EntryExcept
  <2>5. /\ [name |-> b[i].name, files |-> {}, bns |-> {}] \in Entry
        /\ [name |-> b[i].name, files |-> b[i].files, bns |-> b[i].bns \ {p}] \in Entry
    BY <1>2 DEF Entry
  <2> HIDE DEF w, Old
  <2>6. CASE ~ Old(b[i])
    BY <1>2, <2>1, <2>6
  <2>7. CASE Old(b[i]) /\ b[i].bns = {p}
    BY <2>1, <2>3, <2>5, <2>7
  <2>8. CASE Old(b[i]) /\ b[i].bns # {p}
    BY <2>1, <2>4, <2>5, <2>8
  <2> QED  BY <2>6, <2>7, <2>8
<1>4. w \in Seq(Entry)
  <2>1. w = [i \in 1 .. Len(b) |-> w[i]]
    BY DEF WithoutOld
  <2> HIDE DEF w
  <2> QED  BY <1>1, <1>3, <2>1
<1>5. \A i \in DOMAIN b : Old(b[i]) => p \in b[i].bns
  OBVIOUS
<1>6. ASSUME NEW i \in DOMAIN b, b[i].name \notin Functions, p \in b[i].bns,
             b[i].files \subseteq named
      PROVE  Old(b[i])
  <2>1. PICK f : b[i].files = {f}
    BY <1>6 DEF Tidy
  <2>2. Cardinality({f}) = 1
    BY FS_Singleton
  <2> QED  BY <1>6, <2>1, <2>2
<1> HIDE DEF Old, w
<1>7. Tidy(w)
  <2>1. ASSUME NEW i \in DOMAIN b PROVE w[i].files = {} <=> w[i].bns = {}
    <3>1. b[i].files = {} <=> b[i].bns = {}
      BY DEF Tidy
    <3>2. CASE ~ Old(b[i])
      BY <1>3, <3>1, <3>2
    <3>3. CASE Old(b[i]) /\ b[i].bns = {p}
      BY <1>3, <3>3
    <3>4. CASE Old(b[i]) /\ b[i].bns # {p}
      BY <1>3, <1>5, <3>1, <3>4
    <3> QED  BY <3>2, <3>3, <3>4
  <2>2. ASSUME NEW i \in DOMAIN b, w[i].name \notin Functions
        PROVE  w[i].files = {} \/ \E f \in Files : w[i].files = {f}
    <3>1. b[i].files = {} \/ \E f \in Files : b[i].files = {f}
      BY <1>3, <2>2 DEF Tidy
    <3>2. w[i].files = {} \/ w[i].files = b[i].files
      BY <1>3
    <3> QED  BY <3>1, <3>2
  <2>3. \A i, j \in DOMAIN w : w[i].name = w[j].name /\ w[i].name \in Functions => i = j
    BY <1>1, <1>3 DEF Tidy
  <2> QED  BY <1>1, <2>1, <2>2, <2>3 DEF Tidy
<1>8. ASSUME NEW q \in Programs \ {p} PROVE Keeps(b, w, p, q)
  <2>1. \A i \in DOMAIN b : q \in b[i].bns => q \in w[i].bns /\ w[i].files = b[i].files
    BY <1>3
  <2>2. \A i \in DOMAIN b : q \in w[i].bns => q \in b[i].bns
    BY <1>3
  <2>3. \A i \in DOMAIN b : w[i].name = b[i].name
    BY <1>3
  <2>4. \A rec \in Records : Found(b, q, rec) => Found(w, q, rec)
    BY <1>1, <2>1, <2>3 DEF Found
  <2>5. \A n : Claimed(b, q, n) => Claimed(w, q, n)
    BY <1>1, <2>1, <2>2, <2>3 DEF Claimed
  <2> QED  BY <2>4, <2>5 DEF Keeps
<1>9. ASSUME NEW S \in SUBSET named, Claimed(b, p, S) PROVE New(w, p, out, 0)
  <2> SUFFICES ASSUME NEW i \in DOMAIN b, w[i].name \notin Functions, p \in w[i].bns
               PROVE  FALSE
    BY <1>1 DEF New
  <2>1. p \in b[i].bns /\ b[i].name \notin Functions
    BY <1>3
  <2>2. Old(b[i])
    BY <1>6, <1>9, <2>1 DEF Claimed
  <2> QED  BY <1>3, <2>2
<1> QED  BY <1>4, <1>7, <1>8, <1>9 DEF w

\* The first k records of out are merged: b has become t.
Progress(b, p, out, k, t) ==
  /\ t \in Seq(Entry) /\ Tidy(t)
  /\ \A q \in Programs \ {p} : Keeps(b, t, p, q)
  /\ \A j \in 1 .. k : Found(t, p, out[j])
  /\ (\E S \in SUBSET Named(out) : Claimed(b, p, S)) => New(t, p, out, k)

LEMMA AllMerged ==
  ASSUME NEW b \in Seq(Entry), Tidy(b), NEW p \in Programs, NEW out \in Outputs
  PROVE  Progress(b, p, out, Len(out), Merged(b, p, out))
<1> DEFINE m == MergeFold(b, p, out)
           T == {k \in 0 .. Len(out) : Progress(b, p, out, k, m[k])}
<1>1. out \in Seq(Records) /\ Len(out) \in Nat
  BY MapAssumption
<1>2. /\ m[0] = WithoutOld(b, p, Named(out))
      /\ \A k \in 1 .. Len(out) : m[k] = MergedOne(m[k - 1], out[k], p)
      /\ Merged(b, p, out) = m[Len(out)]
  BY <1>1, MergeFoldIs
<1> HIDE DEF m
<1>3. 0 \in T
  <2>1. 0 \in 0 .. Len(out) /\ \A j : ~ (j \in 1 .. 0)
    BY <1>1
  <2> QED  BY <1>2, <2>1, OldGoes DEF Progress
<1>4. ASSUME NEW k \in 1 .. Len(out), k - 1 \in T PROVE k \in T
  <2>1. Progress(b, p, out, k - 1, m[k - 1])
    BY <1>4
  <2>2. /\ m[k] \in Seq(Entry) /\ Tidy(m[k])
        /\ \A q \in Programs : Keeps(m[k - 1], m[k], p, q)
        /\ Found(m[k], p, out[k])
        /\ New(m[k - 1], p, out, k - 1) => New(m[k], p, out, k)
    BY <1>2, <2>1, OneMerged DEF Progress
  <2>3. \A q \in Programs \ {p} : Keeps(b, m[k], p, q)
    BY <2>1, <2>2 DEF Progress, Keeps
  <2>4. ASSUME NEW j \in 1 .. k PROVE Found(m[k], p, out[j])
    <3>1. CASE j = k
      BY <2>2, <3>1
    <3>2. CASE j # k
      <4>1. j \in 1 .. k - 1 /\ out[j] \in Records
        BY <1>1, <3>2
      <4> QED  BY <2>1, <2>2, <4>1 DEF Progress, Keeps
    <3> QED  BY <3>1, <3>2
  <2>5. Progress(b, p, out, k, m[k])
    BY <2>1, <2>2, <2>3, <2>4 DEF Progress
  <2>6. k \in 0 .. Len(out)
    OBVIOUS
  <2> QED  BY <2>5, <2>6
<1>5. T = 0 .. Len(out)
  <2>1. T \in SUBSET (0 .. Len(out))
    OBVIOUS
  <2> HIDE DEF T
  <2> QED  BY <1>1, <1>3, <1>4, <2>1, UpTo
<1>6. Len(out) \in T
  BY <1>1, <1>5
<1> QED  BY <1>2, <1>6

(* What is new is claimed.                                                 *)
LEMMA NewClaimed ==
  ASSUME NEW t \in Seq(Entry), NEW p \in Programs, NEW out \in Outputs, New(t, p, out, Len(out))
  PROVE  Claimed(t, p, Named(out))
<1>1. out \in Seq(Records) /\ Len(out) \in Nat /\ DOMAIN out = 1 .. Len(out)
  BY MapAssumption
<1>2. ASSUME NEW i \in DOMAIN t, NEW j \in DOMAIN t, t[i].name = t[j].name,
             t[i].name \notin Functions, p \in t[i].bns, p \in t[j].bns, i < j
      PROVE  FALSE
  <2>1. Given(t, i, out, Len(out)) /\ Given(t, j, out, Len(out))
    BY <1>2 DEF New
  <2>2. PICK k \in DOMAIN out : out[k].name = t[i].name /\ t[i].files = {out[k].file}
    BY <1>1, <2>1 DEF Given
  <2>3. PICK l \in DOMAIN out : out[l].name = t[j].name /\ t[j].files = {out[l].file}
    BY <1>1, <2>1 DEF Given
  <2>4. out[k].file = out[l].file
    BY <1>2, <2>2, <2>3, MapAssumption
  <2>5. i \in 1 .. j - 1
    BY <1>2
  <2> QED  BY <1>2, <2>1, <2>2, <2>3, <2>4, <2>5 DEF Given, First
<1>3. ASSUME NEW i \in DOMAIN t, t[i].name \notin Functions, p \in t[i].bns
      PROVE  t[i].files \subseteq Named(out)
  <2>1. PICK k \in DOMAIN out : t[i].files = {out[k].file}
    BY <1>1, <1>3 DEF New, Given
  <2> QED  BY <2>1 DEF Named
<1>4. \A i, j \in DOMAIN t : i < j \/ j < i \/ i = j
  OBVIOUS
<1> QED  BY <1>2, <1>3, <1>4 DEF Claimed

(***************************************************************************)
(* What is read and what is written: a sequence in another order, and one  *)
(* without the entries that have no files.                                 *)
(***************************************************************************)

\* u has each entry of t once, but for some without files.
Picks(t, u, g) ==
  /\ g \in [DOMAIN u -> DOMAIN t]
  /\ \A k, l \in DOMAIN u : g[k] = g[l] => k = l
  /\ \A k \in DOMAIN u : u[k] = t[g[k]]
  /\ \A i \in DOMAIN t : t[i].files # {} => \E k \in DOMAIN u : g[k] = i

LEMMA PicksKeep ==
  ASSUME NEW t, NEW u, NEW g, Picks(t, u, g)
  PROVE  /\ Tidy(t) => Tidy(u)
         /\ \A q, named : Claimed(t, q, named) => Claimed(u, q, named)
         /\ \A q, rec : Found(t, q, rec) => Found(u, q, rec)
<1>1. /\ \A k \in DOMAIN u : g[k] \in DOMAIN t /\ u[k] = t[g[k]]
      /\ \A k, l \in DOMAIN u : g[k] = g[l] => k = l
  BY DEF Picks
<1>2. ASSUME Tidy(t) PROVE Tidy(u)
  <2>1. \A k \in DOMAIN u : u[k].files = {} <=> u[k].bns = {}
    BY <1>1, <1>2 DEF Tidy
  <2>2. \A k \in DOMAIN u : u[k].name \notin Functions =>
          u[k].files = {} \/ \E f \in Files : u[k].files = {f}
    BY <1>1, <1>2 DEF Tidy
  <2>3. \A k, l \in DOMAIN u : u[k].name = u[l].name /\ u[k].name \in Functions => k = l
    BY <1>1, <1>2 DEF Tidy
  <2> QED  BY <2>1, <2>2, <2>3 DEF Tidy
<1>3. ASSUME NEW q, NEW named, Claimed(t, q, named) PROVE Claimed(u, q, named)
  BY <1>1, <1>3 DEF Claimed
<1>4. ASSUME NEW q, NEW rec, Found(t, q, rec) PROVE Found(u, q, rec)
  <2>1. PICK i \in DOMAIN t : t[i].name = rec.name /\ rec.file \in t[i].files /\ q \in t[i].bns
    BY <1>4 DEF Found
  <2>2. PICK k \in DOMAIN u : g[k] = i
    BY <2>1 DEF Picks
  <2> QED  BY <1>1, <2>1, <2>2 DEF Found
<1> QED  BY <1>2, <1>3, <1>4

LEMMA ReversePicks ==
  ASSUME NEW t \in Seq(Entry)
  PROVE  Reverse(t) \in Seq(Entry) /\ \E g : Picks(t, Reverse(t), g)
<1> DEFINE n == Len(t)
           u == Reverse(t)
           g == [k \in 1 .. n |-> (n - k) + 1]
<1>1. n \in Nat /\ DOMAIN t = 1 .. n
  OBVIOUS
<1>2. u = [k \in 1 .. n |-> t[(n - k) + 1]]
  BY DEF Reverse
<1>3. \A k \in 1 .. n : (n - k) + 1 \in 1 .. n /\ t[(n - k) + 1] \in Entry
  BY <1>1
<1>4. u \in Seq(Entry) /\ DOMAIN u = 1 .. n
  <2> HIDE DEF u, n
  <2> QED  BY <1>1, <1>2, <1>3
<1> HIDE DEF n, u
<1>5. Picks(t, u, g)
  <2>1. g \in [DOMAIN u -> DOMAIN t]
    BY <1>1, <1>3, <1>4
  <2>2. \A k, l \in DOMAIN u : g[k] = g[l] => k = l
    BY <1>1, <1>4
  <2>3. \A k \in DOMAIN u : u[k] = t[g[k]]
    BY <1>2, <1>4
  <2>4. ASSUME NEW i \in DOMAIN t PROVE \E k \in DOMAIN u : g[k] = i
    <3>1. (n - i) + 1 \in DOMAIN u /\ g[(n - i) + 1] = i
      BY <1>1, <1>4
    <3> QED  BY <3>1
  <2> HIDE DEF g
  <2> QED  BY <2>1, <2>2, <2>3, <2>4 DEF Picks
<1> QED  BY <1>4, <1>5 DEF u

KeptFold(t) ==
  CHOOSE m : m = [k \in 0 .. Len(t) |->
    IF k = 0 THEN <<>>
    ELSE IF t[k].files = {} THEN m[k - 1] ELSE Append(m[k - 1], t[k])]

LEMMA KeptFoldIs ==
  ASSUME NEW t, Len(t) \in Nat
  PROVE  /\ KeptFold(t)[0] = <<>>
         /\ \A k \in 1 .. Len(t) :
              KeptFold(t)[k] = IF t[k].files = {} THEN KeptFold(t)[k - 1]
                               ELSE Append(KeptFold(t)[k - 1], t[k])
         /\ Kept(t) = KeptFold(t)[Len(t)]
<1> DEFINE G(s, k) == IF t[k].files = {} THEN s ELSE Append(s, t[k])
           F(m, k) == IF k = 0 THEN <<>> ELSE G(m[k - 1], k)
           Is(m, n) == m = [k \in 0 .. n |-> F(m, k)]
           T == {n \in 0 .. Len(t) : \E m : Is(m, n)}
<1> HIDE DEF G
<1>1. 0 \in T
  <2> DEFINE m == [k \in 0 .. 0 |-> <<>>]
  <2>1. Is(m, 0)
    OBVIOUS
  <2>2. 0 \in 0 .. Len(t)
    OBVIOUS
  <2> HIDE DEF m, Is
  <2> QED  BY <2>1, <2>2
<1>2. ASSUME NEW n \in 1 .. Len(t), n - 1 \in T PROVE n \in T
  <2>1. PICK m : Is(m, n - 1)
    BY <1>2
  <2> DEFINE l == [k \in 0 .. n |-> IF k = n THEN G(m[n - 1], n) ELSE m[k]]
  <2>2. \A k \in 0 .. (n - 1) : m[k] = F(m, k)
    BY <2>1
  <2>3. \A k \in 0 .. n : l[k] = F(l, k)
    <3> SUFFICES ASSUME NEW k \in 0 .. n PROVE l[k] = F(l, k)
      OBVIOUS
    <3>1. CASE k = 0
      BY <2>2, <3>1
    <3>2. CASE k = n
      <4>1. n # 0 /\ n - 1 \in 0 .. n /\ n - 1 # n
        OBVIOUS
      <4>2. l[n - 1] = m[n - 1]
        BY <4>1
      <4> QED  BY <3>2, <4>1, <4>2
    <3>3. CASE k # 0 /\ k # n
      <4>1. k \in 0 .. (n - 1) /\ k - 1 \in 0 .. n /\ k - 1 # n
        BY <3>3
      <4>2. l[k] = m[k] /\ l[k - 1] = m[k - 1]
        BY <3>3, <4>1
      <4> QED  BY <2>2, <3>3, <4>1, <4>2
    <3> QED  BY <3>1, <3>2, <3>3
  <2>4. Is(l, n)
    <3> HIDE DEF F
    <3> QED  BY <2>3
  <2> HIDE DEF l, Is
  <2> QED  BY <2>4
<1>3. T = 0 .. Len(t)
  <2> HIDE DEF T
  <2>1. T \in SUBSET (0 .. Len(t))
    BY DEF T
  <2> QED  BY <1>1, <1>2, <2>1, UpTo
<1>4. Is(KeptFold(t), Len(t))
  <2>1. PICK m : Is(m, Len(t))
    BY <1>3
  <2> QED  BY <2>1 DEF KeptFold, G
<1>5. Kept(t) = KeptFold(t)[Len(t)]
  BY DEF Kept, KeptFold
<1>6. \A k \in 0 .. Len(t) : KeptFold(t)[k] = F(KeptFold(t), k)
  BY <1>4
<1>7. 0 \in 0 .. Len(t) /\ \A k \in 1 .. Len(t) : k \in 0 .. Len(t) /\ k # 0
  OBVIOUS
<1> QED  BY <1>5, <1>6, <1>7 DEF G

\* u has the entries among the first n of t that have files.
PicksUpTo(t, u, n, g) ==
  /\ u \in Seq(Entry)
  /\ g \in [1 .. Len(u) -> 1 .. n]
  /\ \A k, l \in 1 .. Len(u) : g[k] = g[l] => k = l
  /\ \A k \in 1 .. Len(u) : u[k] = t[g[k]] /\ u[k].files # {}
  /\ \A i \in 1 .. n : t[i].files # {} => \E k \in 1 .. Len(u) : g[k] = i

LEMMA KeptPicks ==
  ASSUME NEW t \in Seq(Entry)
  PROVE  /\ Kept(t) \in Seq(Entry)
         /\ \A k \in DOMAIN Kept(t) : Kept(t)[k].files # {}
         /\ \E g : Picks(t, Kept(t), g)
<1> DEFINE m == KeptFold(t)
           T == {n \in 0 .. Len(t) : \E g : PicksUpTo(t, m[n], n, g)}
<1>1. Len(t) \in Nat /\ DOMAIN t = 1 .. Len(t)
  OBVIOUS
<1>2. /\ m[0] = <<>>
      /\ \A k \in 1 .. Len(t) :
           m[k] = IF t[k].files = {} THEN m[k - 1] ELSE Append(m[k - 1], t[k])
      /\ Kept(t) = m[Len(t)]
  BY <1>1, KeptFoldIs
<1> HIDE DEF m
<1>3. 0 \in T
  <2>1. PicksUpTo(t, <<>>, 0, [k \in 1 .. 0 |-> 0])
    BY DEF PicksUpTo
  <2>2. 0 \in 0 .. Len(t)
    BY <1>1
  <2> QED  BY <1>2, <2>1, <2>2
<1>4. ASSUME NEW n \in 1 .. Len(t), n - 1 \in T PROVE n \in T
  <2>1. PICK g : PicksUpTo(t, m[n - 1], n - 1, g)
    BY <1>4
  <2> DEFINE u == m[n - 1]
             z == Len(u)
  <2>2. /\ u \in Seq(Entry) /\ z \in Nat
        /\ g \in [1 .. z -> 1 .. n - 1]
        /\ \A k, l \in 1 .. z : g[k] = g[l] => k = l
        /\ \A k \in 1 .. z : u[k] = t[g[k]] /\ u[k].files # {}
        /\ \A i \in 1 .. n - 1 : t[i].files # {} => \E k \in 1 .. z : g[k] = i
    BY <2>1 DEF PicksUpTo
  <2>3. n \in 0 .. Len(t) /\ t[n] \in Entry /\ n \in 1 .. n /\ n \notin 1 .. n - 1
        /\ \A i \in 1 .. n : i = n \/ i \in 1 .. n - 1
    BY <1>1
  <2> HIDE DEF u, z
  <2>4. CASE t[n].files = {}
    <3>1. m[n] = u
      BY <1>2, <2>4 DEF u
    <3>2. g \in [1 .. z -> 1 .. n]
      BY <2>2
    <3>3. \A i \in 1 .. n : t[i].files # {} => \E k \in 1 .. z : g[k] = i
      BY <2>2, <2>3, <2>4
    <3>4. PicksUpTo(t, u, n, g)
      BY <2>2, <3>2, <3>3 DEF PicksUpTo, z
    <3> QED  BY <2>3, <3>1, <3>4
  <2>5. CASE t[n].files # {}
    <3> DEFINE v == Append(u, t[n])
               h == [k \in 1 .. z + 1 |-> IF k = z + 1 THEN n ELSE g[k]]
    <3>1. m[n] = v
      BY <1>2, <2>5 DEF u
    <3>2. /\ v \in Seq(Entry) /\ Len(v) = z + 1 /\ v[z + 1] = t[n]
          /\ \A k \in 1 .. z : v[k] = u[k]
      BY <2>2, <2>3, AppendProperties DEF z
    <3>3. /\ \A k \in 1 .. z + 1 : k = z + 1 \/ k \in 1 .. z
          /\ \A k \in 1 .. z : k \in 1 .. z + 1 /\ k # z + 1
          /\ z + 1 \in 1 .. z + 1
      BY <2>2
    <3>4. h[z + 1] = n /\ \A k \in 1 .. z : h[k] = g[k]
      BY <3>3
    <3>5. \A k \in 1 .. z : g[k] \in 1 .. n - 1 /\ g[k] \in 1 .. n
      BY <2>2
    <3>6. h \in [1 .. z + 1 -> 1 .. n]
      BY <2>3, <3>3, <3>5
    <3> HIDE DEF v, h
    <3>7. ASSUME NEW k \in 1 .. z + 1, NEW l \in 1 .. z + 1, h[k] = h[l] PROVE k = l
      <4>1. CASE k \in 1 .. z /\ l \in 1 .. z
        BY <2>2, <3>4, <3>7, <4>1
      <4>2. \A x \in 1 .. z : h[x] # n
        BY <2>3, <3>4, <3>5
      <4> QED  BY <3>3, <3>4, <3>7, <4>1, <4>2
    <3>8. \A k \in 1 .. z + 1 : v[k] = t[h[k]] /\ v[k].files # {}
      BY <2>2, <2>5, <3>2, <3>3, <3>4
    <3>9. \A i \in 1 .. n : t[i].files # {} => \E k \in 1 .. z + 1 : h[k] = i
      BY <2>2, <2>3, <3>3, <3>4
    <3>10. PicksUpTo(t, v, n, h)
      BY <3>2, <3>6, <3>7, <3>8, <3>9 DEF PicksUpTo
    <3> QED  BY <2>3, <3>1, <3>10
  <2> QED  BY <2>4, <2>5
<1>5. T = 0 .. Len(t)
  <2>1. T \in SUBSET (0 .. Len(t))
    OBVIOUS
  <2> HIDE DEF T
  <2> QED  BY <1>1, <1>3, <1>4, <2>1, UpTo
<1>6. PICK g : PicksUpTo(t, Kept(t), Len(t), g)
  <2>1. Len(t) \in T
    BY <1>1, <1>5
  <2> QED  BY <1>2, <2>1
<1>7. Kept(t) \in Seq(Entry) /\ DOMAIN Kept(t) = 1 .. Len(Kept(t))
  BY <1>6 DEF PicksUpTo
<1>8. Picks(t, Kept(t), g)
  <2> DEFINE u == Kept(t)
  <2> HIDE DEF u
  <2>1. PicksUpTo(t, u, Len(t), g) /\ DOMAIN u = 1 .. Len(u)
    BY <1>6, <1>7 DEF u
  <2>2. Picks(t, u, g)
    BY <1>1, <2>1 DEF Picks, PicksUpTo
  <2> QED  BY <2>2 DEF u
<1> QED  BY <1>6, <1>7, <1>8 DEF PicksUpTo

(***************************************************************************)
(* What the steps have in common.                                          *)
(***************************************************************************)

LEMMA FileFacts ==
  /\ <<>> \in Seq(Entry) /\ Nothing # Torn
  /\ Nothing \notin Seq(Entry) /\ Torn \notin Seq(Entry)
  /\ Entries(Nothing) = {} /\ Entries(Torn) = {} /\ Entries(<<>>) = {}
  /\ \A f \in Seq(Entry) : \A q, rec : FoundIn(Entries(f), q, rec) <=> Found(f, q, rec)
  /\ \A q, rec : ~ FoundIn({}, q, rec)
<1>1. <<>> \in Seq(Entry) /\ Nothing # Torn /\ Nothing \notin Seq(Entry) /\ Torn \notin Seq(Entry)
  BY MapAssumption
<1>2. Entries(Nothing) = {} /\ Entries(Torn) = {}
  BY DEF Entries
<1>3. \A f \in Seq(Entry) : Entries(f) = {f[i] : i \in DOMAIN f}
  BY <1>1 DEF Entries, Range
<1>4. Entries(<<>>) = {}
  <2>1. \A f : DOMAIN f = {} => {f[i] : i \in DOMAIN f} = {}
    OBVIOUS
  <2>2. DOMAIN <<>> = {}
    OBVIOUS
  <2> QED  BY <1>1, <1>3, <2>1, <2>2
<1>5. \A f \in Seq(Entry) : \A q, rec : FoundIn(Entries(f), q, rec) <=> Found(f, q, rec)
  BY <1>3 DEF FoundIn, Found
<1> QED  BY <1>1, <1>2, <1>4, <1>5 DEF FoundIn

LEMMA MoreFound ==
  ASSUME NEW es, NEW more, AllFoundIn(es), es \subseteq more
  PROVE  AllFoundIn(more)
BY DEF AllFoundIn, FoundIn

Jobs == [step : Steps, out : Seq(Records), table : Seq(Entry)]

LEMMA SaidRecords ==
  ASSUME NEW out \in Outputs
  PROVE  /\ out # Nothing /\ out \in Seq(Records) /\ DOMAIN out = 1 .. Len(out)
         /\ \A k \in DOMAIN out : out[k] \in Records
<1>1. out # Nothing /\ out \in Seq(Records)
  BY MapAssumption
<1> QED  BY <1>1

\* Program p goes to the step, and the others stay where they are.
Moves(p, step) ==
  /\ job' \in [Programs -> Jobs]
  /\ job'[p].step = step
  /\ \A q \in Programs \ {p} : job'[q] = job[q]

LEMMA ToMoves ==
  ASSUME MapTyped, NEW p \in Programs, NEW step \in Steps, To(p, step)
  PROVE  Moves(p, step) /\ job'[p].out = job[p].out /\ job'[p].table = job[p].table
<1>1. job \in [Programs -> Jobs]
  BY DEF MapTyped, Jobs
<1>2. job' = [job EXCEPT ![p] = [job[p] EXCEPT !.step = step]]
  BY DEF To
<1>3. job[p] \in Jobs
  BY <1>1
<1>4. [job[p] EXCEPT !.step = step] = [step |-> step, out |-> job[p].out, table |-> job[p].table]
  BY <1>3 DEF Jobs
<1>5. [step |-> step, out |-> job[p].out, table |-> job[p].table] \in Jobs
  BY <1>3 DEF Jobs
<1>6. job' \in [Programs -> Jobs] /\ job'[p] = [step |-> step, out |-> job[p].out, table |-> job[p].table]
      /\ \A q \in Programs \ {p} : job'[q] = job[q]
  BY <1>1, <1>2, <1>4, <1>5
<1> QED  BY <1>6 DEF Moves

LEMMA SetMoves ==
  ASSUME MapTyped, NEW p \in Programs, NEW j \in Jobs, job' = [job EXCEPT ![p] = j]
  PROVE  Moves(p, j.step) /\ job'[p] = j
<1>1. job \in [Programs -> Jobs]
  BY DEF MapTyped, Jobs
<1> QED  BY <1>1 DEF Moves

LEMMA RestingIs == Resting \in Jobs /\ Resting.step = "none"
BY DEF Resting, Jobs, Steps

LEMMA Solitary ==
  ASSUME OneHolder, NEW p \in Programs, holder = p
  PROVE  \A q \in Programs \ {p} : job[q].step \in {"none", "lock"}
BY DEF OneHolder

(* A step that leaves files and history alone and ends before the merge.   *)
LEMMA Quiet ==
  ASSUME MapInv, NEW p \in Programs, NEW step \in {"none", "lock", "merge"}, Moves(p, step),
         step # "none" => job'[p].out \in Outputs,
         job[p].step \notin {"open", "write"},
         holder' \in Programs \cup {Nothing}, OneHolder', UNCHANGED <<mapFiles, history>>
  PROVE  MapInv'
<1>1. UNCHANGED <<defmap, backup, last, forgot, strike>>
  BY DEF mapFiles, history
<1>2. /\ job' \in [Programs -> Jobs] /\ job'[p].step = step
      /\ \A q \in Programs \ {p} : job'[q] = job[q]
  BY DEF Moves
<1>3. MapTyped'
  <2>1. \A q \in Programs : job'[q].step # "none" => job'[q].out \in Outputs
    BY <1>2 DEF MapInv, MapTyped
  <2> QED  BY <1>1, <1>2, <2>1 DEF MapInv, MapTyped, Jobs
<1>4. FilesTidy'
  BY <1>1 DEF MapInv, FilesTidy, Readable, Said
<1>5. DiskFits'
  BY <1>1, <1>2 DEF MapInv, DiskFits
<1>6. TablesFit'
  <2> SUFFICES ASSUME NEW q \in Programs, Merging(q)'
               PROVE  (/\ Tidy(job[q].table)
                       /\ \A k \in DOMAIN job[q].out : Found(job[q].table, q, job[q].out[k])
                       /\ strike = "no" =>
                            \A x \in Programs \ {q} : last[x] # Nothing =>
                              \A k \in DOMAIN last[x] : Found(job[q].table, x, last[x][k])
                       /\ \A x \in Programs \ (forgot \cup {q}) : Claimed(job[q].table, x, Said(x))
                       /\ q \notin forgot /\ Said(q) \subseteq Named(job[q].out)
                          => Claimed(job[q].table, q, Named(job[q].out)))'
    BY DEF TablesFit
  <2>1. q # p /\ job'[q] = job[q] /\ Merging(q)
    BY <1>2 DEF Merging
  <2> QED  BY <1>1, <2>1 DEF MapInv, TablesFit, Said
<1>7. MapWhole'
  BY <1>1, <1>2 DEF MapInv, MapWhole, AllFoundIn
<1>8. BackupHolds'
  BY <1>1 DEF MapInv, BackupHolds, AllFoundIn
<1> QED  BY <1>3, <1>4, <1>5, <1>6, <1>7, <1>8 DEF MapInv

LEMMA CompileSaysInv ==
  ASSUME MapInv, NEW p \in Programs, NEW out \in Outputs, CompileSays(p, out)
  PROVE  MapInv'
<1> DEFINE j == [step |-> "lock", out |-> out, table |-> <<>>]
<1>1. j \in Jobs
  BY SaidRecords DEF Jobs, Steps
<1>2. Moves(p, "lock") /\ job'[p] = j
  BY <1>1, SetMoves DEF CompileSays, MapInv
<1>3. OneHolder'
  BY <1>2 DEF CompileSays, MapInv, OneHolder, Moves
<1> QED  BY <1>2, <1>3, Quiet DEF CompileSays, MapInv, MapTyped

LEMMA LockMapInv ==
  ASSUME MapInv, NEW p \in Programs, LockMap(p)
  PROVE  MapInv'
<1>1. Moves(p, "merge") /\ job'[p].out = job[p].out
  BY ToMoves DEF LockMap, MapInv, Steps
<1>2. OneHolder'
  <2>1. \A q \in Programs : job[q].step \in {"none", "lock"}
    BY MapAssumption DEF LockMap, MapInv, OneHolder
  <2> QED  BY <1>1, <2>1 DEF LockMap, OneHolder, Moves
<1> QED  BY <1>1, <1>2, Quiet DEF LockMap, MapInv, MapTyped

\* Program p gives up or is done.
LEMMA RestInv ==
  ASSUME MapInv, NEW p \in Programs, job' = [job EXCEPT ![p] = Resting],
         job[p].step \notin {"open", "write"},
         holder' = Released(p), UNCHANGED <<mapFiles, history>>
  PROVE  MapInv'
<1>1. Moves(p, "none")
  BY RestingIs, SetMoves DEF MapInv
<1>2. holder' \in Programs \cup {Nothing}
  BY DEF Released, MapInv, MapTyped
<1>3. OneHolder'
  BY <1>1 DEF Moves, Released, MapInv, OneHolder
<1> QED  BY <1>1, <1>2, <1>3, Quiet

LEMMA MergeInv ==
  ASSUME MapInv, NEW p \in Programs, Merge(p)
  PROVE  MapInv'
<1>1. job[p].step = "merge" /\ holder = p /\ UNCHANGED <<mapFiles, history>>
  BY DEF Merge, MapInv, OneHolder
<1>2. CASE defmap = Torn
  <2>1. job' = [job EXCEPT ![p] = Resting] /\ holder' = Released(p)
    BY <1>1, <1>2 DEF Merge, Released
  <2> QED  BY <1>1, <2>1, RestInv
<1>3. CASE defmap # Torn
  <2> DEFINE out == job[p].out
             b == IF defmap = Nothing THEN <<>> ELSE Reverse(defmap)
             t == Merged(b, p, out)
             s == IF defmap = Nothing THEN "open" ELSE "drop"
             j == [step |-> s, out |-> out, table |-> t]
  <2>1. job \in [Programs -> Jobs] /\ job[p] \in Jobs /\ out \in Outputs
    BY <1>1 DEF MapInv, MapTyped, Jobs
  <2>2. UNCHANGED <<defmap, backup, last, forgot, strike, holder>>
    BY <1>1, <1>3 DEF Merge, mapFiles, history
  <2>3. defmap = Nothing \/ defmap \in Seq(Entry)
    BY <1>3 DEF MapInv, MapTyped
  <2>4. /\ b \in Seq(Entry) /\ Tidy(b)
        /\ \A q \in Programs : \A rec : FoundIn(Entries(defmap), q, rec) => Found(b, q, rec)
        /\ \A q \in Programs \ forgot : Claimed(b, q, Said(q))
    <3>1. CASE defmap = Nothing
      <4>1. b = <<>>
        BY <3>1
      <4>2. Tidy(<<>>) /\ \A q, n : Claimed(<<>>, q, n)
        BY DEF Tidy, Claimed
      <4> QED  BY <3>1, <4>1, <4>2, FileFacts
    <3>2. CASE defmap \in Seq(Entry)
      <4>1. b = Reverse(defmap)
        BY <3>2, FileFacts
      <4>2. PICK g : Picks(defmap, b, g)
        BY <3>2, <4>1, ReversePicks
      <4>3. b \in Seq(Entry)
        BY <3>2, <4>1, ReversePicks
      <4> HIDE DEF b
      <4>4. Tidy(defmap) /\ \A q \in Programs \ forgot : Claimed(defmap, q, Said(q))
        BY <3>2 DEF MapInv, FilesTidy
      <4>5. Tidy(b) /\ \A q \in Programs \ forgot : Claimed(b, q, Said(q))
        BY <4>2, <4>4, PicksKeep
      <4>6. \A q, rec : FoundIn(Entries(defmap), q, rec) => Found(b, q, rec)
        BY <3>2, <4>2, FileFacts, PicksKeep
      <4> QED  BY <4>3, <4>5, <4>6
    <3> QED  BY <2>3, <3>1, <3>2
  <2>5. Progress(b, p, out, Len(out), t)
    BY <2>1, <2>4, AllMerged
  <2>6. job' = [job EXCEPT ![p].step = s, ![p].table = t]
    BY <1>3 DEF Merge
  <2> HIDE DEF b, t, out, s
  <2>7. s \in {"open", "drop"}
    BY DEF s
  <2>8. t \in Seq(Entry) /\ Tidy(t)
    BY <2>5 DEF Progress
  <2>9. [job EXCEPT ![p].step = s, ![p].table = t] = [job EXCEPT ![p] = j]
    <3>1. job[p] = [step |-> job[p].step, out |-> out, table |-> job[p].table]
      BY <2>1 DEF Jobs, out
    <3>2. [job[p] EXCEPT !.step = s] = [step |-> s, out |-> out, table |-> job[p].table]
      BY <3>1
    <3>3. \A x : [[step |-> s, out |-> out, table |-> x] EXCEPT !.table = t] = j
      OBVIOUS
    <3>4. [[job[p] EXCEPT !.step = s] EXCEPT !.table = t] = j
      <4> HIDE DEF j
      <4> DEFINE c == [step |-> s, out |-> out, table |-> job[p].table]
      <4>1. [job[p] EXCEPT !.step = s] = c /\ [c EXCEPT !.table = t] = j
        BY <3>2, <3>3
      <4> HIDE DEF c
      <4> QED  BY Zenon, <4>1
    <3> HIDE DEF j
    <3> QED  BY <2>1, <3>4
  <2>10. j \in Jobs /\ j.step = s /\ j.out = out /\ j.table = t
    BY <2>1, <2>7, <2>8, SaidRecords DEF Jobs, Steps
  <2>11. Moves(p, s) /\ job'[p].out = out /\ job'[p].table = t
    <3> HIDE DEF j
    <3> QED  BY <2>6, <2>9, <2>10, SetMoves DEF MapInv
  <2>12. /\ job' \in [Programs -> Jobs] /\ job'[p].step = s
         /\ \A q \in Programs \ {p} : job'[q] = job[q]
    BY <2>11 DEF Moves
  <2>13. \A q \in Programs \ {p} : job[q].step \in {"none", "lock"} /\ job'[q].step \in {"none", "lock"}
    BY <1>1, <2>12, Solitary DEF MapInv
  <2>14. MapTyped'
    <3>1. \A q \in Programs : job'[q].step # "none" => job'[q].out \in Outputs
      BY <2>1, <2>11, <2>12 DEF MapInv, MapTyped
    <3> QED  BY <2>2, <2>12, <3>1 DEF MapInv, MapTyped, Jobs
  <2>15. OneHolder'
    BY <1>1, <2>2, <2>13 DEF OneHolder
  <2>16. FilesTidy'
    BY <2>2 DEF MapInv, FilesTidy, Readable, Said
  <2>17. DiskFits'
    BY <2>2, <2>3, <2>7, <2>12, <2>13 DEF DiskFits, s
  <2>18. TablesFit'
    <3>1. \A q \in Programs : Merging(q)' => q = p
      BY <2>13 DEF Merging
    <3>2. \A k \in DOMAIN out : Found(t, p, out[k])
      BY <2>1, <2>5, SaidRecords DEF Progress
    <3>3. \A x \in Programs \ {p} : Keeps(b, t, p, x)
      BY <2>5 DEF Progress
    <3>4. ASSUME strike = "no", NEW x \in Programs \ {p}, last[x] # Nothing, NEW k \in DOMAIN last[x]
          PROVE  Found(t, x, last[x][k])
      <4>1. AllFoundIn(Entries(defmap))
        BY <1>1, <2>13, <3>4 DEF MapInv, MapWhole
      <4>2. Found(b, x, last[x][k])
        BY <2>4, <3>4, <4>1 DEF AllFoundIn
      <4>3. last[x][k] \in Records
        BY <3>4, SaidRecords DEF MapInv, MapTyped
      <4> QED  BY <3>3, <4>2, <4>3 DEF Keeps
    <3>5. \A x \in Programs \ (forgot \cup {p}) : Claimed(t, x, Said(x))
      BY <2>4, <3>3 DEF Keeps
    <3>6. p \notin forgot /\ Said(p) \subseteq Named(out) => Claimed(t, p, Named(out))
      BY <2>1, <2>4, <2>5, <2>8, NewClaimed DEF Progress
    <3> QED  BY <2>2, <2>8, <2>11, <3>1, <3>2, <3>4, <3>5, <3>6 DEF TablesFit, Said
  <2>19. MapWhole'
    BY <1>1, <2>2, <2>13 DEF MapInv, MapWhole, AllFoundIn
  <2>20. BackupHolds'
    BY <2>2 DEF MapInv, BackupHolds, AllFoundIn
  <2> QED  BY <2>14, <2>15, <2>16, <2>17, <2>18, <2>19, <2>20 DEF MapInv
<1> QED  BY <1>2, <1>3

(* A step of the rewriting: the table stays, and the step finds what it    *)
(* expects.                                                                *)
LEMMA TableStays ==
  ASSUME MapInv, NEW p \in Programs, Merging(p), NEW step \in Steps, To(p, step),
         UNCHANGED <<holder, last, forgot>>, strike' = "no" => strike = "no", step # "none"
  PROVE  /\ OneHolder' /\ TablesFit'
         /\ job' \in [Programs -> Jobs] /\ job'[p].step = step
         /\ \A q \in Programs : job'[q].step # "none" => job'[q].out \in Outputs
         /\ \A q \in Programs \ {p} : /\ job[q].step \in {"none", "lock"}
                                      /\ job'[q].step \in {"none", "lock"}
<1>1. /\ job' \in [Programs -> Jobs] /\ job'[p].step = step
      /\ job'[p].out = job[p].out /\ job'[p].table = job[p].table
      /\ \A q \in Programs \ {p} : job'[q] = job[q]
  BY ToMoves DEF MapInv, Moves
<1>2. holder = p /\ job[p].step # "none"
  BY DEF MapInv, OneHolder, Merging
<1>3. \A q \in Programs \ {p} : job[q].step \in {"none", "lock"} /\ job'[q].step \in {"none", "lock"}
  BY <1>1, <1>2, Solitary DEF MapInv
<1>4. OneHolder'
  BY <1>2, <1>3 DEF OneHolder
<1>5. TablesFit'
  <2>1. \A q \in Programs : Merging(q)' => q = p
    BY <1>3 DEF Merging
  <2> QED  BY <1>1, <2>1 DEF MapInv, TablesFit, Said
<1>6. \A q \in Programs : job'[q].step # "none" => job'[q].out \in Outputs
  BY <1>1, <1>2 DEF MapInv, MapTyped
<1> QED  BY <1>1, <1>3, <1>4, <1>5, <1>6

LEMMA DropBackupInv ==
  ASSUME MapInv, NEW p \in Programs, DropBackup(p)
  PROVE  MapInv'
<1>1. Merging(p) /\ "link" \in Steps /\ (strike' = "no" => strike = "no")
      /\ UNCHANGED <<defmap, holder, last, forgot>> /\ To(p, "link") /\ backup' = Nothing
      /\ strike' # "struck" /\ (strike' # "over" => strike = "no")
      /\ strike' \in {"no", "struck", "over"}
  BY DEF DropBackup, Merging, Steps, MapInv, MapTyped
<1>2. /\ OneHolder' /\ TablesFit'
      /\ job' \in [Programs -> Jobs] /\ job'[p].step = "link"
      /\ \A q \in Programs : job'[q].step # "none" => job'[q].out \in Outputs
      /\ \A q \in Programs \ {p} : job[q].step \in {"none", "lock"} /\ job'[q].step \in {"none", "lock"}
  BY <1>1, TableStays
<1>3. defmap \in Seq(Entry) /\ job[p].step = "drop"
  BY DEF DropBackup, MapInv, DiskFits
<1>4. MapTyped'
  BY <1>1, <1>2 DEF MapInv, MapTyped, Jobs
<1>5. FilesTidy'
  BY <1>1, FileFacts DEF MapInv, FilesTidy, Readable, Said
<1>6. DiskFits'
  BY <1>1, <1>2, <1>3 DEF DiskFits
<1>7. MapWhole'
  BY <1>1, <1>2, <1>3 DEF MapInv, MapWhole, AllFoundIn
<1>8. BackupHolds'
  <2> SUFFICES ASSUME strike' # "over" PROVE AllFoundIn(Entries(defmap) \cup Entries(backup))'
    BY DEF BackupHolds
  <2>1. AllFoundIn(Entries(defmap))
    BY <1>1, <1>2, <1>3 DEF MapInv, MapWhole
  <2> QED  BY <1>1, <2>1 DEF AllFoundIn, FoundIn
<1> QED  BY <1>2, <1>4, <1>5, <1>6, <1>7, <1>8 DEF MapInv

LEMMA LinkBackupInv ==
  ASSUME MapInv, NEW p \in Programs, LinkBackup(p)
  PROVE  MapInv'
<1>1. Merging(p) /\ "unlink" \in Steps
      /\ UNCHANGED <<defmap, holder, last, forgot, strike>> /\ To(p, "unlink") /\ backup' = defmap
  BY DEF LinkBackup, Merging, Steps, history
<1>2. /\ OneHolder' /\ TablesFit'
      /\ job' \in [Programs -> Jobs] /\ job'[p].step = "unlink"
      /\ \A q \in Programs : job'[q].step # "none" => job'[q].out \in Outputs
      /\ \A q \in Programs \ {p} : job[q].step \in {"none", "lock"} /\ job'[q].step \in {"none", "lock"}
  BY <1>1, TableStays
<1>3. defmap \in Seq(Entry) /\ job[p].step = "link" /\ strike # "struck"
  BY DEF LinkBackup, MapInv, DiskFits
<1>4. MapTyped'
  BY <1>1, <1>2, <1>3 DEF MapInv, MapTyped, Jobs
<1>5. FilesTidy'
  BY <1>1, <1>3 DEF MapInv, FilesTidy, Readable, Said
<1>6. DiskFits'
  BY <1>1, <1>2, <1>3 DEF DiskFits
<1>7. MapWhole'
  BY <1>1, <1>2, <1>3 DEF MapInv, MapWhole, AllFoundIn
<1>8. BackupHolds'
  <2> SUFFICES ASSUME strike # "over" PROVE AllFoundIn(Entries(defmap) \cup Entries(backup))'
    BY <1>1 DEF BackupHolds
  <2>1. AllFoundIn(Entries(defmap))
    BY <1>2, <1>3 DEF MapInv, MapTyped, MapWhole
  <2> QED  BY <1>1, <2>1 DEF AllFoundIn, FoundIn
<1> QED  BY <1>2, <1>4, <1>5, <1>6, <1>7, <1>8 DEF MapInv

LEMMA UnlinkMapInv ==
  ASSUME MapInv, NEW p \in Programs, UnlinkMap(p)
  PROVE  MapInv'
<1>1. Merging(p) /\ "open" \in Steps
      /\ UNCHANGED <<backup, holder, last, forgot, strike>> /\ To(p, "open") /\ defmap' = Nothing
  BY DEF UnlinkMap, Merging, Steps, history
<1>2. /\ OneHolder' /\ TablesFit'
      /\ job' \in [Programs -> Jobs] /\ job'[p].step = "open"
      /\ \A q \in Programs : job'[q].step # "none" => job'[q].out \in Outputs
      /\ \A q \in Programs \ {p} : job[q].step \in {"none", "lock"} /\ job'[q].step \in {"none", "lock"}
  BY <1>1, TableStays
<1>3. backup = defmap /\ job[p].step = "unlink" /\ strike # "struck"
  BY DEF UnlinkMap, MapInv, DiskFits
<1>4. MapTyped'
  BY <1>1, <1>2 DEF MapInv, MapTyped, Jobs
<1>5. FilesTidy'
  BY <1>1, FileFacts DEF MapInv, FilesTidy, Readable
<1>6. DiskFits'
  BY <1>1, <1>2 DEF DiskFits
<1>7. MapWhole'
  BY <1>2 DEF MapWhole
<1>8. BackupHolds'
  <2> SUFFICES ASSUME strike # "over" PROVE AllFoundIn(Entries(defmap) \cup Entries(backup))'
    BY <1>1 DEF BackupHolds
  <2>1. AllFoundIn(Entries(backup))
    BY <1>2, <1>3 DEF MapInv, MapTyped, MapWhole
  <2> QED  BY <1>1, <2>1 DEF AllFoundIn, FoundIn
<1> QED  BY <1>2, <1>4, <1>5, <1>6, <1>7, <1>8 DEF MapInv

LEMMA OpenMapInv ==
  ASSUME MapInv, NEW p \in Programs, OpenMap(p)
  PROVE  MapInv'
<1>1. Merging(p) /\ "write" \in Steps
      /\ UNCHANGED <<backup, holder, last, forgot, strike>> /\ To(p, "write") /\ defmap' = <<>>
  BY DEF OpenMap, Merging, Steps, history
<1>2. /\ OneHolder' /\ TablesFit'
      /\ job' \in [Programs -> Jobs] /\ job'[p].step = "write"
      /\ \A q \in Programs : job'[q].step # "none" => job'[q].out \in Outputs
      /\ \A q \in Programs \ {p} : job[q].step \in {"none", "lock"} /\ job'[q].step \in {"none", "lock"}
  BY <1>1, TableStays
<1>3. defmap = Nothing
  BY DEF OpenMap, MapInv, DiskFits
<1>4. MapTyped'
  BY <1>1, <1>2, FileFacts DEF MapInv, MapTyped, Jobs
<1>5. FilesTidy'
  <2>1. DOMAIN <<>> = {}
    OBVIOUS
  <2>2. Tidy(<<>>) /\ Readable(<<>>) /\ \A q, n : Claimed(<<>>, q, n)
    BY <2>1 DEF Tidy, Readable, Claimed
  <2>3. Tidy(defmap') /\ Readable(defmap') /\ \A q, n : Claimed(defmap', q, n)
    BY <1>1, <2>2
  <2> QED  BY <1>1, <2>3 DEF MapInv, FilesTidy, Readable, Tidy, Claimed
<1>6. DiskFits'
  BY <1>1, <1>2 DEF DiskFits
<1>7. MapWhole'
  BY <1>2 DEF MapWhole
<1>8. BackupHolds'
  <2>1. Entries(defmap') = Entries(defmap)
    BY <1>1, <1>3, FileFacts
  <2>2. Entries(defmap)' = Entries(defmap)
    BY <2>1 DEF Entries
  <2> QED  BY <1>1, <2>2 DEF MapInv, BackupHolds, AllFoundIn, FoundIn, Entries
<1> QED  BY <1>2, <1>4, <1>5, <1>6, <1>7, <1>8 DEF MapInv

LEMMA WriteMapInv ==
  ASSUME MapInv, NEW p \in Programs, WriteMap(p)
  PROVE  MapInv'
<1> DEFINE out == job[p].out
           t == job[p].table
           u == Kept(t)
<1>1. /\ job[p].step = "write" /\ "unlock" \in Steps /\ To(p, "unlock")
      /\ defmap' = u /\ last' = [last EXCEPT ![p] = out]
      /\ forgot' = IF last[p] # Nothing /\ ~ (Named(last[p]) \subseteq Named(out))
                   THEN forgot \cup {p} ELSE forgot
      /\ UNCHANGED <<backup, holder, strike>>
  BY DEF WriteMap, Steps
<1>2. Merging(p) /\ defmap = <<>> /\ holder = p /\ out \in Outputs /\ t \in Seq(Entry)
  BY <1>1 DEF Merging, MapInv, DiskFits, OneHolder, MapTyped
<1>3. /\ job' \in [Programs -> Jobs] /\ job'[p].step = "unlock" /\ job'[p].out = out
      /\ \A q \in Programs \ {p} : job'[q] = job[q]
  BY <1>1, ToMoves DEF MapInv, Moves
<1>4. \A q \in Programs \ {p} : job[q].step \in {"none", "lock"} /\ job'[q].step \in {"none", "lock"}
  BY <1>2, <1>3, Solitary DEF MapInv
<1>5. /\ Tidy(t)
      /\ \A k \in DOMAIN out : Found(t, p, out[k])
      /\ strike = "no" =>
           \A q \in Programs \ {p} : last[q] # Nothing =>
             \A k \in DOMAIN last[q] : Found(t, q, last[q][k])
      /\ \A q \in Programs \ (forgot \cup {p}) : Claimed(t, q, Said(q))
      /\ p \notin forgot /\ Said(p) \subseteq Named(out) => Claimed(t, p, Named(out))
  BY <1>2 DEF MapInv, TablesFit
<1>6. u \in Seq(Entry) /\ \A k \in DOMAIN u : u[k].files # {}
  BY <1>2, KeptPicks
<1>7. PICK g : Picks(t, u, g)
  BY <1>2, KeptPicks
<1> HIDE DEF u, t, out
<1>8. Tidy(u) /\ Readable(u)
  <2>1. Tidy(u)
    BY <1>5, <1>7, PicksKeep
  <2> QED  BY <1>6, <2>1 DEF Tidy, Readable
<1>9. last' \in [Programs -> Outputs \cup {Nothing}] /\ last'[p] = out
      /\ \A q \in Programs \ {p} : last'[q] = last[q]
  BY <1>1, <1>2 DEF MapInv, MapTyped
<1>10. MapTyped'
  <2>1. \A q \in Programs : job'[q].step # "none" => job'[q].out \in Outputs
    BY <1>1, <1>2, <1>3 DEF MapInv, MapTyped
  <2>2. forgot' \in SUBSET Programs
    BY <1>1 DEF MapInv, MapTyped
  <2> QED  BY <1>1, <1>3, <1>6, <1>9, <2>1, <2>2 DEF MapInv, MapTyped, Jobs
<1>11. OneHolder'
  BY <1>1, <1>2, <1>4 DEF OneHolder
<1>12. FilesTidy'
  <2>1. ASSUME NEW q \in Programs \ forgot' PROVE Claimed(u, q, Said(q)')
    <3>1. CASE q = p
      <4>1. p \notin forgot /\ (last[p] = Nothing \/ Named(last[p]) \subseteq Named(out))
        BY <1>1, <2>1, <3>1
      <4>2. Said(p) \subseteq Named(out)
        BY <4>1 DEF Said
      <4>3. Said(p)' = Named(out)
        BY <1>2, <1>9, SaidRecords DEF Said
      <4> QED  BY <1>5, <1>7, <3>1, <4>1, <4>2, <4>3, PicksKeep
    <3>2. CASE q # p
      <4>1. q \in Programs \ (forgot \cup {p})
        BY <1>1, <2>1, <3>2
      <4>2. Said(q)' = Said(q)
        BY <1>9, <4>1 DEF Said
      <4> QED  BY <1>5, <1>7, <4>1, <4>2, PicksKeep
    <3> QED  BY <3>1, <3>2
  <2>2. (backup \in Seq(Entry) => Readable(backup))'
    BY <1>1 DEF MapInv, FilesTidy, Readable
  <2>3. (Tidy(defmap) /\ Readable(defmap))'
    BY <1>1, <1>8 DEF Tidy, Readable
  <2>4. \A q \in Programs \ forgot' : Claimed(defmap', q, Said(q)')
    BY <1>1, <2>1
  <2> QED  BY <2>2, <2>3, <2>4 DEF FilesTidy, Claimed
<1>13. DiskFits'
  BY <1>3, <1>4 DEF DiskFits
<1>14. TablesFit'
  BY <1>3, <1>4 DEF TablesFit, Merging
<1>15. /\ Entries(defmap)' = Entries(u)
       /\ \A q, rec : FoundIn(Entries(u), q, rec) <=> Found(u, q, rec)
  <2>1. Entries(defmap)' = Entries(defmap')
    BY DEF Entries
  <2> QED  BY <1>1, <1>6, <2>1, FileFacts
<1>16. \A k \in DOMAIN out : FoundIn(Entries(u), p, out[k])
  BY <1>5, <1>7, <1>15, PicksKeep
<1>17. MapWhole'
  <2> SUFFICES ASSUME strike = "no", NEW q \in Programs, last'[q] # Nothing, NEW k \in DOMAIN last'[q]
               PROVE  FoundIn(Entries(u), q, last'[q][k])
    BY <1>1, <1>15 DEF MapWhole, AllFoundIn, FoundIn
  <2>1. CASE q = p
    BY <1>9, <1>16, <2>1
  <2>2. CASE q # p
    <3>1. Found(t, q, last[q][k])
      BY <1>5, <1>9, <2>2
    <3> QED  BY <1>7, <1>9, <1>15, <2>2, <3>1, PicksKeep
  <2> QED  BY <2>1, <2>2
<1>18. BackupHolds'
  <2> SUFFICES ASSUME strike # "over", NEW q \in Programs, last'[q] # Nothing, NEW k \in DOMAIN last'[q]
               PROVE  FoundIn(Entries(u) \cup Entries(backup), q, last'[q][k])
    BY <1>1, <1>15 DEF BackupHolds, AllFoundIn, FoundIn, Entries
  <2>1. CASE q = p
    BY <1>9, <1>16, <2>1 DEF FoundIn
  <2>2. CASE q # p /\ strike = "no"
    <3>1. Found(t, q, last[q][k])
      BY <1>5, <1>9, <2>2
    <3>2. FoundIn(Entries(u), q, last[q][k])
      BY <1>7, <1>15, <3>1, PicksKeep
    <3> QED  BY <1>9, <2>2, <3>2 DEF FoundIn
  <2>3. CASE q # p /\ strike # "no"
    <3>1. AllFoundIn(Entries(defmap) \cup Entries(backup)) /\ Entries(defmap) = {}
      BY <1>2, FileFacts DEF MapInv, BackupHolds
    <3>2. FoundIn(Entries(backup), q, last[q][k])
      BY <1>9, <2>3, <3>1 DEF AllFoundIn
    <3> QED  BY <1>9, <2>3, <3>2 DEF FoundIn
  <2> QED  BY <2>1, <2>2, <2>3
<1> QED  BY <1>10, <1>11, <1>12, <1>13, <1>14, <1>17, <1>18 DEF MapInv

LEMMA StruckInv ==
  ASSUME MapInv, NEW p \in Programs, Struck(p)
  PROVE  MapInv'
<1>1. /\ job[p].step \in {"link", "unlink", "open", "write"} /\ strike = "no" /\ strike' = "struck"
      /\ defmap' \in (IF job[p].step = "write" THEN {<<>>, Torn} ELSE {defmap})
      /\ job' = [job EXCEPT ![p] = Resting] /\ holder' = Nothing
      /\ UNCHANGED <<backup, last, forgot>>
  BY DEF Struck, Rewriting
<1>2. /\ job' \in [Programs -> Jobs] /\ job'[p].step = "none"
      /\ \A q \in Programs \ {p} : job'[q] = job[q]
  BY <1>1, RestingIs, SetMoves DEF MapInv, Moves
<1>3. \A q \in Programs \ {p} : job[q].step \in {"none", "lock"} /\ job'[q].step \in {"none", "lock"}
  <2>1. holder = p
    BY <1>1 DEF MapInv, OneHolder
  <2> QED  BY <1>2, <2>1, Solitary DEF MapInv
<1>4. defmap' = defmap \/ (job[p].step = "write" /\ defmap' \in {<<>>, Torn})
  BY <1>1
<1>5. Entries(defmap)' = Entries(defmap)
  <2>1. job[p].step = "write" => defmap = <<>>
    BY DEF MapInv, DiskFits
  <2>2. Entries(defmap') = Entries(defmap)
    BY <1>4, <2>1, FileFacts
  <2> QED  BY <2>2 DEF Entries
<1>6. MapTyped'
  <2>1. \A q \in Programs : job'[q].step # "none" => job'[q].out \in Outputs
    BY <1>2 DEF MapInv, MapTyped
  <2>2. defmap' \in Seq(Entry) \cup {Nothing, Torn}
    BY <1>4, FileFacts DEF MapInv, MapTyped
  <2> QED  BY <1>1, <1>2, <2>1, <2>2 DEF MapInv, MapTyped, Jobs
<1>7. OneHolder'
  BY <1>2, <1>3 DEF OneHolder
<1>8. FilesTidy'
  <2>1. DOMAIN <<>> = {}
    OBVIOUS
  <2>2. Tidy(<<>>) /\ Readable(<<>>) /\ \A q, n : Claimed(<<>>, q, n)
    BY <2>1 DEF Tidy, Readable, Claimed
  <2>3. CASE defmap' = defmap
    BY <1>1, <2>3 DEF MapInv, FilesTidy, Readable, Said
  <2>4. CASE defmap' \in {<<>>, Torn}
    <3>1. defmap' \in Seq(Entry) =>
            Tidy(defmap') /\ Readable(defmap') /\ \A q, n : Claimed(defmap', q, n)
      BY <2>2, <2>4, FileFacts
    <3> QED  BY <1>1, <3>1 DEF MapInv, FilesTidy, Readable, Tidy, Claimed
  <2> QED  BY <1>4, <2>3, <2>4
<1>9. DiskFits' /\ TablesFit'
  BY <1>2, <1>3 DEF DiskFits, TablesFit, Merging
<1>10. MapWhole'
  BY <1>1 DEF MapWhole
<1>11. BackupHolds'
  BY <1>1, <1>5 DEF MapInv, BackupHolds, AllFoundIn, FoundIn, Entries
<1> QED  BY <1>6, <1>7, <1>8, <1>9, <1>10, <1>11 DEF MapInv

(***************************************************************************)
(* The invariant holds.                                                    *)
(***************************************************************************)

LEMMA MapInitInv == MapInit => MapInv
<1> SUFFICES ASSUME MapInit PROVE MapInv
  OBVIOUS
<1>1. /\ defmap = Nothing /\ backup = Nothing /\ holder = Nothing
      /\ job = [q \in Programs |-> Resting] /\ last = [q \in Programs |-> Nothing]
      /\ forgot = {} /\ strike = "no"
  BY DEF MapInit
<1>2. \A q \in Programs : job[q] \in Jobs /\ job[q].step = "none" /\ last[q] = Nothing
  BY <1>1, RestingIs
<1>3. MapTyped
  <2>1. job \in [Programs -> Jobs]
    BY <1>1, RestingIs
  <2> QED  BY <1>1, <1>2, <2>1 DEF MapTyped, Jobs
<1>4. OneHolder /\ DiskFits /\ TablesFit
  BY <1>2 DEF OneHolder, DiskFits, TablesFit, Merging
<1>5. FilesTidy
  BY <1>1, FileFacts DEF FilesTidy
<1>6. MapWhole /\ BackupHolds
  BY <1>2 DEF MapWhole, BackupHolds, AllFoundIn
<1> QED  BY <1>3, <1>4, <1>5, <1>6 DEF MapInv

LEMMA MapNextInv == MapInv /\ [MapNext]_mapVars => MapInv'
<1> SUFFICES ASSUME MapInv, [MapNext]_mapVars PROVE MapInv'
  OBVIOUS
<1>1. CASE UNCHANGED mapVars
  <2>1. UNCHANGED <<defmap, backup, holder, job, last, forgot, strike>>
    BY <1>1 DEF mapVars, mapFiles, history
  <2> QED  BY <2>1 DEF MapInv, MapTyped, OneHolder, FilesTidy, DiskFits, TablesFit, Merging,
                       MapWhole, BackupHolds, AllFoundIn, Readable, Said
<1>2. ASSUME NEW p \in Programs, UnlockMap(p) PROVE MapInv'
  <2>1. holder' = Released(p)
    BY <1>2 DEF UnlockMap, Released, MapInv, OneHolder
  <2> QED  BY <1>2, <2>1, RestInv DEF UnlockMap
<1>3. ASSUME NEW p \in Programs, Interrupt(p) PROVE MapInv'
  BY <1>3, RestInv DEF Interrupt
<1> QED  BY <1>1, <1>2, <1>3, CompileSaysInv, LockMapInv, MergeInv, DropBackupInv, LinkBackupInv,
            UnlinkMapInv, OpenMapInv, WriteMapInv, StruckInv DEF MapNext

LEMMA MapInvHolds == MapSpec => []MapInv
BY MapInitInv, MapNextInv, PTL DEF MapSpec

LEMMA MapInvSays ==
  MapInv => MapTypeOK /\ NothingForgotten /\ ListedOnce
<1> SUFFICES ASSUME MapInv PROVE MapTypeOK /\ NothingForgotten /\ ListedOnce
  OBVIOUS
<1>1. MapTypeOK
  BY FileFacts DEF MapInv, MapTyped, FilesTidy, OneHolder, MapTypeOK
<1>2. NothingForgotten
  BY DEF MapInv, MapWhole, NothingForgotten, Rewriting
<1>3. ListedOnce
  <2> SUFFICES ASSUME defmap \notin {Nothing, Torn}, NEW p \in Programs \ forgot,
                      NEW k \in DOMAIN defmap, NEW n \in DOMAIN defmap, k # n,
                      defmap[k].name = defmap[n].name,
                      p \in defmap[k].bns \cap defmap[n].bns
               PROVE  FALSE
    BY DEF ListedOnce, Twice
  <2>1. defmap \in Seq(Entry)
    BY DEF MapInv, MapTyped
  <2>2. Tidy(defmap) /\ Claimed(defmap, p, Said(p))
    BY <2>1 DEF MapInv, FilesTidy
  <2> QED  BY <2>2 DEF Tidy, Claimed
<1> QED  BY <1>1, <1>2, <1>3

(* However many programs are compiled at once, and however many of the     *)
(* compiles are interrupted, they do not undo each other's entries: when   *)
(* nobody rewrites the map, it has all that the last compile of each       *)
(* program put there (process in ptcomp.c, under the lock).                *)
THEOREM CompilesDoNotForget == MapSpec => []NothingForgotten
<1>1. MapInv => NothingForgotten
  BY MapInvSays
<1> QED  BY <1>1, MapInvHolds, PTL

(* A kill in the middle of the rewriting loses nothing: until a later      *)
(* compile drops the backup, the map and the backup have it between them   *)
(* (mv in ptcomp.c links the backup before it unlinks the map).            *)
THEOREM KilledLosesNothing == MapSpec => []BackupHolds
<1>1. MapInv => BackupHolds
  BY DEF MapInv
<1> QED  BY <1>1, MapInvHolds, PTL

(* A program that goes on naming the headers that it named is never        *)
(* listed under two entries of one name.                                   *)
THEOREM NamesAreListedOnce == MapSpec => []ListedOnce
<1>1. MapInv => ListedOnce
  BY MapInvSays
<1> QED  BY <1>1, MapInvHolds, PTL

(* The map and its backup can be read back, and only who holds the lock is *)
(* past taking it.                                                         *)
THEOREM MapIsReadable == MapSpec => []MapTypeOK
<1>1. MapInv => MapTypeOK
  BY MapInvSays
<1> QED  BY <1>1, MapInvHolds, PTL

(***************************************************************************)
(* TemplateLink.  Sets that grow round by round: what Reaches and Needed   *)
(* compute.                                                                *)
(***************************************************************************)

\* The rounds from first on, when every element brings in those of more.
Rounds(first, more, n) ==
  CHOOSE f : f = [k \in 0 .. n |->
    IF k = 0 THEN first ELSE f[k - 1] \cup UNION {more[g] : g \in f[k - 1]}]

LEMMA RoundsIs ==
  ASSUME NEW first, NEW more, NEW n \in Nat
  PROVE  /\ Rounds(first, more, n)[0] = first
         /\ \A k \in 1 .. n :
              Rounds(first, more, n)[k] =
                Rounds(first, more, n)[k - 1]
                \cup UNION {more[g] : g \in Rounds(first, more, n)[k - 1]}
<1> DEFINE Wider(S) == S \cup UNION {more[g] : g \in S}
           F(f, k) == IF k = 0 THEN first ELSE Wider(f[k - 1])
           Is(f, m) == f = [k \in 0 .. m |-> F(f, k)]
           T == {m \in 0 .. n : \E f : Is(f, m)}
<1>1. 0 \in T
  <2> DEFINE f == [k \in 0 .. 0 |-> first]
  <2>1. Is(f, 0)
    OBVIOUS
  <2>2. 0 \in 0 .. n
    OBVIOUS
  <2> HIDE DEF f, Is
  <2> QED  BY <2>1, <2>2
<1>2. ASSUME NEW m \in 1 .. n, m - 1 \in T PROVE m \in T
  <2>1. PICK f : Is(f, m - 1)
    BY <1>2
  <2> DEFINE e == [k \in 0 .. m |-> IF k = m THEN Wider(f[m - 1]) ELSE f[k]]
  <2> HIDE DEF Wider
  <2>2. \A k \in 0 .. (m - 1) : f[k] = F(f, k)
    BY <2>1
  <2>3. \A k \in 0 .. m : e[k] = F(e, k)
    <3> SUFFICES ASSUME NEW k \in 0 .. m PROVE e[k] = F(e, k)
      OBVIOUS
    <3>1. CASE k = 0
      BY <2>2, <3>1
    <3>2. CASE k = m
      <4>1. m # 0 /\ m - 1 \in 0 .. m /\ m - 1 # m
        OBVIOUS
      <4>2. e[m - 1] = f[m - 1]
        BY <4>1
      <4> QED  BY <3>2, <4>1, <4>2
    <3>3. CASE k # 0 /\ k # m
      <4>1. k \in 0 .. (m - 1) /\ k - 1 \in 0 .. m /\ k - 1 # m
        BY <3>3
      <4>2. e[k] = f[k] /\ e[k - 1] = f[k - 1]
        BY <3>3, <4>1
      <4> QED  BY <2>2, <3>3, <4>1, <4>2
    <3> QED  BY <3>1, <3>2, <3>3
  <2>4. Is(e, m)
    <3> HIDE DEF F
    <3> QED  BY <2>3
  <2> HIDE DEF e, Is
  <2> QED  BY <2>4
<1>3. T = 0 .. n
  <2> HIDE DEF T
  <2>1. T \in SUBSET (0 .. n)
    BY DEF T
  <2> QED  BY <1>1, <1>2, <2>1, UpTo
<1> DEFINE r == Rounds(first, more, n)
<1>4. Is(r, n)
  <2>1. PICK f : Is(f, n)
    <3>1. n \in 0 .. n
      OBVIOUS
    <3> HIDE DEF Is
    <3>2. n \in {m \in 0 .. n : \E f : Is(f, m)}
      BY <1>3, <3>1
    <3> QED  BY <3>2
  <2> QED  BY <2>1, Zenon DEF Rounds
<1>5. \A k \in 0 .. n : r[k] = F(r, k)
  <2> HIDE DEF F, r
  <2> QED  BY <1>4
<1>6. 0 \in 0 .. n /\ \A k \in 1 .. n : k \in 0 .. n /\ k # 0
  OBVIOUS
<1> HIDE DEF r
<1>7. r[0] = first /\ \A k \in 1 .. n : r[k] = Wider(r[k - 1])
  BY <1>5, <1>6
<1> QED  BY <1>7 DEF r

(* What the rounds find lies in every set that holds the first of them and *)
(* is closed.                                                              *)
LEMMA RoundsWithin ==
  ASSUME NEW first, NEW more, NEW n \in Nat, NEW S, first \subseteq S,
         \A g \in S : more[g] \subseteq S
  PROVE  \A k \in 0 .. n : Rounds(first, more, n)[k] \subseteq S
<1> DEFINE r == Rounds(first, more, n)
           T == {k \in 0 .. n : r[k] \subseteq S}
<1>1. r[0] = first
      /\ \A k \in 1 .. n : r[k] = r[k - 1] \cup UNION {more[g] : g \in r[k - 1]}
  BY RoundsIs
<1> HIDE DEF r
<1>2. 0 \in T
  BY <1>1
<1>3. ASSUME NEW k \in 1 .. n, k - 1 \in T PROVE k \in T
  BY <1>1, <1>3
<1>4. T = 0 .. n
  <2>1. T \in SUBSET (0 .. n)
    OBVIOUS
  <2> HIDE DEF T
  <2> QED  BY <1>2, <1>3, <2>1, UpTo
<1> QED  BY <1>4 DEF r

(* Each round is in the last.                                              *)
LEMMA RoundsGrow ==
  ASSUME NEW first, NEW more, NEW n \in Nat
  PROVE  \A k \in 0 .. n : Rounds(first, more, n)[k] \subseteq Rounds(first, more, n)[n]
<1> DEFINE r == Rounds(first, more, n)
           T == {k \in 0 .. n : r[n - k] \subseteq r[n]}
<1>1. \A k \in 1 .. n : r[k - 1] \subseteq r[k]
  BY RoundsIs
<1> HIDE DEF r
<1>2. 0 \in T
  OBVIOUS
<1>3. ASSUME NEW k \in 1 .. n, k - 1 \in T PROVE k \in T
  <2>1. n - k + 1 \in 1 .. n /\ (n - k + 1) - 1 = n - k /\ n - (k - 1) = n - k + 1
    OBVIOUS
  <2>2. r[n - k] \subseteq r[n - k + 1]
    BY <1>1, <2>1
  <2>3. r[n - k + 1] \subseteq r[n]
    BY <1>3, <2>1
  <2> QED  BY <2>2, <2>3
<1>4. T = 0 .. n
  <2>1. T \in SUBSET (0 .. n)
    OBVIOUS
  <2> HIDE DEF T
  <2> QED  BY <1>2, <1>3, <2>1, UpTo
<1>5. ASSUME NEW k \in 0 .. n PROVE r[k] \subseteq r[n]
  <2>1. n - k \in 0 .. n /\ n - (n - k) = k
    OBVIOUS
  <2>2. n - k \in T
    BY <1>4, <2>1
  <2> QED  BY <2>1, <2>2
<1> QED  BY <1>5 DEF r

(* Two tables that differ at h only find the same, when one of them does   *)
(* not find h.                                                             *)
LEMMA RoundsSame ==
  ASSUME NEW first, NEW more, NEW other, NEW n \in Nat, NEW h,
         h \notin Rounds(first, more, n)[n],
         \A g \in Rounds(first, more, n)[n] : g # h => other[g] = more[g]
  PROVE  Rounds(first, other, n)[n] = Rounds(first, more, n)[n]
<1> DEFINE r == Rounds(first, more, n)
           q == Rounds(first, other, n)
           T == {k \in 0 .. n : q[k] = r[k]}
<1>1. \A k \in 0 .. n : r[k] \subseteq r[n]
  BY RoundsGrow
<1>2. r[0] = first /\ q[0] = first
      /\ \A k \in 1 .. n : /\ r[k] = r[k - 1] \cup UNION {more[g] : g \in r[k - 1]}
                           /\ q[k] = q[k - 1] \cup UNION {other[g] : g \in q[k - 1]}
  BY RoundsIs
<1>3. h \notin r[n] /\ \A g \in r[n] : other[g] = more[g]
  OBVIOUS
<1> HIDE DEF r, q
<1>4. 0 \in T
  BY <1>2
<1>5. ASSUME NEW k \in 1 .. n, k - 1 \in T PROVE k \in T
  <2>1. k - 1 \in 0 .. n /\ k \in 0 .. n /\ q[k - 1] = r[k - 1]
    BY <1>5
  <2>2. \A g \in r[k - 1] : other[g] = more[g]
    BY <1>1, <1>3, <2>1
  <2>3. {other[g] : g \in q[k - 1]} = {more[g] : g \in r[k - 1]}
    BY <2>1, <2>2
  <2> QED  BY <1>2, <2>1, <2>3
<1>6. T = 0 .. n
  <2>1. T \in SUBSET (0 .. n)
    OBVIOUS
  <2> HIDE DEF T
  <2> QED  BY <1>4, <1>5, <2>1, UpTo
<1>7. n \in T
  BY <1>6
<1> QED  BY <1>7 DEF r, q

(***************************************************************************)
(* The headers that a header brings in.                                    *)
(***************************************************************************)

HeaderTables == [Headers -> [time : Whens, ver : Nat, uses : SUBSET Headers]]

Uses(hd) == [g \in Headers |-> hd[g].uses]

\* Reaches, of a table.
ReachIn(hd, h) ==
  (CHOOSE f : f = [n \in 0 .. Cardinality(Headers) |->
     IF n = 0 THEN {h} ELSE f[n - 1] \cup UNION {hd[g].uses : g \in f[n - 1]}]
  )[Cardinality(Headers)]

LEMMA ReachesIs ==
  ASSUME NEW h
  PROVE  Reaches(h) = ReachIn(hdr, h)
BY DEF Reaches, ReachIn

LEMMA ReachInIs ==
  ASSUME NEW hd \in HeaderTables, NEW h \in Headers
  PROVE  /\ ReachIn(hd, h) = Rounds({h}, Uses(hd), Cardinality(Headers))[Cardinality(Headers)]
         /\ ReachIn(hd, h) \subseteq Headers /\ h \in ReachIn(hd, h)
         /\ Cardinality(Headers) \in Nat
<1> DEFINE n == Cardinality(Headers)
           r == Rounds({h}, Uses(hd), n)
           Is(f) == f = [k \in 0 .. n |->
             IF k = 0 THEN {h} ELSE f[k - 1] \cup UNION {hd[g].uses : g \in f[k - 1]}]
           T(f) == {k \in 0 .. n : f[k] = r[k]}
<1>1. n \in Nat
  BY ClassAssumption, FS_CardinalityType
<1>2. \A g \in Headers : Uses(hd)[g] = hd[g].uses /\ Uses(hd)[g] \subseteq Headers
  BY DEF Uses, HeaderTables
<1>3. \A k \in 0 .. n : r[k] \subseteq Headers
  <2>1. {h} \subseteq Headers
    OBVIOUS
  <2> QED  BY <1>1, <1>2, <2>1, RoundsWithin
<1>4. r[0] = {h}
      /\ \A k \in 1 .. n : r[k] = r[k - 1] \cup UNION {Uses(hd)[g] : g \in r[k - 1]}
  <2> DEFINE first == {h}
             more == Uses(hd)
  <2> HIDE DEF n, first, more
  <2>1. /\ Rounds(first, more, n)[0] = first
        /\ \A k \in 1 .. n : Rounds(first, more, n)[k] = Rounds(first, more, n)[k - 1]
                              \cup UNION {more[g] : g \in Rounds(first, more, n)[k - 1]}
    BY <1>1, RoundsIs
  <2> USE DEF first, more
  <2> QED  BY <2>1
<1>5. \A k \in 1 .. n : r[k] = r[k - 1] \cup UNION {hd[g].uses : g \in r[k - 1]}
  <2> SUFFICES ASSUME NEW k \in 1 .. n
               PROVE  r[k] = r[k - 1] \cup UNION {hd[g].uses : g \in r[k - 1]}
    OBVIOUS
  <2>1. k - 1 \in 0 .. n
    BY <1>1
  <2>2. \A g \in r[k - 1] : Uses(hd)[g] = hd[g].uses
    BY <1>2, <1>3, <2>1
  <2>3. {Uses(hd)[g] : g \in r[k - 1]} = {hd[g].uses : g \in r[k - 1]}
    BY <2>2
  <2> QED  BY <1>4, <2>3
<1>6. n \in 0 .. n /\ 0 \in 0 .. n /\ r[0] \subseteq r[n]
  <2>1. n \in 0 .. n /\ 0 \in 0 .. n
    BY <1>1
  <2> QED  BY <1>1, <2>1, RoundsGrow
<1> HIDE DEF r, n
<1>7. \E f : Is(f)
  <2> DEFINE f == [k \in 0 .. n |-> r[k]]
  <2>1. \A k \in 0 .. n : k # 0 => k - 1 \in 0 .. n /\ k \in 1 .. n
    BY <1>1
  <2>2. \A k \in 0 .. n :
          f[k] = IF k = 0 THEN {h} ELSE f[k - 1] \cup UNION {hd[g].uses : g \in f[k - 1]}
    BY <1>4, <1>5, <2>1
  <2>3. Is(f)
    BY <2>2
  <2> HIDE DEF f, Is
  <2> QED  BY <2>3
<1>8. ASSUME NEW f, Is(f) PROVE f[n] = r[n]
  <2>1. f[0] = {h}
    BY <1>1, <1>8
  <2>2. \A k \in 1 .. n : f[k] = f[k - 1] \cup UNION {hd[g].uses : g \in f[k - 1]}
    <3>1. \A k \in 1 .. n : k \in 0 .. n /\ k # 0
      BY <1>1
    <3> QED  BY <1>8, <3>1
  <2>3. 0 \in T(f)
    BY <1>1, <1>4, <2>1
  <2>4. ASSUME NEW k \in 1 .. n, k - 1 \in T(f) PROVE k \in T(f)
    <3>1. k \in 0 .. n /\ f[k - 1] = r[k - 1]
      BY <1>1, <2>4
    <3> QED  BY <1>5, <2>2, <3>1
  <2>5. T(f) = 0 .. n
    <3>1. T(f) \in SUBSET (0 .. n)
      OBVIOUS
    <3> HIDE DEF T
    <3> QED  BY <1>1, <2>3, <2>4, <3>1, UpTo
  <2> HIDE DEF Is
  <2>6. n \in T(f)
    <3>1. n \in 0 .. n
      BY <1>1
    <3> HIDE DEF T
    <3> QED  BY <2>5, <3>1
  <2> QED  BY <2>6
<1>9. ReachIn(hd, h) = r[n]
  <2> DEFINE c == CHOOSE f : Is(f)
  <2>1. Is(c)
    <3> HIDE DEF Is
    <3> QED  BY <1>7
  <2>2. ReachIn(hd, h) = c[n]
    BY DEF ReachIn, n
  <2> HIDE DEF c, Is
  <2> QED  BY <1>8, <2>1, <2>2
<1> QED  BY <1>1, <1>3, <1>4, <1>6, <1>9 DEF r, n

(* An edit of h changes nothing for a header that does not bring in h,     *)
(* before or after.                                                        *)
LEMMA ReachInSame ==
  ASSUME NEW hd \in HeaderTables, NEW ed \in HeaderTables, NEW h, NEW x \in Headers,
         \A g \in Headers : g # h => ed[g].uses = hd[g].uses,
         h \notin ReachIn(hd, x) \/ h \notin ReachIn(ed, x)
  PROVE  ReachIn(ed, x) = ReachIn(hd, x)
<1> DEFINE n == Cardinality(Headers)
           a == {x}
           t == Uses(hd)
           u == Uses(ed)
           r == Rounds(a, t, n)
           q == Rounds(a, u, n)
<1>1. ReachIn(hd, x) = r[n] /\ ReachIn(ed, x) = q[n] /\ n \in Nat
      /\ ReachIn(hd, x) \subseteq Headers /\ ReachIn(ed, x) \subseteq Headers
  BY ReachInIs
<1>2. \A g \in Headers : g # h => t[g] = u[g]
  BY DEF Uses
<1> HIDE DEF n, a, t, u
<1>3. CASE h \notin r[n]
  <2>1. \A g \in r[n] : g # h => u[g] = t[g]
    BY <1>1, <1>2
  <2>2. q[n] = r[n]
    BY <1>1, <1>3, <2>1, RoundsSame
  <2> QED  BY <1>1, <2>2
<1>4. CASE h \notin q[n]
  <2>1. \A g \in q[n] : g # h => t[g] = u[g]
    BY <1>1, <1>2
  <2>2. r[n] = q[n]
    BY <1>1, <1>4, <2>1, RoundsSame
  <2> QED  BY <1>1, <2>2
<1> QED  BY <1>1, <1>3, <1>4

(***************************************************************************)
(* What a program needs.                                                   *)
(***************************************************************************)

LEMMA NeededWithin ==
  ASSUME NEW l \in Links, NEW S, setup.needs[l] \subseteq S, \A m \in S : Calls[m] \subseteq S
  PROVE  Needed(l) \subseteq S
<1> DEFINE n == Cardinality(Members)
<1>1. n \in Nat
  BY ClassAssumption, FS_CardinalityType
<1>2. Needed(l) = Rounds(setup.needs[l], Calls, n)[n]
  BY DEF Needed, Rounds
<1>3. n \in 0 .. n
  BY <1>1
<1> HIDE DEF n
<1>4. \A k \in 0 .. n : Rounds(setup.needs[l], Calls, n)[k] \subseteq S
  BY <1>1, RoundsWithin
<1> QED  BY <1>2, <1>3, <1>4

(***************************************************************************)
(* The simulated link.                                                     *)
(***************************************************************************)

Adoptions == [rep : Reps, members : SUBSET Defined]
Symbols == [defs : SUBSET Members, refs : SUBSET Members]

\* An object joins what is linked so far.
Joined(acc, f) ==
  IF f.members \cap acc.defs # {} THEN acc
  ELSE [defs |-> acc.defs \cup f.members,
        refs |-> acc.refs \cup UNION {Calls[m] : m \in f.members}]

LinkFold(needs, s) ==
  CHOOSE it : it = [S \in SUBSET DOMAIN s |->
    IF S = {} THEN [defs |-> {}, refs |-> needs] ELSE Joined(it[S \ {Max(S)}], s[Max(S)])]

LEMMA MaxIs ==
  ASSUME NEW m \in Nat, NEW S \in SUBSET (1 .. m), m \in S
  PROVE  Max(S) = m
<1>1. \A y \in S : m >= y
  OBVIOUS
<1>2. \A x \in S : (\A y \in S : x >= y) => x = m
  OBVIOUS
<1> QED  BY <1>1, <1>2 DEF Max

LEMMA LinkFoldIs ==
  ASSUME NEW needs, NEW s \in Seq(Adoptions)
  PROVE  \A S \in SUBSET (1 .. Len(s)) :
           LinkFold(needs, s)[S] =
             IF S = {} THEN [defs |-> {}, refs |-> needs]
             ELSE Joined(LinkFold(needs, s)[S \ {Max(S)}], s[Max(S)])
<1> DEFINE n == Len(s)
           F(it, S) == IF S = {} THEN [defs |-> {}, refs |-> needs]
                       ELSE Joined(it[S \ {Max(S)}], s[Max(S)])
           Is(it, m) == it = [S \in SUBSET (1 .. m) |-> F(it, S)]
           T == {m \in 0 .. n : \E it : Is(it, m)}
<1>0. n \in Nat /\ DOMAIN s = 1 .. n
  OBVIOUS
<1> HIDE DEF n
<1>1. 0 \in T
  <2> DEFINE it == [S \in SUBSET (1 .. 0) |-> [defs |-> {}, refs |-> needs]]
  <2>1. \A S \in SUBSET (1 .. 0) : S = {}
    OBVIOUS
  <2>2. Is(it, 0)
    BY <2>1
  <2>3. 0 \in 0 .. n
    BY <1>0
  <2> HIDE DEF it, Is
  <2> QED  BY <2>2, <2>3
<1>2. ASSUME NEW m \in 1 .. n, m - 1 \in T PROVE m \in T
  <2>1. PICK it : Is(it, m - 1)
    BY <1>2
  <2> DEFINE e == [S \in SUBSET (1 .. m) |->
                     IF m \in S THEN Joined(it[S \ {m}], s[m]) ELSE it[S]]
  <2>2. \A S \in SUBSET (1 .. (m - 1)) : it[S] = F(it, S)
    BY <2>1
  <2>3. m \in Nat /\ m - 1 \in Nat /\ 1 .. (m - 1) = (1 .. m) \ {m}
    BY <1>0
  <2>4. \A S \in SUBSET (1 .. m) : e[S] = F(e, S)
    <3> SUFFICES ASSUME NEW S \in SUBSET (1 .. m) PROVE e[S] = F(e, S)
      OBVIOUS
    <3>1. \A R \in SUBSET (1 .. m) : m \notin R => R \in SUBSET (1 .. (m - 1)) /\ e[R] = it[R]
      BY <2>3
    <3>2. CASE m \in S
      <4>1. Max(S) = m /\ S # {}
        BY <2>3, <3>2, MaxIs
      <4>2. S \ {m} \in SUBSET (1 .. m) /\ m \notin S \ {m}
        OBVIOUS
      <4>3. e[S \ {m}] = it[S \ {m}]
        BY <3>1, <4>2
      <4>4. e[S] = Joined(it[S \ {m}], s[m])
        BY <3>2
      <4> HIDE DEF e
      <4> QED  BY <4>1, <4>3, <4>4
    <3>3. CASE m \notin S
      <4>1. e[S] = it[S] /\ it[S] = F(it, S)
        BY <2>2, <3>1, <3>3
      <4>2. S \ {Max(S)} \in SUBSET (1 .. m) /\ m \notin S \ {Max(S)}
        BY <3>3
      <4>3. e[S \ {Max(S)}] = it[S \ {Max(S)}]
        BY <3>1, <4>2
      <4> HIDE DEF e
      <4> QED  BY <4>1, <4>3
    <3> QED  BY <3>2, <3>3
  <2>5. Is(e, m)
    <3> HIDE DEF F
    <3> QED  BY <2>4
  <2> HIDE DEF e, Is
  <2> QED  BY <2>5
<1>3. T = 0 .. n
  <2> HIDE DEF T
  <2>1. T \in SUBSET (0 .. n)
    BY DEF T
  <2> QED  BY <1>0, <1>1, <1>2, <2>1, UpTo
<1> DEFINE c == LinkFold(needs, s)
<1>4. Is(c, n)
  <2>1. \E it : Is(it, n)
    <3>1. n \in 0 .. n
      BY <1>0
    <3> HIDE DEF Is
    <3>2. n \in {m \in 0 .. n : \E it : Is(it, m)}
      BY <1>3, <3>1
    <3> QED  BY <3>2
  <2>2. c = CHOOSE it : Is(it, n)
    BY <1>0 DEF LinkFold
  <2> HIDE DEF c, Is
  <2> QED  BY <2>1, <2>2
<1>5. \A S \in SUBSET (1 .. n) : c[S] = F(c, S)
  <2> HIDE DEF F, c
  <2> QED  BY <1>4
<1> QED  BY <1>5 DEF n

LEMMA LinkedIs ==
  ASSUME NEW l
  PROVE  Linked(l) = LinkFold(setup.needs[l], flist[l])[DOMAIN flist[l]]
BY DEF Linked, FoldLeft, MapThenFoldSet, LinkFold, Joined

LEMMA JoinedTyped ==
  ASSUME NEW acc \in Symbols, NEW f \in Adoptions
  PROVE  Joined(acc, f) \in Symbols
BY ClassAssumption DEF Joined, Symbols, Adoptions

(* What an instance refers to are members.                                 *)
LEMMA UndefinedTyped ==
  ASSUME NEW l \in Links, setup.needs[l] \subseteq Members, flist[l] \in Seq(Adoptions)
  PROVE  Undefined(l) \subseteq Members
<1> DEFINE s == flist[l]
           n == Len(s)
           c == LinkFold(setup.needs[l], s)
           T == {m \in 0 .. n : \A S \in SUBSET (1 .. m) : c[S] \in Symbols}
<1>1. n \in Nat /\ DOMAIN s = 1 .. n /\ \A m \in 1 .. n : s[m] \in Adoptions
  OBVIOUS
<1>2. \A S \in SUBSET (1 .. n) :
        c[S] = IF S = {} THEN [defs |-> {}, refs |-> setup.needs[l]]
               ELSE Joined(c[S \ {Max(S)}], s[Max(S)])
  BY LinkFoldIs
<1>3. [defs |-> {}, refs |-> setup.needs[l]] \in Symbols
  BY DEF Symbols
<1>4. Linked(l) = c[1 .. n]
  BY <1>1, LinkedIs
<1> HIDE DEF n, s, c
<1>5. 0 \in T
  <2>1. \A S \in SUBSET (1 .. 0) : S = {} /\ S \in SUBSET (1 .. n)
    BY <1>1
  <2>2. \A S \in SUBSET (1 .. 0) : c[S] = [defs |-> {}, refs |-> setup.needs[l]]
    BY <1>2, <2>1
  <2>3. 0 \in 0 .. n
    BY <1>1
  <2> QED  BY <1>3, <2>2, <2>3
<1>6. ASSUME NEW m \in 1 .. n, m - 1 \in T PROVE m \in T
  <2> SUFFICES ASSUME NEW S \in SUBSET (1 .. m) PROVE c[S] \in Symbols
    BY <1>1
  <2>1. m \in Nat /\ 1 .. (m - 1) = (1 .. m) \ {m} /\ S \in SUBSET (1 .. n)
    BY <1>1
  <2>2. CASE m \notin S
    <3>1. S \in SUBSET (1 .. (m - 1))
      BY <2>1, <2>2
    <3> QED  BY <1>6, <3>1
  <2>3. CASE m \in S
    <3>1. Max(S) = m /\ S # {}
      BY <2>1, <2>3, MaxIs
    <3>2. S \ {m} \in SUBSET (1 .. (m - 1))
      BY <2>1
    <3>3. c[S \ {m}] \in Symbols
      BY <1>6, <3>2
    <3>4. c[S] = Joined(c[S \ {m}], s[m])
      BY <1>2, <2>1, <3>1
    <3> QED  BY <1>1, <3>3, <3>4, JoinedTyped
  <2> QED  BY <2>2, <2>3
<1>7. T = 0 .. n
  <2>1. T \in SUBSET (0 .. n)
    OBVIOUS
  <2> HIDE DEF T
  <2> QED  BY <1>1, <1>5, <1>6, <2>1, UpTo
<1>8. c[1 .. n] \in Symbols
  <2>1. n \in 0 .. n
    BY <1>1
  <2>2. n \in {m \in 0 .. n : \A S \in SUBSET (1 .. m) : c[S] \in Symbols}
    BY <1>7, <2>1
  <2> QED  BY <2>2
<1> QED  BY <1>4, <1>8 DEF Undefined, Symbols

(* Of a link that has adopted no object, or one.                           *)
LEMMA UndefinedNone ==
  ASSUME NEW l \in Links, flist[l] = <<>>
  PROVE  Undefined(l) = setup.needs[l]
<1>1. flist[l] \in Seq(Adoptions) /\ DOMAIN flist[l] = {}
  OBVIOUS
<1>2. LinkFold(setup.needs[l], flist[l])[{}] = [defs |-> {}, refs |-> setup.needs[l]]
  <2>1. {} \in SUBSET (1 .. Len(flist[l]))
    OBVIOUS
  <2> QED  BY <1>1, <2>1, LinkFoldIs
<1>3. Linked(l) = [defs |-> {}, refs |-> setup.needs[l]]
  BY <1>1, <1>2, LinkedIs
<1> QED  BY <1>3 DEF Undefined

LEMMA UndefinedOne ==
  ASSUME NEW l \in Links, flist[l] \in Seq(Adoptions), Len(flist[l]) = 1
  PROVE  Undefined(l) =
           (setup.needs[l] \cup UNION {Calls[m] : m \in flist[l][1].members})
           \ flist[l][1].members
<1> DEFINE s == flist[l]
           c == LinkFold(setup.needs[l], s)
           none == [defs |-> {}, refs |-> setup.needs[l]]
<1>1. DOMAIN s = {1} /\ 1 .. Len(s) = {1} /\ {} \in SUBSET (1 .. Len(s))
      /\ {1} \in SUBSET (1 .. Len(s)) /\ {1} # {}
  OBVIOUS
<1>2. c[{}] = none /\ c[{1}] = Joined(c[{1} \ {Max({1})}], s[Max({1})])
  <2>1. \A S \in SUBSET (1 .. Len(s)) :
          c[S] = IF S = {} THEN none ELSE Joined(c[S \ {Max(S)}], s[Max(S)])
    BY LinkFoldIs
  <2> HIDE DEF c, none, s
  <2> QED  BY <1>1, <2>1
<1>3. Max({1}) = 1
  <2>1. {1} \in SUBSET (1 .. 1) /\ 1 \in Nat /\ 1 \in {1}
    OBVIOUS
  <2> QED  BY <2>1, MaxIs
<1>4. {1} \ {1} = {}
  OBVIOUS
<1>5. Linked(l) = Joined(none, s[1])
  BY <1>1, <1>2, <1>3, <1>4, LinkedIs
<1>6. Joined(none, s[1]) = [defs |-> s[1].members,
                            refs |-> setup.needs[l] \cup UNION {Calls[m] : m \in s[1].members}]
  BY DEF Joined
<1> HIDE DEF none, s
<1>7. Undefined(l) = Joined(none, s[1]).refs \ Joined(none, s[1]).defs
  BY <1>5 DEF Undefined
<1> QED  BY <1>6, <1>7 DEF s

(***************************************************************************)
(* The inductive invariant: types.                                         *)
(***************************************************************************)

\* A list of objects of repositories that l searches, of each at most one.
Listing(l, fl) ==
  /\ fl \in Seq(Adoptions)
  /\ \A j, k \in DOMAIN fl : fl[j].rep = fl[k].rep => j = k
  /\ \A k \in DOMAIN fl : \E n \in DOMAIN setup.search[l] : fl[k].rep = setup.search[l][n]

\* The steps of a round, in which the instantiation file is there.
Asking == {"dep", "members", "compile", "drop", "write", "adopt"}

WhereAll == {"idle", "lock", "link", "dep", "members", "compile", "drop", "write",
             "adopt", "done", "unresolved"}

Shapes ==
  /\ setup \in Setups
  /\ now \in Whens /\ decl \in {1, 2}
  /\ hdr \in HeaderTables
  /\ lock \in [Reps -> Links \cup {None}]
  /\ src \in [Reps -> Sources \cup {None}]
  /\ DOMAIN obj = Reps
  /\ \A r \in Reps : obj[r] = None \/ \E H \in SUBSET Headers : obj[r] \in Objects(H)
  /\ he \in [Reps -> Caches \cup {None}]
  /\ cs \in [Reps -> {None} \cup SUBSET Members]
  /\ pc \in [Links -> WhereAll]
  /\ dip \in [Links -> SUBSET Members]
  /\ und \in [Links -> [now : SUBSET Members, before : SUBSET Members]]
  /\ flist \in [Links -> Seq(Adoptions)]
  /\ at \in [Links -> Nat]
  /\ left \in [runs : Nat, edits : Nat, moves : Nat, kills : Nat]
  /\ left.kills <= setup.budget.kills /\ left.moves <= setup.budget.moves

Local(l) ==
  /\ Listing(l, flist[l])
  /\ at[l] \in 1 .. Len(setup.search[l]) + 1
  /\ pc[l] # "dep" => at[l] <= Len(setup.search[l])
  /\ pc[l] \in Asking => src[Main(l)] # None
  /\ pc[l] \in {"compile", "drop", "write"} => at[l] = 1

LinkTyped == Shapes /\ \A l \in Links : Local(l)

LEMMA SetupIs ==
  ASSUME LinkTyped, NEW l \in Links
  PROVE  /\ setup.search[l] \in Seq(Reps) /\ Len(setup.search[l]) \in Nat \ {0}
         /\ Main(l) \in Reps /\ setup.needs[l] \subseteq Members
         /\ \A n \in {1, 2} : Root[n][setup.i[l]] \in Headers
         /\ setup.i[l] \in OptionsI /\ setup.d[l] \in OptionsD
         /\ setup.budget \in [runs : Nat, edits : Nat, moves : Nat, kills : Nat]
         /\ at[l] <= Len(setup.search[l]) =>
              at[l] \in DOMAIN setup.search[l] /\ Rep(l) \in Reps
<1>1. setup \in Setups /\ at[l] \in 1 .. Len(setup.search[l]) + 1
  BY DEF LinkTyped, Shapes, Local
<1>2. setup.search[l] \in Seq(Reps) /\ setup.search[l] # <<>>
      /\ setup.needs[l] \subseteq Members
  BY <1>1, SetupsAssumption
<1>3. Len(setup.search[l]) \in Nat \ {0} /\ 1 \in DOMAIN setup.search[l]
  BY <1>2
<1>4. setup.i[l] \in OptionsI /\ setup.d[l] \in OptionsD
  BY <1>1 DEF OptionsI, OptionsD
<1>5. at[l] <= Len(setup.search[l]) => at[l] \in DOMAIN setup.search[l]
  BY <1>1, <1>3, <1>2
<1>6. Root[1][setup.i[l]] \in Headers /\ Root[2][setup.i[l]] \in Headers
  BY <1>1, SetupsAssumption
<1> QED  BY <1>1, <1>2, <1>3, <1>4, <1>5, <1>6, SetupsAssumption DEF Main, Rep

LEMMA ListingShort ==
  ASSUME LinkTyped, NEW l \in Links, NEW fl, Listing(l, fl)
  PROVE  Len(fl) <= Len(setup.search[l])
<1> DEFINE s == setup.search[l]
           g == [k \in 1 .. Len(fl) |-> CHOOSE n \in DOMAIN s : fl[k].rep = s[n]]
<1>1. Len(fl) \in Nat /\ DOMAIN fl = 1 .. Len(fl)
  BY DEF Listing
<1>2. Len(s) \in Nat /\ DOMAIN s = 1 .. Len(s)
  BY SetupIs
<1>3. \A k \in 1 .. Len(fl) : g[k] \in 1 .. Len(s) /\ fl[k].rep = s[g[k]]
  <2> HIDE DEF s
  <2> SUFFICES ASSUME NEW k \in 1 .. Len(fl)
               PROVE  g[k] \in 1 .. Len(s) /\ fl[k].rep = s[g[k]]
    OBVIOUS
  <2>1. \E n \in DOMAIN s : fl[k].rep = s[n]
    BY <1>1 DEF Listing, s
  <2> QED  BY <1>2, <2>1
<1> HIDE DEF g, s
<1>4. SUFFICES ASSUME ~ (Len(fl) <= Len(s)) PROVE FALSE
  BY DEF s
<1>5. g \in [1 .. Len(fl) -> 1 .. Len(s)]
  BY <1>3 DEF g
<1>6. /\ IsFiniteSet(1 .. Len(fl)) /\ Cardinality(1 .. Len(fl)) = Len(fl)
      /\ IsFiniteSet(1 .. Len(s)) /\ Cardinality(1 .. Len(s)) = Len(s)
  <2>1. ASSUME NEW n \in Nat PROVE IsFiniteSet(1 .. n) /\ Cardinality(1 .. n) = n
    <3>1. 1 \in Int /\ n \in Int /\ (1 <= n \/ n = 0)
      OBVIOUS
    <3>2. IsFiniteSet(1 .. n) /\ Cardinality(1 .. n) = IF 1 > n THEN 0 ELSE n - 1 + 1
      BY <3>1, FS_Interval
    <3> QED  BY <3>1, <3>2
  <2> QED  BY <1>1, <1>2, <2>1
<1>7. PICK j, k \in 1 .. Len(fl) : j # k /\ g[j] = g[k]
  <2>1. Cardinality(1 .. Len(s)) < Cardinality(1 .. Len(fl))
    BY <1>1, <1>2, <1>4, <1>6
  <2> QED  BY <1>5, <1>6, <2>1, FS_PigeonHole
<1>8. fl[j].rep = fl[k].rep
  BY <1>3, <1>7
<1> QED  BY <1>1, <1>7, <1>8 DEF Listing

LEMMA AdoptedIs ==
  ASSUME LinkTyped, NEW l \in Links, Listing(l, flist[l]), at[l] <= Len(setup.search[l]),
         obj[Rep(l)] # None
  PROVE  /\ Listing(l, Adopted(l, Rep(l)))
         /\ \E k \in DOMAIN Adopted(l, Rep(l)) :
              Adopted(l, Rep(l))[k] = [rep |-> Rep(l), members |-> obj[Rep(l)].members]
<1> DEFINE r == Rep(l)
           fl == flist[l]
           entry == [rep |-> r, members |-> obj[r].members]
           new == Adopted(l, r)
<1>1. r \in Reps /\ \E n \in DOMAIN setup.search[l] : r = setup.search[l][n]
  BY SetupIs DEF Rep
<1>2. obj[r].members \in SUBSET Defined
  BY <1>1 DEF LinkTyped, Shapes, Objects
<1>3. entry \in Adoptions /\ entry.rep = r
  BY <1>1, <1>2 DEF Adoptions
<1>4. /\ fl \in Seq(Adoptions) /\ Len(fl) \in Nat /\ DOMAIN fl = 1 .. Len(fl)
      /\ \A j, k \in DOMAIN fl : fl[j].rep = fl[k].rep => j = k
      /\ \A k \in DOMAIN fl : \E n \in DOMAIN setup.search[l] : fl[k].rep = setup.search[l][n]
  BY DEF Listing
<1> HIDE DEF entry, fl, r
<1>5. CASE \E k \in DOMAIN fl : fl[k].rep = r
  <2>1. new = [k \in DOMAIN fl |-> IF fl[k].rep = r THEN entry ELSE fl[k]]
    BY <1>5 DEF Adopted, entry, fl
  <2>2. DOMAIN new = DOMAIN fl /\ \A k \in DOMAIN fl : new[k].rep = fl[k].rep /\ new[k] \in Adoptions
    BY <1>3, <1>4, <2>1
  <2>3. new \in Seq(Adoptions)
    <3> HIDE DEF new
    <3>1. new \in [1 .. Len(fl) -> Adoptions]
      BY <1>4, <2>1, <2>2
    <3> QED  BY <1>4, <3>1
  <2>4. \E k \in DOMAIN new : new[k] = entry
    BY <1>5, <2>1
  <2> HIDE DEF new
  <2>5. Listing(l, new)
    BY <1>4, <2>2, <2>3 DEF Listing
  <2> QED  BY <2>4, <2>5 DEF new, entry, r
<1>6. CASE ~ \E k \in DOMAIN fl : fl[k].rep = r
  <2>1. new = <<entry>> \o fl
    BY <1>6 DEF Adopted, entry, fl
  <2>2. /\ new \in Seq(Adoptions) /\ DOMAIN new = 1 .. Len(fl) + 1 /\ new[1] = entry
        /\ \A k \in 2 .. Len(fl) + 1 : k - 1 \in DOMAIN fl /\ new[k] = fl[k - 1]
    <3>1. <<entry>> \in Seq(Adoptions)
      BY <1>3
    <3> HIDE DEF new
    <3> QED  BY <1>4, <2>1, <3>1
  <2>3. \A k \in DOMAIN new : k = 1 \/ k \in 2 .. Len(fl) + 1
    BY <1>4, <2>2
  <2> HIDE DEF new
  <2>4. ASSUME NEW j \in DOMAIN new, NEW k \in DOMAIN new, new[j].rep = new[k].rep
        PROVE  j = k
    <3>1. \A i \in 2 .. Len(fl) + 1 : new[i].rep # new[1].rep
      BY <1>3, <1>6, <2>2
    <3>2. CASE j \in 2 .. Len(fl) + 1 /\ k \in 2 .. Len(fl) + 1
      <4>1. j - 1 = k - 1
        BY <1>4, <2>2, <2>4, <3>2
      <4> QED  BY <3>2, <4>1, <1>4
    <3> QED  BY <2>3, <2>4, <3>1, <3>2
  <2>5. \A k \in DOMAIN new : \E n \in DOMAIN setup.search[l] : new[k].rep = setup.search[l][n]
    <3>1. \E n \in DOMAIN setup.search[l] : new[1].rep = setup.search[l][n]
      BY <1>1, <1>3, <2>2
    <3>2. \A k \in 2 .. Len(fl) + 1 :
            \E n \in DOMAIN setup.search[l] : new[k].rep = setup.search[l][n]
      BY <1>4, <2>2
    <3> QED  BY <2>3, <3>1, <3>2
  <2>6. Listing(l, new)
    BY <2>2, <2>4, <2>5 DEF Listing
  <2>7. 1 \in DOMAIN new
    BY <1>4, <2>2
  <2> QED  BY <2>2, <2>6, <2>7 DEF new, entry, r
<1> QED  BY <1>5, <1>6

LEMMA IncludedIs ==
  ASSUME LinkTyped, NEW l \in Links, NEW s \in Sources
  PROVE  /\ Root[s.decl][setup.i[l]] \in Headers
         /\ Included(l, s) = ReachIn(hdr, Root[s.decl][setup.i[l]])
         /\ Included(l, s) \subseteq Headers
         /\ Root[s.decl][setup.i[l]] \in Included(l, s)
         /\ hdr \in HeaderTables
<1>1. Root[s.decl][setup.i[l]] \in Headers
  BY SetupIs DEF Sources
<1>2. hdr \in HeaderTables
  BY DEF LinkTyped, Shapes, HeaderTables
<1> QED  BY <1>1, <1>2, ReachesIs, ReachInIs DEF Included

LEMMA CompiledIs ==
  ASSUME LinkTyped, NEW l \in Links, NEW s \in Sources
  PROVE  /\ \E H \in SUBSET Headers : Compiled(l, s) \in Objects(H)
         /\ Compiled(l, s) # None
         /\ Compiled(l, s).time = now /\ Compiled(l, s).members = dip[l] \cap Defined
         /\ Compiled(l, s).i = setup.i[l] /\ Compiled(l, s).d = setup.d[l]
         /\ Compiled(l, s).seen = [h \in Included(l, s) |-> hdr[h].ver]
<1> DEFINE seen == [h \in Included(l, s) |-> hdr[h].ver]
<1>1. Included(l, s) \subseteq Headers /\ hdr \in HeaderTables
  BY IncludedIs
<1>2. seen \in [Included(l, s) -> Nat]
  BY <1>1 DEF HeaderTables
<1>3. now \in Whens /\ setup.i[l] \in OptionsI /\ setup.d[l] \in OptionsD
  BY SetupIs DEF LinkTyped, Shapes
<1> HIDE DEF seen
<1>4. Compiled(l, s) = [time |-> now, i |-> setup.i[l], d |-> setup.d[l], seen |-> seen,
                        members |-> dip[l] \cap Defined]
  BY DEF Compiled, seen
<1>5. Compiled(l, s) \in Objects(Included(l, s))
  BY <1>2, <1>3, <1>4 DEF Objects
<1>6. Compiled(l, s) # None
  BY <1>1, <1>5, NoneAssumption
<1>7. /\ Compiled(l, s).time = now /\ Compiled(l, s).members = dip[l] \cap Defined
      /\ Compiled(l, s).i = setup.i[l] /\ Compiled(l, s).d = setup.d[l]
      /\ Compiled(l, s).seen = seen
  BY <1>4
<1> QED  BY <1>1, <1>5, <1>6, <1>7 DEF seen

LEMMA NewCacheIs ==
  ASSUME LinkTyped, NEW l \in Links, src[Main(l)] # None
  PROVE  /\ src[Main(l)] \in Sources
         /\ NewCache(l) \in Caches
         /\ NewCache(l).time = now /\ NewCache(l).whole
         /\ NewCache(l).i = setup.i[l] /\ NewCache(l).d = setup.d[l]
         /\ NewCache(l).hdrs = Included(l, src[Main(l)])
<1>1. src[Main(l)] \in Sources
  BY SetupIs DEF LinkTyped, Shapes
<1>2. Included(l, src[Main(l)]) \subseteq Headers
  BY <1>1, IncludedIs
<1>3. now \in Whens /\ setup.i[l] \in OptionsI /\ setup.d[l] \in OptionsD
  BY SetupIs DEF LinkTyped, Shapes
<1> QED  BY <1>1, <1>2, <1>3 DEF NewCache, Caches

(***************************************************************************)
(* The types are kept.                                                     *)
(***************************************************************************)

LEMMA TypedOK ==
  ASSUME LinkTyped
  PROVE  LTypeOK
<1>1. Shapes /\ \A l \in Links : Local(l)
  BY DEF LinkTyped
<1>2. \A l \in Links : at[l] \in 1 .. Len(setup.search[l]) + 1
                      /\ (pc[l] # "dep" => at[l] <= Len(setup.search[l]))
  BY <1>1 DEF Local
<1>3. ASSUME NEW l \in Links PROVE Len(flist[l]) <= Len(setup.search[l])
  BY <1>1, <1>3, ListingShort DEF Local
<1> QED  BY <1>1, <1>2, <1>3 DEF Shapes, LTypeOK, HeaderTables, WhereAll, Adoptions

\* A link ends: what becomes of its locals.
LEMMA EndsIs ==
  ASSUME LinkTyped, NEW l \in Links, Ends(l)
  PROVE  /\ lock' \in [Reps -> Links \cup {None}]
         /\ at' \in [Links -> Nat] /\ dip' \in [Links -> SUBSET Members]
         /\ und' \in [Links -> [now : SUBSET Members, before : SUBSET Members]]
         /\ pc' \in [Links -> WhereAll]
         /\ flist' \in [Links -> Seq(Adoptions)]
         /\ at'[l] = 1 /\ dip'[l] = {} /\ und'[l] = NoneYet /\ flist'[l] = <<>>
         /\ pc'[l] = "idle"
         /\ \A k \in Links \ {l} : /\ at'[k] = at[k] /\ dip'[k] = dip[k]
                                   /\ und'[k] = und[k] /\ flist'[k] = flist[k]
                                   /\ pc'[k] = pc[k]
         /\ \A r \in Reps : lock'[r] = IF lock[r] = l THEN None ELSE lock[r]
<1> USE DEF LinkTyped, Shapes, Ends, Goto
<1>1. lock' \in [Reps -> Links \cup {None}]
      /\ \A r \in Reps : lock'[r] = IF lock[r] = l THEN None ELSE lock[r]
  OBVIOUS
<1>2. at' \in [Links -> Nat] /\ at'[l] = 1 /\ \A k \in Links \ {l} : at'[k] = at[k]
  OBVIOUS
<1>3. dip' \in [Links -> SUBSET Members] /\ dip'[l] = {}
      /\ \A k \in Links \ {l} : dip'[k] = dip[k]
  OBVIOUS
<1>4. und' \in [Links -> [now : SUBSET Members, before : SUBSET Members]]
      /\ und'[l] = NoneYet /\ \A k \in Links \ {l} : und'[k] = und[k]
  <2>1. NoneYet \in [now : SUBSET Members, before : SUBSET Members]
    BY DEF NoneYet
  <2> QED  BY <2>1
<1>5. pc' \in [Links -> WhereAll] /\ pc'[l] = "idle" /\ \A k \in Links \ {l} : pc'[k] = pc[k]
  BY DEF WhereAll
<1>6. flist' \in [Links -> Seq(Adoptions)] /\ flist'[l] = <<>> /\ \A k \in Links \ {l} : flist'[k] = flist[k]
  OBVIOUS
<1> QED  BY <1>1, <1>2, <1>3, <1>4, <1>5, <1>6

LEMMA LocalKept ==
  ASSUME LinkTyped, NEW k \in Links, setup' = setup, at'[k] = at[k], pc'[k] = pc[k],
         flist'[k] = flist[k], src[Main(k)] # None => src'[Main(k)] # None
  PROVE  Local(k)'
<1>1. Local(k)
  BY DEF LinkTyped
<1>2. Main(k)' = Main(k)
  BY DEF Main
<1> QED  BY <1>1, <1>2 DEF Local, Listing

\* After the end of a link.
LEMMA EndsTyped ==
  ASSUME LinkTyped, NEW l \in Links, Ends(l), setup' = setup, src' = src
  PROVE  \A k \in Links : Local(k)'
<1>1. /\ at'[l] = 1 /\ flist'[l] = <<>> /\ pc'[l] = "idle"
      /\ \A k \in Links \ {l} : at'[k] = at[k] /\ flist'[k] = flist[k] /\ pc'[k] = pc[k]
  BY EndsIs
<1>2. Local(l)'
  <2>1. Len(setup.search[l]) \in Nat \ {0}
    BY SetupIs
  <2>2. Listing(l, <<>>)'
    BY DEF Listing
  <2>3. Listing(l, flist[l])'
    BY <1>1, <2>2
  <2> QED  BY <1>1, <2>1, <2>3 DEF Local, Asking
<1>3. ASSUME NEW k \in Links \ {l} PROVE Local(k)'
  BY <1>1, LocalKept
<1> QED  BY <1>2, <1>3

\* A step of link l that goes on, and writes no locals but at and und.
LEMMA StepTyped ==
  ASSUME LinkTyped, NEW l \in Links, setup' = setup, flist' = flist,
         \A r \in Reps : src[r] # None => src'[r] # None,
         \A k \in Links \ {l} : at'[k] = at[k] /\ pc'[k] = pc[k],
         at'[l] \in 1 .. Len(setup.search[l]) + 1,
         pc'[l] # "dep" => at'[l] <= Len(setup.search[l]),
         pc'[l] \in Asking => src'[Main(l)] # None,
         pc'[l] \in {"compile", "drop", "write"} => at'[l] = 1
  PROVE  \A k \in Links : Local(k)'
<1>1. ASSUME NEW k \in Links \ {l} PROVE Local(k)'
  BY <1>1, LocalKept, SetupIs
<1>2. Local(l)'
  <2>1. Local(l) /\ Main(l)' = Main(l)
    BY DEF LinkTyped, Main
  <2> QED  BY <2>1 DEF Local, Listing
<1> QED  BY <1>1, <1>2

Budgets == [runs : Nat, edits : Nat, moves : Nat, kills : Nat]

LEMMA BudgetLess ==
  ASSUME NEW b \in Budgets
  PROVE  /\ b.runs > 0 => LET c == [b EXCEPT !.runs = @ - 1]
                          IN  c \in Budgets /\ c.kills = b.kills /\ c.moves = b.moves
         /\ b.edits > 0 => LET c == [b EXCEPT !.edits = @ - 1]
                           IN  c \in Budgets /\ c.kills = b.kills /\ c.moves = b.moves
         /\ b.moves > 0 => LET c == [b EXCEPT !.moves = @ - 1]
                           IN  c \in Budgets /\ c.kills = b.kills /\ c.moves = b.moves - 1
         /\ b.kills > 0 => LET c == [b EXCEPT !.kills = @ - 1]
                           IN  c \in Budgets /\ c.kills = b.kills - 1 /\ c.moves = b.moves
<1>1. /\ b.runs \in Nat /\ b.edits \in Nat /\ b.moves \in Nat /\ b.kills \in Nat
      /\ b = [runs |-> b.runs, edits |-> b.edits, moves |-> b.moves, kills |-> b.kills]
  BY DEF Budgets
<1>2. b.runs > 0 => [b EXCEPT !.runs = @ - 1]
        = [runs |-> b.runs - 1, edits |-> b.edits, moves |-> b.moves, kills |-> b.kills]
  BY <1>1
<1>3. b.edits > 0 => [b EXCEPT !.edits = @ - 1]
        = [runs |-> b.runs, edits |-> b.edits - 1, moves |-> b.moves, kills |-> b.kills]
  BY <1>1
<1>4. b.moves > 0 => [b EXCEPT !.moves = @ - 1]
        = [runs |-> b.runs, edits |-> b.edits, moves |-> b.moves - 1, kills |-> b.kills]
  BY <1>1
<1>5. b.kills > 0 => [b EXCEPT !.kills = @ - 1]
        = [runs |-> b.runs, edits |-> b.edits, moves |-> b.moves, kills |-> b.kills - 1]
  BY <1>1
<1>6. \A n, m, p, q \in Nat : [runs |-> n, edits |-> m, moves |-> p, kills |-> q] \in Budgets
  BY DEF Budgets
<1>7. \A n \in Nat : n > 0 => n - 1 \in Nat
  OBVIOUS
<1> QED  BY <1>1, <1>2, <1>3, <1>4, <1>5, <1>6, <1>7

\* Link l goes somewhere.
LEMMA GoesTo ==
  ASSUME LinkTyped, NEW l \in Links, NEW where \in WhereAll, Goto(l, where)
  PROVE  /\ pc' \in [Links -> WhereAll] /\ pc'[l] = where
         /\ \A k \in Links \ {l} : pc'[k] = pc[k]
BY DEF LinkTyped, Shapes, Goto

LEMMA LooksAt ==
  ASSUME LinkTyped, NEW l \in Links, NEW n \in Nat, at' = [at EXCEPT ![l] = n]
  PROVE  /\ at' \in [Links -> Nat] /\ at'[l] = n
         /\ \A k \in Links \ {l} : at'[k] = at[k]
BY DEF LinkTyped, Shapes

LEMMA TypedLink ==
  ASSUME LinkTyped, NEW l \in Links, Start(l) \/ LinkStep(l) \/ Kill(l)
  PROVE  LinkTyped'
<1>0. /\ Shapes /\ Local(l)
      /\ Len(setup.search[l]) \in Nat \ {0} /\ Main(l) \in Reps
      /\ (at[l] <= Len(setup.search[l]) => Rep(l) \in Reps)
      /\ at[l] \in 1 .. Len(setup.search[l]) + 1
  BY SetupIs DEF LinkTyped, Local
<1>1. CASE Start(l)
  <2>1. /\ Goto(l, "lock") /\ pc[l] = "idle" /\ left.runs > 0 /\ left' = [left EXCEPT !.runs = @ - 1]
        /\ UNCHANGED <<setup, now, decl, hdr, lock, src, obj, he, cs, at, dip, und, flist>>
    BY <1>1 DEF Start, files, locals
  <2>2. pc' \in [Links -> WhereAll] /\ pc'[l] = "lock" /\ \A k \in Links \ {l} : pc'[k] = pc[k]
    BY <2>1, GoesTo DEF WhereAll
  <2>3. left' \in Budgets /\ left'.kills = left.kills /\ left'.moves = left.moves
    BY <1>0, <2>1, BudgetLess DEF Shapes, Budgets
  <2>4. Shapes'
    BY <1>0, <2>1, <2>2, <2>3 DEF Shapes, Budgets
  <2>5. at'[l] = at[l] /\ at[l] <= Len(setup.search[l])
    BY <1>0, <2>1 DEF Local
  <2>6. \A k \in Links : Local(k)'
    BY <1>0, <2>1, <2>2, <2>5, StepTyped DEF Asking
  <2> QED  BY <2>4, <2>6 DEF LinkTyped
<1>2. CASE Lock(l)
  <2>1. Shapes'
    BY <1>0, <1>2 DEF Lock, Goto, Shapes, files, locals, WhereAll
  <2>2. \A k \in Links : Local(k)'
    BY <1>0, <1>2, StepTyped DEF Lock, Goto, Shapes, Local, files, locals, Asking
  <2> QED  BY <2>1, <2>2 DEF LinkTyped
<1>3. CASE GiveUp(l) \/ CompileFails(l) \/ Exit(l) \/ Kill(l)
  <2>1. Ends(l) /\ setup' = setup /\ src' = src
    BY <1>3 DEF GiveUp, CompileFails, Exit, Kill, files
  <2>2. UNCHANGED <<now, decl, hdr, obj, cs>>
    BY <1>3 DEF GiveUp, CompileFails, Exit, Kill, files
  <2>3. he' \in [Reps -> Caches \cup {None}]
    <3>1. CASE UNCHANGED he
      BY <1>0, <3>1 DEF Shapes
    <3>2. CASE Kill(l) /\ he' # he
      <4>1. PICK rest \in {None, [time |-> now, i |-> setup.i[l], d |-> setup.d[l],
                                  hdrs |-> {}, whole |-> FALSE]} :
              he' = [he EXCEPT ![Main(l)] = rest]
        BY <3>2 DEF Kill
      <4>2. rest \in Caches \cup {None}
        <5>1. now \in Whens /\ setup.i[l] \in OptionsI /\ setup.d[l] \in OptionsD
          BY <1>0, SetupIs DEF Shapes
        <5> DEFINE torn == [time |-> now, i |-> setup.i[l], d |-> setup.d[l], hdrs |-> {}, whole |-> FALSE]
        <5>2. torn \in Caches
          BY <5>1 DEF Caches
        <5>3. rest = None \/ rest = torn
          BY <4>1
        <5> HIDE DEF torn
        <5> QED  BY <5>2, <5>3
      <4> QED  BY <1>0, <4>1, <4>2 DEF Shapes
    <3> QED  BY <1>3, <3>1, <3>2 DEF GiveUp, CompileFails, Exit, Kill, files
  <2>4. left' \in [runs : Nat, edits : Nat, moves : Nat, kills : Nat]
        /\ left'.kills <= setup'.budget.kills /\ left'.moves <= setup'.budget.moves
    <3>1. CASE left' = left
      BY <1>0, <2>1, <3>1 DEF Shapes
    <3>2. CASE left.kills > 0 /\ left' = [left EXCEPT !.kills = @ - 1]
      <4>1. left'.kills = left.kills - 1 /\ left'.moves = left.moves /\ left' \in Budgets
        BY <1>0, <3>2, BudgetLess DEF Shapes, Budgets
      <4>2. left.kills \in Nat /\ setup.budget.kills \in Nat
        BY <1>0, SetupIs DEF Shapes
      <4> QED  BY <1>0, <2>1, <4>1, <4>2 DEF Shapes, Budgets
    <3> QED  BY <1>3, <3>1, <3>2 DEF GiveUp, CompileFails, Exit, Kill
  <2>5. Shapes'
    BY <1>0, <2>1, <2>2, <2>3, <2>4, EndsIs DEF Shapes
  <2> QED  BY <2>1, <2>5, EndsTyped DEF LinkTyped
<1>4. CASE Finish(l)
  <2>1. Undefined(l) \in SUBSET Members
    BY <1>0, UndefinedTyped, SetupIs DEF Local, Listing
  <2>2. /\ setup' = setup /\ flist' = flist /\ src' = src /\ at' = at
        /\ UNCHANGED <<now, decl, hdr, lock, obj, he, cs, dip, left>>
        /\ und' = [und EXCEPT ![l] = [now |-> Undefined(l), before |-> und[l].now]]
        /\ pc[l] = "link"
        /\ pc' = [pc EXCEPT ![l] = IF Undefined(l) = {} THEN "done" ELSE "unresolved"]
    BY <1>4 DEF Finish, Goto, files
  <2>3. und' \in [Links -> [now : SUBSET Members, before : SUBSET Members]]
    BY <1>0, <2>1, <2>2 DEF Shapes
  <2>4. Shapes'
    BY <1>0, <2>2, <2>3 DEF Shapes, WhereAll
  <2>5. \A k \in Links : Local(k)'
    BY <1>0, <2>2, StepTyped DEF Shapes, Local, Asking
  <2> QED  BY <2>4, <2>5 DEF LinkTyped
<1>5. CASE Ask(l)
  <2>1. Undefined(l) \in SUBSET Members
    BY <1>0, UndefinedTyped, SetupIs DEF Local, Listing
  <2>2. /\ setup' = setup /\ flist' = flist /\ at' = [at EXCEPT ![l] = 1]
        /\ UNCHANGED <<now, decl, hdr, lock, obj, he, cs, left>>
        /\ und' = [und EXCEPT ![l] = [now |-> Undefined(l), before |-> und[l].now]]
        /\ dip' = [dip EXCEPT ![l] = @ \cup Undefined(l)]
        /\ pc' = [pc EXCEPT ![l] = "dep"]
        /\ src' = IF src[Main(l)] # None /\ src[Main(l)].decl = decl THEN src
                  ELSE [src EXCEPT ![Main(l)] = [time |-> now, decl |-> decl]]
    BY <1>5 DEF Ask, Goto
  <2>3. und' \in [Links -> [now : SUBSET Members, before : SUBSET Members]]
    BY <1>0, <2>1, <2>2 DEF Shapes
  <2>4. dip' \in [Links -> SUBSET Members]
    BY <1>0, <2>1, <2>2 DEF Shapes
  <2>5. [time |-> now, decl |-> decl] \in Sources /\ [time |-> now, decl |-> decl] # None
    BY <1>0, NoneAssumption DEF Shapes, Sources
  <2>6. src' \in [Reps -> Sources \cup {None}] /\ src'[Main(l)] # None
        /\ \A r \in Reps : src[r] # None => src'[r] # None
    BY <1>0, <2>2, <2>5 DEF Shapes
  <2>7. pc' \in [Links -> WhereAll] /\ pc'[l] = "dep" /\ \A k \in Links \ {l} : pc'[k] = pc[k]
    BY <2>2, GoesTo DEF WhereAll, Goto
  <2>9. at' \in [Links -> Nat] /\ at'[l] = 1 /\ \A k \in Links \ {l} : at'[k] = at[k]
    BY <2>2, LooksAt
  <2>10. Shapes'
    BY <1>0, <2>2, <2>3, <2>4, <2>6, <2>7, <2>9 DEF Shapes
  <2>8. \A k \in Links : Local(k)'
    BY <1>0, <2>2, <2>6, <2>7, <2>9, StepTyped
  <2> QED  BY <2>8, <2>10 DEF LinkTyped
<1>6. CASE CheckTime(l)
  <2>1. /\ setup' = setup /\ flist' = flist /\ src' = src
        /\ UNCHANGED <<now, decl, hdr, lock, obj, cs, dip, und, left>>
        /\ pc[l] = "dep" /\ at[l] <= Len(setup.search[l])
        /\ he' = IF Rebuilds(l) THEN [he EXCEPT ![Main(l)] = NewCache(l)] ELSE he
        /\ \/ pc' = [pc EXCEPT ![l] = "members"] /\ at' = at
           \/ pc' = [pc EXCEPT ![l] = "dep"] /\ at' = [at EXCEPT ![l] = @ + 1]
    BY <1>6 DEF CheckTime, NextRep, Goto
  <2>2. src[Main(l)] # None
    BY <1>0, <2>1 DEF Local, Asking
  <2>3. he' \in [Reps -> Caches \cup {None}]
    BY <1>0, <2>1, <2>2, NewCacheIs DEF Shapes
  <2>4. /\ pc' \in [Links -> WhereAll] /\ at' \in [Links -> Nat]
        /\ \A k \in Links \ {l} : pc'[k] = pc[k] /\ at'[k] = at[k]
        /\ \/ pc'[l] = "members" /\ at'[l] = at[l]
           \/ pc'[l] = "dep" /\ at'[l] = at[l] + 1
    <3>1. CASE pc' = [pc EXCEPT ![l] = "members"] /\ at' = at
      BY <1>0, <3>1, GoesTo DEF Shapes, Goto, WhereAll
    <3>2. CASE pc' = [pc EXCEPT ![l] = "dep"] /\ at' = [at EXCEPT ![l] = @ + 1]
      <4>1. at[l] + 1 \in Nat /\ at' = [at EXCEPT ![l] = at[l] + 1]
        BY <1>0, <3>2
      <4>2. Goto(l, "dep") /\ "dep" \in WhereAll
        BY <3>2 DEF Goto, WhereAll
      <4>3. pc' \in [Links -> WhereAll] /\ pc'[l] = "dep" /\ \A k \in Links \ {l} : pc'[k] = pc[k]
        BY <4>2, GoesTo
      <4>4. at' \in [Links -> Nat] /\ at'[l] = at[l] + 1 /\ \A k \in Links \ {l} : at'[k] = at[k]
        BY <4>1, LooksAt
      <4> QED  BY <4>3, <4>4
    <3> QED  BY <2>1, <3>1, <3>2
  <2>5. Shapes'
    BY <1>0, <2>1, <2>3, <2>4 DEF Shapes
  <2>6. at'[l] \in 1 .. Len(setup.search[l]) + 1 /\ (pc'[l] # "dep" => at'[l] <= Len(setup.search[l]))
    BY <1>0, <2>1, <2>4
  <2>7. \A k \in Links : Local(k)'
    BY <2>1, <2>2, <2>4, <2>6, StepTyped
  <2> QED  BY <2>5, <2>7 DEF LinkTyped
<1>7. CASE CheckMembers(l)
  <2>1. /\ setup' = setup /\ flist' = flist /\ src' = src
        /\ UNCHANGED <<now, decl, hdr, lock, obj, he, cs, dip, und, left>>
        /\ pc[l] = "members"
        /\ \/ pc' = [pc EXCEPT ![l] = "adopt"] /\ at' = at
           \/ pc' = [pc EXCEPT ![l] = "dep"] /\ at' = [at EXCEPT ![l] = @ + 1]
    BY <1>7 DEF CheckMembers, NextRep, Goto, files
  <2>2. src[Main(l)] # None /\ at[l] <= Len(setup.search[l])
    BY <1>0, <2>1 DEF Local, Asking
  <2>3. /\ pc' \in [Links -> WhereAll] /\ at' \in [Links -> Nat]
        /\ \A k \in Links \ {l} : pc'[k] = pc[k] /\ at'[k] = at[k]
        /\ \/ pc'[l] = "adopt" /\ at'[l] = at[l]
           \/ pc'[l] = "dep" /\ at'[l] = at[l] + 1
    <3>1. CASE pc' = [pc EXCEPT ![l] = "adopt"] /\ at' = at
      BY <1>0, <3>1, GoesTo DEF Shapes, Goto, WhereAll
    <3>2. CASE pc' = [pc EXCEPT ![l] = "dep"] /\ at' = [at EXCEPT ![l] = @ + 1]
      <4>1. at[l] + 1 \in Nat /\ at' = [at EXCEPT ![l] = at[l] + 1]
        BY <1>0, <3>2
      <4>2. Goto(l, "dep") /\ "dep" \in WhereAll
        BY <3>2 DEF Goto, WhereAll
      <4>3. pc' \in [Links -> WhereAll] /\ pc'[l] = "dep" /\ \A k \in Links \ {l} : pc'[k] = pc[k]
        BY <4>2, GoesTo
      <4>4. at' \in [Links -> Nat] /\ at'[l] = at[l] + 1 /\ \A k \in Links \ {l} : at'[k] = at[k]
        BY <4>1, LooksAt
      <4> QED  BY <4>3, <4>4
    <3> QED  BY <2>1, <3>1, <3>2
  <2>4. Shapes'
    BY <1>0, <2>1, <2>3 DEF Shapes
  <2>5. at'[l] \in 1 .. Len(setup.search[l]) + 1 /\ (pc'[l] # "dep" => at'[l] <= Len(setup.search[l]))
    BY <1>0, <2>2, <2>3
  <2>6. \A k \in Links : Local(k)'
    BY <2>1, <2>2, <2>3, <2>5, StepTyped
  <2> QED  BY <2>4, <2>6 DEF LinkTyped
<1>8. CASE DropObject(l)
  <2>1. /\ setup' = setup /\ flist' = flist /\ src' = src
        /\ UNCHANGED <<now, decl, hdr, lock, he, cs, dip, und, left>>
        /\ pc[l] = "dep" /\ pc' = [pc EXCEPT ![l] = "compile"]
        /\ at' = [at EXCEPT ![l] = 1]
        /\ obj' = [obj EXCEPT ![Main(l)] = None]
    BY <1>8 DEF DropObject, Goto
  <2>2. src[Main(l)] # None
    BY <1>0, <2>1 DEF Local, Asking
  <2>3. pc' \in [Links -> WhereAll] /\ pc'[l] = "compile" /\ \A k \in Links \ {l} : pc'[k] = pc[k]
    BY <2>1, GoesTo DEF WhereAll, Goto
  <2>4. at' \in [Links -> Nat] /\ at'[l] = 1 /\ \A k \in Links \ {l} : at'[k] = at[k]
    BY <2>1, LooksAt
  <2>5. Shapes'
    BY <1>0, <2>1, <2>3, <2>4 DEF Shapes
  <2>6. \A k \in Links : Local(k)'
    BY <1>0, <2>1, <2>2, <2>3, <2>4, StepTyped
  <2> QED  BY <2>5, <2>6 DEF LinkTyped
<1>9. CASE Compile(l)
  <2>1. /\ setup' = setup /\ flist' = flist /\ src' = src
        /\ UNCHANGED <<now, decl, hdr, lock, he, cs, dip, und, left, at>>
        /\ pc[l] = "compile" /\ pc' = [pc EXCEPT ![l] = "drop"]
        /\ obj' = [obj EXCEPT ![Main(l)] = Compiled(l, src[Main(l)])]
    BY <1>9 DEF Compile, Goto, locals
  <2>2. src[Main(l)] # None /\ src[Main(l)] \in Sources /\ at[l] = 1
    BY <1>0, <2>1 DEF Local, Asking, Shapes
  <2>3. \E H \in SUBSET Headers : Compiled(l, src[Main(l)]) \in Objects(H)
    BY <2>2, CompiledIs
  <2>4. DOMAIN obj' = Reps
        /\ \A r \in Reps : obj'[r] = None \/ \E H \in SUBSET Headers : obj'[r] \in Objects(H)
    BY <1>0, <2>1, <2>3 DEF Shapes
  <2>5. pc' \in [Links -> WhereAll] /\ pc'[l] = "drop" /\ \A k \in Links \ {l} : pc'[k] = pc[k]
    BY <2>1, GoesTo DEF WhereAll, Goto
  <2>6. Shapes'
    BY <1>0, <2>1, <2>4, <2>5 DEF Shapes
  <2>7. \A k \in Links : Local(k)'
    BY <1>0, <2>1, <2>2, <2>5, StepTyped
  <2> QED  BY <2>6, <2>7 DEF LinkTyped
<1>10. CASE DropMembers(l) \/ WriteMembers(l)
  <2>1. /\ setup' = setup /\ flist' = flist /\ src' = src
        /\ UNCHANGED <<now, decl, hdr, lock, obj, he, dip, und, left, at>>
        /\ pc[l] \in {"drop", "write"}
        /\ \/ pc' = [pc EXCEPT ![l] = "write"]
           \/ pc' = [pc EXCEPT ![l] = "adopt"]
        /\ cs' = [cs EXCEPT ![Main(l)] = None] \/ cs' = [cs EXCEPT ![Main(l)] = dip[l]]
    BY <1>10 DEF DropMembers, WriteMembers, Goto, locals
  <2>2. src[Main(l)] # None /\ at[l] = 1
    BY <1>0, <2>1 DEF Local, Asking
  <2>3. cs' \in [Reps -> {None} \cup SUBSET Members]
    BY <1>0, <2>1 DEF Shapes
  <2>4. pc' \in [Links -> WhereAll] /\ pc'[l] \in {"write", "adopt"}
        /\ \A k \in Links \ {l} : pc'[k] = pc[k]
    BY <2>1, GoesTo DEF WhereAll, Goto
  <2>5. Shapes'
    BY <1>0, <2>1, <2>3, <2>4 DEF Shapes
  <2>6. \A k \in Links : Local(k)'
    BY <1>0, <2>1, <2>2, <2>4, StepTyped
  <2> QED  BY <2>5, <2>6 DEF LinkTyped
<1>11. CASE Adopt(l)
  <2>1. /\ setup' = setup /\ src' = src /\ at' = at
        /\ UNCHANGED <<now, decl, hdr, lock, obj, he, cs, dip, und, left>>
        /\ pc[l] = "adopt" /\ pc' = [pc EXCEPT ![l] = "link"]
        /\ flist' = IF obj[Rep(l)] = None THEN flist
                    ELSE [flist EXCEPT ![l] = Adopted(l, Rep(l))]
    BY <1>11 DEF Adopt, Goto, files
  <2>2. at[l] <= Len(setup.search[l]) /\ Listing(l, flist[l])
    BY <1>0, <2>1 DEF Local
  <2>3. obj[Rep(l)] # None => Listing(l, Adopted(l, Rep(l)))
    BY <2>2, AdoptedIs
  <2>4. Listing(l, flist'[l]) /\ flist' \in [Links -> Seq(Adoptions)]
        /\ \A k \in Links \ {l} : flist'[k] = flist[k]
    BY <1>0, <2>1, <2>2, <2>3 DEF Shapes, Listing
  <2>5. Shapes'
    BY <1>0, <2>1, <2>4 DEF Shapes, WhereAll
  <2>6. Local(l)'
    <3>1. Listing(l, flist[l])'
      BY <2>1, <2>4 DEF Listing
    <3>2. pc'[l] = "link" /\ at'[l] = at[l]
      BY <1>0, <2>1 DEF Shapes
    <3> QED  BY <1>0, <2>1, <2>2, <3>1, <3>2 DEF Local, Asking
  <2>7. ASSUME NEW k \in Links \ {l} PROVE Local(k)'
    <3>1. pc'[k] = pc[k] /\ at'[k] = at[k] /\ src' = src
      BY <1>0, <2>1 DEF Shapes
    <3> QED  BY <2>1, <2>4, <3>1, LocalKept
  <2> QED  BY <2>5, <2>6, <2>7 DEF LinkTyped
<1> QED  BY <1>1, <1>2, <1>3, <1>4, <1>5, <1>6, <1>7, <1>8, <1>9, <1>10, <1>11 DEF LinkStep

LEMMA TypedWorld ==
  ASSUME LinkTyped, (\E h \in Headers : Edit(h)) \/ Move \/ Tick
  PROVE  LinkTyped'
<1>0. Shapes /\ \A k \in Links : Local(k)
  BY DEF LinkTyped
<1>1. UNCHANGED <<setup, lock, files, pc, locals>>
  BY DEF Edit, Move, Tick
<1>2. \A k \in Links : Local(k)'
  BY <1>1, LocalKept DEF files, locals
<1>3. CASE \E h \in Headers : Edit(h)
  <2>1. PICK h \in Headers : Edit(h)
    BY <1>3
  <2>2. PICK uses \in SUBSET (Headers \ {h}) :
          hdr' = [hdr EXCEPT ![h] = [time |-> now, ver |-> hdr[h].ver + 1, uses |-> uses]]
    BY <2>1 DEF Edit
  <2>3. hdr' \in HeaderTables
    BY <1>0, <2>2 DEF Shapes, HeaderTables
  <2>4. left' \in Budgets /\ left'.kills = left.kills /\ left'.moves = left.moves
    <3>1. left.edits > 0 /\ left' = [left EXCEPT !.edits = @ - 1]
      BY <2>1 DEF Edit
    <3> QED  BY <1>0, <3>1, BudgetLess DEF Shapes, Budgets
  <2>5. UNCHANGED <<now, decl>>
    BY <2>1 DEF Edit
  <2>6. Shapes'
    BY <1>0, <1>1, <2>3, <2>4, <2>5 DEF Shapes, files, locals, Budgets
  <2> QED  BY <1>2, <2>6 DEF LinkTyped
<1>4. CASE Move
  <2>1. decl' \in {1, 2}
    BY <1>0, <1>4 DEF Shapes, Move
  <2>2. left' \in Budgets /\ left'.kills = left.kills /\ left'.moves <= left.moves
        /\ left.moves \in Nat /\ left'.moves \in Nat
    <3>1. left.moves > 0 /\ left' = [left EXCEPT !.moves = @ - 1]
      BY <1>4 DEF Move
    <3>2. left \in Budgets
      BY <1>0 DEF Shapes, Budgets
    <3>3. left.moves \in Nat
      BY <3>2 DEF Budgets
    <3>4. left' \in Budgets /\ left'.kills = left.kills /\ left'.moves = left.moves - 1
      BY <3>1, <3>2, BudgetLess
    <3> QED  BY <3>1, <3>3, <3>4
  <2>3. UNCHANGED <<now, hdr>>
    BY <1>4 DEF Move
  <2>4. left'.moves <= setup.budget.moves
    <3>1. setup.budget \in Budgets /\ left.moves <= setup.budget.moves
      BY <1>0, SetupsAssumption DEF Shapes, Budgets
    <3>2. setup.budget.moves \in Nat
      BY <3>1 DEF Budgets
    <3> QED  BY <2>2, <3>1, <3>2
  <2>5. Shapes'
    BY <1>0, <1>1, <2>1, <2>2, <2>3, <2>4 DEF Shapes, files, locals, Budgets
  <2> QED  BY <1>2, <2>5 DEF LinkTyped
<1>5. CASE Tick
  <2>1. now' \in Whens
    BY <1>0, <1>5, ClassAssumption DEF Shapes, Tick, Whens
  <2>2. UNCHANGED <<decl, hdr, left>>
    BY <1>5 DEF Tick
  <2>3. Shapes'
    BY <1>0, <1>1, <2>1, <2>2 DEF Shapes, files, locals
  <2> QED  BY <1>2, <2>3 DEF LinkTyped
<1> QED  BY <1>3, <1>4, <1>5

LEMMA TypedStutter ==
  ASSUME LinkTyped, UNCHANGED vars
  PROVE  LinkTyped'
<1>1. UNCHANGED <<setup, now, decl, hdr, lock, src, obj, he, cs, pc, at, dip, und, flist, left>>
  BY DEF vars, files, locals
<1>2. Shapes'
  BY <1>1 DEF LinkTyped, Shapes
<1>3. \A k \in Links : Local(k)'
  BY <1>1, LocalKept
<1> QED  BY <1>2, <1>3 DEF LinkTyped

LEMMA TypedInit ==
  ASSUME Init
  PROVE  LinkTyped
<1>1. setup \in Setups
  BY DEF Init
<1>2. 0 \in Whens /\ 1 \in Whens
  BY ClassAssumption DEF Whens
<1>3. hdr \in HeaderTables
  BY <1>2 DEF Init, HeaderTables
<1>4. setup.budget \in [runs : Nat, edits : Nat, moves : Nat, kills : Nat]
  BY <1>1, SetupsAssumption
<1>5. und \in [Links -> [now : SUBSET Members, before : SUBSET Members]]
  BY DEF Init, NoneYet
<1>6. flist \in [Links -> Seq(Adoptions)]
  BY DEF Init
<1>7. Shapes
  BY <1>1, <1>2, <1>3, <1>4, <1>5, <1>6 DEF Init, Shapes, WhereAll
<1>8. ASSUME NEW l \in Links PROVE Local(l)
  <2>1. Len(setup.search[l]) \in Nat \ {0}
    BY <1>1, SetupsAssumption
  <2>2. flist[l] = <<>> /\ at[l] = 1 /\ pc[l] = "idle"
    BY DEF Init
  <2>3. Listing(l, flist[l])
    BY <2>2 DEF Listing
  <2> QED  BY <2>1, <2>2, <2>3 DEF Local, Asking
<1> QED  BY <1>7, <1>8 DEF LinkTyped

(***************************************************************************)
(* What each step of a link does, entry by entry.                          *)
(***************************************************************************)

\* The steps of a link that holds its repository, and those that end it.
Works(l) ==
  \/ Finish(l) \/ Ask(l) \/ CheckTime(l) \/ CheckMembers(l) \/ DropObject(l)
  \/ Compile(l) \/ DropMembers(l) \/ WriteMembers(l) \/ Adopt(l)

Quits(l) == GiveUp(l) \/ CompileFails(l) \/ Exit(l) \/ Kill(l)

\* A link touches no locals but its own and no repository but its own.
OwnOnly(l) ==
  /\ UNCHANGED <<setup, now, decl, hdr>>
  /\ \A k \in Links \ {l} : /\ pc'[k] = pc[k] /\ at'[k] = at[k] /\ dip'[k] = dip[k]
                            /\ und'[k] = und[k] /\ flist'[k] = flist[k]
  /\ \A r \in Reps \ {Main(l)} : /\ src'[r] = src[r] /\ obj'[r] = obj[r]
                                 /\ he'[r] = he[r] /\ cs'[r] = cs[r]

LEMMA OwnIs ==
  ASSUME LinkTyped, NEW l \in Links, Start(l) \/ LinkStep(l) \/ Kill(l)
  PROVE  OwnOnly(l)
<1> USE DEF OwnOnly
<1>0. Shapes
  BY DEF LinkTyped
<1>1. CASE Start(l) \/ Lock(l)
  BY <1>0, <1>1 DEF Start, Lock, Goto, Shapes, files, locals
<1>2. CASE GiveUp(l) \/ CompileFails(l) \/ Exit(l) \/ Kill(l)
  <2>1. Ends(l) /\ UNCHANGED <<setup, now, decl, hdr, src, obj, cs>>
    BY <1>2 DEF GiveUp, CompileFails, Exit, Kill, files
  <2>2. \A r \in Reps \ {Main(l)} : he'[r] = he[r]
    BY <1>0, <1>2 DEF GiveUp, CompileFails, Exit, Kill, files, Shapes
  <2> QED  BY <2>1, <2>2, EndsIs
<1>3. CASE Finish(l)
  BY <1>0, <1>3 DEF Finish, Goto, Shapes, files
<1>4. CASE Ask(l)
  BY <1>0, <1>4 DEF Ask, Goto, Shapes
<1>5. CASE CheckTime(l)
  <2>1. UNCHANGED <<setup, now, decl, hdr, src, obj, cs, dip, und, flist>>
    BY <1>5 DEF CheckTime
  <2>2. \A r \in Reps \ {Main(l)} : he'[r] = he[r]
    BY <1>0, <1>5 DEF CheckTime, Shapes
  <2>3. \A k \in Links \ {l} : pc'[k] = pc[k] /\ at'[k] = at[k]
    BY <1>0, <1>5 DEF CheckTime, NextRep, Goto, Shapes
  <2> QED  BY <2>1, <2>2, <2>3
<1>6. CASE CheckMembers(l)
  <2>1. UNCHANGED <<setup, now, decl, hdr, src, obj, he, cs, dip, und, flist>>
    BY <1>6 DEF CheckMembers, files
  <2>2. \A k \in Links \ {l} : pc'[k] = pc[k] /\ at'[k] = at[k]
    BY <1>0, <1>6 DEF CheckMembers, NextRep, Goto, Shapes
  <2> QED  BY <2>1, <2>2
<1>7. CASE DropObject(l)
  BY <1>0, <1>7 DEF DropObject, Goto, Shapes
<1>8. CASE Compile(l)
  BY <1>0, <1>8 DEF Compile, Goto, Shapes, locals
<1>9. CASE DropMembers(l) \/ WriteMembers(l)
  BY <1>0, <1>9 DEF DropMembers, WriteMembers, Goto, Shapes, locals
<1>10. CASE Adopt(l)
  BY <1>0, <1>10 DEF Adopt, Goto, Shapes, files
<1> QED  BY <1>1, <1>2, <1>3, <1>4, <1>5, <1>6, <1>7, <1>8, <1>9, <1>10 DEF LinkStep

LEMMA StartIs ==
  ASSUME LinkTyped, NEW l \in Links, Start(l)
  PROVE  /\ pc[l] = "idle" /\ pc'[l] = "lock"
         /\ UNCHANGED <<lock, src, obj, he, cs, at, dip, und, flist>>
         /\ left'.kills = left.kills /\ left'.moves = left.moves
<1>1. left' = [left EXCEPT !.runs = @ - 1] /\ left.runs > 0 /\ left \in Budgets
  BY DEF Start, LinkTyped, Shapes, Budgets
<1>2. left'.kills = left.kills /\ left'.moves = left.moves
  BY <1>1, BudgetLess
<1>3. pc[l] = "idle" /\ pc'[l] = "lock"
  BY DEF Start, LinkTyped, Shapes, Goto
<1> QED  BY <1>2, <1>3 DEF Start, files, locals

LEMMA LockIs ==
  ASSUME LinkTyped, NEW l \in Links, Lock(l)
  PROVE  /\ pc[l] = "lock" /\ pc'[l] = "link"
         /\ lock[Main(l)] = None
         /\ \A r \in Reps : lock'[r] = IF r = Main(l) THEN l ELSE lock[r]
         /\ UNCHANGED <<src, obj, he, cs, at, dip, und, flist, left>>
BY DEF Lock, LinkTyped, Shapes, Goto, files, locals

LEMMA QuitsIs ==
  ASSUME LinkTyped, NEW l \in Links, Quits(l)
  PROVE  /\ pc[l] # "idle" /\ pc'[l] = "idle"
         /\ \A r \in Reps : lock'[r] = IF lock[r] = l THEN None ELSE lock[r]
         /\ at'[l] = 1 /\ dip'[l] = {} /\ und'[l] = NoneYet /\ flist'[l] = <<>>
         /\ UNCHANGED <<src, obj, cs>>
         /\ left'.moves = left.moves
         /\ \/ /\ left' = left /\ he' = he
               /\ pc[l] \in {"lock", "compile", "done", "unresolved"}
            \/ left.kills > 0 /\ left'.kills = left.kills - 1
<1>1. Ends(l) /\ UNCHANGED <<src, obj, cs>>
  BY DEF Quits, GiveUp, CompileFails, Exit, Kill, files
<1>2. CASE GiveUp(l) \/ CompileFails(l) \/ Exit(l)
  BY <1>1, <1>2, EndsIs DEF GiveUp, CompileFails, Exit, files
<1>3. CASE Kill(l)
  <2>1. pc[l] # "idle" /\ left.kills > 0 /\ left' = [left EXCEPT !.kills = @ - 1]
        /\ left \in Budgets
    BY <1>3 DEF Kill, LinkTyped, Shapes, Budgets
  <2>2. left'.kills = left.kills - 1 /\ left'.moves = left.moves
    BY <2>1, BudgetLess
  <2> QED  BY <1>1, <2>1, <2>2, EndsIs
<1> QED  BY <1>2, <1>3 DEF Quits

\* What a killed link may leave of its own cache.
LEMMA KillIs ==
  ASSUME LinkTyped, NEW l \in Links, Kill(l)
  PROVE  \/ he'[Main(l)] = he[Main(l)]
         \/ Rebuilds(l) /\ he'[Main(l)] = None
         \/ /\ Rebuilds(l) /\ he'[Main(l)] # None
            /\ he'[Main(l)].time = now /\ ~ he'[Main(l)].whole
<1>1. CASE he' = he
  BY <1>1
<1>2. CASE Rebuilds(l) /\ he' # he
  <2> DEFINE torn == [time |-> now, i |-> setup.i[l], d |-> setup.d[l], hdrs |-> {}, whole |-> FALSE]
  <2>1. PICK rest \in {None, torn} : he' = [he EXCEPT ![Main(l)] = rest]
    BY <1>2 DEF Kill
  <2>2. he \in [Reps -> Caches \cup {None}] /\ Main(l) \in Reps
    BY SetupIs DEF LinkTyped, Shapes
  <2>3. he'[Main(l)] = rest
    BY <2>1, <2>2
  <2>4. torn \in Caches
    BY SetupIs DEF LinkTyped, Shapes, Caches
  <2>5. torn # None /\ torn.time = now /\ ~ torn.whole
    BY <2>4, NoneAssumption
  <2>6. rest = None \/ rest = torn
    BY <2>1
  <2> HIDE DEF torn
  <2> QED  BY <1>2, <2>3, <2>5, <2>6
<1> QED  BY <1>1, <1>2 DEF Kill

LEMMA FinishIs ==
  ASSUME LinkTyped, NEW l \in Links, Finish(l)
  PROVE  /\ pc[l] = "link"
         /\ und'[l] = [now |-> Undefined(l), before |-> und[l].now]
         /\ \/ Undefined(l) = {} /\ pc'[l] = "done"
            \/ /\ Undefined(l) # {} /\ Undefined(l) \cap und[l].now # {}
               /\ pc'[l] = "unresolved"
         /\ UNCHANGED <<lock, src, obj, he, cs, at, dip, flist, left>>
<1>1. pc \in [Links -> WhereAll] /\ DOMAIN und = Links
  BY DEF LinkTyped, Shapes
<1> QED  BY <1>1 DEF Finish, Goto, files

LEMMA AskIs ==
  ASSUME LinkTyped, NEW l \in Links, Ask(l)
  PROVE  /\ pc[l] = "link" /\ pc'[l] = "dep" /\ at'[l] = 1
         /\ Undefined(l) # {} /\ Undefined(l) \cap und[l].now = {}
         /\ und'[l] = [now |-> Undefined(l), before |-> und[l].now]
         /\ dip'[l] = dip[l] \cup Undefined(l)
         /\ src'[Main(l)] # None /\ src'[Main(l)].decl = decl
         /\ \/ src'[Main(l)] = src[Main(l)]
            \/ /\ src'[Main(l)] = [time |-> now, decl |-> decl]
               /\ src[Main(l)] = None \/ src[Main(l)].decl # decl
         /\ UNCHANGED <<lock, obj, he, cs, flist, left>>
<1> DEFINE file == [time |-> now, decl |-> decl]
<1>1. /\ pc \in [Links -> WhereAll] /\ DOMAIN und = Links /\ DOMAIN dip = Links
      /\ DOMAIN at = Links /\ DOMAIN src = Reps /\ Main(l) \in Reps
  BY SetupIs DEF LinkTyped, Shapes
<1>2. file \in Sources /\ file # None /\ file.decl = decl
  BY NoneAssumption DEF LinkTyped, Shapes, Sources
<1>3. src' = IF src[Main(l)] # None /\ src[Main(l)].decl = decl THEN src
             ELSE [src EXCEPT ![Main(l)] = file]
  BY DEF Ask
<1> HIDE DEF file
<1>4. /\ src'[Main(l)] # None /\ src'[Main(l)].decl = decl
      /\ \/ src'[Main(l)] = src[Main(l)]
         \/ src'[Main(l)] = file /\ (src[Main(l)] = None \/ src[Main(l)].decl # decl)
  BY <1>1, <1>2, <1>3
<1>5. pc[l] = "link" /\ pc'[l] = "dep" /\ at'[l] = 1 /\ dip'[l] = dip[l] \cup Undefined(l)
  BY <1>1 DEF Ask, Goto
<1>6. /\ Undefined(l) # {} /\ Undefined(l) \cap und[l].now = {}
      /\ und'[l] = [now |-> Undefined(l), before |-> und[l].now]
  BY <1>1 DEF Ask
<1>7. UNCHANGED <<lock, obj, he, cs, flist, left>>
  BY DEF Ask
<1> QED  BY <1>4, <1>5, <1>6, <1>7 DEF file

LEMMA CheckTimeIs ==
  ASSUME LinkTyped, NEW l \in Links, CheckTime(l)
  PROVE  /\ pc[l] = "dep" /\ at[l] <= Len(setup.search[l])
         /\ he'[Main(l)] = IF Rebuilds(l) THEN NewCache(l) ELSE he[Main(l)]
         /\ \/ /\ pc'[l] = "members" /\ at'[l] = at[l]
               /\ src[Rep(l)] # None /\ obj[Rep(l)] # None /\ UpToDate(l, Rep(l))
            \/ /\ pc'[l] = "dep" /\ at'[l] = at[l] + 1
               /\ ~ (src[Rep(l)] # None /\ obj[Rep(l)] # None /\ UpToDate(l, Rep(l)))
         /\ UNCHANGED <<lock, src, obj, cs, dip, und, flist, left>>
<1>1. pc \in [Links -> WhereAll] /\ DOMAIN at = Links /\ DOMAIN he = Reps /\ Main(l) \in Reps
  BY SetupIs DEF LinkTyped, Shapes
<1>2. he'[Main(l)] = IF Rebuilds(l) THEN NewCache(l) ELSE he[Main(l)]
  BY <1>1 DEF CheckTime
<1>3. CASE src[Rep(l)] # None /\ obj[Rep(l)] # None /\ UpToDate(l, Rep(l))
  BY <1>1, <1>2, <1>3 DEF CheckTime, Goto
<1>4. CASE ~ (src[Rep(l)] # None /\ obj[Rep(l)] # None /\ UpToDate(l, Rep(l)))
  BY <1>1, <1>2, <1>4 DEF CheckTime, NextRep, Goto
<1> QED  BY <1>3, <1>4

LEMMA CheckMembersIs ==
  ASSUME LinkTyped, NEW l \in Links, CheckMembers(l)
  PROVE  /\ pc[l] = "members"
         /\ \/ /\ pc'[l] = "adopt" /\ at'[l] = at[l]
               /\ cs[Rep(l)] # None /\ dip[l] \subseteq cs[Rep(l)]
            \/ pc'[l] = "dep" /\ at'[l] = at[l] + 1
         /\ UNCHANGED <<lock, src, obj, he, cs, dip, und, flist, left>>
<1>1. pc \in [Links -> WhereAll] /\ DOMAIN at = Links
  BY DEF LinkTyped, Shapes
<1> QED  BY <1>1 DEF CheckMembers, NextRep, Goto, files

LEMMA DropObjectIs ==
  ASSUME LinkTyped, NEW l \in Links, DropObject(l)
  PROVE  /\ pc[l] = "dep" /\ pc'[l] = "compile"
         /\ at[l] > Len(setup.search[l]) /\ at'[l] = 1
         /\ obj'[Main(l)] = None
         /\ UNCHANGED <<lock, src, he, cs, dip, und, flist, left>>
<1>1. pc \in [Links -> WhereAll] /\ DOMAIN at = Links /\ DOMAIN obj = Reps /\ Main(l) \in Reps
  BY SetupIs DEF LinkTyped, Shapes
<1> QED  BY <1>1 DEF DropObject, Goto

LEMMA CompileIs ==
  ASSUME LinkTyped, NEW l \in Links, Compile(l)
  PROVE  /\ pc[l] = "compile" /\ pc'[l] = "drop"
         /\ obj'[Main(l)] = Compiled(l, src[Main(l)])
         /\ src[Main(l)] \in Sources /\ src[Main(l)] # None
         /\ UNCHANGED <<lock, src, he, cs, at, dip, und, flist, left>>
<1>1. pc \in [Links -> WhereAll] /\ DOMAIN obj = Reps /\ Main(l) \in Reps
      /\ src \in [Reps -> Sources \cup {None}] /\ Local(l)
  BY SetupIs DEF LinkTyped, Shapes
<1>2. src[Main(l)] # None
  BY <1>1 DEF Local, Asking, Compile
<1> QED  BY <1>1, <1>2 DEF Compile, Goto, locals

LEMMA DropMembersIs ==
  ASSUME LinkTyped, NEW l \in Links, DropMembers(l)
  PROVE  /\ pc[l] = "drop" /\ pc'[l] = "write"
         /\ cs'[Main(l)] = None
         /\ UNCHANGED <<lock, src, obj, he, at, dip, und, flist, left>>
<1>1. pc \in [Links -> WhereAll] /\ DOMAIN cs = Reps /\ Main(l) \in Reps
  BY SetupIs DEF LinkTyped, Shapes
<1> QED  BY <1>1 DEF DropMembers, Goto, locals

LEMMA WriteMembersIs ==
  ASSUME LinkTyped, NEW l \in Links, WriteMembers(l)
  PROVE  /\ pc[l] = "write" /\ pc'[l] = "adopt"
         /\ cs'[Main(l)] = dip[l]
         /\ UNCHANGED <<lock, src, obj, he, at, dip, und, flist, left>>
<1>1. pc \in [Links -> WhereAll] /\ DOMAIN cs = Reps /\ Main(l) \in Reps
  BY SetupIs DEF LinkTyped, Shapes
<1> QED  BY <1>1 DEF WriteMembers, Goto, locals

LEMMA AdoptIs ==
  ASSUME LinkTyped, NEW l \in Links, Adopt(l)
  PROVE  /\ pc[l] = "adopt" /\ pc'[l] = "link"
         /\ flist'[l] = IF obj[Rep(l)] = None THEN flist[l] ELSE Adopted(l, Rep(l))
         /\ UNCHANGED <<lock, src, obj, he, cs, at, dip, und, left>>
<1>1. pc \in [Links -> WhereAll] /\ DOMAIN flist = Links
  BY DEF LinkTyped, Shapes
<1> QED  BY <1>1 DEF Adopt, Goto, files

LEMMA WorksIs ==
  ASSUME LinkTyped, NEW l \in Links, Works(l)
  PROVE  /\ UNCHANGED <<lock, left>>
         /\ pc[l] \notin {"idle", "lock"} /\ pc'[l] \notin {"idle", "lock"}
<1>1. CASE Finish(l) \/ Ask(l)
  BY <1>1, FinishIs, AskIs
<1>2. CASE CheckTime(l) \/ CheckMembers(l) \/ DropObject(l)
  BY <1>2, CheckTimeIs, CheckMembersIs, DropObjectIs
<1>3. CASE Compile(l) \/ DropMembers(l) \/ WriteMembers(l) \/ Adopt(l)
  BY <1>3, CompileIs, DropMembersIs, WriteMembersIs, AdoptIs
<1> QED  BY <1>1, <1>2, <1>3 DEF Works

\* The steps of a link, sorted.
LEMMA LinkSteps ==
  ASSUME NEW l \in Links, Start(l) \/ LinkStep(l) \/ Kill(l)
  PROVE  Start(l) \/ Lock(l) \/ Works(l) \/ Quits(l)
BY DEF LinkStep, Works, Quits

(***************************************************************************)
(* Who works in a repository holds its lock, and what it keeps in mind     *)
(* fits what lies there.                                                   *)
(***************************************************************************)

Held(l) ==
  /\ pc[l] \notin {"idle", "lock"} => lock[Main(l)] = l
  /\ pc[l] \in {"idle", "lock"} => und[l] = NoneYet /\ dip[l] = {}

Minds(l) ==
  /\ pc[l] \in Asking => src[Main(l)].decl = decl
  /\ pc[l] = "compile" => obj[Main(l)] = None
  /\ pc[l] \in {"drop", "write"} =>
       obj[Main(l)] # None /\ obj[Main(l)].members = dip[l] \cap Defined
  /\ pc[l] = "done" => Undefined(l) = {}
  /\ pc[l] \notin {"done", "unresolved"} => und[l].now \subseteq dip[l]

LinkHeld == LinkTyped /\ \A l \in Links : Held(l) /\ Minds(l)

LEMMA UndefinedKept ==
  ASSUME NEW k \in Links, setup' = setup, flist'[k] = flist[k]
  PROVE  Undefined(k)' = Undefined(k)
<1>1. Linked(k)' = LinkFold(setup'.needs[k], flist'[k])[DOMAIN flist'[k]]
  BY DEF Linked, FoldLeft, MapThenFoldSet, LinkFold, Joined
<1>2. Linked(k)' = Linked(k)
  BY <1>1, LinkedIs
<1> QED  BY <1>2 DEF Undefined

LEMMA MindsKept ==
  ASSUME LinkTyped, NEW k \in Links, Minds(k),
         UNCHANGED <<setup, decl, pc[k], dip[k], und[k], flist[k]>>,
         pc[k] \in Asking => src'[Main(k)] = src[Main(k)],
         pc[k] \in Asking => obj'[Main(k)] = obj[Main(k)]
  PROVE  Minds(k)'
<1>1. Main(k)' = Main(k) /\ Undefined(k)' = Undefined(k)
  BY UndefinedKept DEF Main
<1> QED  BY <1>1 DEF Minds, Asking

\* A step of link l that leaves alone the others, who hold other repositories.
LEMMA OthersHeld ==
  ASSUME LinkHeld, NEW l \in Links, OwnOnly(l), NEW k \in Links \ {l},
         UNCHANGED <<src, obj>> \/ lock[Main(l)] = l
  PROVE  Minds(k)'
<1>1. LinkTyped /\ Held(k) /\ Minds(k) /\ Main(k) \in Reps
  BY SetupIs DEF LinkHeld
<1>2. UNCHANGED <<setup, decl, pc[k], dip[k], und[k], flist[k]>>
  BY DEF OwnOnly
<1>3. ASSUME pc[k] \in Asking PROVE src'[Main(k)] = src[Main(k)] /\ obj'[Main(k)] = obj[Main(k)]
  <2>1. lock[Main(k)] = k
    BY <1>1, <1>3 DEF Held, Asking
  <2> QED  BY <1>1, <2>1 DEF OwnOnly
<1> QED  BY <1>1, <1>2, <1>3, MindsKept

LEMMA HeldLink ==
  ASSUME LinkHeld, NEW l \in Links, Start(l) \/ LinkStep(l) \/ Kill(l)
  PROVE  LinkHeld'
<1>0. /\ LinkTyped /\ LinkTyped' /\ OwnOnly(l) /\ Held(l) /\ Minds(l) /\ Local(l)
      /\ Main(l) \in Reps /\ Main(l)' = Main(l)
  BY TypedLink, OwnIs, SetupIs DEF LinkHeld, LinkTyped, OwnOnly, Main
<1>1. CASE Start(l)
  <2>1. Held(l)'
    BY <1>0, <1>1, StartIs DEF Held
  <2>2. Minds(l)'
    BY <1>0, <1>1, StartIs DEF Held, Minds, Asking, NoneYet
  <2>3. ASSUME NEW k \in Links \ {l} PROVE Held(k)' /\ Minds(k)'
    <3>1. Held(k)'
      BY <1>0, <1>1, StartIs DEF LinkHeld, Held, OwnOnly, Main
    <3> QED  BY <1>0, <1>1, <3>1, StartIs, OthersHeld
  <2> QED  BY <1>0, <2>1, <2>2, <2>3 DEF LinkHeld
<1>2. CASE Lock(l)
  <2>1. Held(l)'
    BY <1>0, <1>2, LockIs DEF Held
  <2>2. Minds(l)'
    BY <1>0, <1>2, LockIs DEF Held, Minds, Asking, NoneYet
  <2>3. ASSUME NEW k \in Links \ {l} PROVE Held(k)' /\ Minds(k)'
    <3>1. Held(k) /\ Main(k) \in Reps /\ Main(k)' = Main(k) /\ k # None
      BY <1>0, SetupIs, NoneAssumption DEF LinkHeld, OwnOnly, Main
    <3>2. Held(k)'
      BY <1>0, <1>2, <3>1, LockIs DEF Held, OwnOnly
    <3> QED  BY <1>0, <1>2, <3>2, LockIs, OthersHeld
  <2> QED  BY <1>0, <2>1, <2>2, <2>3 DEF LinkHeld
<1>3. CASE Quits(l)
  <2>1. Held(l)'
    BY <1>0, <1>3, QuitsIs DEF Held
  <2>2. Minds(l)'
    BY <1>0, <1>3, QuitsIs DEF Minds, Asking, NoneYet
  <2>3. ASSUME NEW k \in Links \ {l} PROVE Held(k)' /\ Minds(k)'
    <3>1. Held(k) /\ Main(k) \in Reps /\ Main(k)' = Main(k)
      BY <1>0, SetupIs DEF LinkHeld, OwnOnly, Main
    <3>2. Held(k)'
      BY <1>0, <1>3, <3>1, QuitsIs DEF Held, OwnOnly
    <3> QED  BY <1>0, <1>3, <3>2, QuitsIs, OthersHeld
  <2> QED  BY <1>0, <2>1, <2>2, <2>3 DEF LinkHeld
<1>4. CASE Works(l)
  <2>0. /\ UNCHANGED <<lock, left>> /\ pc[l] \notin {"idle", "lock"}
        /\ pc'[l] \notin {"idle", "lock"} /\ lock[Main(l)] = l
    BY <1>0, <1>4, WorksIs DEF Held
  <2>1. Held(l)'
    BY <1>0, <2>0 DEF Held
  <2>2. Minds(l)'
    <3>1. CASE Finish(l)
      <4>1. Undefined(l)' = Undefined(l)
        BY <1>0, <3>1, FinishIs, UndefinedKept DEF OwnOnly
      <4> QED  BY <1>0, <3>1, <4>1, FinishIs DEF Minds, Asking
    <3>2. CASE Ask(l)
      <4>1. /\ pc'[l] = "dep" /\ src'[Main(l)].decl = decl /\ decl' = decl
            /\ und'[l] = [now |-> Undefined(l), before |-> und[l].now]
            /\ dip'[l] = dip[l] \cup Undefined(l)
        BY <1>0, <3>2, AskIs DEF OwnOnly
      <4>2. und'[l].now = Undefined(l)
        BY <4>1
      <4>3. und'[l].now \subseteq dip'[l]
        BY <4>1, <4>2
      <4> QED  BY <1>0, <4>1, <4>3 DEF Minds, Asking
    <3>3. CASE CheckTime(l)
      BY <1>0, <3>3, CheckTimeIs DEF Minds, Asking, OwnOnly
    <3>4. CASE CheckMembers(l)
      BY <1>0, <3>4, CheckMembersIs DEF Minds, Asking, OwnOnly
    <3>5. CASE DropObject(l)
      BY <1>0, <3>5, DropObjectIs DEF Minds, Asking, OwnOnly
    <3>6. CASE Compile(l)
      <4>1. /\ pc'[l] = "drop" /\ obj'[Main(l)] = Compiled(l, src[Main(l)])
            /\ src' = src /\ src[Main(l)] \in Sources /\ pc[l] = "compile"
            /\ UNCHANGED <<dip, und, decl>>
        BY <1>0, <3>6, CompileIs DEF OwnOnly
      <4>2. obj'[Main(l)] # None /\ obj'[Main(l)].members = dip[l] \cap Defined
        BY <1>0, <4>1, CompiledIs
      <4> QED  BY <1>0, <4>1, <4>2 DEF Minds, Asking
    <3>7. CASE DropMembers(l)
      BY <1>0, <3>7, DropMembersIs DEF Minds, Asking, OwnOnly
    <3>8. CASE WriteMembers(l)
      BY <1>0, <3>8, WriteMembersIs DEF Minds, Asking, OwnOnly
    <3>9. CASE Adopt(l)
      BY <1>0, <3>9, AdoptIs DEF Minds, Asking, OwnOnly
    <3> QED  BY <1>4, <3>1, <3>2, <3>3, <3>4, <3>5, <3>6, <3>7, <3>8, <3>9 DEF Works
  <2>3. ASSUME NEW k \in Links \ {l} PROVE Held(k)' /\ Minds(k)'
    <3>1. Held(k)'
      BY <1>0, <2>0 DEF LinkHeld, Held, OwnOnly, Main
    <3> QED  BY <1>0, <2>0, <3>1, OthersHeld
  <2> QED  BY <1>0, <2>1, <2>2, <2>3 DEF LinkHeld
<1> QED  BY <1>1, <1>2, <1>3, <1>4, LinkSteps

\* The declaration moves only while nobody holds a repository.
LEMMA HeldWorld ==
  ASSUME LinkHeld, (\E h \in Headers : Edit(h)) \/ Move \/ Tick
  PROVE  LinkHeld'
<1>1. LinkTyped' /\ UNCHANGED <<setup, lock, src, obj, he, cs, pc, at, dip, und, flist>>
  BY TypedWorld DEF LinkHeld, Edit, Move, Tick, files, locals
<1>2. ASSUME NEW k \in Links PROVE Held(k)' /\ Minds(k)'
  <2>1. LinkTyped /\ Held(k) /\ Minds(k) /\ Main(k) \in Reps /\ k # None
    BY SetupIs, NoneAssumption DEF LinkHeld
  <2>2. Held(k)'
    BY <1>1, <2>1 DEF Held, Main
  <2>3. CASE decl' = decl
    BY <1>1, <2>1, <2>3, MindsKept, <2>2
  <2>4. CASE Move
    <3>1. lock[Main(k)] = None
      BY <2>1, <2>4 DEF Move
    <3>2. pc[k] \in {"idle", "lock"}
      BY <2>1, <3>1 DEF Held
    <3>3. Main(k)' = Main(k)
      BY <1>1 DEF Main
    <3> QED  BY <1>1, <2>1, <2>2, <3>2, <3>3 DEF Minds, Held, Asking
  <2> QED  BY <2>3, <2>4 DEF Edit, Tick
<1> QED  BY <1>1, <1>2 DEF LinkHeld

LEMMA HeldStutter ==
  ASSUME LinkHeld, UNCHANGED vars
  PROVE  LinkHeld'
<1>1. UNCHANGED <<setup, now, decl, hdr, lock, src, obj, he, cs, pc, at, dip, und, flist, left>>
  BY DEF vars, files, locals
<1>2. LinkTyped'
  BY TypedStutter DEF LinkHeld
<1>3. ASSUME NEW k \in Links PROVE Held(k)' /\ Minds(k)'
  <2>1. Held(k)'
    BY <1>1 DEF LinkHeld, Held, Main
  <2> QED  BY <1>1, <2>1, MindsKept DEF LinkHeld
<1> QED  BY <1>2, <1>3 DEF LinkHeld

LEMMA HeldInit ==
  ASSUME Init
  PROVE  LinkHeld
<1>1. ASSUME NEW k \in Links PROVE pc[k] = "idle" /\ und[k] = NoneYet /\ dip[k] = {}
  BY DEF Init
<1> QED  BY <1>1, TypedInit DEF LinkHeld, Held, Minds, Asking, NoneYet

(***************************************************************************)
(* The lists of members fit the objects, and a link that searches its own  *)
(* repository only has in its object what the headers define of all it     *)
(* asked for.                                                              *)
(***************************************************************************)

Lists(r) ==
  (~ Killed /\ obj[r] # None /\ cs[r] # None
   /\ \A l \in Links : Main(l) = r => pc[l] # "drop")
  => cs[r] \cap Defined \subseteq obj[r].members

Round(l) ==
  /\ pc[l] = "members" => obj[Main(l)] # None
  /\ ~ Killed =>
       /\ pc[l] = "adopt" => /\ obj[Main(l)] # None
                             /\ dip[l] \cap Defined \subseteq obj[Main(l)].members
       /\ pc[l] = "link" /\ und[l].now # {} =>
            flist[l] # <<>> /\ dip[l] \cap Defined \subseteq flist[l][1].members
       /\ pc[l] = "unresolved" => und[l].now \cap und[l].before \cap Defined = {}

LinkFits ==
  /\ LinkHeld
  /\ \A r \in Reps : Lists(r)
  /\ \A l \in Links : Len(setup.search[l]) = 1 => Round(l)

LEMMA KilledIs ==
  ASSUME LinkTyped, NEW l \in Links, Start(l) \/ LinkStep(l) \/ Kill(l)
  PROVE  /\ ~ Killed' => ~ Killed
         /\ Quits(l) /\ ~ Killed' => /\ left' = left /\ he' = he
                                     /\ pc[l] \in {"lock", "compile", "done", "unresolved"}
<1>1. setup' = setup
  BY OwnIs DEF OwnOnly
<1>2. left.kills \in Nat /\ setup.budget.kills \in Nat /\ left.kills <= setup.budget.kills
  BY SetupIs DEF LinkTyped, Shapes
<1>3. CASE Start(l) \/ Lock(l) \/ Works(l)
  <2>1. left'.kills = left.kills
    BY <1>3, StartIs, LockIs, WorksIs
  <2>3. Killed' = Killed
    BY <1>1, <2>1 DEF Killed
  <2>4. Quits(l) => \/ left' = left /\ he' = he
                       /\ pc[l] \in {"lock", "compile", "done", "unresolved"}
                    \/ left'.kills = left.kills - 1
    BY QuitsIs
  <2> QED  BY <1>2, <2>1, <2>3, <2>4
<1>4. CASE Quits(l)
  <2>1. \/ left' = left /\ he' = he /\ pc[l] \in {"lock", "compile", "done", "unresolved"}
        \/ left'.kills = left.kills - 1
    BY <1>4, QuitsIs
  <2> QED  BY <1>1, <1>2, <2>1 DEF Killed
<1> QED  BY <1>3, <1>4, LinkSteps

\* For one repository the list and the object stay as they are and nobody
\* leaves "drop".
LEMMA ListsKept ==
  ASSUME NEW r \in Reps, Lists(r), UNCHANGED <<setup, obj[r], cs[r]>>, ~ Killed' => ~ Killed,
         \A l \in Links : Main(l) = r /\ pc[l] = "drop" => pc'[l] = "drop"
  PROVE  Lists(r)'
<1>1. \A l \in Links : Main(l)' = Main(l)
  BY DEF Main
<1> QED  BY <1>1 DEF Lists

LEMMA ListsLink ==
  ASSUME LinkFits, NEW l \in Links, Start(l) \/ LinkStep(l) \/ Kill(l), NEW r \in Reps
  PROVE  Lists(r)'
<1>0. /\ LinkTyped /\ OwnOnly(l) /\ Held(l) /\ Minds(l) /\ Lists(r)
      /\ Main(l) \in Reps /\ Main(l)' = Main(l)
      /\ \A k \in Links \ {l} : pc'[k] = pc[k]
  BY OwnIs, SetupIs DEF LinkFits, LinkHeld, OwnOnly, Main
<1>1. ~ Killed' => ~ Killed
  BY <1>0, KilledIs
<1>2. CASE Killed'
  BY <1>2 DEF Lists
<1>3. CASE ~ Killed' /\ (Start(l) \/ Lock(l) \/ Quits(l))
  <2>1. UNCHANGED <<obj, cs>> /\ pc[l] # "drop"
    BY <1>0, <1>3, StartIs, LockIs, QuitsIs, KilledIs
  <2> QED  BY <1>0, <1>1, <2>1, ListsKept DEF OwnOnly
<1>4. CASE Works(l) /\ r # Main(l)
  <2>1. obj'[r] = obj[r] /\ cs'[r] = cs[r] /\ setup' = setup
    BY <1>0, <1>4 DEF OwnOnly
  <2> QED  BY <1>0, <1>1, <1>4, <2>1, ListsKept
<1>5. CASE Works(l) /\ r = Main(l)
  <2>1. CASE Finish(l) \/ Ask(l) \/ CheckTime(l) \/ CheckMembers(l) \/ Adopt(l)
    <3>1. UNCHANGED <<obj, cs>> /\ pc[l] # "drop"
      BY <1>0, <2>1, FinishIs, AskIs, CheckTimeIs, CheckMembersIs, AdoptIs
    <3> QED  BY <1>0, <1>1, <3>1, ListsKept DEF OwnOnly
  <2>2. CASE DropObject(l)
    BY <1>0, <1>5, <2>2, DropObjectIs DEF Lists
  <2>3. CASE Compile(l)
    BY <1>0, <1>5, <2>3, CompileIs DEF Lists
  <2>4. CASE DropMembers(l)
    BY <1>0, <1>5, <2>4, DropMembersIs DEF Lists
  <2>5. CASE WriteMembers(l)
    <3>1. cs'[r] = dip[l] /\ obj'[r] = obj[r] /\ obj[r].members = dip[l] \cap Defined
      BY <1>0, <1>5, <2>5, WriteMembersIs DEF Minds
    <3> QED  BY <3>1 DEF Lists
  <2> QED  BY <1>5, <2>1, <2>2, <2>3, <2>4, <2>5 DEF Works
<1> QED  BY <1>2, <1>3, <1>4, <1>5, LinkSteps

LEMMA RoundKept ==
  ASSUME NEW k \in Links, Round(k), UNCHANGED <<setup, pc[k], dip[k], und[k], flist[k]>>,
         ~ Killed' => ~ Killed, pc[k] \in Asking => obj'[Main(k)] = obj[Main(k)]
  PROVE  Round(k)'
<1>1. Main(k)' = Main(k)
  BY DEF Main
<1> QED  BY <1>1 DEF Round, Asking

\* A link that searches its own repository only has adopted that object, once.
LEMMA AloneAdopts ==
  ASSUME LinkTyped, NEW l \in Links, Len(setup.search[l]) = 1, NEW fl, Listing(l, fl)
  PROVE  /\ fl = <<>> \/ Len(fl) = 1
         /\ \A k \in DOMAIN fl : k = 1 /\ fl[k].rep = Main(l)
<1>1. setup.search[l] \in Seq(Reps) /\ DOMAIN setup.search[l] = {1}
  BY SetupIs
<1>2. fl \in Seq(Adoptions) /\ Len(fl) \in Nat /\ DOMAIN fl = 1 .. Len(fl)
  BY DEF Listing
<1>3. Len(fl) <= 1
  BY ListingShort
<1>4. \A k \in DOMAIN fl : fl[k].rep = Main(l)
  BY <1>1 DEF Listing, Main
<1>5. \A k \in DOMAIN fl : k = 1
  BY <1>2, <1>3
<1>6. fl = <<>> \/ Len(fl) = 1
  BY <1>2, <1>3
<1> QED  BY <1>4, <1>5, <1>6

LEMMA AloneRep ==
  ASSUME LinkTyped, NEW l \in Links, Len(setup.search[l]) = 1, at[l] <= Len(setup.search[l])
  PROVE  Rep(l) = Main(l) /\ at[l] = 1
<1>1. at[l] \in 1 .. Len(setup.search[l]) + 1
  BY DEF LinkTyped, Local
<1>2. at[l] = 1
  BY <1>1
<1> QED  BY <1>2 DEF Rep, Main

LEMMA RoundAtHome ==
  ASSUME LinkFits, LinkHeld', NEW l \in Links, Len(setup.search[l]) = 1, Works(l), ~ Killed
  PROVE  /\ pc'[l] = "adopt" => /\ obj'[Main(l)] # None
                                /\ dip'[l] \cap Defined \subseteq obj'[Main(l)].members
         /\ pc'[l] = "link" /\ und'[l].now # {} =>
              flist'[l] # <<>> /\ dip'[l] \cap Defined \subseteq flist'[l][1].members
         /\ pc'[l] = "unresolved" => und'[l].now \cap und'[l].before \cap Defined = {}
<1>0. /\ LinkTyped /\ Held(l) /\ Minds(l) /\ Local(l) /\ Round(l) /\ Lists(Main(l))
      /\ Main(l) \in Reps
  BY SetupIs DEF LinkFits, LinkHeld, LinkTyped
<1>1. CASE Finish(l)
  <2>1. CASE Undefined(l) = {}
    BY <1>0, <1>1, <2>1, FinishIs
  <2>2. CASE Undefined(l) # {}
    <3>1. /\ pc[l] = "link" /\ pc'[l] = "unresolved"
          /\ und'[l] = [now |-> Undefined(l), before |-> und[l].now]
          /\ Undefined(l) \cap und[l].now # {}
      BY <1>0, <1>1, <2>2, FinishIs
    <3>2. flist[l] # <<>> /\ dip[l] \cap Defined \subseteq flist[l][1].members
      BY <1>0, <3>1 DEF Round
    <3>3. und[l].now \subseteq dip[l]
      BY <1>0, <3>1 DEF Minds
    <3>4. Len(flist[l]) = 1 /\ flist[l] \in Seq(Adoptions)
      BY <1>0, <3>2, AloneAdopts DEF Local, Listing
    <3>5. Undefined(l) \cap flist[l][1].members = {}
      <4>1. Undefined(l) = (setup.needs[l] \cup UNION {Calls[m] : m \in flist[l][1].members})
                           \ flist[l][1].members
        BY <3>4, UndefinedOne
      <4> QED  BY <4>1
    <3>6. und'[l].now = Undefined(l) /\ und'[l].before = und[l].now
      BY <3>1
    <3> QED  BY <3>1, <3>2, <3>3, <3>5, <3>6
  <2> QED  BY <2>1, <2>2
<1>2. CASE Ask(l) \/ CheckTime(l) \/ DropObject(l) \/ Compile(l) \/ DropMembers(l)
  BY <1>0, <1>2, AskIs, CheckTimeIs, DropObjectIs, CompileIs, DropMembersIs
<1>3. CASE CheckMembers(l)
  <2>1. pc[l] = "members" /\ at[l] <= Len(setup.search[l]) /\ obj[Main(l)] # None
        /\ Rep(l) = Main(l) /\ lock[Main(l)] = l
    BY <1>0, <1>3, CheckMembersIs, AloneRep DEF Local, Round, Held
  <2>2. \A k \in Links : Main(k) = Main(l) => pc[k] # "drop"
    BY <2>1 DEF LinkFits, LinkHeld, Held
  <2>3. CASE pc'[l] = "adopt"
    <3>1. cs[Main(l)] # None /\ dip[l] \subseteq cs[Main(l)] /\ UNCHANGED <<dip, obj>>
      BY <1>0, <1>3, <2>1, <2>3, CheckMembersIs
    <3>2. cs[Main(l)] \cap Defined \subseteq obj[Main(l)].members
      BY <1>0, <2>1, <2>2, <3>1 DEF Lists
    <3> QED  BY <2>1, <2>3, <3>1, <3>2
  <2>4. CASE pc'[l] = "dep"
    BY <2>4
  <2> QED  BY <1>0, <1>3, <2>3, <2>4, CheckMembersIs
<1>4. CASE WriteMembers(l)
  BY <1>0, <1>4, WriteMembersIs DEF Minds
<1>5. CASE Adopt(l)
  <2>1. pc[l] = "adopt" /\ at[l] <= Len(setup.search[l]) /\ Rep(l) = Main(l)
        /\ obj[Main(l)] # None /\ dip[l] \cap Defined \subseteq obj[Main(l)].members
    BY <1>0, <1>5, AdoptIs, AloneRep DEF Local, Round
  <2>2. pc'[l] = "link" /\ flist'[l] = Adopted(l, Main(l)) /\ dip' = dip
    BY <1>0, <1>5, <2>1, AdoptIs
  <2> DEFINE new == Adopted(l, Main(l))
  <2>3. Listing(l, new)
        /\ \E k \in DOMAIN new : new[k] = [rep |-> Main(l), members |-> obj[Main(l)].members]
    BY <1>0, <2>1, AdoptedIs DEF Local
  <2> HIDE DEF new
  <2>4. new # <<>> /\ new[1] = [rep |-> Main(l), members |-> obj[Main(l)].members]
    BY <1>0, <2>3, AloneAdopts
  <2>5. new[1].members = obj[Main(l)].members
    BY <2>4
  <2> QED  BY <2>1, <2>2, <2>4, <2>5 DEF new
<1> QED  BY <1>1, <1>2, <1>3, <1>4, <1>5 DEF Works

LEMMA RoundLink ==
  ASSUME LinkFits, LinkHeld', NEW l \in Links, Start(l) \/ LinkStep(l) \/ Kill(l),
         NEW k \in Links, Len(setup.search[k]) = 1
  PROVE  Round(k)'
<1>0. /\ LinkTyped /\ OwnOnly(l) /\ Held(k) /\ Held(l) /\ Round(k) /\ Local(k)
      /\ Main(k) \in Reps /\ Main(k)' = Main(k) /\ (~ Killed' => ~ Killed)
  BY OwnIs, SetupIs, KilledIs DEF LinkFits, LinkHeld, LinkTyped, OwnOnly, Main
<1>1. CASE k # l
  <2>1. UNCHANGED <<setup, pc[k], dip[k], und[k], flist[k]>>
    BY <1>0, <1>1 DEF OwnOnly
  <2>2. ASSUME pc[k] \in Asking PROVE obj'[Main(k)] = obj[Main(k)]
    <3>1. CASE Main(k) # Main(l)
      BY <1>0, <3>1 DEF OwnOnly
    <3>2. CASE Main(k) = Main(l)
      <4>1. lock[Main(l)] = k
        BY <1>0, <2>2, <3>2 DEF Held, Asking
      <4>2. ~ Works(l)
        BY <1>0, <1>1, <4>1, WorksIs DEF Held
      <4> QED  BY <1>0, <4>2, LinkSteps, StartIs, LockIs, QuitsIs
    <3> QED  BY <3>1, <3>2
  <2> QED  BY <1>0, <2>1, <2>2, RoundKept
<1>2. CASE k = l /\ (Start(l) \/ Lock(l) \/ Quits(l))
  BY <1>0, <1>2, StartIs, LockIs, QuitsIs DEF Round, Held, NoneYet
<1>3. CASE k = l /\ Works(l)
  <2>1. ASSUME pc'[l] = "members" PROVE obj'[Main(l)] # None
    <3>1. CheckTime(l)
      BY <1>0, <1>3, <2>1, FinishIs, AskIs, CheckMembersIs, DropObjectIs, CompileIs,
         DropMembersIs, WriteMembersIs, AdoptIs DEF Works
    <3>2. at[l] <= Len(setup.search[l]) /\ obj[Rep(l)] # None /\ obj' = obj
      BY <1>0, <2>1, <3>1, CheckTimeIs
    <3> QED  BY <1>0, <1>3, <3>2, AloneRep
  <2> QED  BY <1>0, <1>3, <2>1, RoundAtHome DEF Round
<1> QED  BY <1>1, <1>2, <1>3, LinkSteps

LEMMA FitsNext ==
  ASSUME LinkFits, [Next]_vars
  PROVE  LinkFits'
<1>1. CASE \E l \in Links : Start(l) \/ LinkStep(l) \/ Kill(l)
  <2>1. PICK l \in Links : Start(l) \/ LinkStep(l) \/ Kill(l)
    BY <1>1
  <2>2. LinkHeld' /\ setup' = setup
    BY <2>1, HeldLink, OwnIs DEF LinkFits, LinkHeld, OwnOnly
  <2>3. \A r \in Reps : Lists(r)'
    BY <2>1, ListsLink
  <2>4. \A k \in Links : Len(setup.search[k]) = 1 => Round(k)'
    BY <2>1, <2>2, RoundLink
  <2> QED  BY <2>2, <2>3, <2>4 DEF LinkFits
<1>2. CASE (\E h \in Headers : Edit(h)) \/ Move \/ Tick \/ UNCHANGED vars
  <2>1. LinkHeld'
    BY <1>2, HeldWorld, HeldStutter DEF LinkFits
  <2>2. UNCHANGED <<setup, obj, cs, pc, dip, und, flist>>
    BY <1>2 DEF Edit, Move, Tick, vars, files, locals
  <2>3. left'.kills = left.kills
    <3>1. left \in Budgets
      BY DEF LinkFits, LinkHeld, LinkTyped, Shapes, Budgets
    <3> QED  BY <1>2, <3>1, BudgetLess DEF Edit, Move, Tick, vars
  <2>4. Killed' = Killed
    BY <2>2, <2>3 DEF Killed
  <2>5. \A r \in Reps : Lists(r)'
    BY <2>2, <2>4, ListsKept DEF LinkFits
  <2>6. \A k \in Links : Len(setup.search[k]) = 1 => Round(k)'
    BY <2>2, <2>4, RoundKept DEF LinkFits
  <2> QED  BY <2>1, <2>2, <2>5, <2>6 DEF LinkFits
<1> QED  BY <1>1, <1>2 DEF Next

LEMMA FitsInit ==
  ASSUME Init
  PROVE  LinkFits
<1>1. LinkHeld
  BY HeldInit
<1>2. ASSUME NEW l \in Links PROVE pc[l] = "idle"
  BY DEF Init
<1>3. ASSUME NEW r \in Reps PROVE obj[r] = None
  BY DEF Init
<1> QED  BY <1>1, <1>2, <1>3 DEF LinkFits, Lists, Round

LEMMA FitsResults ==
  ASSUME LinkFits
  PROVE  LTypeOK /\ ReportedIsUndefined /\ DoneIsResolved
<1>1. LTypeOK
  BY TypedOK DEF LinkFits, LinkHeld
<1>2. ReportedIsUndefined
  BY DEF LinkFits, Round, ReportedIsUndefined
<1>3. ASSUME NEW l \in Links, pc[l] = "done", Needed(l) # {}, Len(setup.search[l]) = 1
      PROVE  \E k \in DOMAIN flist[l] : /\ flist[l][k].rep = Rep(l)
                                        /\ Needed(l) \subseteq flist[l][k].members
  <2>1. LinkTyped /\ Local(l) /\ Undefined(l) = {}
    BY <1>3 DEF LinkFits, LinkHeld, LinkTyped, Minds
  <2>2. Listing(l, flist[l]) /\ Rep(l) = Main(l)
    BY <1>3, <2>1, AloneRep DEF Local
  <2>3. flist[l] # <<>>
    <3>1. SUFFICES ASSUME flist[l] = <<>> PROVE FALSE
      OBVIOUS
    <3>2. setup.needs[l] = {}
      BY <2>1, <3>1, UndefinedNone
    <3>3. Needed(l) \subseteq {}
      BY <3>2, NeededWithin
    <3> QED  BY <1>3, <3>3
  <2>4. /\ Len(flist[l]) = 1 /\ flist[l] \in Seq(Adoptions) /\ 1 \in DOMAIN flist[l]
        /\ flist[l][1].rep = Rep(l)
    BY <1>3, <2>1, <2>2, <2>3, AloneAdopts DEF Listing
  <2> DEFINE S == flist[l][1].members
  <2>5. setup.needs[l] \cup UNION {Calls[m] : m \in S} \subseteq S
    BY <2>1, <2>4, UndefinedOne
  <2>6. setup.needs[l] \subseteq S /\ \A m \in S : Calls[m] \subseteq S
    BY <2>5
  <2> HIDE DEF S
  <2>7. Needed(l) \subseteq S
    BY <2>6, NeededWithin
  <2> QED  BY <2>4, <2>7 DEF S
<1> QED  BY <1>1, <1>2, <1>3 DEF DoneIsResolved

\* The types of a link's state, for any programs, repositories and headers,
\* options, budgets and times.
THEOREM LinkTypes == Spec => []LTypeOK
<1>1. Init => LinkFits
  BY FitsInit
<1>2. LinkFits /\ [Next]_vars => LinkFits'
  BY FitsNext
<1>3. LinkFits => LTypeOK
  BY FitsResults
<1> QED  BY <1>1, <1>2, <1>3, PTL DEF Spec

\* What ptlink calls unresolved the headers do not define.
THEOREM ReportsTheUndefined == Spec => []ReportedIsUndefined
<1>1. Init => LinkFits
  BY FitsInit
<1>2. LinkFits /\ [Next]_vars => LinkFits'
  BY FitsNext
<1>3. LinkFits => ReportedIsUndefined
  BY FitsResults
<1> QED  BY <1>1, <1>2, <1>3, PTL DEF Spec

\* The object that ptlink hands to the linker has all that the program needs.
THEOREM ResolvesTheNeeded == Spec => []DoneIsResolved
<1>1. Init => LinkFits
  BY FitsInit
<1>2. LinkFits /\ [Next]_vars => LinkFits'
  BY FitsNext
<1>3. LinkFits => DoneIsResolved
  BY FitsResults
<1> QED  BY <1>1, <1>2, <1>3, PTL DEF Spec

(***************************************************************************)
(* An object that passes the check is the one that a compile would give.   *)
(***************************************************************************)

\* Every header of S is older than time t.
Older(hd, S, t) == \A h \in S : hd[h].time < t

\* If all headers that root brings in are older than the object o, it was made
\* from these, in the versions they have.
Agrees(hd, o, root) ==
  Older(hd, ReachIn(hd, root), o.time)
  => o.seen = [h \in ReachIn(hd, root) |-> hd[h].ver]

Times(r) ==
  /\ src[r] # None => src[r].time <= now
  /\ obj[r] # None => obj[r].time <= now
  /\ he[r] # None => /\ he[r].time <= now /\ src[r] # None
                     /\ src[r].decl # decl => now > he[r].time

\* A cache none of whose headers has changed since names what cpp would find.
NamesFit(r) ==
  he[r] # None =>
    /\ ~ Killed => he[r].whole
    /\ he[r].whole /\ src[r].time <= he[r].time /\ Older(hdr, he[r].hdrs, he[r].time)
       => he[r].hdrs = ReachIn(hdr, Root[src[r].decl][he[r].i])

Unmoved(r) ==
  ~ Moved => /\ decl = 1
             /\ src[r] # None => src[r].decl = 1
             /\ obj[r] # None => Agrees(hdr, obj[r], Root[1][obj[r].i])

\* Who writes into r searches no other repository; nobody is past r.
Lone(r) == \A k \in Links : Main(k) = r => Len(setup.search[k]) = 1
Settled(r) == \A k \in Links : Main(k) = r /\ pc[k] = "dep" => at[k] = 1

\* The cache has the -D options of the object, and the object was made from
\* the headers there are, unless the check will see that it was not.
Matched(r) ==
  (~ Killed /\ Lone(r) /\ Settled(r) /\ obj[r] # None /\ he[r] # None) =>
    /\ he[r].d = obj[r].d
    /\ src[r].time > he[r].time \/ Agrees(hdr, obj[r], Root[src[r].decl][obj[r].i])

\* A link that has checked its repository has a cache of its own -D options.
Checked(l) ==
  (~ Killed /\ Lone(Main(l)) /\ he[Main(l)] # None
   /\ (pc[l] \in {"members", "compile"} \/ (pc[l] = "dep" /\ at[l] > 1)))
  => he[Main(l)].d = setup.d[l]

FilesFit(r) == Times(r) /\ NamesFit(r) /\ Unmoved(r) /\ Matched(r)

LinkCurrent ==
  /\ LinkHeld
  /\ \A r \in Reps : FilesFit(r)
  /\ \A l \in Links : Checked(l)

LEMMA FilesTyped ==
  ASSUME LinkTyped, NEW r \in Reps
  PROVE  /\ now \in Nat /\ hdr \in HeaderTables
         /\ src[r] # None => src[r].time \in Nat /\ src[r].decl \in {1, 2}
         /\ obj[r] # None => obj[r].time \in Nat /\ obj[r].i \in OptionsI
         /\ he[r] # None => /\ he[r].time \in Nat /\ he[r].i \in OptionsI
                            /\ he[r].hdrs \subseteq Headers /\ he[r].whole \in BOOLEAN
         /\ \A d \in {1, 2}, i \in OptionsI : Root[d][i] \in Headers
<1>1. now \in Nat /\ hdr \in HeaderTables /\ \A t \in Whens : t \in Nat
  BY ClassAssumption DEF LinkTyped, Shapes, Whens
<1>2. src[r] # None => src[r].time \in Nat /\ src[r].decl \in {1, 2}
  BY <1>1 DEF LinkTyped, Shapes, Sources
<1>3. obj[r] # None => obj[r].time \in Nat /\ obj[r].i \in OptionsI
  BY <1>1 DEF LinkTyped, Shapes, Objects
<1>4. he[r] # None => /\ he[r].time \in Nat /\ he[r].i \in OptionsI
                      /\ he[r].hdrs \subseteq Headers /\ he[r].whole \in BOOLEAN
  BY <1>1 DEF LinkTyped, Shapes, Caches
<1>5. ASSUME NEW i \in OptionsI PROVE Root[1][i] \in Headers /\ Root[2][i] \in Headers
  BY SetupsAssumption DEF OptionsI
<1> QED  BY <1>1, <1>2, <1>3, <1>4, <1>5

\* A header that is edited is not older than anything there is.
LEMMA EditAgrees ==
  ASSUME NEW hd \in HeaderTables, NEW ed \in HeaderTables, NEW h \in Headers, NEW t \in Nat,
         ed[h].time = t, \A g \in Headers : g # h => ed[g] = hd[g],
         NEW o, o.time \in Nat, o.time <= t, NEW root \in Headers, Agrees(hd, o, root)
  PROVE  Agrees(ed, o, root)
<1>1. SUFFICES ASSUME Older(ed, ReachIn(ed, root), o.time)
               PROVE  o.seen = [g \in ReachIn(ed, root) |-> ed[g].ver]
  BY DEF Agrees
<1>2. h \notin ReachIn(ed, root)
  BY <1>1 DEF Older
<1>3. ReachIn(ed, root) = ReachIn(hd, root)
  BY <1>2, ReachInSame
<1>4. ReachIn(ed, root) \subseteq Headers
  BY ReachInIs
<1>5. \A g \in ReachIn(ed, root) : ed[g] = hd[g]
  BY <1>2, <1>4
<1>6. Older(hd, ReachIn(hd, root), o.time)
  BY <1>1, <1>3, <1>5 DEF Older
<1>7. o.seen = [g \in ReachIn(hd, root) |-> hd[g].ver]
  BY <1>6 DEF Agrees
<1> QED  BY <1>3, <1>5, <1>7

LEMMA EditNames ==
  ASSUME NEW hd \in HeaderTables, NEW ed \in HeaderTables, NEW h \in Headers, NEW t \in Nat,
         ed[h].time = t, \A g \in Headers : g # h => ed[g] = hd[g],
         NEW S \in SUBSET Headers, NEW n \in Nat, n <= t, NEW root \in Headers,
         Older(hd, S, n) => S = ReachIn(hd, root), Older(ed, S, n)
  PROVE  S = ReachIn(ed, root)
<1>1. h \notin S
  BY DEF Older
<1>2. Older(hd, S, n)
  BY <1>1 DEF Older
<1>3. h \notin ReachIn(hd, root)
  BY <1>1, <1>2
<1> QED  BY <1>2, <1>3, ReachInSame

\* Nothing changes but the time, which goes on.
LEMMA FilesLater ==
  ASSUME LinkTyped, NEW r \in Reps, FilesFit(r), now' \in Nat, now <= now',
         UNCHANGED <<setup, decl, hdr, src[r], obj[r], he[r]>>,
         ~ Killed' => ~ Killed, ~ Moved' => ~ Moved, Settled(r)' => Settled(r)
  PROVE  FilesFit(r)'
<1>1. /\ now \in Nat
      /\ src[r] # None => src[r].time \in Nat
      /\ obj[r] # None => obj[r].time \in Nat
      /\ he[r] # None => he[r].time \in Nat
  BY FilesTyped
<1>2. Times(r)'
  BY <1>1 DEF FilesFit, Times
<1>3. NamesFit(r)'
  BY DEF FilesFit, NamesFit
<1>4. Unmoved(r)'
  BY DEF FilesFit, Unmoved
<1>5. Lone(r)' => Lone(r)
  BY DEF Lone, Main
<1>6. Matched(r)'
  BY <1>5 DEF FilesFit, Matched
<1> QED  BY <1>2, <1>3, <1>4, <1>6 DEF FilesFit

LEMMA CheckedKept ==
  ASSUME NEW k \in Links, Checked(k), UNCHANGED <<setup, pc[k], at[k]>>,
         ~ Killed' => ~ Killed,
         pc[k] \in {"dep", "members", "compile"} => he'[Main(k)] = he[Main(k)]
  PROVE  Checked(k)'
<1>1. Main(k)' = Main(k)
  BY DEF Main
<1>2. Lone(Main(k))' => Lone(Main(k))
  BY <1>1 DEF Lone, Main
<1>3. pc'[k] = pc[k] /\ at'[k] = at[k] /\ setup' = setup
  OBVIOUS
<1>4. he[Main(k)]' = he'[Main(k)]
  BY <1>1
<1> QED  BY <1>1, <1>2, <1>3, <1>4 DEF Checked

LEMMA CurrentWorld ==
  ASSUME LinkCurrent, (\E h \in Headers : Edit(h)) \/ Move \/ Tick \/ UNCHANGED vars
  PROVE  LinkCurrent'
<1>0. /\ LinkTyped /\ LinkTyped' /\ LinkHeld' /\ \A r \in Reps : FilesFit(r)
      /\ UNCHANGED <<setup, src, obj, he, pc, at>>
  BY HeldWorld, HeldStutter
     DEF LinkCurrent, LinkHeld, Edit, Move, Tick, vars, files, locals
<1>1. left \in Budgets
  BY DEF LinkCurrent, LinkHeld, LinkTyped, Shapes, Budgets
<1>2. left'.kills = left.kills
  BY <1>1, BudgetLess DEF Edit, Move, Tick, vars
<1>3. Killed' = Killed /\ \A r \in Reps : Settled(r)' => Settled(r)
  BY <1>0, <1>2 DEF Killed, Settled, Main
<1>4. \A k \in Links : Checked(k)'
  BY <1>0, <1>3, CheckedKept DEF LinkCurrent
<1>5. CASE Tick \/ UNCHANGED vars
  <2>1. now \in Nat /\ now' \in Nat /\ now <= now' /\ UNCHANGED <<decl, hdr, left>>
    <3>1. now \in Nat
      BY ClassAssumption DEF LinkCurrent, LinkHeld, LinkTyped, Shapes, Whens
    <3> QED  BY <1>5, <3>1 DEF Tick, vars
  <2>2. Moved' = Moved
    BY <1>0, <2>1 DEF Moved
  <2>3. \A r \in Reps : FilesFit(r)'
    BY <1>0, <1>3, <2>1, <2>2, FilesLater
  <2> QED  BY <1>0, <1>4, <2>3 DEF LinkCurrent
<1>6. CASE Move
  <2>1. left.moves > 0 /\ left' = [left EXCEPT !.moves = @ - 1] /\ UNCHANGED <<now, hdr>>
        /\ \A r \in Reps : he[r] # None => now > he[r].time
    BY <1>6 DEF Move
  <2>2. left'.moves = left.moves - 1 /\ left.moves \in Nat /\ setup.budget.moves \in Nat
        /\ left.moves <= setup.budget.moves
    <3>1. left.moves <= setup.budget.moves /\ setup.budget \in Budgets
      BY <1>0, SetupsAssumption DEF LinkTyped, Shapes, Budgets
    <3>2. left.moves \in Nat /\ setup.budget.moves \in Nat
      BY <1>1, <3>1 DEF Budgets
    <3> QED  BY <1>1, <2>1, <3>1, <3>2, BudgetLess
  <2>3. Moved'
    BY <1>0, <2>2 DEF Moved
  <2>4. ASSUME NEW r \in Reps PROVE FilesFit(r)'
    <3>1. FilesFit(r)
      BY <1>0
    <3>2. Times(r)'
      BY <1>0, <2>1, <3>1 DEF FilesFit, Times
    <3>3. NamesFit(r)'
      BY <1>0, <1>3, <2>1, <3>1 DEF FilesFit, NamesFit
    <3>4. Unmoved(r)'
      BY <2>3 DEF Unmoved
    <3>5. Lone(r)' => Lone(r)
      BY <1>0 DEF Lone, Main
    <3>6. Matched(r)'
      BY <1>0, <1>3, <2>1, <3>1, <3>5 DEF FilesFit, Matched
    <3> QED  BY <3>2, <3>3, <3>4, <3>6 DEF FilesFit
  <2> QED  BY <1>0, <1>4, <2>4 DEF LinkCurrent
<1>7. CASE \E h \in Headers : Edit(h)
  <2>1. PICK h \in Headers : Edit(h)
    BY <1>7
  <2>2. /\ UNCHANGED <<now, decl>> /\ now \in Nat
        /\ hdr \in HeaderTables /\ hdr' \in HeaderTables
        /\ hdr'[h].time = now /\ \A g \in Headers : g # h => hdr'[g] = hdr[g]
    <3>1. hdr \in HeaderTables /\ hdr' \in HeaderTables /\ now \in Nat
      BY <1>0, ClassAssumption DEF LinkTyped, Shapes, Whens
    <3>2. PICK uses \in SUBSET (Headers \ {h}) :
            hdr' = [hdr EXCEPT ![h] = [time |-> now, ver |-> hdr[h].ver + 1, uses |-> uses]]
      BY <2>1 DEF Edit
    <3>3. DOMAIN hdr = Headers
      BY <3>1 DEF HeaderTables
    <3> QED  BY <2>1, <3>1, <3>2, <3>3 DEF Edit
  <2>3. Moved' = Moved
    <3>1. left.edits > 0 /\ left' = [left EXCEPT !.edits = @ - 1]
      BY <2>1 DEF Edit
    <3>2. left'.moves = left.moves
      BY <1>1, <3>1, BudgetLess
    <3> QED  BY <1>0, <3>2 DEF Moved
  <2>4. ASSUME NEW r \in Reps PROVE FilesFit(r)'
    <3>1. FilesFit(r)
      BY <1>0
    <3>2. Times(r)'
      BY <1>0, <2>2, <3>1 DEF FilesFit, Times
    <3>3. NamesFit(r)'
      <4>1. CASE he[r] # None
        <5> DEFINE S == he[r].hdrs
                   root == Root[src[r].decl][he[r].i]
                   n == he[r].time
        <5>1. src[r] # None /\ n <= now
          BY <3>1, <4>1 DEF FilesFit, Times
        <5>2. S \in SUBSET Headers /\ n \in Nat /\ root \in Headers
          BY <1>0, <4>1, <5>1, FilesTyped
        <5>3. ASSUME he[r].whole, src[r].time <= n, Older(hdr', S, n)
              PROVE  S = ReachIn(hdr', root)
          <6>1. Older(hdr, S, n) => S = ReachIn(hdr, root)
            BY <3>1, <4>1, <5>3 DEF FilesFit, NamesFit
          <6> HIDE DEF S, n, root
          <6> QED  BY <2>2, <5>1, <5>2, <5>3, <6>1, EditNames
        <5>4. ~ Killed' => he[r].whole
          BY <1>3, <3>1, <4>1 DEF FilesFit, NamesFit
        <5> QED  BY <1>0, <5>3, <5>4 DEF NamesFit
      <4> QED  BY <1>0, <4>1 DEF NamesFit
    <3>4. ASSUME obj[r] # None, NEW root \in Headers, Agrees(hdr, obj[r], root)
          PROVE  Agrees(hdr', obj[r], root)
      <4>1. obj[r].time \in Nat /\ obj[r].time <= now
        BY <1>0, <3>1, <3>4, FilesTyped DEF FilesFit, Times
      <4> QED  BY <2>2, <3>4, <4>1, EditAgrees
    <3>5. \A d \in {1, 2} : obj[r] # None => Root[d][obj[r].i] \in Headers
      BY <1>0, FilesTyped
    <3>6. Unmoved(r)'
      <4>1. CASE obj[r] # None /\ ~ Moved
        <5>1. Agrees(hdr, obj[r], Root[1][obj[r].i])
          BY <3>1, <4>1 DEF FilesFit, Unmoved
        <5>2. Agrees(hdr', obj[r], Root[1][obj[r].i])
          BY <3>4, <3>5, <4>1, <5>1
        <5> QED  BY <1>0, <2>2, <2>3, <3>1, <5>2 DEF FilesFit, Unmoved
      <4> QED  BY <1>0, <2>2, <2>3, <3>1, <4>1 DEF FilesFit, Unmoved
    <3>7. Matched(r)'
      <4>1. Lone(r)' => Lone(r)
        BY <1>0 DEF Lone, Main
      <4>2. SUFFICES ASSUME ~ Killed, Lone(r), Settled(r), obj[r] # None, he[r] # None
                     PROVE  /\ he[r].d = obj[r].d
                            /\ \/ src[r].time > he[r].time
                               \/ Agrees(hdr', obj[r], Root[src[r].decl][obj[r].i])
        BY <1>0, <1>3, <4>1 DEF Matched
      <4>3. /\ he[r].d = obj[r].d
            /\ src[r].time > he[r].time \/ Agrees(hdr, obj[r], Root[src[r].decl][obj[r].i])
        BY <3>1, <4>2 DEF FilesFit, Matched
      <4>4. src[r].decl \in {1, 2}
        BY <1>0, <3>1, <4>2, FilesTyped DEF FilesFit, Times
      <4>5. Root[src[r].decl][obj[r].i] \in Headers
        BY <3>5, <4>2, <4>4
      <4> QED  BY <3>4, <4>2, <4>3, <4>5
    <3> QED  BY <3>2, <3>3, <3>6, <3>7 DEF FilesFit
  <2> QED  BY <1>0, <1>4, <2>4 DEF LinkCurrent
<1> QED  BY <1>5, <1>6, <1>7

LEMMA MovedIs ==
  ASSUME LinkTyped, NEW l \in Links, Start(l) \/ LinkStep(l) \/ Kill(l)
  PROVE  Moved' = Moved
<1>1. left'.moves = left.moves
  BY LinkSteps, StartIs, LockIs, WorksIs, QuitsIs
<1>2. setup' = setup
  BY OwnIs DEF OwnOnly
<1> QED  BY <1>1, <1>2 DEF Moved

\* Whoever works in a repository is the only one there.
LEMMA OnlyOne ==
  ASSUME LinkHeld, NEW l \in Links, pc[l] \notin {"idle", "lock"},
         NEW k \in Links, Main(k) = Main(l), k # l
  PROVE  pc[k] \in {"idle", "lock"}
BY DEF LinkHeld, Held

\* A step of l after which l is not past a repository: nobody was before.
LEMMA SettledBefore ==
  ASSUME LinkTyped, NEW l \in Links, OwnOnly(l), NEW r \in Reps,
         pc[l] # "dep" \/ at[l] = 1 \/ Main(l) # r, Settled(r)'
  PROVE  Settled(r)
<1>1. \A k \in Links : Main(k)' = Main(k)
  BY DEF OwnOnly, Main
<1>2. \A k \in Links \ {l} : pc'[k] = pc[k] /\ at'[k] = at[k]
  BY DEF OwnOnly
<1> QED  BY <1>1, <1>2 DEF Settled

\* The steps that leave the .C, .o and .he files alone.
LEMMA FilesLeft ==
  ASSUME LinkCurrent, NEW l \in Links, Start(l) \/ LinkStep(l) \/ Kill(l), NEW r \in Reps,
         UNCHANGED <<src[r], obj[r], he[r]>>,
         Killed' \/ pc[l] # "dep" \/ Main(l) # r
  PROVE  FilesFit(r)'
<1>0. LinkTyped /\ OwnOnly(l) /\ FilesFit(r)
  BY OwnIs DEF LinkCurrent, LinkHeld
<1>1. UNCHANGED <<setup, now, decl, hdr>> /\ Moved' = Moved /\ (~ Killed' => ~ Killed)
  BY <1>0, MovedIs, KilledIs DEF OwnOnly
<1>2. now \in Nat
  BY <1>0, FilesTyped
<1>3. CASE ~ Killed'
  <2>1. Settled(r)' => Settled(r)
    BY <1>0, <1>3, SettledBefore
  <2> QED  BY <1>0, <1>1, <1>2, <2>1, FilesLater
<1>4. CASE Killed'
  <2>1. Times(r)' /\ NamesFit(r)' /\ Unmoved(r)'
    BY <1>0, <1>1, <1>4 DEF FilesFit, Times, NamesFit, Unmoved
  <2>2. Matched(r)'
    BY <1>4 DEF Matched
  <2> QED  BY <2>1, <2>2 DEF FilesFit
<1> QED  BY <1>3, <1>4

\* What the check of its own repository tells a link.
LEMMA UpToDateIs ==
  ASSUME LinkCurrent, NEW l \in Links, pc[l] = "dep", at[l] = 1, ~ Killed, Lone(Main(l)),
         obj[Main(l)] # None, UpToDate(l, Main(l))
  PROVE  /\ he[Main(l)] # None /\ src[Main(l)].time <= he[Main(l)].time
         /\ he[Main(l)].d = setup.d[l] /\ obj[Main(l)].d = setup.d[l]
         /\ Agrees(hdr, obj[Main(l)], Root[src[Main(l)].decl][obj[Main(l)].i])
<1>0. LinkTyped /\ LinkHeld /\ Main(l) \in Reps /\ FilesFit(Main(l)) /\ Times(Main(l))
  BY SetupIs DEF LinkCurrent, LinkHeld, FilesFit
<1>1. he[Main(l)] # None /\ ~ (src[Main(l)].time > he[Main(l)].time) /\ ~ OtherD(l, Main(l))
  BY DEF UpToDate, OtherSource, CacheOld
<1>2. he[Main(l)].d = setup.d[l]
  BY <1>0, <1>1 DEF OtherD, FilesFit, NamesFit
<1>3. Settled(Main(l))
  BY <1>0, OnlyOne DEF Settled
<1>4. /\ he[Main(l)].d = obj[Main(l)].d
      /\ Agrees(hdr, obj[Main(l)], Root[src[Main(l)].decl][obj[Main(l)].i])
  BY <1>0, <1>1, <1>3 DEF FilesFit, Matched
<1>5. src[Main(l)].time \in Nat /\ he[Main(l)].time \in Nat
  BY <1>0, <1>1, FilesTyped DEF Times
<1> QED  BY <1>1, <1>2, <1>4, <1>5

\* ... and what it leaves there.
LEMMA CheckLeaves ==
  ASSUME LinkCurrent, NEW l \in Links, CheckTime(l)
  PROVE  /\ FilesFit(Main(l))'
         /\ (~ Killed /\ Lone(Main(l)) /\ he'[Main(l)] # None) => he'[Main(l)].d = setup.d[l]
<1>a. PICK r \in Reps : r = Main(l)
  BY SetupIs DEF LinkCurrent, LinkHeld
<1>0. /\ LinkTyped /\ LinkHeld /\ OwnOnly(l) /\ Local(l) /\ r \in Reps
      /\ FilesFit(r) /\ Times(r) /\ NamesFit(r) /\ Unmoved(r)
      /\ Start(l) \/ LinkStep(l) \/ Kill(l)
  BY <1>a, SetupIs, OwnIs DEF LinkCurrent, LinkHeld, LinkTyped, FilesFit, LinkStep
<1>1. /\ pc[l] = "dep" /\ at[l] <= Len(setup.search[l])
      /\ he'[r] = IF Rebuilds(l) THEN NewCache(l) ELSE he[r]
      /\ \/ /\ pc'[l] = "members" /\ at'[l] = at[l]
            /\ src[Rep(l)] # None /\ obj[Rep(l)] # None /\ UpToDate(l, Rep(l))
         \/ pc'[l] = "dep" /\ at'[l] = at[l] + 1
      /\ UNCHANGED <<src, obj, left>>
  BY <1>a, <1>0, CheckTimeIs
<1>2. /\ UNCHANGED <<setup, now, decl, hdr>> /\ Main(l)' = Main(l) /\ at[l] \in Nat /\ at[l] >= 1
      /\ Moved' = Moved /\ Killed' = Killed /\ (Lone(r)' => Lone(r))
  BY <1>0, <1>1 DEF OwnOnly, Main, Local, Moved, Killed, Lone
<1>3. src[r] # None /\ src[r].decl = decl
  BY <1>a, <1>0, <1>1 DEF Local, Asking, LinkHeld, Minds
<1>4. Rebuilds(l) => /\ he'[r].time = now /\ he'[r].whole
                     /\ he'[r].i = setup.i[l] /\ he'[r].d = setup.d[l]
                     /\ he'[r].hdrs = ReachIn(hdr, Root[src[r].decl][setup.i[l]])
  BY <1>a, <1>0, <1>1, <1>3, NewCacheIs, IncludedIs
<1>5. now \in Nat /\ (he[r] # None => he[r].time \in Nat)
  BY <1>0, FilesTyped
<1>6. Times(r)'
  BY <1>0, <1>1, <1>2, <1>3, <1>4, <1>5 DEF Times
<1>7. NamesFit(r)'
  BY <1>0, <1>1, <1>2, <1>4 DEF NamesFit
<1>8. Unmoved(r)'
  BY <1>0, <1>1, <1>2 DEF Unmoved
<1>9. ASSUME ~ Killed, Lone(r), he'[r] # None PROVE he'[r].d = setup.d[l]
  <2>1. Rep(l) = r
    BY <1>a, <1>0, <1>1, <1>9, AloneRep DEF Lone
  <2>2. CASE ~ Rebuilds(l)
    <3>1. ~ Redo(l, r) /\ he[r] # None /\ he'[r] = he[r]
      BY <1>1, <1>3, <1>9, <2>1, <2>2 DEF Rebuilds
    <3>2. he[r].whole
      BY <1>0, <1>9, <3>1 DEF NamesFit
    <3> QED  BY <3>1, <3>2 DEF Redo, OtherD
  <2> QED  BY <1>4, <2>2
<1>10. Matched(r)'
  <2>1. SUFFICES ASSUME ~ Killed, Lone(r), Settled(r)', obj[r] # None, he'[r] # None
                 PROVE  /\ he'[r].d = obj[r].d
                        /\ Agrees(hdr, obj[r], Root[src[r].decl][obj[r].i])
    BY <1>1, <1>2 DEF Matched
  <2>2. Rep(l) = r /\ at[l] = 1
    BY <1>a, <1>0, <1>1, <2>1, AloneRep DEF Lone
  <2>3. pc'[l] = "members"
    <3>1. ~ (pc'[l] = "dep" /\ at'[l] = 2)
      BY <1>a, <1>2, <2>1 DEF Settled
    <3> QED  BY <1>1, <2>2, <3>1
  <2>4. UpToDate(l, r)
    BY <1>1, <2>2, <2>3
  <2>5. obj[r].d = setup.d[l] /\ Agrees(hdr, obj[r], Root[src[r].decl][obj[r].i])
    BY <1>1, <2>1, <2>2, <2>4, UpToDateIs, <1>a
  <2> QED  BY <1>9, <2>1, <2>5
<1> QED  BY <1>a, <1>2, <1>6, <1>7, <1>8, <1>9, <1>10 DEF FilesFit

LEMMA AskLeaves ==
  ASSUME LinkCurrent, NEW l \in Links, Ask(l)
  PROVE  FilesFit(Main(l))'
<1>1. PICK r \in Reps : r = Main(l)
  BY SetupIs DEF LinkCurrent, LinkHeld
<1>2. /\ LinkTyped /\ OwnOnly(l) /\ FilesFit(r) /\ Times(r) /\ NamesFit(r) /\ Unmoved(r) /\ Matched(r)
      /\ Start(l) \/ LinkStep(l) \/ Kill(l)
  BY OwnIs DEF LinkCurrent, LinkHeld, FilesFit, LinkStep
<1>3. /\ pc[l] = "link" /\ pc'[l] = "dep" /\ at'[l] = 1
      /\ src'[r] # None /\ src'[r].decl = decl
      /\ \/ src'[r] = src[r]
         \/ /\ src'[r] = [time |-> now, decl |-> decl]
            /\ src[r] = None \/ src[r].decl # decl
      /\ UNCHANGED <<obj, he, left>>
  BY <1>1, <1>2, AskIs
<1>4. UNCHANGED <<setup, now, decl, hdr>> /\ Main(l)' = r
  BY <1>1, <1>2 DEF OwnOnly, Main
<1>5. CASE src'[r] = src[r]
  BY <1>1, <1>2, <1>3, <1>4, <1>5, FilesLeft
<1>6. CASE src'[r] # src[r]
  <2>1. src'[r].time = now /\ now \in Nat /\ (he[r] # None => now > he[r].time)
    BY <1>2, <1>3, <1>6, FilesTyped DEF Times
  <2>2. he[r] # None => he[r].time \in Nat
    BY <1>2, FilesTyped
  <2>3. Times(r)'
    BY <1>2, <1>3, <1>4, <2>1 DEF Times
  <2>4. Killed' = Killed /\ Moved' = Moved /\ (Lone(r)' => Lone(r))
    BY <1>3, <1>4 DEF Killed, Moved, Lone, Main
  <2>5. NamesFit(r)'
    BY <1>2, <1>3, <2>1, <2>2, <2>4 DEF NamesFit
  <2>6. Unmoved(r)'
    BY <1>2, <1>3, <1>4, <2>4 DEF Unmoved
  <2>7. Settled(r)' => Settled(r)
    BY <1>2, <1>3, SettledBefore
  <2>8. Matched(r)'
    BY <1>2, <1>3, <2>1, <2>4, <2>7 DEF Matched
  <2> QED  BY <1>4, <2>3, <2>5, <2>6, <2>8 DEF FilesFit
<1> QED  BY <1>4, <1>5, <1>6

LEMMA CompileLeaves ==
  ASSUME LinkCurrent, NEW l \in Links, DropObject(l) \/ Compile(l)
  PROVE  FilesFit(Main(l))'
<1>1. PICK r \in Reps : r = Main(l)
  BY SetupIs DEF LinkCurrent, LinkHeld
<1>2. /\ LinkTyped /\ OwnOnly(l) /\ FilesFit(r) /\ Times(r) /\ NamesFit(r) /\ Unmoved(r) /\ Matched(r)
      /\ Checked(l)
  BY OwnIs DEF LinkCurrent, LinkHeld, FilesFit, LinkStep
<1>3. UNCHANGED <<src, he, left>>
  BY <1>2, DropObjectIs, CompileIs
<1>4. UNCHANGED <<setup, now, decl, hdr>> /\ Main(l)' = r
  BY <1>1, <1>2 DEF OwnOnly, Main
<1>5. Killed' = Killed /\ Moved' = Moved /\ (Lone(r)' => Lone(r))
  BY <1>3, <1>4 DEF Killed, Moved, Lone, Main
<1>6. NamesFit(r)'
  BY <1>2, <1>3, <1>4, <1>5 DEF NamesFit
<1>7. CASE DropObject(l)
  <2>1. obj'[r] = None
    BY <1>1, <1>2, <1>7, DropObjectIs
  <2>2. Times(r)' /\ Unmoved(r)' /\ Matched(r)'
    BY <1>2, <1>3, <1>4, <1>5, <2>1 DEF Times, Unmoved, Matched
  <2> QED  BY <1>4, <1>6, <2>2 DEF FilesFit
<1>8. CASE Compile(l)
  <2>1. /\ pc[l] = "compile" /\ obj'[r] = Compiled(l, src[r])
        /\ src[r] \in Sources /\ src[r] # None
    BY <1>1, <1>2, <1>8, CompileIs
  <2>2. /\ obj'[r] # None /\ obj'[r].time = now /\ obj'[r].i = setup.i[l] /\ obj'[r].d = setup.d[l]
        /\ obj'[r].seen = [h \in ReachIn(hdr, Root[src[r].decl][setup.i[l]]) |-> hdr[h].ver]
    <3>1. /\ Compiled(l, src[r]) # None /\ Compiled(l, src[r]).time = now
          /\ Compiled(l, src[r]).i = setup.i[l] /\ Compiled(l, src[r]).d = setup.d[l]
          /\ Compiled(l, src[r]).seen = [h \in Included(l, src[r]) |-> hdr[h].ver]
      BY <1>2, <2>1, CompiledIs
    <3>2. Included(l, src[r]) = ReachIn(hdr, Root[src[r].decl][setup.i[l]])
      BY <1>2, <2>1, IncludedIs
    <3> QED  BY <2>1, <3>1, <3>2
  <2>3. Agrees(hdr, obj'[r], Root[src[r].decl][obj'[r].i])
    BY <2>2 DEF Agrees
  <2>4. now \in Nat
    BY <1>2, FilesTyped
  <2>5. Times(r)'
    BY <1>2, <1>3, <1>4, <2>2, <2>4 DEF Times
  <2>6. Unmoved(r)'
    <3>1. ~ Moved => decl = 1 /\ src[r].decl = 1
      BY <1>2, <2>1 DEF Unmoved
    <3> QED  BY <1>3, <1>4, <1>5, <2>3, <3>1 DEF Unmoved
  <2>7. Matched(r)'
    <3>1. ~ Killed /\ Lone(r) /\ he[r] # None => he[r].d = setup.d[l]
      BY <1>1, <1>2, <2>1 DEF Checked
    <3> QED  BY <1>3, <1>4, <1>5, <2>2, <2>3, <3>1 DEF Matched
  <2> QED  BY <1>4, <1>6, <2>5, <2>6, <2>7 DEF FilesFit
<1> QED  BY <1>7, <1>8

\* A cache that a killed link leaves torn is not whole, or is not there.
LEMMA KillLeaves ==
  ASSUME LinkCurrent, NEW l \in Links, Kill(l)
  PROVE  FilesFit(Main(l))'
<1>1. PICK r \in Reps : r = Main(l)
  BY SetupIs DEF LinkCurrent, LinkHeld
<1>2. /\ LinkTyped /\ OwnOnly(l) /\ FilesFit(r) /\ Times(r) /\ NamesFit(r) /\ Unmoved(r) /\ Matched(r)
      /\ Start(l) \/ LinkStep(l) \/ Kill(l)
  BY OwnIs DEF LinkCurrent, LinkHeld, FilesFit
<1>3. UNCHANGED <<src, obj>> /\ Quits(l)
  BY <1>2, QuitsIs DEF Quits
<1>4. UNCHANGED <<setup, now, decl, hdr>> /\ Main(l)' = r /\ Moved' = Moved
  BY <1>1, <1>2, MovedIs DEF OwnOnly, Main
<1>5. Killed'
  <2>1. left \in Budgets /\ left.kills > 0 /\ left' = [left EXCEPT !.kills = @ - 1]
    BY <1>2 DEF LinkTyped, Shapes, Budgets, Kill
  <2>2. left'.kills = left.kills - 1
    BY <2>1, BudgetLess
  <2>3. left.kills \in Nat /\ setup.budget.kills \in Nat /\ left.kills <= setup.budget.kills
    BY <1>2, SetupIs DEF LinkTyped, Shapes
  <2> QED  BY <1>4, <2>2, <2>3 DEF Killed
<1>6. CASE he'[r] = he[r]
  <2>1. UNCHANGED <<src[r], obj[r], he[r]>> /\ r \in Reps
    BY <1>3, <1>6
  <2>2. LinkCurrent /\ l \in Links /\ (Start(l) \/ LinkStep(l) \/ Kill(l))
    BY <1>2
  <2> QED  BY <1>4, <1>5, <2>1, <2>2, FilesLeft
<1>7. CASE he'[r] # he[r]
  <2>1. Rebuilds(l) /\ (he'[r] = None \/ (he'[r] # None /\ he'[r].time = now /\ ~ he'[r].whole))
    <3>1. \/ he'[Main(l)] = he[Main(l)]
          \/ Rebuilds(l) /\ he'[Main(l)] = None
          \/ /\ Rebuilds(l) /\ he'[Main(l)] # None
             /\ he'[Main(l)].time = now /\ ~ he'[Main(l)].whole
      BY <1>2, KillIs
    <3> QED  BY <1>1, <1>7, <3>1
  <2>2. pc[l] = "dep"
    BY <2>1 DEF Rebuilds
  <2>3. src[r] # None /\ src[r].decl = decl
    BY <1>1, <1>2, <2>2 DEF LinkCurrent, LinkHeld, LinkTyped, Local, Minds, Asking
  <2>4. now \in Nat
    BY <1>2, FilesTyped
  <2>5. Times(r)'
    BY <1>2, <1>3, <1>4, <2>1, <2>3, <2>4 DEF Times
  <2>6. NamesFit(r)' /\ Matched(r)'
    BY <1>5, <2>1 DEF NamesFit, Matched
  <2>7. Unmoved(r)'
    BY <1>2, <1>3, <1>4 DEF Unmoved
  <2> QED  BY <1>4, <2>5, <2>6, <2>7 DEF FilesFit
<1> QED  BY <1>4, <1>6, <1>7

LEMMA CurrentFiles ==
  ASSUME LinkCurrent, NEW l \in Links, Start(l) \/ LinkStep(l) \/ Kill(l), NEW r \in Reps
  PROVE  FilesFit(r)'
<1>1. LinkTyped /\ OwnOnly(l) /\ Main(l) \in Reps /\ Main(l)' = Main(l)
  BY OwnIs, SetupIs DEF LinkCurrent, LinkHeld, OwnOnly, Main
<1>2. CASE Main(l) # r
  BY <1>1, <1>2, FilesLeft DEF OwnOnly
<1>3. CASE Main(l) = r
  <2>1. CASE Kill(l) \/ CheckTime(l) \/ Ask(l) \/ DropObject(l) \/ Compile(l)
    BY <1>1, <1>3, <2>1, KillLeaves, CheckLeaves, AskLeaves, CompileLeaves
  <2>2. CASE Start(l) \/ Lock(l) \/ Finish(l) \/ CheckMembers(l) \/ DropMembers(l)
             \/ WriteMembers(l) \/ Adopt(l)
    <3>1. UNCHANGED <<src, obj, he>> /\ pc[l] # "dep"
      BY <1>1, <2>2, StartIs, LockIs, FinishIs, CheckMembersIs, DropMembersIs, WriteMembersIs, AdoptIs
    <3> QED  BY <3>1, FilesLeft
  <2>3. CASE Quits(l) /\ ~ Killed'
    <3>1. UNCHANGED <<src, obj, he>> /\ pc[l] # "dep"
      BY <1>1, <2>3, QuitsIs, KilledIs
    <3> QED  BY <3>1, FilesLeft
  <2>4. CASE Quits(l) /\ Killed' /\ ~ Kill(l)
    <3>1. UNCHANGED <<src, obj, he>>
      BY <1>1, <2>4 DEF Quits, GiveUp, CompileFails, Exit, files
    <3> QED  BY <2>4, <3>1, FilesLeft
  <2> QED  BY <2>1, <2>2, <2>3, <2>4, LinkSteps DEF Works
<1> QED  BY <1>2, <1>3

LEMMA CurrentChecked ==
  ASSUME LinkCurrent, NEW l \in Links, Start(l) \/ LinkStep(l) \/ Kill(l), NEW k \in Links
  PROVE  Checked(k)'
<1>0. /\ LinkTyped /\ LinkHeld /\ OwnOnly(l) /\ Local(l) /\ Checked(k) /\ Main(l) \in Reps
      /\ Main(k) \in Reps /\ Main(k)' = Main(k) /\ (~ Killed' => ~ Killed)
  BY OwnIs, SetupIs, KilledIs DEF LinkCurrent, LinkHeld, LinkTyped, OwnOnly, Main
<1>1. CASE Killed'
  BY <1>1 DEF Checked
<1>2. CASE ~ Killed' /\ k # l
  <2>1. UNCHANGED <<setup, pc[k], at[k]>>
    BY <1>0, <1>2 DEF OwnOnly
  <2>2. ASSUME pc[k] \in {"dep", "members", "compile"} PROVE he'[Main(k)] = he[Main(k)]
    <3>1. CASE Main(k) # Main(l)
      BY <1>0, <3>1 DEF OwnOnly
    <3>2. CASE Main(k) = Main(l)
      <4>1. pc[l] \in {"idle", "lock"}
        BY <1>0, <1>2, <2>2, <3>2, OnlyOne
      <4>2. ~ Works(l)
        BY <1>0, <4>1, WorksIs
      <4> QED  BY <1>0, <1>2, <4>2, LinkSteps, StartIs, LockIs, KilledIs
    <3> QED  BY <3>1, <3>2
  <2> QED  BY <1>0, <2>1, <2>2, CheckedKept
<1>3. CASE ~ Killed' /\ k = l
  <2>1. CASE CheckTime(l)
    <3>1. (~ Killed /\ Lone(Main(l)) /\ he'[Main(l)] # None) => he'[Main(l)].d = setup.d[l]
      BY <2>1, CheckLeaves
    <3>2. (Lone(Main(l))' => Lone(Main(l))) /\ setup' = setup
      BY <1>0 DEF OwnOnly, Lone, Main
    <3> QED  BY <1>0, <1>3, <3>1, <3>2 DEF Checked
  <2>2. CASE CheckMembers(l) \/ DropObject(l)
    <3>1. UNCHANGED <<setup, he>>
      BY <1>0, <2>2, CheckMembersIs, DropObjectIs DEF OwnOnly
    <3>2. Lone(Main(l))' => Lone(Main(l)) /\ Len(setup.search[l]) = 1
      BY <1>0, <3>1 DEF Lone, Main
    <3>3. pc[l] = "members" \/ (pc[l] = "dep" /\ (Len(setup.search[l]) = 1 => at[l] > 1))
      BY <1>0, <2>2, CheckMembersIs, DropObjectIs
    <3> QED  BY <1>0, <1>3, <3>1, <3>2, <3>3 DEF Checked
  <2>3. CASE Ask(l)
    <3>1. pc'[l] = "dep" /\ at'[l] = 1
      BY <1>0, <2>3, AskIs
    <3>2. pc'[l] \notin {"members", "compile"} /\ ~ (at'[l] > 1)
      BY <3>1
    <3> QED  BY <1>3, <3>2 DEF Checked
  <2>4. CASE Start(l) \/ Lock(l) \/ Quits(l) \/ Finish(l) \/ Compile(l)
             \/ DropMembers(l) \/ WriteMembers(l) \/ Adopt(l)
    <3>1. pc'[l] \notin {"dep", "members", "compile"}
      BY <1>0, <2>4, StartIs, LockIs, QuitsIs, FinishIs, CompileIs, DropMembersIs,
         WriteMembersIs, AdoptIs
    <3> QED  BY <1>3, <3>1 DEF Checked
  <2> QED  BY <2>1, <2>2, <2>3, <2>4, LinkSteps DEF Works
<1> QED  BY <1>1, <1>2, <1>3

LEMMA CurrentNext ==
  ASSUME LinkCurrent, [Next]_vars
  PROVE  LinkCurrent'
<1>1. CASE \E l \in Links : Start(l) \/ LinkStep(l) \/ Kill(l)
  <2>1. PICK l \in Links : Start(l) \/ LinkStep(l) \/ Kill(l)
    BY <1>1
  <2>2. LinkHeld'
    BY <2>1, HeldLink DEF LinkCurrent
  <2>3. \A r \in Reps : FilesFit(r)'
    BY <2>1, CurrentFiles
  <2>4. \A k \in Links : Checked(k)'
    BY <2>1, CurrentChecked
  <2> QED  BY <2>2, <2>3, <2>4 DEF LinkCurrent
<1>2. CASE (\E h \in Headers : Edit(h)) \/ Move \/ Tick \/ UNCHANGED vars
  BY <1>2, CurrentWorld
<1> QED  BY <1>1, <1>2 DEF Next

LEMMA CurrentInit ==
  ASSUME Init
  PROVE  LinkCurrent
<1>1. LinkHeld
  BY HeldInit
<1>2. decl = 1 /\ \A r \in Reps : src[r] = None /\ obj[r] = None /\ he[r] = None
  BY DEF Init
<1>3. \A l \in Links : pc[l] = "idle"
  BY DEF Init
<1>4. ASSUME NEW r \in Reps PROVE FilesFit(r)
  BY <1>2 DEF FilesFit, Times, NamesFit, Unmoved, Matched
<1> QED  BY <1>1, <1>3, <1>4 DEF LinkCurrent, Checked

\* The headers that the check looks at are those of a compile, and all of them
\* are older than the object.
LEMMA AcceptedSeen ==
  ASSUME LinkCurrent, NEW l \in Links, NEW r \in Reps, src[Main(l)] # None,
         src[r] # None, obj[r] # None, UpToDate(l, r), src[r].decl = src[Main(l)].decl,
         KnownI(l, r), ~ Killed \/ obj[r].i = setup.i[l],
         Agrees(hdr, obj[r], Root[src[r].decl][obj[r].i])
  PROVE  obj[r].seen = Compiled(l, src[Main(l)]).seen
<1> DEFINE root == Root[src[r].decl][setup.i[l]]
           H == ReachIn(hdr, root)
<1>1. LinkTyped /\ NamesFit(r) /\ Times(r) /\ Main(l) \in Reps
  BY SetupIs DEF LinkCurrent, LinkHeld, FilesFit
<1>2. src[Main(l)] \in Sources /\ NewCache(l).hdrs = H /\ Included(l, src[Main(l)]) = H
  BY <1>1, NewCacheIs, IncludedIs
<1>3. Compiled(l, src[Main(l)]).seen = [h \in H |-> hdr[h].ver]
  <2>1. Compiled(l, src[Main(l)]).seen = [h \in Included(l, src[Main(l)]) |-> hdr[h].ver]
    BY <1>1, <1>2, CompiledIs
  <2> HIDE DEF H
  <2> QED  BY <1>2, <2>1
<1>4. /\ hdr \in HeaderTables /\ H \subseteq Headers
      /\ src[r].time \in Nat /\ obj[r].time \in Nat
      /\ he[r] # None => he[r].time \in Nat /\ he[r].hdrs \subseteq Headers /\ he[r].whole \in BOOLEAN
  <2>1. root \in Headers
    BY <1>1, FilesTyped, SetupIs
  <2> QED  BY <1>1, <2>1, FilesTyped, ReachInIs
<1>5. \A S \in SUBSET Headers : ~ HeaderPastObject(S, r) => Older(hdr, S, obj[r].time)
  BY <1>4 DEF HeaderPastObject, Older, HeaderTables, Whens
<1>6. he[r] # None /\ ~ OtherSource(l, r) /\ src[r].time <= he[r].time
      /\ ~ HeaderPastObject(IF Redo(l, r) THEN NewCache(l).hdrs ELSE he[r].hdrs, r)
  BY <1>4 DEF UpToDate, OtherSource, CacheOld
<1> HIDE DEF H, root
<1>7. ~ HeaderPastCache(r) => Older(hdr, he[r].hdrs, he[r].time)
  BY <1>4, <1>6 DEF HeaderPastCache, Older, HeaderTables, Whens
<1>8. CASE obj[r].i = setup.i[l]
  <2>1. Older(hdr, H, obj[r].time)
    <3>1. CASE Redo(l, r)
      BY <1>2, <1>4, <1>5, <1>6, <3>1
    <3>2. CASE ~ Redo(l, r)
      <4>1. he[r].whole /\ he[r].i = setup.i[l] /\ ~ HeaderPastCache(r)
        BY <3>2 DEF Redo, OtherI
      <4>2. he[r].hdrs = H
        BY <1>1, <1>6, <1>7, <4>1 DEF NamesFit, H, root
      <4> QED  BY <1>4, <1>5, <1>6, <3>2, <4>2
    <3> QED  BY <3>1, <3>2
  <2> QED  BY <1>3, <1>8, <2>1 DEF Agrees, H, root
<1>9. CASE obj[r].i # setup.i[l]
  <2>1. ~ Killed /\ he[r].i = obj[r].i /\ ~ HeaderPastCache(r) /\ he[r].whole
    BY <1>1, <1>6, <1>9 DEF KnownI, NamesFit
  <2>2. he[r].hdrs = ReachIn(hdr, Root[src[r].decl][obj[r].i])
    BY <1>1, <1>6, <1>7, <2>1 DEF NamesFit
  <2>3. Redo(l, r) /\ (he[r].hdrs = {} \/ he[r].hdrs = H)
    BY <1>2, <1>6, <1>9, <2>1 DEF OtherSource, OtherI, Redo
  <2>4. he[r].hdrs # {}
    <3>1. Root[src[r].decl][obj[r].i] \in Headers
      BY <1>1, FilesTyped
    <3> QED  BY <1>4, <2>2, <3>1, ReachInIs
  <2>5. Older(hdr, H, obj[r].time)
    BY <1>2, <1>4, <1>5, <1>6, <2>3
  <2> QED  BY <1>3, <2>2, <2>3, <2>4, <2>5 DEF Agrees
<1> QED  BY <1>8, <1>9

LEMMA AcceptedStep ==
  ASSUME LinkCurrent, [Next]_vars, NEW l \in Links, pc[l] = "dep", pc'[l] = "members",
         \/ ~ Killed /\ Alone(l) /\ KnownI(l, Rep(l))
         \/ SameOptions(l, Rep(l)) /\ ~ Moved
  PROVE  Current(l, Rep(l))
<1>0. LinkTyped /\ LinkHeld /\ Local(l) /\ Minds(l) /\ Main(l) \in Reps
  BY SetupIs DEF LinkCurrent, LinkHeld, LinkTyped
<1>1. CheckTime(l)
  <2>1. CASE \E k \in Links : k # l /\ (Start(k) \/ LinkStep(k) \/ Kill(k))
    BY <1>0, <2>1, OwnIs DEF OwnOnly
  <2>2. CASE Start(l) \/ LinkStep(l) \/ Kill(l)
    BY <1>0, <2>2, LinkSteps, StartIs, LockIs, QuitsIs, FinishIs, AskIs, CheckMembersIs,
       DropObjectIs, CompileIs, DropMembersIs, WriteMembersIs, AdoptIs DEF Works
  <2>3. CASE (\E h \in Headers : Edit(h)) \/ Move \/ Tick \/ UNCHANGED vars
    BY <2>3 DEF Edit, Move, Tick, vars
  <2> QED  BY <2>1, <2>2, <2>3 DEF Next
<1>2. /\ src[Rep(l)] # None /\ obj[Rep(l)] # None /\ UpToDate(l, Rep(l))
      /\ at[l] <= Len(setup.search[l])
  BY <1>0, <1>1, CheckTimeIs
<1>3. src[Main(l)] # None /\ src[Main(l)].decl = decl
  BY <1>0 DEF Local, Minds, Asking
<1>4. Rep(l) \in Reps
  BY <1>0, <1>2, SetupIs
<1>5. CASE ~ Killed /\ Alone(l) /\ KnownI(l, Rep(l))
  <2>1. Len(setup.search[l]) = 1 /\ Lone(Main(l))
    BY <1>5 DEF Alone, Lone
  <2>2. Rep(l) = Main(l) /\ at[l] = 1
    BY <1>0, <1>2, <2>1, AloneRep
  <2>3. /\ obj[Main(l)].d = setup.d[l]
        /\ Agrees(hdr, obj[Main(l)], Root[src[Main(l)].decl][obj[Main(l)].i])
    BY <1>2, <1>5, <2>1, <2>2, UpToDateIs
  <2>4. obj[Main(l)].seen = Compiled(l, src[Main(l)]).seen
    BY <1>0, <1>2, <1>3, <1>5, <2>2, <2>3, AcceptedSeen
  <2> QED  BY <2>2, <2>3, <2>4 DEF Current
<1>6. CASE SameOptions(l, Rep(l)) /\ ~ Moved
  <2>1. src[Rep(l)].decl = 1 /\ src[Main(l)].decl = 1
    BY <1>0, <1>2, <1>3, <1>4, <1>6 DEF LinkCurrent, FilesFit, Unmoved
  <2>2. Agrees(hdr, obj[Rep(l)], Root[1][obj[Rep(l)].i])
    BY <1>2, <1>4, <1>6 DEF LinkCurrent, FilesFit, Unmoved
  <2>3. KnownI(l, Rep(l)) /\ obj[Rep(l)].i = setup.i[l] /\ obj[Rep(l)].d = setup.d[l]
    BY <1>6 DEF SameOptions, KnownI
  <2>4. obj[Rep(l)].seen = Compiled(l, src[Main(l)]).seen
    BY <1>2, <1>3, <1>4, <2>1, <2>2, <2>3, AcceptedSeen
  <2> QED  BY <2>3, <2>4 DEF Current
<1> QED  BY <1>5, <1>6

\* An object that dodep accepts is the one that a compile would give now.
THEOREM AcceptsTheCurrent == Spec => AcceptedIsCurrent
<1> DEFINE Body == \A l \in Links :
                     (pc[l] = "dep" /\ pc'[l] = "members"
                      /\ \/ ~ Killed /\ Alone(l) /\ KnownI(l, Rep(l))
                         \/ SameOptions(l, Rep(l)) /\ ~ Moved)
                     => Current(l, Rep(l))
<1>1. Init => LinkCurrent
  BY CurrentInit
<1>2. LinkCurrent /\ [Next]_vars => LinkCurrent'
  BY CurrentNext
<1>3. LinkCurrent /\ [Next]_vars => Body
  BY AcceptedStep
<1>4. AcceptedIsCurrent <=> [][Body]_vars
  BY PTL DEF AcceptedIsCurrent
<1> HIDE DEF Body
<1> QED  BY <1>1, <1>2, <1>3, <1>4, PTL DEF Spec
=============================================================================
