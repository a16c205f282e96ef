----------------------------- MODULE MCTemplates -----------------------------
(***************************************************************************)
(* Instances of TemplateLink and of RepositoryMap for TLC, in one run: the *)
(* links or the compiles go on, the others do nothing.                     *)
(***************************************************************************)
EXTENDS TemplateLink, MCRepositoryMap, TLC

VARIABLE part   \* "links" or "map"

PartsInit ==
  /\ Init
  /\ MapInit
  /\ \/ part = "links"
     \/ part = "map" /\ setup = CHOOSE any \in Setups : TRUE

PartsNext ==
  \/ part = "links" /\ Next /\ UNCHANGED <<part, mapVars>>
  \/ part = "map" /\ MapNext /\ UNCHANGED <<part, vars>>

PartsSpec == PartsInit /\ [][PartsNext]_<<part, vars, mapVars>> /\ Fairness

\* The types of both programs (TemplateLink!LTypeOK, RepositoryMap!MapTypeOK).
TemplateTypesOK == LTypeOK /\ MapTypeOK

CONSTANTS l1, l2, l3, r1, r2, m1, m2, m3, ha, hb, i1, i2, d1, d2

TwoLinks   == {l1, l2}
ThreeLinks == {l1, l2, l3}
TwoReps    == {r1, r2}
ThreeMembers == {m1, m2, m3}
TwoDefined == {m1, m2}
TwoHeaders == {ha, hb}

\* m1 is instantiated with a reference to m2; nothing defines m3.
WhoCalls == (m1 :> {m2}) @@ (m2 :> {}) @@ (m3 :> {})

\* The declaration is in ha or in hb, as -I says, and moves to hb.
WhichRoot == <<(i1 :> ha) @@ (i2 :> hb), (i1 :> hb) @@ (i2 :> hb)>>

Both(x, y) == (l1 :> x) @@ (l2 :> y)

Budget(r, e, m, k) == [runs |-> r, edits |-> e, moves |-> m, kills |-> k]

\* Two links share one repository, with other options or other needs.
Shared(i, d, n, b) == [search |-> Both(<<r1>>, <<r1>>), i |-> i, d |-> d,
                       needs |-> n, budget |-> b]

\* The second link has a repository of its own and searches the first's, too.
Searching(d, n, b) == [search |-> Both(<<r1>>, <<r2, r1>>),
                       i |-> Both(i1, i1), d |-> d,
                       needs |-> n, budget |-> b]

SafeSetups ==
  { \* other -I, and the declaration moves between links
    Shared(Both(i1, i2), Both(d1, d1), Both({m1}, {m2}), Budget(3, 1, 1, 0)),
    \* headers that come to include others
    Shared(Both(i1, i1), Both(d1, d1), Both({m1}, {m1}), Budget(3, 2, 0, 0)),
    \* other -D, members that nothing defines, links that are killed
    Shared(Both(i1, i1), Both(d1, d2), Both({m1}, {m3}), Budget(3, 1, 0, 1)),
    \* a repository that is searched and not locked
    Searching(Both(d1, d1), Both({m1}, {m2}), Budget(2, 1, 0, 0))}

\* Three links: one with a repository that the others search after their own,
\* which two share that differ in -D; the third has the first one's -D.
Three(x, y, z) == Both(x, y) @@ (l3 :> z)
MixedSetups ==
  {[search |-> Three(<<r1>>, <<r2, r1>>, <<r2, r1>>),
    i |-> Three(i1, i1, i1), d |-> Three(d1, d2, d1),
    needs |-> Three({m1}, {m1}, {m1}), budget |-> Budget(4, 0, 0, 0)]}
=============================================================================
