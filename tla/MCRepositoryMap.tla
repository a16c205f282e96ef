-------------------------- MODULE MCRepositoryMap --------------------------
(***************************************************************************)
(* Instances of RepositoryMap for TLC: two programs that use a type and a  *)
(* function template, which two headers may declare.                       *)
(***************************************************************************)
EXTENDS RepositoryMap

CONSTANTS p, q, type, func, f, g

TwoPrograms == {p, q}
OneFunction == {func}

Says(name, file) == [name |-> name, file |-> file]

\* The type in one header or in none; the function template in any.
Tables ==
  {t \o u : t \in {<<>>, <<Says(type, f)>>, <<Says(type, g)>>},
            u \in {<<>>, <<Says(func, f)>>, <<Says(func, g)>>,
                   <<Says(func, f), Says(func, g)>>}}
=============================================================================
