----------------------------- MODULE ListFolds -----------------------------
(***************************************************************************)
(* The loops of the code over a list: a fold over the list's indices.      *)
(* They go by the names they have in SequencesExt.  That module is not     *)
(* extended because it brings Bags along, whose definitions make every     *)
(* obligation of a proof several times slower to prepare.                  *)
(***************************************************************************)
EXTENDS Naturals, Sequences, FiniteSets, FiniteSetsExt, Folds, Functions

\* from the front: for x in list { acc = step(acc, x) }
FoldLeft(step(_, _), start, list) ==
  MapThenFoldSet(LAMBDA x, acc : step(acc, x), start, LAMBDA i : list[i], Max, DOMAIN list)

\* from the end: for x in list.rev() { acc = step(x, acc) }
FoldRight(step(_, _), list, start) ==
  MapThenFoldSet(step, start, LAMBDA i : list[i], Min, DOMAIN list)

\* the members of a finite set, each once, in some order
SetToSeq(S) == CHOOSE list \in [1..Cardinality(S) -> S] : IsInjective(list)

=============================================================================
