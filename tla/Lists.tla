------------------------------- MODULE Lists -------------------------------
(***************************************************************************)
(* Loops over a list that add to a result, as a recursive function: TLC    *)
(* evaluates it in as many steps as the list has elements.                 *)
(***************************************************************************)
EXTENDS Naturals, Sequences, FiniteSetsExt

\* op applied to the result so far and the next element, for each element.
Fold(op(_, _), base, s) ==
  LET f[i \in 0..Len(s)] == IF i = 0 THEN base ELSE op(f[i - 1], s[i]) IN f[Len(s)]

\* The lists g gives for the elements of s, one after the other.
FlatMap(g(_), s) == Fold(LAMBDA list, x : list \o g(x), <<>>, s)

\* The elements of a set in some order.
Listed(S) == FoldSet(LAMBDA x, list : Append(list, x), <<>>, S)
=============================================================================
