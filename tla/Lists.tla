------------------------------- MODULE Lists --------------------------------
(***************************************************************************)
(* Lists from which entries are removed, the order of the others kept.      *)
(***************************************************************************)
EXTENDS Naturals, Sequences, FiniteSets

\* The number of indices of I below i.
Below(I, i) == Cardinality({j \in I : j < i})

\* The entries of s whose index is in I, in the order of s.
Kept(s, I) == [k \in 1 .. Cardinality(I) |-> s[CHOOSE i \in I : Below(I, i) = k - 1]]
=============================================================================
