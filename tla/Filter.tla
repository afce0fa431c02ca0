------------------------------- MODULE Filter -------------------------------
(***************************************************************************)
(* Filtering a sequence by a set.  SelectSeq of the standard module takes  *)
(* its test as an operator, about which nothing can be proved; here the    *)
(* test is membership.                                                     *)
(***************************************************************************)
EXTENDS Naturals, Sequences

\* The members of S among the elements of a sequence, in order.
Only(s, S) ==
  LET only[n \in 0 .. Len(s)] ==
        IF n = 0 THEN <<>>
        ELSE IF s[n] \in S THEN Append(only[n - 1], s[n]) ELSE only[n - 1]
  IN  only[Len(s)]
=============================================================================
