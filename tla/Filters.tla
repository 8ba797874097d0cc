------------------------------ MODULE Filters ------------------------------
(***************************************************************************)
(* Retaining the elements of a sequence that a set holds.                  *)
(***************************************************************************)
EXTENDS Naturals, Sequences

\* What is left of the sequence s when only elements of S are retained (Rust's
\* `retain` and `filter`).
Only(s, S) ==
    LET left[i \in 0..Len(s)] ==
            IF i = 0 THEN <<>>
            ELSE IF s[i] \in S THEN Append(left[i - 1], s[i]) ELSE left[i - 1]
    IN  left[Len(s)]
=============================================================================
