------------------------------ MODULE Retaining -----------------------------
(***************************************************************************)
(* What is left of a sequence when some of its elements are taken out, as  *)
(* retain() of Rust and filter() of Vim leave it. SelectSeq says the same, *)
(* but this is a function of the length, which can be reasoned about.      *)
(***************************************************************************)
EXTENDS Naturals, Sequences

Dropping(s, T) ==
  LET left[n \in 0..Len(s)] ==
        IF n = 0 THEN << >>
        ELSE IF s[n] \in T THEN left[n - 1]
        ELSE Append(left[n - 1], s[n])
  IN  left[Len(s)]
=============================================================================
