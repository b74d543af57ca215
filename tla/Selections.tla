----------------------------- MODULE Selections -----------------------------
(***************************************************************************)
(* The elements of a sequence at some of its places, in their order: what  *)
(* a loop over the sequence keeps that pushes some of its elements.  The   *)
(* places are a set and not a test, so that lemmas can be stated of it for *)
(* any choice.                                                             *)
(***************************************************************************)
EXTENDS Integers, Sequences

Chosen(seq, places) ==
  LET upTo[i \in 0 .. Len(seq)] ==
        IF i = 0 THEN << >>
        ELSE IF i \in places THEN Append(upTo[i - 1], seq[i]) ELSE upTo[i - 1]
  IN upTo[Len(seq)]
=============================================================================
