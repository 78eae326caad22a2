-------------------------------- MODULE Lists --------------------------------
(***************************************************************************)
(* The list comprehension of the handlers, in a form that can be reasoned  *)
(* about: a set takes the place of the test.                               *)
(***************************************************************************)
EXTENDS Naturals, Sequences

\* [x for x in s if x in T]
Kept(s, T) ==
    LET kept[i \in 0..Len(s)] ==
            IF i = 0 THEN <<>>
            ELSE IF s[i] \in T THEN Append(kept[i - 1], s[i]) ELSE kept[i - 1]
    IN  kept[Len(s)]
=============================================================================
