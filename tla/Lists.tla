--------------------------------- MODULE Lists ---------------------------------
(***************************************************************************)
(* Two operators on the lists the models keep: packets, messages.          *)
(***************************************************************************)
EXTENDS Integers, Sequences

Among(list) == {list[k] : k \in 1 .. Len(list)}

\* The members of list that are in S, in their order.  (SelectSeq would do for TLC; the
\* prover knows nothing of it.)
Those(list, S) ==
    LET those[k \in 0 .. Len(list)] ==
            IF k = 0 THEN <<>>
            ELSE IF list[k] \in S THEN Append(those[k - 1], list[k]) ELSE those[k - 1]
    IN those[Len(list)]
===============================================================================
