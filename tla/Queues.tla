-------------------------------- MODULE Queues --------------------------------
(***************************************************************************)
(* Queues of calls and packets.                                            *)
(***************************************************************************)
EXTENDS Integers, Sequences, SequencesExt

(* The elements of s at the positions in keep.  (SelectSeq with a set in the *)
(* place of its test.)                                                       *)
Kept(s, keep) ==
    LET kept[n \in 0 .. Len(s)] ==
            IF n = 0 THEN <<>>
            ELSE IF n \in keep THEN Append(kept[n - 1], s[n]) ELSE kept[n - 1]
    IN  kept[Len(s)]
===============================================================================
