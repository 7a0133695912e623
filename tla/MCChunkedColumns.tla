------------------------- MODULE MCChunkedColumns -------------------------
(* Four chunks, the last larger than what may be resident.  A range over   *)
(* three of them that evicts, the same in pages, a small read that trims   *)
(* what others left, and one that skips a pruned chunk.                    *)
EXTENDS ChunkedColumns

MCSize == <<1, 1, 2, 3>>
Ask(first, end, pruned, budget, page) ==
    [first |-> first, end |-> end, pruned |-> pruned, budget |-> budget, page |-> page]
MCRequests == {Ask(1, 4, {}, 4, 4), Ask(1, 4, {}, 4, 2), Ask(1, 2, {}, 1, 1), Ask(2, 5, {3}, 4, 3)}
=============================================================================
