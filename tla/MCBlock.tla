------------------------------ MODULE MCBlock ------------------------------
(***************************************************************************)
(* Stored blocks of every length and kind around the limits: empty, as     *)
(* long as a metadata block may be and longer, ending at and behind the    *)
(* end of the image; streams that decode to nothing, to less than the      *)
(* buffer, to exactly the buffer and to more, whole, cut off and damaged.  *)
(***************************************************************************)
EXTENDS SquashBlock

MCMetadataSize == 16
MCBlockSize == 15

Block(kind, size, compressed, stream, yields) ==
    [kind |-> kind, room |-> 19, size |-> size, compressed |-> compressed,
     stream |-> stream, yields |-> yields, props |-> TRUE, alone |-> FALSE]

Lengths ==
    {Block("metadata", size, FALSE, "whole", 0) : size \in {0, 1, 14, 15, 16, 17, 18}}
    \cup {Block("data", size, FALSE, "whole", 0) : size \in {1, 14, 15}}
Streams ==
    {Block(kind, 15, TRUE, stream, yields) :
        kind \in {"metadata", "data"}, stream \in {"whole", "truncated", "corrupt"},
        yields \in {0, 1, 15, 16, 17}}
Placed(b) ==
    {[b EXCEPT !.room = n] : n \in {0, 14, 15, 16, 17}}
    \cup {[b EXCEPT !.size = n] : n \in {4, 5, 6}} \cup {[b EXCEPT !.props = FALSE]}
\* Blocks of lzma as they stand in an image; other codecs know no difference.
Alone == {[b EXCEPT !.alone = TRUE] : b \in Streams}

MCStored ==
    Lengths \cup Streams \cup Alone
    \cup Placed(Block("metadata", 15, TRUE, "whole", 3)) \cup Placed(Block("data", 15, TRUE, "whole", 3))
MCBuilt == Codecs
=============================================================================
