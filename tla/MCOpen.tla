------------------------------- MODULE MCOpen -------------------------------
(***************************************************************************)
(* Images with every state of the two tables, a root directory that needs  *)
(* the scan and one that does not, and superblocks with one field wrong,   *)
(* and sound images that the code is known to refuse.                      *)
(***************************************************************************)
EXTENDS SquashOpen, SequencesExt

Base ==
    [magic |-> TRUE, s_major |-> 4, s_minor |-> 0, compression |-> 1,
     block_size |-> 4, block_log |-> 2,
     inode_table_start |-> 10, bytes_used |-> 30,
     lookup |-> "none", lookup_blocks |-> 0,
     fragments |-> 0, fragment_table_start |-> "valid", fragment_blocks |-> <<>>,
     inode_blocks |-> <<[begin |-> 0, stored |-> 3, length |-> 8, types |-> [o \in {0, 4} |-> 2]],
                        [begin |-> 5, stored |-> 4, length |-> 7, types |-> [o \in {2, 5} |-> IF o = 2 THEN 3 ELSE 1]]>>,
     root |-> [block |-> 5, offset |-> 5], sound |-> TRUE]

Lookups ==
    {[Base EXCEPT !.lookup = l] : l \in {"none", "outside", "bad index"}}
    \cup {[Base EXCEPT !.lookup = "present", !.lookup_blocks = n] : n \in 0 .. 2}
Table(held) ==
    [n \in DOMAIN held |-> [before |-> SumFunction(SubSeq(held, 1, n - 1)), held |-> held[n]]]
Fragments(x) ==
    {x} \cup
    {[x EXCEPT !.fragments = 3, !.fragment_blocks = Table(b)] : b \in {<<2, 1>>, <<3>>}} \cup
    {[x EXCEPT !.fragments = 3, !.fragment_blocks = Table(b), !.sound = FALSE] :
        b \in {<<2>>, <<2, 2>>, <<4, 1>>, <<>>}} \cup
    {[x EXCEPT !.fragments = 3, !.fragment_table_start = "invalid"]}
Roots(x) ==
    {x, [x EXCEPT !.root = [block |-> 0, offset |-> 0], !.inode_blocks[1].types[0] = 8],
     [x EXCEPT !.root.offset = 2, !.sound = FALSE],
     [x EXCEPT !.root.block = 4, !.sound = FALSE]}
Superblocks ==
    {[im EXCEPT !.sound = FALSE] :
        im \in {[Base EXCEPT !.magic = FALSE], [Base EXCEPT !.s_minor = 2],
                [Base EXCEPT !.inode_table_start = 30], [Base EXCEPT !.compression = 7],
                [Base EXCEPT !.compression = 2], [Base EXCEPT !.block_log = 3]}}

\* The type word of the root inode is cut by the end of a metadata block.
CutRoot == [Base EXCEPT !.inode_blocks[2].length = 6]
Unsupported == {CutRoot, [Base EXCEPT !.compression = Zstd]}

MCImages == Superblocks \cup Unsupported \cup UNION {UNION {Roots(y) : y \in Fragments(x)} : x \in Lookups}
MCBuilt == {1, 4, 6}
MCShift == 16
=============================================================================
