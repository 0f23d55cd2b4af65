------------------------------ MODULE MCInode ------------------------------
(***************************************************************************)
(* Inodes of every type, at every place where the distance to the end of   *)
(* the block matters: room for all of it, less than 48 bytes, less than    *)
(* its own size, less than its first 16 bytes; with and without a block    *)
(* behind; files with no, one and two blocks, tails and holes in the       *)
(* counting; values that do not fit their width, lengths of links among    *)
(* them; unknown types.                                                    *)
(***************************************************************************)
EXTENDS SquashInode

MCSuper == [bytes_used |-> 300, fragments |-> 2, block_size |-> 4]
MCWord == 256
MCHalf == 8
MCGarbage == {0, 7}

Base(t) == <<t, 11, 12, 13, 14, 15, 16, 17>>

FileBody(size, start, fragment, n) ==
    [start_block |-> start, fragment |-> fragment, offset |-> 1, file_size |-> size,
     block_list |-> [k \in 1 .. n |-> 20 + k]]
\* The blocks a file of the given size has in the format.
Full(size, fragment) ==
    IF fragment = NoFragment THEN (size + 3) \div 4 ELSE size \div 4

Bodies(t) ==
    IF t \in DirTypes THEN {[start_block |-> 19, nlink |-> 2, file_size |-> 5, offset |-> 3]}
    ELSE IF t \in FileTypes
    THEN {FileBody(size, 5, fragment, Full(size, fragment)) :
             size \in {0, 1, 3, 4, 5, 8, 9}, fragment \in {NoFragment, 1}}
    ELSE IF t \in LinkTypes THEN {[nlink |-> 1, target |-> [k \in 1 .. n |-> k]] : n \in {1, 9}}
    ELSE {[nlink |-> 1]}

At(t, body, offset, first, next) ==
    [type |-> t, base |-> Base(t), body |-> body, offset |-> offset,
     first |-> first, next |-> next, sound |-> TRUE]

\* Offsets before the end of a block of 80 bytes.
Sound ==
    UNION {{At(t, body, offset, 80, 70) :
               body \in Bodies(t), offset \in {0, 20, 32, 33, 56, 64, 65, 79}} : t \in Types}
Wide ==
    {At(9, FileBody(size, start, NoFragment, (size + 3) \div 4), offset, 80, 70) :
        size \in {5, 253, 258, 262}, start \in {5, 262}, offset \in {0, 50}}
    \cup {At(2, FileBody(254, 5, fragment, Full(254, fragment)), 0, 80, 70) : fragment \in {NoFragment, 1}}
Damaged ==
    {[x EXCEPT !.sound = FALSE] : x \in
        {At(t, [nlink |-> 1], 0, 80, 70) : t \in {0, 15}}
        \cup {At(t, [nlink |-> 1, target |-> [k \in 1 .. n |-> k]], 0, 80, 70) :
                 t \in LinkTypes, n \in {200, 250}}
        \cup {At(t, FileBody(5, 300, 1, 1), 0, 80, 70) : t \in FileTypes}
        \cup {At(t, FileBody(5, 5, 2, 1), 0, 80, 70) : t \in FileTypes}
        \cup UNION {{At(t, body, offset, 80, next) :
                 body \in Bodies(t), offset \in {60, 79, 100}, next \in {NoBlock, 1, 20}} :
                 t \in {1, 2, 3, 4, 6, 9}}}

MCInodes == Sound \cup Wide \cup Damaged

MCPlain == {x \in Sound : x.type = 1}
MCExtendedDirectories == {x \in Sound : x.type = 8}
MCLinks == {x \in Sound : x.type \in LinkTypes}
=============================================================================
