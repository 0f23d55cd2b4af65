------------------------------- MODULE MCFile -------------------------------
(***************************************************************************)
(* Archives of one file of up to three blocks and a tail, with any of the  *)
(* blocks sparse, in every way the format stores it; and damaged ones.     *)
(***************************************************************************)
EXTENDS SquashFile, FiniteSets

BS == 3

Stored(k, len) == IF k % 2 = 0 THEN [size |-> 1, comp |-> TRUE]
                  ELSE [size |-> len, comp |-> FALSE]
Hole == [size |-> 0, comp |-> TRUE]

\* A file of the given size whose blocks in S are holes and whose tail, if
\* `tail', lies at byte `off' of a fragment block stored behind the data.
Archive(size, tail, off, S) ==
    LET full == IF tail /\ size <= BS THEN 0
                ELSE IF tail THEN size \div BS ELSE (size + BS - 1) \div BS
        len(k) == Least(BS, size - k * BS)
        list == [k \in 1 .. full |-> IF k - 1 \in S THEN Hole ELSE Stored(k - 1, len(k - 1))]
        start(k) == 2 + FoldLeft(LAMBDA s, b : s + b.size, 0, SubSeq(list, 1, k))
        end == start(full)
        kept == {k \in 0 .. full - 1 : k \notin S}
        fragment == [i \in 1 .. off |-> 99] \o
                    [i \in 1 .. size - full * BS |-> full * BS + i]
    IN  [file_size |-> size, block_size |-> BS, start_block |-> 2,
         block_list |-> list, offset |-> off,
         fragment |-> IF tail THEN 1 ELSE NoFragment,
         loaded |-> TRUE, fragments |-> 2,
         table |-> <<[start |-> 0, size |-> 1], [start |-> end, size |-> 2]>>,
         bytes_used |-> end + 2,
         data |-> [p \in {start(k) : k \in kept} \cup {end} |->
                     IF p = end THEN fragment
                     ELSE LET k == CHOOSE k \in kept : start(k) = p
                          IN  [i \in 1 .. len(k) |-> k * BS + i]]]

Intact ==
    {Archive(size, FALSE, 0, S) : size \in 0 .. 8, S \in SUBSET (0 .. 2)}
    \cup {Archive(size, TRUE, off, S) : size \in 1 .. 8, off \in {0, 1}, S \in SUBSET (0 .. 1)}

\* One thing wrong: the fragment index, the table, the stored sizes, the end,
\* a fragment block that decompresses to less than the inode says.
Damages(x) ==
    LET Shortened(n) ==
            [x EXCEPT !.data = [p \in DOMAIN @ |->
                IF p = x.table[2].start THEN SubSeq(@[p], 1, n) ELSE @[p]]]
    IN
    {Shortened(0), Shortened(1), Shortened(2)} \cup
    {[x EXCEPT !.fragment = 2], [x EXCEPT !.loaded = FALSE],
     [x EXCEPT !.table[2].start = x.bytes_used], [x EXCEPT !.table[2].size = 0],
     [x EXCEPT !.table[2].size = BS + 1], [x EXCEPT !.offset = 9],
     [x EXCEPT !.block_list = [k \in DOMAIN @ |-> [size |-> 0, comp |-> FALSE]]],
     [x EXCEPT !.block_list = [k \in DOMAIN @ |-> [size |-> BS + 1, comp |-> TRUE]]],
     [x EXCEPT !.bytes_used = 3]}
Damaged ==
    UNION {Damages(Archive(size, TRUE, 1, {})) : size \in {2, 5, 8}}

\* The first data block decompresses to n bytes only.
ShortBlock(x, n) == [x EXCEPT !.data[x.start_block] = SubSeq(@, 1, n)]
Shifted ==
    {ShortBlock(Archive(size, tail, 0, {}), n) :
        size \in {5, 8}, tail \in BOOLEAN, n \in 0 .. BS - 1}

MCWord == 64
\* Files whose block count leaves the width of uint32_t.
Wide == {Archive(size, tail, 0, {}) : size \in {62, 63}, tail \in BOOLEAN}
MCArchives == Intact \cup Damaged \cup Shifted \cup Wide
MCRequests == [offset : 0 .. 9, size : {0, 1, 2, 3, 5, 9}]
=============================================================================
