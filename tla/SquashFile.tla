----------------------------- MODULE SquashFile -----------------------------
(***************************************************************************)
(* squash_read_file of src/src/squash_file.c: one call, one action per     *)
(* iteration of its loop, over data blocks, sparse blocks and the tail     *)
(* fragment.                                                               *)
(*                                                                         *)
(* An archive is a record: what the superblock and the regular inode say   *)
(* of one file (bytes_used, block_size, file_size, start_block,            *)
(* block_list, fragment, offset), the fragment table (loaded, fragments,   *)
(* table), and `data', what a block stored at a position of the image      *)
(* decompresses to.  A block_list or table size is a record of the length  *)
(* stored (size) and the "compressed" bit (comp).  Byte i of the file has  *)
(* the value i + 1, a byte of a sparse block the value 0.                  *)
(***************************************************************************)
EXTENDS Integers, SequencesExt

CONSTANTS Archives, \* the archives read from
          Requests, \* [offset, size] asked for
          Word      \* 2^32 in the code: block counts are uint32_t

ASSUME WordAssumption == Word \in Nat \ {0}
ASSUME RequestsAssumption == Requests \subseteq [offset : Nat, size : Nat]
ASSUME ArchivesAssumption ==
    \A a \in Archives :
        /\ a.block_size \in Nat \ {0}
        /\ a.file_size \in Nat /\ a.bytes_used \in Nat
        /\ a.start_block \in Nat
        /\ a.file_size < Word /\ a.block_size < Word
        /\ a.block_list \in Seq([size : Nat, comp : BOOLEAN])
        \* It was cut from one or two metadata blocks (squash_inode.c 220).
        /\ Len(a.block_list) < Word - 1
        /\ a.fragment \in Nat \cup {-1} /\ a.offset \in Nat
        /\ a.loaded \in BOOLEAN /\ a.fragments \in Nat
        /\ a.loaded => a.table \in [1 .. a.fragments -> [start : Nat, size : Nat]]
        /\ a.data \in [DOMAIN a.data -> Seq(Nat)]

VARIABLES a,           \* the archive; never changes
          request,     \* offset and size of the call
          pc,
          block_idx,   \* start_block_idx
          block_offset,
          position,    \* current_file_offset: where block block_idx is stored
          remaining,
          dest,        \* the bytes copied out so far; its length is *bytes_read
          faulted,     \* history: an I/O, memory or decompression error
          ret

vars == <<a, request, pc, block_idx, block_offset, position, remaining, dest, faulted, ret>>

Least(x, y) == IF x <= y THEN x ELSE y
NoFragment == -1
HasFragment == a.fragment # NoFragment
InFragmentOnly == HasFragment /\ a.file_size <= a.block_size

\* The number of data blocks; the parser of the inode uses the same formula.
BlockCount ==
    LET rounded == ((a.file_size + a.block_size - 1) % Word) \div a.block_size
    IN  IF InFragmentOnly THEN 0
        ELSE IF HasFragment /\ a.file_size % a.block_size # 0
             THEN (rounded - 1) % Word
             ELSE rounded

\* The bytes stored for the first n blocks.
StoredSize[n \in 0 .. Len(a.block_list)] ==
    IF n = 0 THEN 0 ELSE StoredSize[n - 1] + a.block_list[n].size

\* The inode is one that squash_read_inode returned: its block list was
\* allocated with that number of entries.
Init ==
    /\ a \in Archives
    /\ BlockCount <= Len(a.block_list)
    /\ request \in Requests
    /\ pc = "call"
    /\ block_idx = 0 /\ block_offset = 0 /\ position = 0
    /\ remaining = 0
    /\ dest = <<>>
    /\ faulted = FALSE
    /\ ret = "none"

Return(e) ==
    /\ pc' = "done"
    /\ ret' = e
    /\ UNCHANGED <<a, request, block_idx, block_offset, position, remaining, dest>>

ReturnEOF ==
    /\ pc = "call"
    /\ request.offset >= a.file_size
    /\ Return("OK")
    /\ UNCHANGED faulted

\* Mutant of Locate: the offset inside the block is the offset in the file.
LocateWithoutModulo ==
    /\ pc = "call"
    /\ request.offset < a.file_size
    /\ remaining' = Least(request.size, a.file_size - request.offset)
    /\ block_idx' = request.offset \div a.block_size
    /\ block_offset' = request.offset
    /\ position' = a.start_block + StoredSize[Least(block_idx', BlockCount)]
    /\ pc' = "loop"
    /\ UNCHANGED <<a, request, dest, faulted, ret>>

\* The request is cut to the file, then located; the blocks before it are
\* skipped by their stored sizes.  offset + size is taken to fit a size_t, the
\* position a long: 2 GiB of image where a long has 32 bits.
Locate ==
    /\ pc = "call"
    /\ request.offset < a.file_size
    /\ remaining' = Least(request.size, a.file_size - request.offset)
    /\ block_idx' = request.offset \div a.block_size
    /\ block_offset' = request.offset % a.block_size
    /\ position' = a.start_block + StoredSize[Least(block_idx', BlockCount)]
    /\ pc' = "loop"
    /\ UNCHANGED <<a, request, dest, faulted, ret>>

\* squash_read_data_block: bounds, then seek, malloc, read and decompress.
ReadDataBlockFails(at, size) ==
    \/ at + size > a.bytes_used /\ Return("INVALID_FILE") /\ UNCHANGED faulted
    \/ at + size <= a.bytes_used /\ faulted' = TRUE /\ \E e \in {"IO", "MEMORY", "COMPRESSION"} : Return(e)
ReadDataBlockOK(at, size) == at + size <= a.bytes_used /\ at \in DOMAIN a.data

Copied(content, from, n) == dest \o SubSeq(content, from + 1, from + n)

-----------------------------------------------------------------------------
InFragment ==
    /\ pc = "loop" /\ remaining > 0
    /\ HasFragment
    /\ InFragmentOnly \/ block_idx = BlockCount

FragmentListed == a.loaded /\ a.fragment < a.fragments
FragmentEntry == a.table[a.fragment + 1]
FragmentUsable ==
    /\ FragmentEntry.start < a.bytes_used
    /\ FragmentEntry.size \in 1 .. a.block_size
FragmentOffset == a.offset + (IF InFragmentOnly THEN block_offset ELSE 0)
TailSize == IF InFragmentOnly THEN a.file_size ELSE a.file_size % a.block_size

FragmentRejected ==
    /\ InFragment
    /\ \/ ~FragmentListed /\ Return("IO")
       \/ FragmentListed /\ ~FragmentUsable /\ Return("INVALID_FILE")
    /\ UNCHANGED faulted

FragmentReadFails ==
    /\ InFragment /\ FragmentListed /\ FragmentUsable
    /\ ReadDataBlockFails(FragmentEntry.start, FragmentEntry.size)

\* Mutant of ReadFragment: no check that the request was filled.
FragmentUnchecked ==
    LET content == a.data[FragmentEntry.start]
        n == Least(Len(content) - FragmentOffset, Least(remaining, TailSize))
    IN
    /\ InFragment /\ FragmentListed /\ FragmentUsable
    /\ ReadDataBlockOK(FragmentEntry.start, FragmentEntry.size)
    /\ Len(content) >= FragmentOffset
    /\ dest' = Copied(content, FragmentOffset, n)
    /\ remaining' = remaining - n
    /\ pc' = "done" /\ ret' = "OK"
    /\ UNCHANGED <<a, request, block_idx, block_offset, position, faulted>>

\* The fragment is the last thing read: a request it cannot fill is an error.
ReadFragment ==
    LET content == a.data[FragmentEntry.start]
        n == Least(Len(content) - FragmentOffset, Least(remaining, TailSize))
    IN
    /\ InFragment /\ FragmentListed /\ FragmentUsable
    /\ ReadDataBlockOK(FragmentEntry.start, FragmentEntry.size)
    /\ \/ /\ Len(content) < FragmentOffset
          /\ Return("INVALID_FILE")
       \/ /\ Len(content) >= FragmentOffset
          /\ dest' = Copied(content, FragmentOffset, n)
          /\ remaining' = remaining - n
          /\ pc' = "done"
          /\ ret' = IF remaining' > 0 THEN "IO" ELSE "OK"
          /\ UNCHANGED <<a, request, block_idx, block_offset, position>>
    /\ UNCHANGED faulted

-----------------------------------------------------------------------------
InBlock ==
    /\ pc = "loop" /\ remaining > 0
    /\ ~InFragment
    /\ block_idx < BlockCount

Block == a.block_list[block_idx + 1]
BlockLength == Least(a.block_size, a.file_size - block_idx * a.block_size)
\* Mutant of Sparse: a stored size of 0 is always an error.
NeverSparse == FALSE

Sparse == Block.size = 0 /\ Block.comp

\* Mutant of NextBlock: the offset inside the first block is applied to all.
NextBlockSameOffset(content, n) ==
    /\ dest' = Copied(content, block_offset, n)
    /\ remaining' = remaining - n
    /\ position' = position + Block.size
    /\ block_idx' = block_idx + 1
    /\ UNCHANGED <<a, request, pc, block_offset, faulted, ret>>

NextBlock(content, n) ==
    /\ dest' = Copied(content, block_offset, n)
    /\ remaining' = remaining - n
    /\ position' = position + Block.size
    /\ block_idx' = block_idx + 1
    /\ block_offset' = 0
    /\ UNCHANGED <<a, request, pc, faulted, ret>>

ReadSparse ==
    /\ InBlock /\ Sparse
    /\ NextBlock([i \in 1 .. BlockLength |-> 0],
                 Least(remaining, BlockLength - block_offset))

BlockRejected ==
    /\ InBlock /\ ~Sparse
    /\ Block.size \notin 1 .. a.block_size
    /\ Return("INVALID_FILE")
    /\ UNCHANGED faulted

BlockReadFails ==
    /\ InBlock /\ ~Sparse
    /\ Block.size \in 1 .. a.block_size
    /\ ReadDataBlockFails(position, Block.size)

ReadBlock ==
    LET content == a.data[position] IN
    /\ InBlock /\ ~Sparse
    /\ Block.size \in 1 .. a.block_size
    /\ ReadDataBlockOK(position, Block.size)
    /\ \/ Len(content) < block_offset /\ Return("INVALID_FILE") /\ UNCHANGED faulted
       \/ /\ Len(content) >= block_offset
          /\ NextBlock(content, Least(Len(content) - block_offset,
                                      Least(remaining, BlockLength)))

NothingLeftToRead ==
    /\ pc = "loop" /\ remaining > 0
    /\ ~InFragment
    /\ block_idx >= BlockCount
    /\ Return("IO")
    /\ UNCHANGED faulted

Filled ==
    /\ pc = "loop"
    /\ remaining = 0
    /\ Return("OK")
    /\ UNCHANGED faulted

FragmentStep == FragmentRejected \/ FragmentReadFails \/ ReadFragment
BlockStep == ReadSparse \/ BlockRejected \/ BlockReadFails \/ ReadBlock

Next ==
    \/ ReturnEOF \/ Locate
    \/ FragmentStep \/ BlockStep
    \/ NothingLeftToRead \/ Filled

Spec == Init /\ [][Next]_vars

-----------------------------------------------------------------------------
\* The file the archive holds, independently of how it is read.
Byte(i) ==
    LET k == i \div a.block_size + 1 IN
    IF k \in DOMAIN a.block_list /\ a.block_list[k] = [size |-> 0, comp |-> TRUE]
    THEN 0 ELSE i + 1

Asked ==
    IF request.offset >= a.file_size THEN 0
    ELSE Least(request.size, a.file_size - request.offset)

Expected == [i \in 1 .. Asked |-> Byte(request.offset + i - 1)]

\* The call starts inside the tail of a file that also has data blocks.
StartsInsideTail ==
    /\ HasFragment /\ ~InFragmentOnly
    /\ request.offset \div a.block_size = BlockCount
    /\ request.offset % a.block_size # 0

TypeOK ==
    /\ a \in Archives /\ request \in Requests
    /\ pc \in {"call", "loop", "done"}
    /\ block_idx \in Nat /\ block_offset \in Nat /\ position \in Nat
    /\ block_offset < a.block_size
    /\ remaining \in Nat
    /\ ret \in {"none", "OK", "IO", "MEMORY", "COMPRESSION", "INVALID_FILE"}

(***************************************************************************)
(* Nothing is written past what was asked for, and SQUASH_OK is returned   *)
(* only when all of it was copied: *bytes_read and the return value never  *)
(* disagree (squash_file.c 34-38, 163-166, 234-236, 249-255).        *)
(***************************************************************************)
NoShortRead ==
    /\ pc # "call" => Len(dest) + remaining = Asked
    /\ ret = "OK" => remaining = 0

\* Where the k-th block is stored, its share of the file, and whether it
\* is stored at all (a hole, and a block the reader refuses, is not).
BlockAt(k) == a.start_block + StoredSize[k - 1]
Share(k) == Least(a.block_size, a.file_size - (k - 1) * a.block_size)
IsHole(k) == a.block_list[k] = [size |-> 0, comp |-> TRUE]
IsStored(k) == a.block_list[k].size \in 1 .. a.block_size /\ BlockAt(k) \in DOMAIN a.data

\* Each stored block decompresses to its share of the file.  When one falls
\* short the loop goes on with the next block, so later bytes move forward.
BlocksInFull ==
    \A k \in 1 .. BlockCount : IsStored(k) => Len(a.data[BlockAt(k)]) = Share(k)

\* What is stored for a block or for the tail are the bytes of the file there.
HoldsItsFile ==
    /\ \A k \in 1 .. BlockCount :
          IsStored(k) => \A i \in DOMAIN a.data[BlockAt(k)] :
                            a.data[BlockAt(k)][i] = Byte((k - 1) * a.block_size + i - 1)
    /\ HasFragment /\ FragmentListed /\ FragmentEntry.start \in DOMAIN a.data =>
          LET content == a.data[FragmentEntry.start] IN
          \A i \in 1 .. TailSize :
              a.offset + i \in DOMAIN content =>
                  content[a.offset + i] = Byte(a.file_size - TailSize + i - 1)

(***************************************************************************)
(* The bytes copied are those of the file, at every iteration and for any  *)
(* mix of stored, sparse and tail blocks, unless the call starts inside a  *)
(* tail or a stored block falls short of its share.                        *)
(***************************************************************************)
CopiesTheFile ==
    HoldsItsFile /\ ~StartsInsideTail /\ BlocksInFull =>
        dest = SubSeq(Expected, 1, Len(dest))

(***************************************************************************)
(* "Read file data into buffer" (src/README.md 148), at any offset.        *)
(***************************************************************************)
OkMeansTheBytesAsked == ret = "OK" => dest = Expected

\* The archive stores the file as its inode describes: every block that is
\* no hole decompresses, inside the image, to its share; the tail lies inside
\* a fragment block that the table lists.
Sound ==
    /\ \A k \in 1 .. BlockCount :
          \/ IsHole(k)
          \/ /\ IsStored(k)
             /\ BlockAt(k) + a.block_list[k].size <= a.bytes_used
             /\ Len(a.data[BlockAt(k)]) = Share(k)
    /\ HasFragment =>
          /\ FragmentListed /\ FragmentUsable
          /\ FragmentEntry.start + FragmentEntry.size <= a.bytes_used
          /\ FragmentEntry.start \in DOMAIN a.data
          /\ Len(a.data[FragmentEntry.start]) >= a.offset + TailSize

(***************************************************************************)
(* An archive that stores the file as its inode describes is read without  *)
(* error when no host call fails, except when the 32-bit sum of file size  *)
(* and block size wraps (squash_file.c 44-54) and the file seems empty.    *)
(***************************************************************************)
CountWraps == a.file_size + a.block_size > Word
SoundArchiveIsReadable ==
    pc = "done" /\ Sound /\ ~faulted /\ ~CountWraps => ret = "OK"
=============================================================================
