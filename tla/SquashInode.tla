---------------------------- MODULE SquashInode ----------------------------
(***************************************************************************)
(* squash_read_inode and squash_free_inode of src/src/squash_inode.c: the  *)
(* metadata block of the inode, the next one merged to it when fewer than  *)
(* 48 bytes are left, and the parser of each inode type.                   *)
(*                                                                         *)
(* A stored inode is a record: type; base, the eight 16-bit words of its   *)
(* first 16 bytes (type, mode, uid, gid, mtime, inode_number); body, the   *)
(* fields of its type; offset, where it begins in its block; first and     *)
(* next, the decompressed sizes of that block and of the one behind it     *)
(* (next = NoBlock when there is none that can be read).  `super' holds    *)
(* bytes_used, fragments and block_size.                                   *)
(***************************************************************************)
EXTENDS Integers, Sequences

CONSTANTS Inodes,    \* the stored inodes that may be read
          super,
          Word,      \* 2^32 in the code
          Half,      \* 2^16 in the code
          Garbage    \* what the two bytes nobody writes may hold

NoBlock == -1
NoFragment == -1
Min(x, y) == IF x <= y THEN x ELSE y

DirTypes == {1, 8}
FileTypes == {2, 9}
LinkTypes == {3, 10}
Types == 1 .. 14

FileBodies ==
    [start_block : Nat, fragment : Nat \cup {NoFragment}, offset : Nat, file_size : Nat,
     block_list : Seq(Nat)]

ASSUME WidthAssumption == Word \in Nat \ {0} /\ Half \in Nat \ {0}
ASSUME SuperAssumption ==
    super.bytes_used \in Nat /\ super.fragments \in Nat /\ super.block_size \in Nat \ {0}

\* The blocks a file has in the format: a tail kept in a fragment is none.
FormatBlocks(f) ==
    IF f.fragment = NoFragment THEN (f.file_size + super.block_size - 1) \div super.block_size
    ELSE f.file_size \div super.block_size

ASSUME InodesAssumption ==
    \A i \in Inodes :
        /\ i.offset \in Nat /\ i.first \in Nat \ {0} /\ i.next \in Nat \cup {NoBlock}
        /\ i.type \in FileTypes => /\ i.body \in FileBodies
                                  /\ Len(i.body.block_list) = FormatBlocks(i.body)
        /\ i.type \in LinkTypes => i.body.target \in Seq(Nat)

VARIABLES stored,  \* the inode of the call
          pc,
          inode,   \* *inode, or None
          live,    \* allocations not yet released, by kind
          faulted, \* history: an I/O, memory or decompression error
          ret

vars == <<stored, pc, inode, live, faulted, ret>>

Resources == {"data", "next", "merged", "inode", "list", "target"}
Taken(r) == [live EXCEPT ![r] = @ + 1]
Freed(S) == [r \in Resources |-> IF r \in S THEN live[r] - 1 ELSE live[r]]
None == [type |-> 0]

Init ==
    /\ stored \in Inodes
    /\ pc = "idle"
    /\ inode = None
    /\ live = [r \in Resources |-> 0]
    /\ faulted = FALSE
    /\ ret = "none"

Call(i) ==
    /\ pc = "idle"
    /\ pc' = "load"
    /\ stored' = i
    /\ ret' = "none" /\ faulted' = FALSE
    /\ UNCHANGED <<inode, live>>

Go(stage) == pc' = stage /\ UNCHANGED <<stored, inode, faulted, ret>>

Fail(e, freed) ==
    /\ pc' = "idle"
    /\ ret' = e
    /\ live' = Freed(freed)
    /\ UNCHANGED <<stored, inode>>

HostFails(e, freed) == Fail(e, freed) /\ faulted' = TRUE
Refused(e, freed) == Fail(e, freed) /\ UNCHANGED faulted
LoadErrors == {"IO", "MEMORY", "COMPRESSION"}

-----------------------------------------------------------------------------
\* The block the reference names; one that is not sound may name none.
Load ==
    /\ pc = "load"
    /\ \/ Go("fit") /\ live' = Taken("data")
       \/ ~stored.sound /\ Refused("INVALID_FILE", {})
       \/ \E e \in LoadErrors : HostFails(e, {})

Margin == 16 + 32

\* Mutant of NeedsMerge: only the 16 bytes of the base must be there.
NeedsMergeForBase(i) == i.offset + 16 > i.first

NeedsMerge(i) == i.offset + Margin > i.first

Fits ==
    /\ pc = "fit" /\ ~NeedsMerge(stored)
    /\ Go("base") /\ UNCHANGED live

\* Mutant of LoadNext: a failing load of the next block keeps the first one.
LoadNextKeepsData ==
    /\ pc = "fit" /\ NeedsMerge(stored)
    /\ \/ stored.next # NoBlock /\ Go("merge") /\ live' = Taken("next")
       \/ stored.next = NoBlock /\ Refused("INVALID_FILE", {})
       \/ \E e \in LoadErrors : HostFails(e, {})

LoadNext ==
    /\ pc = "fit" /\ NeedsMerge(stored)
    /\ \/ stored.next # NoBlock /\ Go("merge") /\ live' = Taken("next")
       \/ stored.next = NoBlock /\ Refused("INVALID_FILE", {"data"})
       \/ \E e \in LoadErrors : HostFails(e, {"data"})

Merge ==
    /\ pc = "merge"
    /\ \/ Go("base") /\ live' = [Freed({"data", "next"}) EXCEPT !["merged"] = @ + 1]
       \/ HostFails("MEMORY", {"data", "next"})

\* Mutant of Buffer: the block that was merged is freed again.
BufferBeforeMerge == {"data"}

\* final_data and final_size.
Buffer == IF NeedsMerge(stored) THEN {"merged"} ELSE {"data"}
Loaded == stored.first + (IF NeedsMerge(stored) THEN stored.next ELSE 0)
Available == Loaded - (stored.offset + 16)

-----------------------------------------------------------------------------
(***************************************************************************)
(* parse_base_inode reads the type and then copies the 14 bytes behind it  *)
(* to the start of `base': each word lands one place too low, and the last *)
(* one is not written.                                                     *)
(***************************************************************************)
ParsedBase(g) ==
    [k \in 1 .. 8 |-> IF k = 1 THEN stored.base[1]
                      ELSE IF k = 8 THEN g ELSE stored.base[k + 1]]

\* The bytes that each parser copies behind the base.
FixedSize(type) ==
    CASE type \in DirTypes -> 12
      [] type = 2          -> 16
      [] type = 9          -> 40
      [] type \in LinkTypes -> 16
      [] type \in {4, 5}   -> 8
      [] type \in {6, 7}   -> 4
      [] type \in {11, 12} -> 12
      [] type \in {13, 14} -> 8

ParseBase ==
    /\ pc = "base"
    /\ \/ Available < 0 /\ Refused("INVALID_INODE", Buffer)
       \/ /\ Available >= 0
          /\ \/ stored.type \notin Types /\ Refused("INVALID_INODE", Buffer)
             \/ stored.type \in Types /\ Go("fixed") /\ UNCHANGED live

\* Mutant of File: the size is kept in 16 bits.
FileInHalf(body) ==
    [start_block |-> body.start_block % Word, fragment |-> body.fragment,
     offset |-> body.offset, file_size |-> body.file_size % Half, block_list |-> body.block_list]

\* file_size and start_block are 32 bits wide in squash_reg_inode_t.
File(body) ==
    [start_block |-> body.start_block % Word, fragment |-> body.fragment,
     offset |-> body.offset, file_size |-> body.file_size % Word, block_list |-> body.block_list]

\* parse_dir_inode copies the 12 bytes of the basic layout for both types.
Directory(type, body) ==
    IF type = 1 THEN body
    ELSE [start_block |-> body.nlink, nlink |-> body.file_size,
          file_size |-> body.start_block % Half, offset |-> body.start_block \div Half]

FieldsRefused ==
    \/ stored.type \in FileTypes /\ stored.body.start_block >= super.bytes_used
    \/ /\ stored.type = 9
       /\ stored.body.fragment # NoFragment /\ stored.body.fragment >= super.fragments

\* Mutant of BlockCount: the tail in a fragment is counted as a block.
BlockCountWithTail(f) ==
    LET rounded == ((f.file_size + super.block_size - 1) % Word) \div super.block_size
        tail == f.fragment # NoFragment
    IN  IF tail /\ f.file_size <= super.block_size THEN 0 ELSE rounded

BlockCount(f) ==
    LET rounded == ((f.file_size + super.block_size - 1) % Word) \div super.block_size
        tail == f.fragment # NoFragment
    IN  IF tail /\ f.file_size <= super.block_size THEN 0
        ELSE IF tail /\ f.file_size % super.block_size # 0 THEN (rounded - 1) % Word
        ELSE rounded

\* What follows the target of a link on disk is not part of it.
Behind == [k \in 1 .. 8 |-> 0]

\* squash_symlink_inode_t holds a pointer the disk does not: its size moves
\* the place the target is copied from 8 bytes on.
TargetRead(body) == SubSeq(body.target \o Behind, 9, 8 + Len(body.target))

\* The part of variable length, in bytes, and its buffer.
VariableSize ==
    CASE stored.type \in FileTypes -> 4 * BlockCount(File(stored.body))
      [] stored.type \in LinkTypes -> Len(stored.body.target)
      [] OTHER -> 0
VariablePart ==
    IF stored.type \in FileTypes /\ VariableSize > 0 THEN {"list"}
    ELSE IF stored.type \in LinkTypes THEN {"target"} ELSE {}
EndLoaded == FixedSize(stored.type) + VariableSize <= Available

\* The sum is a size_t for a block list and a uint32_t for a target.
VariableFits ==
    IF stored.type \in LinkTypes
    THEN (stored.offset + 16 + FixedSize(stored.type) + VariableSize) % Word <= Loaded
    ELSE EndLoaded

ParseFixed ==
    /\ pc = "fixed"
    /\ \/ /\ FixedSize(stored.type) > Available \/ (stored.type = 9 /\ FieldsRefused)
          /\ Refused("INVALID_INODE", Buffer)
       \/ /\ FixedSize(stored.type) <= Available
          /\ ~(stored.type = 9 /\ FieldsRefused)
          /\ \/ Go("variable") /\ live' = Taken("inode")
             \/ HostFails("MEMORY", Buffer)

ParseVariable ==
    /\ pc = "variable"
    /\ \/ /\ FieldsRefused \/ ~VariableFits
          /\ Refused("INVALID_INODE", Buffer \cup {"inode"})
       \/ /\ ~FieldsRefused /\ VariableFits
          /\ \/ /\ Go("result")
                /\ live' = [r \in Resources |-> live[r] + (IF r \in VariablePart THEN 1 ELSE 0)]
             \/ VariablePart # {} /\ HostFails("MEMORY", Buffer \cup {"inode"})

\* The words copied to block_list; behind the stored ones lies the next inode.
ListRead(f) ==
    [k \in 1 .. BlockCount(f) |-> IF k \in DOMAIN f.block_list THEN f.block_list[k] ELSE 0]

ParsedBody ==
    CASE stored.type \in FileTypes ->
             LET f == File(stored.body) IN
             [f EXCEPT !.block_list = ListRead(f)]
      [] stored.type \in DirTypes  -> Directory(stored.type, stored.body)
      [] stored.type \in LinkTypes -> [stored.body EXCEPT !.target = TargetRead(stored.body)]
      [] OTHER -> stored.body

Result ==
    /\ pc = "result"
    /\ pc' = "returned" /\ ret' = "OK"
    /\ \E g \in Garbage :
          inode' = [type |-> stored.type, base |-> ParsedBase(g), body |-> ParsedBody]
    /\ live' = Freed(Buffer)
    /\ UNCHANGED <<stored, faulted>>

\* squash_free_inode
FreeInode ==
    /\ pc = "returned"
    /\ pc' = "idle"
    /\ live' = Freed({"inode"} \cup
                     (IF inode.type \in FileTypes /\ Len(inode.body.block_list) > 0 THEN {"list"} ELSE {})
                     \cup (IF inode.type \in LinkTypes THEN {"target"} ELSE {}))
    /\ inode' = None
    /\ UNCHANGED <<stored, faulted, ret>>

Reading ==
    \/ Load \/ Fits \/ LoadNext \/ Merge \/ ParseBase
    \/ ParseFixed \/ ParseVariable \/ Result

Next == (\E i \in Inodes : Call(i)) \/ Reading \/ FreeInode

Spec == Init /\ [][Next]_vars

-----------------------------------------------------------------------------
TypeOK ==
    /\ stored \in Inodes
    /\ pc \in {"idle", "load", "fit", "merge", "base", "fixed", "variable", "result", "returned"}
    /\ live \in [Resources -> Nat]
    /\ pc = "returned" <=> inode # None

(***************************************************************************)
(* What is held at each point, hence what each early return of             *)
(* squash_read_inode and of the parsers releases: the block, the next one, *)
(* the buffer they are merged into, the inode with its list or target      *)
(* (squash_inode.c 585-703), and what squash_free_inode (706-728) frees.   *)
(***************************************************************************)
Buffering == pc \in {"base", "fixed", "variable", "result"}
Holds(r) ==
    \/ r = "data" /\ (pc \in {"fit", "merge"} \/ (Buffering /\ ~NeedsMerge(stored)))
    \/ r = "next" /\ pc = "merge"
    \/ r = "merged" /\ Buffering /\ NeedsMerge(stored)
    \/ r = "inode" /\ pc \in {"variable", "result", "returned"}
    \/ r \in VariablePart /\ pc \in {"result", "returned"}
HoldsExactly == live = [r \in Resources |-> IF Holds(r) THEN 1 ELSE 0]

(***************************************************************************)
(* The body of the inode returned is the one stored, merged or not, except *)
(* in the cases the code gets wrong: extended directories, targets of      *)
(* links, and files whose size and position do not fit 32 bits or come     *)
(* within a block of 2^32, or that are one block long and name a fragment: *)
(* their block is taken for a tail.                                        *)
(***************************************************************************)
Narrow(i) ==
    i.type \in FileTypes =>
        i.body.file_size + super.block_size <= Word /\ i.body.start_block < Word
BlockTakenForTail(i) ==
    i.type \in FileTypes /\ i.body.fragment # NoFragment /\ i.body.file_size = super.block_size
BodyIsTheStoredOne ==
    pc = "returned" /\ stored.type \notin {8} \cup LinkTypes =>
        \/ ~Narrow(stored) \/ BlockTakenForTail(stored)
        \/ inode.body = stored.body

(***************************************************************************)
(* squash_read_file indexes the block list up to a count of its own        *)
(* (squash_file.c 43-56): the list allocated here has exactly that many    *)
(* entries, for every size, wrapped ones included.                         *)
(***************************************************************************)
Reader == INSTANCE SquashFile WITH
    Archives <- {}, Requests <- {},
    a <- [file_size |-> inode.body.file_size, fragment |-> inode.body.fragment,
          block_size |-> super.block_size],
    request <- <<>>, block_idx <- 0, block_offset <- 0, position <- 0,
    remaining <- 0, dest <- <<>>
ReaderStaysInList ==
    pc = "returned" /\ stored.type \in FileTypes =>
        Len(inode.body.block_list) = Reader!BlockCount

\* An inode stored as the format says: its bytes lie in its block and the one
\* behind (there is one, for the directories follow the inodes); how much of
\* a file or a link the parsers need is the matter of EndLoaded.
StoredSoundly(i) ==
    /\ i.type \in Types
    /\ i.next # NoBlock
    /\ i.type \notin FileTypes \cup LinkTypes =>
           i.offset + 16 + FixedSize(i.type) <= i.first + i.next
    /\ i.type \in FileTypes =>
           /\ i.body.start_block < super.bytes_used
           /\ i.body.fragment = NoFragment \/ i.body.fragment < super.fragments
ASSUME SoundAssumption == \A i \in Inodes : i.sound => StoredSoundly(i)

(***************************************************************************)
(* A sound inode is read when no host call fails, wherever it begins in    *)
(* its block, unless its end lies behind what was loaded: the list of      *)
(* blocks, the 40 bytes of an extended file (the margin at 593 is 32), the *)
(* target of a link (read 8 bytes late); or the size of the file wraps.    *)
(***************************************************************************)
SoundInodeIsReadable ==
    pc = "idle" /\ ret \notin {"none", "OK"} /\ stored.sound =>
        \/ faulted
        \/ stored.type \in FileTypes \cup LinkTypes /\ ~EndLoaded
        \/ ~Narrow(stored)

(***************************************************************************)
(* "Read inode from reference" (src/README.md 147): mode, owner and time   *)
(* of the inode returned are those stored.                                 *)
(***************************************************************************)
OkMeansBaseAsStored ==
    pc = "returned" => \A k \in 2 .. 7 : inode.base[k] = stored.base[k]

(***************************************************************************)
(* The same of the directory fields that squash_opendir relies on.         *)
(***************************************************************************)
OkMeansDirectoryAsStored ==
    pc = "returned" /\ stored.type \in DirTypes => inode.body = stored.body

(***************************************************************************)
(* The same of the target of a symbolic link.                              *)
(***************************************************************************)
OkMeansTargetAsStored ==
    pc = "returned" /\ stored.type \in LinkTypes => inode.body.target = stored.body.target
=============================================================================
