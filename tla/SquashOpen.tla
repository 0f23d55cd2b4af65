----------------------------- MODULE SquashOpen -----------------------------
(***************************************************************************)
(* squash_open and squash_close of src/src/squash_reader.c: the resources  *)
(* of a squash_fs_t acquired one after the other, the two tables and the   *)
(* scan for the root directory read one metadata block at a time, each     *)
(* step with its ways to fail and what its branch releases.                *)
(*                                                                         *)
(* An image is a record: the superblock fields the code tests; lookup, the *)
(* state of the inode lookup table ("none", "outside" the image, with a    *)
(* "bad index", or "present") and lookup_blocks; fragments and             *)
(* fragment_blocks, the entries before each block of that table and held   *)
(* by it; inode_blocks, per block where it begins in the inode table, its  *)
(* stored size, its length and the type words at its inode offsets; root,  *)
(* the block and offset of root_inode; sound.                              *)
(***************************************************************************)
EXTENDS Integers, Sequences

CONSTANTS Images, \* the images given to squash_open
          Built,  \* the compression ids compiled into the library
          Shift   \* 2^16 in the code: root_inode = block * Shift + offset

ASSUME ShiftAssumption == Shift \in Nat \ {0}
ASSUME ImagesAssumption ==
    \A im \in Images :
        /\ im.lookup_blocks \in Nat
        /\ im.fragments \in Nat
        /\ im.fragment_blocks \in Seq([before : Nat, held : Nat])
        /\ \A n \in DOMAIN im.fragment_blocks :
              im.fragment_blocks[n].before =
                  IF n = 1 THEN 0
                  ELSE im.fragment_blocks[n - 1].before + im.fragment_blocks[n - 1].held
        /\ Len(im.inode_blocks) \in Nat
        /\ \A n \in DOMAIN im.inode_blocks :
              im.inode_blocks[n].begin =
                  IF n = 1 THEN 0
                  ELSE im.inode_blocks[n - 1].begin + 2 + im.inode_blocks[n - 1].stored

VARIABLES image,
          pc,      \* the stage of squash_open
          block,   \* metadata blocks of the current table dealt with
          step,    \* where the reading of one block stands
          loaded,  \* fragments_read
          fields,  \* members of *fs that are not NULL
          live,    \* allocations and handles not yet released, by kind
          faulted, \* history: a host call or a decompressor failed
          ret

vars == <<image, pc, block, step, loaded, fields, live, faulted, ret>>

Members == {"decompressor", "lookup_table", "fragment_table", "filename"}
Temporaries == {"index", "compressed", "uncompressed"}
Resources == {"fs", "file"} \cup Members \cup Temporaries

Taken(r) == [live EXCEPT ![r] = @ + 1]
Freed(S) == [r \in Resources |-> IF r \in S THEN live[r] - 1 ELSE live[r]]

\* read_super_block's tests, in order.
SuperCheck(im) ==
    IF ~im.magic THEN "INVALID_MAGIC"
    ELSE IF im.s_major # 4 \/ im.s_minor > 1 THEN "UNSUPPORTED_VERSION"
    ELSE IF im.inode_table_start >= im.bytes_used THEN "INVALID_FILE"
    ELSE IF im.compression \notin 1 .. 5 THEN "COMPRESSION"
    ELSE IF im.block_size # 2 ^ im.block_log THEN "INVALID_FILE"
    ELSE "OK"

Init ==
    /\ image \in Images
    /\ pc = "closed"
    /\ block = 0 /\ step = "header" /\ loaded = 0
    /\ fields = {}
    /\ live = [r \in Resources |-> 0]
    /\ faulted = FALSE
    /\ ret = "none"

GoTo(stage) ==
    /\ pc' = stage
    /\ block' = 0
    /\ step' = "header"
    /\ UNCHANGED <<image, ret>>

\* Mutant of Fail: the table the stage released is not cleared.
FailFreesTwice(e, temporaries, table, listed) ==
    /\ ret' = e
    /\ pc' = "closed"
    /\ live' = [r \in Resources |->
                  Freed(temporaries \cup (table \cap fields) \cup {"file", "fs"})[r]
                  - (IF r \in (listed \cup table) \cap fields THEN 1 ELSE 0)]
    /\ fields' = {}
    /\ UNCHANGED <<image, block, step, loaded>>

(***************************************************************************)
(* squash_open returns e.  The stage has released its temporaries and      *)
(* released and cleared the table it was filling; then the branch of       *)
(* squash_open frees the members it lists, file and fs (free(NULL) does    *)
(* nothing).                                                               *)
(***************************************************************************)
Fail(e, temporaries, table, listed) ==
    /\ ret' = e
    /\ pc' = "closed"
    /\ live' = Freed(temporaries \cup (table \cap fields)
                     \cup (listed \cap (fields \ table)) \cup {"file", "fs"})
    /\ fields' = {}
    /\ UNCHANGED <<image, block, step, loaded>>

HostFails(e, temporaries, table, listed) ==
    Fail(e, temporaries, table, listed) /\ faulted' = TRUE
ImageFails(e, temporaries, table, listed) ==
    Fail(e, temporaries, table, listed) /\ UNCHANGED faulted

\* Mutant of Listed: the lookup table is not freed when the root is not found.
ListedWithoutLookup(stage) ==
    CASE stage = "lookup"    -> {"decompressor"}
      [] stage = "fragments" -> {"lookup_table", "decompressor"}
      [] stage \in {"root", "filename"} -> {"fragment_table", "decompressor"}

Listed(stage) ==
    CASE stage = "lookup"    -> {"decompressor"}
      [] stage = "fragments" -> {"lookup_table", "decompressor"}
      [] stage \in {"root", "filename"} -> {"fragment_table", "lookup_table", "decompressor"}

-----------------------------------------------------------------------------
\* The caller opens an image; a handle it has not closed is not reused.
Open ==
    /\ pc = "closed"
    /\ image' \in Images
    /\ block' = 0 /\ step' = "header" /\ loaded' = 0
    /\ \/ /\ pc' = "file" /\ live' = Taken("fs")
          /\ ret' = "none" /\ faulted' = FALSE
       \/ /\ pc' = "closed" /\ UNCHANGED live
          /\ ret' = "MEMORY" /\ faulted' = TRUE
    /\ UNCHANGED fields

OpenFile ==
    /\ pc = "file"
    /\ \/ /\ GoTo("super") /\ live' = Taken("file")
          /\ UNCHANGED <<loaded, fields, faulted>>
       \/ /\ ret' = "INVALID_FILE" /\ pc' = "closed" /\ faulted' = TRUE
          /\ live' = Freed({"fs"})
          /\ UNCHANGED <<image, block, step, loaded, fields>>

ReadSuper ==
    /\ pc = "super"
    /\ \/ /\ SuperCheck(image) = "OK"
          /\ GoTo("decompressor") /\ UNCHANGED <<loaded, fields, live, faulted>>
       \/ SuperCheck(image) # "OK" /\ ImageFails(SuperCheck(image), {}, {}, {})
       \/ HostFails("IO", {}, {}, {})

InitDecompressor ==
    /\ pc = "decompressor"
    /\ \/ /\ image.compression \in Built
          /\ GoTo("lookup")
          /\ fields' = fields \cup {"decompressor"} /\ live' = Taken("decompressor")
          /\ UNCHANGED <<loaded, faulted>>
       \/ image.compression \notin Built /\ ImageFails("COMPRESSION", {}, {}, {})
       \/ HostFails("COMPRESSION", {}, {}, {})

-----------------------------------------------------------------------------
\* read_inode_lookup_table: an absent or nonsensical table is no error.
SkipLookup ==
    /\ pc = "lookup"
    /\ image.lookup \in {"none", "outside"}
    /\ GoTo("fragments") /\ UNCHANGED <<loaded, fields, live, faulted>>

LookupIndex ==
    /\ pc = "lookup"
    /\ image.lookup \in {"bad index", "present"}
    /\ \/ /\ GoTo("lookup index") /\ live' = Taken("index")
          /\ UNCHANGED <<loaded, fields, faulted>>
       \/ HostFails("MEMORY", {}, {}, Listed("lookup"))

LookupTable ==
    /\ pc = "lookup index"
    /\ \/ HostFails("IO", {"index"}, {}, Listed("lookup"))
       \/ /\ image.lookup = "bad index"
          /\ GoTo("fragments") /\ live' = Freed({"index"})
          /\ UNCHANGED <<loaded, fields, faulted>>
       \/ /\ image.lookup = "present"
          /\ \/ /\ GoTo("lookup blocks")
                /\ fields' = fields \cup {"lookup_table"} /\ live' = Taken("lookup_table")
                /\ UNCHANGED <<loaded, faulted>>
             \/ HostFails("MEMORY", {"index"}, {}, Listed("lookup"))

\* read_fragment_table
SkipFragments ==
    /\ pc = "fragments"
    /\ image.fragments = 0 \/ image.fragment_table_start = "invalid"
    /\ GoTo("root") /\ UNCHANGED <<loaded, fields, live, faulted>>

FragmentIndex ==
    /\ pc = "fragments"
    /\ image.fragments # 0 /\ image.fragment_table_start # "invalid"
    /\ \/ /\ GoTo("fragment index") /\ live' = Taken("index")
          /\ UNCHANGED <<loaded, fields, faulted>>
       \/ HostFails("MEMORY", {}, {}, Listed("fragments"))

FragmentTable ==
    /\ pc = "fragment index"
    /\ \/ /\ GoTo("fragment blocks")
          /\ fields' = fields \cup {"fragment_table"} /\ live' = Taken("fragment_table")
          /\ loaded' = 0
          /\ UNCHANGED faulted
       \/ \E e \in {"IO", "MEMORY"} : HostFails(e, {"index"}, {}, Listed("fragments"))

-----------------------------------------------------------------------------
(***************************************************************************)
(* One metadata block of either table or of the inode table: its header,   *)
(* a buffer for the stored bytes, the bytes, a buffer for the result       *)
(* (on the stack for the fragment table), decompression or memcpy.         *)
(***************************************************************************)
BlocksOf(stage) ==
    CASE stage = "lookup blocks"   -> image.lookup_blocks
      [] stage = "fragment blocks" -> Len(image.fragment_blocks)
      [] stage = "scan"            -> Len(image.inode_blocks)
StageOf(stage) ==
    CASE stage = "lookup blocks"   -> "lookup"
      [] stage = "fragment blocks" -> "fragments"
      [] stage = "scan"            -> "root"
TableOf(stage) ==
    CASE stage = "lookup blocks"   -> {"lookup_table"}
      [] stage = "fragment blocks" -> {"fragment_table"}
      [] stage = "scan"            -> {}
IndexOf(stage) == IF stage = "scan" THEN {} ELSE {"index"}

ReadingBlock(s) ==
    /\ pc \in {"lookup blocks", "fragment blocks", "scan"}
    /\ block < BlocksOf(pc)
    /\ pc = "fragment blocks" => loaded < image.fragments
    /\ step = s

BlockFails(e, temporaries) ==
    HostFails(e, temporaries \cup IndexOf(pc), TableOf(pc), Listed(StageOf(pc)))

StepTo(s) == step' = s /\ UNCHANGED <<image, pc, block, loaded, fields, faulted, ret>>

\* A stored size that is no size of a block is INVALID_FILE in one reader only.
HeaderErrors == {"IO", "MEMORY"} \cup (IF pc = "fragment blocks" THEN {"INVALID_FILE"} ELSE {})

BlockHeader ==
    /\ ReadingBlock("header")
    /\ \/ StepTo("read") /\ live' = Taken("compressed")
       \/ \E e \in HeaderErrors : BlockFails(e, {})

BlockStored ==
    /\ ReadingBlock("read")
    /\ \/ StepTo("decode") /\ live' = IF pc = "fragment blocks" THEN live ELSE Taken("uncompressed")
       \/ BlockFails("IO", {"compressed"})
       \/ pc # "fragment blocks" /\ BlockFails("MEMORY", {"compressed"})

Decode ==
    /\ ReadingBlock("decode")
    /\ \/ StepTo("use") /\ live' = Freed({"compressed"})
       \/ BlockFails("COMPRESSION", {"compressed"} \cup
                     (IF pc = "fragment blocks" THEN {} ELSE {"uncompressed"}))

\* Mutant of NextBlock: the same block is read again.
SameBlock(n, freed) ==
    /\ step' = "header"
    /\ loaded' = n
    /\ live' = Freed(freed)
    /\ UNCHANGED <<image, pc, block, fields, faulted, ret>>

NextBlock(n, freed) ==
    /\ step' = "header"
    /\ block' = block + 1
    /\ loaded' = n
    /\ live' = Freed(freed)
    /\ UNCHANGED <<image, pc, fields, faulted, ret>>

UseLookupBlock == pc = "lookup blocks" /\ ReadingBlock("use") /\ NextBlock(loaded, {"uncompressed"})

UseFragmentBlock ==
    LET left == image.fragments - loaded
        here == image.fragment_blocks[block + 1].held
    IN  /\ pc = "fragment blocks" /\ ReadingBlock("use")
        /\ NextBlock(loaded + (IF here > left THEN left ELSE here), {})

LookupLoaded ==
    /\ pc = "lookup blocks" /\ block = BlocksOf(pc)
    /\ GoTo("fragments") /\ live' = Freed({"index"})
    /\ UNCHANGED <<loaded, fields, faulted>>

\* Mutant of FragmentsLoaded: the entries read are not counted.
FragmentsUncounted ==
    /\ pc = "fragment blocks"
    /\ block = BlocksOf(pc)
    /\ step = "header"
    /\ GoTo("root") /\ live' = Freed({"index"})
    /\ UNCHANGED <<loaded, fields, faulted>>

FragmentsLoaded ==
    /\ pc = "fragment blocks"
    /\ block = BlocksOf(pc) \/ loaded = image.fragments
    /\ step = "header"
    /\ \/ /\ loaded = image.fragments
          /\ GoTo("root") /\ live' = Freed({"index"})
          /\ UNCHANGED <<loaded, fields, faulted>>
       \/ /\ loaded # image.fragments
          /\ ImageFails("INVALID_FILE", {"index"}, TableOf(pc), Listed("fragments"))

-----------------------------------------------------------------------------
\* root_inode is compared with a length in bytes; a value below it is taken
\* as it is, any other one sends the code searching for the root directory.
RootRef == image.root.block * Shift + image.root.offset

CheckRoot ==
    /\ pc = "root"
    /\ GoTo(IF RootRef < image.bytes_used - image.inode_table_start
            THEN "filename" ELSE "scan")
    /\ UNCHANGED <<loaded, fields, live, faulted>>

DirTypes == {1, 8}

\* Mutant of RootHere: the block part of root_inode taken as a block number.
RootByBlockNumber ==
    LET b == image.inode_blocks[block + 1] IN
    /\ block = image.root.block
    /\ image.root.offset \in DOMAIN b.types
    /\ b.types[image.root.offset] \in DirTypes

RootIn(b, root) ==
    /\ b.begin = root.block
    /\ root.offset + 2 <= b.length
    /\ root.offset \in DOMAIN b.types
    /\ b.types[root.offset] \in DirTypes
RootHere == RootIn(image.inode_blocks[block + 1], image.root)

ScanFinds ==
    /\ pc = "scan" /\ ReadingBlock("use") /\ RootHere
    /\ GoTo("filename") /\ live' = Freed({"uncompressed"})
    /\ UNCHANGED <<loaded, fields, faulted>>

ScanOn ==
    /\ pc = "scan" /\ ReadingBlock("use") /\ ~RootHere
    /\ NextBlock(loaded, {"uncompressed"})

ScanEnds ==
    /\ pc = "scan" /\ block = BlocksOf(pc)
    /\ ImageFails("INVALID_INODE", {}, {}, Listed("root"))

CopyFilename ==
    /\ pc = "filename"
    /\ \/ /\ pc' = "open" /\ ret' = "OK"
          /\ fields' = fields \cup {"filename"} /\ live' = Taken("filename")
          /\ UNCHANGED <<image, block, step, loaded, faulted>>
       \/ HostFails("MEMORY", {}, {}, Listed("filename"))

\* squash_close frees file and fs and every member that is not NULL.
Close ==
    /\ pc = "open"
    /\ pc' = "closed"
    /\ live' = Freed({"file", "fs"} \cup fields)
    /\ fields' = {}
    /\ ret' = "none"
    /\ UNCHANGED <<image, block, step, loaded, faulted>>

Stages ==
    \/ OpenFile \/ ReadSuper \/ InitDecompressor
    \/ SkipLookup \/ LookupIndex \/ LookupTable \/ LookupLoaded
    \/ SkipFragments \/ FragmentIndex \/ FragmentTable \/ FragmentsLoaded
    \/ CheckRoot \/ ScanFinds \/ ScanOn \/ ScanEnds \/ CopyFilename
BlockReading ==
    BlockHeader \/ BlockStored \/ Decode \/ UseLookupBlock \/ UseFragmentBlock

Next == Open \/ Stages \/ BlockReading \/ Close

Spec == Init /\ [][Next]_vars

\* A call of squash_open that has begun keeps running; calling is up to the caller.
FairSpec == Spec /\ WF_vars(Stages \/ BlockReading)

-----------------------------------------------------------------------------
TypeOK ==
    /\ image \in Images
    /\ fields \subseteq Members
    /\ live \in [Resources -> Nat]
    /\ loaded \in Nat /\ block \in Nat
    /\ step \in {"header", "read", "decode", "use"}

(***************************************************************************)
(* What is held at each point, and so what each of the failure branches    *)
(* and squash_close release: the members of *fs that are set, the          *)
(* temporaries of the block being read, nothing once a call has failed or  *)
(* the image is closed, and nothing twice.                                 *)
(***************************************************************************)
Reading == pc \in {"lookup blocks", "fragment blocks", "scan"}
Holds(r) ==
    \/ r = "fs" /\ pc # "closed"
    \/ r = "file" /\ pc \notin {"closed", "file"}
    \/ r \in fields
    \/ r = "index" /\ pc \in {"lookup index", "lookup blocks", "fragment index", "fragment blocks"}
    \/ r = "compressed" /\ Reading /\ step \in {"read", "decode"}
    \/ r = "uncompressed" /\ Reading /\ pc # "fragment blocks" /\ step \in {"decode", "use"}
HoldsExactly ==
    /\ live = [r \in Resources |-> IF Holds(r) THEN 1 ELSE 0]
    /\ pc = "closed" => fields = {}
    /\ pc = "open" => {"decompressor", "filename"} \subseteq fields

(***************************************************************************)
(* The file reader indexes the fragment table up to super.fragments        *)
(* (squash_file.c 102): a table that is there has all of these entries.    *)
(***************************************************************************)
FragmentTableComplete ==
    pc = "open" /\ "fragment_table" \in fields => loaded = image.fragments

(***************************************************************************)
(* What a sound image is: a superblock of a version and a compression that *)
(* are supported, zstd included; a fragment table of as many entries as it *)
(* says; and a directory inode where the root is, whatever block it ends   *)
(* in.                                                                     *)
(***************************************************************************)
Zstd == 6
RootCut(b, root) == b.begin = root.block /\ root.offset + 1 = b.length
ASSUME SoundImages ==
    \A im \in Images : im.sound =>
        /\ im.compression \in Built
        /\ SuperCheck(im) = "OK" \/ im.compression = Zstd
        /\ im.fragments # 0 /\ im.fragment_table_start # "invalid" =>
              LET last == Len(im.fragment_blocks) IN
              /\ last > 0
              /\ im.fragment_blocks[last].before + im.fragment_blocks[last].held = im.fragments
        /\ \E n \in 1 .. Len(im.inode_blocks) :
              RootIn(im.inode_blocks[n], im.root) \/ RootCut(im.inode_blocks[n], im.root)

(***************************************************************************)
(* A sound image opens when no host call fails, except one compressed with *)
(* zstd, which squash_reader.c 73 and the switch of init_decompressor do   *)
(* not know, and one whose root inode begins in the last byte of a         *)
(* metadata block: the scan wants both bytes of its type in one block      *)
(* (488).                                                                  *)
(***************************************************************************)
RootTypeIsCut ==
    \E n \in 1 .. Len(image.inode_blocks) : RootCut(image.inode_blocks[n], image.root)
SoundImageOpens ==
    pc = "closed" /\ ret # "none" /\ image.sound =>
        faulted \/ image.compression = Zstd \/ RootTypeIsCut

(***************************************************************************)
(* squash_open returns: each loop moves to the next metadata block.        *)
(***************************************************************************)
OpenReturns == pc = "file" ~> pc \in {"open", "closed"}
=============================================================================
