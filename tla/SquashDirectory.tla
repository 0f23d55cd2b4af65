-------------------------- MODULE SquashDirectory --------------------------
(***************************************************************************)
(* squash_opendir, squash_readdir and squash_closedir of                   *)
(* src/src/squash_directory.c.  squash_opendir reads the whole listing: a  *)
(* cursor over metadata blocks, moved by squash_read_bytes, over groups of *)
(* entries behind 12-byte headers, an entry being 8 bytes and a name.      *)
(*                                                                         *)
(* A directory is a record: outside, whether its blocks begin behind the   *)
(* end of the image; offset and file_size of its inode; blocks, where the  *)
(* metadata blocks from start_block on begin among all their decompressed  *)
(* bytes, and their sizes; items, what begins at a position of these       *)
(* bytes: a header [kind, count, start] or an entry [kind, offset, type,   *)
(* size, name].  An inode reference is the pair <<start, offset>>.  Bytes  *)
(* that are no such item may be read as any item of GarbageItems.          *)
(***************************************************************************)
EXTENDS Integers, SequencesExt, FiniteSets

CONSTANTS Images,       \* the images that may be open
          GarbageItems,
          FirstCapacity,\* 16
          NameMax,      \* 255
          Word          \* 2^32

ASSUME DirectoryAssumption == FirstCapacity \in Nat \ {0} /\ Word \in Nat \ {0}

Item ==
    [kind : {"header"}, count : Nat, start : Nat]
    \cup [kind : {"entry"}, offset : Nat, type : Nat, size : Nat, name : STRING]
Entry == [name : STRING, ref : Seq(Nat)]

\* What any bytes are: blocks one behind the other, items of either kind.
IsDirectory(d) ==
    /\ d.offset \in Nat /\ d.file_size \in Nat
    /\ d.blocks \in Seq([begin : Nat, size : Nat])
    /\ \A n \in DOMAIN d.blocks :
          d.blocks[n].begin =
              IF n = 1 THEN 0 ELSE d.blocks[n - 1].begin + d.blocks[n - 1].size
    /\ \A at \in DOMAIN d.items : d.items[at] \in Item

ASSUME ImagesAssumption ==
    /\ \A i \in Images :
          /\ i.root \in DOMAIN i.dirs /\ i.others \cap DOMAIN i.dirs = {}
          /\ \A x \in DOMAIN i.dirs : IsDirectory(i.dirs[x])
    /\ GarbageItems \subseteq Item

VARIABLES image,   \* the open image; never changes
          dir,     \* the directory being read, one of image.dirs
          opc,     \* where squash_opendir stands; "open" once it has returned OK
          cur,     \* next, pos, data, left, first: the cursor
          rd,      \* filled, from, loaded: the running squash_read_bytes
          group,   \* count of entries left, and start_block of the group
          pending, \* the entry being read
          list,    \* entries collected
          capacity,\* of the array that holds them
          index,   \* current_entry_index of the iterator
          answer,  \* *entry of the last squash_readdir
          live,    \* allocations not yet released, by kind
          faulted, \* history: a host call or a decompressor failed in this call
          ret      \* the last error

dirVars == <<dir, opc, cur, rd, group, pending, list, capacity, index, answer>>

Resources == {"data", "name", "entry", "array", "iterator", "copy", "inode", "visited"}
One(condition) == IF condition THEN 1 ELSE 0
Taken(r) == [live EXCEPT ![r] = @ + 1]
\* live after releasing amount[r] of each r.
Less(amount) ==
    [r \in Resources |-> live[r] - (IF r \in DOMAIN amount THEN amount[r] ELSE 0)]

Nothing == [name |-> "", ref |-> <<>>]
HeaderSize == 12
EntrySize == 8
EntryTypes == 1 .. 5

NoCursor == [next |-> 0, pos |-> 0, data |-> FALSE, left |-> 0, first |-> TRUE]
NoRead == [filled |-> 0, from |-> 0, loaded |-> FALSE]
NoGroup == [count |-> 0, start |-> 0]

DirInit ==
    /\ dir = image.dirs[image.root]
    /\ opc = "closed"
    /\ cur = NoCursor /\ rd = NoRead /\ group = NoGroup
    /\ pending = Nothing
    /\ list = <<>> /\ capacity = 0 /\ index = 0
    /\ answer = Nothing

-----------------------------------------------------------------------------
\* The loaded block: its size, and the cursor among all bytes of the blocks.
LoadedSize == dir.blocks[cur.next].size
Position == dir.blocks[cur.next].begin + cur.pos
NeedsBlock == cur.data => cur.pos >= LoadedSize

(***************************************************************************)
(* squash_opendir returns e: what it collected is released, and the block, *)
(* name and entry it was working on, as often as given.                    *)
(***************************************************************************)
OpenFails(e, blocks, names, entries) ==
    /\ opc' = "closed"
    /\ ret' = e
    /\ live' = Less([name |-> Len(list) + names, entry |-> Len(list) + entries,
                     array |-> One(capacity > 0), data |-> blocks])
    /\ list' = <<>> /\ capacity' = 0
    /\ cur' = NoCursor /\ rd' = NoRead /\ group' = NoGroup /\ pending' = Nothing
    /\ UNCHANGED <<image, dir, index, answer>>

HostFails(blocks, names, entries) ==
    OpenFails("MEMORY", blocks, names, entries) /\ faulted' = TRUE

Refused(blocks, names) == OpenFails("INVALID_FILE", blocks, names, 0) /\ UNCHANGED faulted

Go(stage) ==
    /\ opc' = stage
    /\ UNCHANGED <<image, dir, list, capacity, index, answer, faulted, ret>>

Held == One(cur.data)

\* Mutant of ReadFailed: the pointer keeps the address of the freed block,
\* and squash_opendir frees it again.
ReadFailedTwice == 2 * Held

\* squash_read_bytes frees the block and clears the caller's pointer.
ReadFailed == Held
NameHeld == One(opc = "name")

\* Mutant of NextBlock: the position in the block before is kept.
NextBlockSamePos(pos) ==
    [cur EXCEPT !.next = @ + 1, !.data = TRUE, !.first = FALSE]

NextBlock(pos) ==
    [cur EXCEPT !.next = @ + 1, !.pos = pos, !.data = TRUE, !.first = FALSE]

\* squash_read_metadata_block at current_offset; the block before is freed.
LoadBlock(stage, pos, inRead) ==
    \/ /\ cur.next < Len(dir.blocks)
       /\ cur' = NextBlock(pos)
       /\ rd' = [rd EXCEPT !.loaded = inRead]
       /\ live' = [live EXCEPT !["data"] = @ + 1 - Held]
       /\ Go(stage)
       /\ UNCHANGED <<group, pending>>
    \/ cur.next = Len(dir.blocks) /\ Refused(Held, NameHeld)
    \/ /\ \E e \in {"IO", "MEMORY", "COMPRESSION"} : OpenFails(e, Held, NameHeld, 0)
       /\ faulted' = TRUE

-----------------------------------------------------------------------------
\* squash_opendir up to its loop; the caller holds the inode of d.
OpenDir(d) ==
    /\ opc = "closed"
    /\ dir' = d
    /\ \/ /\ d.outside
          /\ ret' = "INVALID_FILE"
          /\ UNCHANGED <<opc, cur>>
       \/ /\ ~d.outside
          /\ opc' = "group"
          /\ cur' = [NoCursor EXCEPT !.pos = d.offset, !.left = d.file_size]
          /\ UNCHANGED ret
    /\ UNCHANGED <<image, rd, group, pending, list, capacity, index, answer, live, faulted>>

\* The outer loop: while (left_in_dir >= 12).
Group ==
    /\ opc = "group"
    /\ \/ /\ cur.left >= HeaderSize /\ NeedsBlock
          /\ LoadBlock("header", IF cur.first THEN dir.offset ELSE 0, FALSE)
       \/ /\ cur.left >= HeaderSize => ~NeedsBlock
          /\ Go(IF cur.left >= HeaderSize THEN "header" ELSE "finish")
          /\ UNCHANGED <<cur, rd, group, pending, live>>

Want ==
    CASE opc = "header" -> HeaderSize
      [] opc = "entry"  -> EntrySize
      [] opc = "name"   -> pending.size
      [] OTHER -> 0
Reading == rd.filled < Want

\* An iteration of squash_read_bytes: a block if one is needed, then a copy.
ReadLoads ==
    /\ Reading /\ NeedsBlock /\ ~rd.loaded
    /\ LoadBlock(opc, 0, TRUE)

ToCopy == Min({Want - rd.filled, LoadedSize - cur.pos})
CopyRefused == ToCopy = 0 \/ cur.left < ToCopy

ReadCopies ==
    /\ Reading /\ (~NeedsBlock \/ rd.loaded)
    /\ \/ CopyRefused /\ Refused(ReadFailed, NameHeld)
       \/ /\ ~CopyRefused
          /\ cur' = [cur EXCEPT !.pos = @ + ToCopy, !.left = @ - ToCopy]
          /\ rd' = [filled |-> rd.filled + ToCopy, loaded |-> FALSE,
                    from |-> IF rd.filled = 0 THEN Position ELSE rd.from]
          /\ Go(opc)
          /\ UNCHANGED <<group, pending, live>>

\* What the bytes just read mean.
ItemsRead(kind) ==
    IF rd.from \in DOMAIN dir.items /\ dir.items[rd.from].kind = kind
    THEN {dir.items[rd.from]} ELSE {g \in GarbageItems : g.kind = kind}

ParseHeader ==
    /\ opc = "header" /\ rd.filled = HeaderSize
    /\ \E h \in ItemsRead("header") :
          group' = [count |-> (h.count + 1) % Word, start |-> h.start]
    /\ rd' = NoRead
    /\ Go("next")
    /\ UNCHANGED <<cur, pending, live>>

\* The inner loop: for (i < count), left while fewer than 8 bytes are left.
NextEntry ==
    /\ opc = "next"
    /\ Go(IF group.count = 0 \/ cur.left < EntrySize THEN "group" ELSE "entry")
    /\ UNCHANGED <<cur, rd, group, pending, live>>

\* Mutant of NameFits: the listing must end right behind its last name.
NameFitsExactly(e) == cur.left > e.size + 3

NameFits(e) == cur.left >= e.size + 1

ParseEntry ==
    /\ opc = "entry" /\ rd.filled = EntrySize
    /\ rd' = NoRead
    /\ \E e \in ItemsRead("entry") :
          \/ (e.type \notin EntryTypes \/ e.size \notin 1 .. NameMax) /\ Refused(Held, 0)
          \/ /\ e.type \in EntryTypes /\ e.size \in 1 .. NameMax
             /\ \/ /\ ~NameFits(e)
                   /\ Go("group")
                   /\ UNCHANGED <<cur, group, pending, live>>
                \/ /\ NameFits(e)
                   /\ Go("name")
                   /\ pending' = e
                   /\ live' = Taken("name")
                   /\ UNCHANGED <<cur, group>>
                \/ NameFits(e) /\ HostFails(Held, 0, 0)

EntryDone == group' = [group EXCEPT !.count = @ - 1] /\ pending' = Nothing

\* "." and ".." are left out.
NameRead ==
    /\ opc = "name" /\ rd.filled = pending.size
    /\ rd' = NoRead
    /\ \/ /\ pending.name \in {".", ".."}
          /\ Go("next") /\ EntryDone
          /\ live' = Less([name |-> 1])
          /\ UNCHANGED cur
       \/ /\ pending.name \notin {".", ".."}
          /\ \/ Go("add") /\ live' = Taken("entry") /\ UNCHANGED <<cur, group, pending>>
             \/ HostFails(Held, 1, 0)

\* Mutant of Grown: the array is never doubled.
GrownOnce == FirstCapacity

Grown == IF capacity = 0 THEN FirstCapacity ELSE 2 * capacity

\* add_dir_entry
AddEntry ==
    /\ opc = "add"
    /\ \/ /\ opc' = "next"
          /\ list' = Append(list, [name |-> pending.name, ref |-> <<group.start, pending.offset>>])
          /\ capacity' = IF Len(list) >= capacity THEN Grown ELSE capacity
          /\ live' = [live EXCEPT !["array"] = @ + One(capacity = 0)]
          /\ EntryDone
          /\ UNCHANGED <<image, dir, cur, rd, index, answer, faulted, ret>>
       \/ Len(list) >= capacity /\ HostFails(Held, 1, 1)

Finish ==
    /\ opc = "finish"
    /\ \/ /\ opc' = "open" /\ ret' = "OK"
          /\ live' = [Less([data |-> Held]) EXCEPT !["iterator"] = @ + 1]
          /\ cur' = NoCursor /\ group' = NoGroup
          /\ UNCHANGED <<image, dir, rd, pending, list, capacity, index, answer, faulted>>
       \/ HostFails(Held, 0, 0)

Opening ==
    \/ Group \/ ReadLoads \/ ReadCopies \/ ParseHeader \/ NextEntry
    \/ ParseEntry \/ NameRead \/ AddEntry \/ Finish

-----------------------------------------------------------------------------
Iterator == <<image, dir, opc, cur, rd, group, pending, list, capacity>>

\* Mutant of Advanced: the iterator stays where it is.
NotAdvanced == index

Advanced == index + 1

\* Mutant of AtEnd: the last entry is never returned.
AtEndEarly == index + 1 >= Len(list)

AtEnd == index >= Len(list)

\* squash_readdir; a copy (entry and name) is the caller's to free.
ReadDir ==
    /\ opc = "open"
    /\ \/ /\ index < Len(list)
          /\ answer' = list[index + 1] /\ index' = Advanced
          /\ live' = Taken("copy")
          /\ ret' = "OK" /\ UNCHANGED faulted
       \/ /\ ~AtEnd
          /\ answer' = Nothing
          /\ ret' = "MEMORY" /\ faulted' = TRUE
          /\ UNCHANGED <<index, live>>
       \/ /\ AtEnd
          /\ answer' = Nothing
          /\ ret' = "OK" /\ UNCHANGED <<index, live, faulted>>
    /\ UNCHANGED Iterator

\* squash_free_dir_entry, by the caller of squash_readdir.
FreeCopy == answer' = Nothing /\ live' = Less([copy |-> 1])

\* squash_closedir, and the caller frees the inode and what it has of visited.
CloseDir(visitedSets) ==
    /\ opc = "open"
    /\ opc' = "closed"
    /\ live' = Less([name |-> Len(list), entry |-> Len(list), array |-> One(capacity > 0),
                     iterator |-> 1, inode |-> 1, visited |-> visitedSets])
    /\ list' = <<>> /\ capacity' = 0 /\ index' = 0
    /\ UNCHANGED <<image, dir, cur, rd, group, pending, answer>>

-----------------------------------------------------------------------------
DirTypeOK ==
    /\ opc \in {"closed", "group", "header", "next", "entry", "name", "add", "finish", "open"}
    /\ cur.next \in 0 .. Len(dir.blocks) /\ cur.left \in 0 .. dir.file_size
    /\ cur.data => cur.next > 0
    /\ Len(list) <= capacity
    /\ index \in 0 .. Len(list)
    /\ live \in [Resources -> Nat]

(***************************************************************************)
(* What a sound directory is: its marks say what stands before each item,  *)
(* and at the end: the position, the entries left in the group, its start, *)
(* and how many entries are listed.  Headers stand where no entry is left, *)
(* entries behind them until none is, and 3 bytes of file_size are not in  *)
(* the listing.                                                            *)
(***************************************************************************)
Marked(d, n) == d.items[d.marks[n].at]
Special(item) == item.kind = "entry" /\ item.type \notin EntryTypes
Dot(item) == item.name \in {".", ".."}

HeaderAt(d, n) ==
    LET mark == d.marks[n] item == Marked(d, n) IN
    /\ mark.left = 0 /\ item.kind = "header" /\ item.count + 1 < Word
    /\ d.marks[n + 1] = [at |-> mark.at + HeaderSize, left |-> item.count + 1,
                         start |-> item.start, listed |-> mark.listed]
EntryAt(d, n) ==
    LET mark == d.marks[n] item == Marked(d, n) IN
    /\ mark.left > 0 /\ item.kind = "entry" /\ item.size \in 1 .. NameMax
    /\ d.marks[n + 1] = [at |-> mark.at + EntrySize + item.size, left |-> mark.left - 1,
                         start |-> mark.start,
                         listed |-> IF Dot(item) THEN mark.listed ELSE mark.listed + 1]
    /\ ~Dot(item) =>
          d.listing[mark.listed + 1] = [name |-> item.name, ref |-> <<mark.start, item.offset>>]

Stored(d) ==
    LET last == Len(d.marks)
        end == d.marks[last]
    IN  /\ ~d.outside
        /\ d.listing \in Seq(Entry)
        /\ d.marks \in Seq([at : Nat, left : Nat, start : Nat, listed : Nat]) /\ last > 0
        /\ d.marks[1] = [at |-> d.offset, left |-> 0, start |-> 0, listed |-> 0]
        /\ \A n \in 1 .. last - 1 :
              d.marks[n].at \in DOMAIN d.items /\ (HeaderAt(d, n) \/ EntryAt(d, n))
        /\ \A m, n \in 1 .. last : m < n => d.marks[m].at < d.marks[n].at
        /\ end.left = 0 /\ end.listed = Len(d.listing) /\ d.file_size = end.at - d.offset + 3
        /\ \A n \in DOMAIN d.blocks : d.blocks[n].size > 0
        /\ last > 1 => LET block == Last(d.blocks) IN
                         /\ d.blocks # <<>> /\ d.offset <= d.blocks[1].size
                         /\ end.at <= block.begin + block.size
        /\ d.special = \E n \in 1 .. last - 1 : Special(Marked(d, n))

ASSUME DirectoriesStored ==
    \A i \in Images : \A x \in DOMAIN i.dirs : i.dirs[x].sound => Stored(i.dirs[x])

(***************************************************************************)
(* A directory that the image stores soundly is opened when no host call   *)
(* fails, wherever headers, entries and names are cut by the ends of       *)
(* blocks (squash_directory.c 125-350), unless it holds a FIFO or a        *)
(* socket, whose entry types are refused (226).                            *)
(***************************************************************************)
SoundDirectoryOpens ==
    opc = "closed" /\ ret = "INVALID_FILE" /\ dir.sound => dir.special

(***************************************************************************)
(* An opened directory is the stream of the entries stored in it, in their *)
(* order and each once, "." and ".." left out; squash_readdir copies each  *)
(* and keeps its place when a copy fails (squash_directory.c 375-437).     *)
(***************************************************************************)
Stream == INSTANCE DirectoryStream WITH
    Directories <- UNION {{i.dirs[x] : x \in DOMAIN i.dirs} : i \in Images},
    directory <- dir,
    open <- opc = "open",
    stream <- IF opc = "open" THEN list ELSE <<>>
ImplementsStream == Stream!Spec
=============================================================================
