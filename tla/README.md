# TLA+ models of libsquash

libsquash is a C library that reads SquashFS 4.0 images: it opens an image,
resolves paths, reads inodes, directories and files, and extracts files and
directory trees to the host. It is sequential: there are no threads, no
callbacks and no persistent state of its own. What is hard in it is everything
a unit test on a good image does not meet: the n-th `malloc`, `fread` or
decompression failing with half of the work done, images whose directories form
cycles, blocks and tails met in unusual combinations, arithmetic at 32 bits.

Paths below are relative to the repository (`src/` here is the repository root,
so its C files are `src/src/*.c`).

## The system's parts

| Part | Source | State | Operations | Correct when | Model |
|---|---|---|---|---|---|
| Visited set | `src/src/squash_visited.c` | `inodes`, `count`, `capacity` | init, add, contains, free | it behaves as a set; no slot out of bounds or unwritten is read | `VisitedSet`, `SquashVisited`, `SquashVisited_proofs` |
| File extraction | `squash_utils.c` 312-575 | the call's locals, the host files | `squash_extract_file`, `squash_extract_file_by_inode` | everything acquired is released once; OK means the file is there; nothing else is overwritten | `SquashExtractFile` (+ proofs) |
| Directory extraction | `squash_utils.c` 577-710 | C stack, visited set, host tree | `squash_extract_directory` | ends; releases everything; first error wins; OK means complete | `SquashExtract` (+ proofs) |
| File reading | `squash_file.c` | cursor of one call | `squash_read_file` | returns the bytes asked for or an error | `SquashFile` (+ proofs) |
| Open and close | `squash_reader.c` | `squash_fs_t` | `squash_open`, `squash_close` | failure releases what was acquired; sound images open | `SquashOpen` (+ proofs) |
| Block reading | `squash_utils.c` 29-114, 252-310 | none | `squash_read_metadata_block`, `squash_read_data_block` | the whole block or an error; everything released once | `SquashBlock` (+ proofs) |
| Decompressors | `squash_decompressor.c` | codec and library context | create, decompress, destroy | create and destroy pair; no partial block passes; the loops end | `SquashBlock` (+ proofs) |
| Directory reading | `squash_directory.c` | iterator: entries, index | opendir, readdir, closedir | the stored entries, each once, in order | `DirectoryStream`, `SquashDirectory` (proofs with lookup) |
| Inode reading | `squash_inode.c` 110-728 | none | `squash_read_inode`, `squash_free_inode` | the inode the image stores | `SquashInode` (+ proofs) |
| Path lookup, listing | `squash_inode.c` 6-107, `squash_utils.c` 712-758 | current reference, visited set | `squash_lookup_path`, `squash_list_directory` | the reference the path names, or the right error; every entry listed | `SquashLookup` (+ proofs) |
| Error texts | `squash_errors.c` | none | `squash_strerror` | a table of strings | not modelled |
| Examples | `src/examples/*.c` | none | clients that print | | not modelled |

The parts interact by calls only. Extraction calls lookup once, then
`squash_read_inode`, opendir/readdir/closedir, and `squash_read_file` block by
block; all readers use the data and metadata block functions, which use the one
decompressor of the `squash_fs_t`. The visited set is used by the recursion
(shared by all its frames) and by lookup (one per call). The only shared mutable
state is the position of `fs->file`, which every reader sets before it reads.
A second thread on one `squash_fs_t` would race on it; `src/README.md` excludes that.

## Modules

**`VisitedSet`** is the abstract specification: a set of references, an `add`
that may fail without effect, a `contains` that answers truthfully.
**`SquashVisited`** is the array with its slots, `count`, `capacity` and the
doubling `realloc`; slots nobody wrote hold `Garbage`. `ImplementsSet` is the
abstract specification under the mapping `members <- {inodes[i] : i < count}`.

**`SquashExtractFile`** is one extraction of a regular file, an action per call
that can fail (`FReadInode`, `FMakeParent`, `FOpen`, `FBuffer`, `FCopyBlock`,
`FFinish`); `live` counts the allocations and handles by kind, `out` is the
host's tree, `pending` the block stdio holds back until `fclose`.
`squash_extract_file` and `squash_extract_file_by_inode` allocate and release alike;
the first starts with the lookup (`Call`). They differ in their messages: at 467 the
first reads the type of the inode it has freed for a log line, which a model that
counts allocations and has no log cannot show.

**`SquashExtract`** extends it with the recursion. `stack` is the C stack of
`squash_extract_directory_recursive`, one frame per invocation with its
`inode_ref`, its `output_dir` and the number of entries read; `dpc` is the place
of the last frame. One action per call with its failures: `Enter`,
`ReadDirInode`, `MakeDir`, `OpenDir`, `NextEntry`, `EntryFails`, `Descend`,
`ExtractFile`, `SkipOther`, `AfterEntry`, `Unwind`. The recursion uses the set
that `SquashVisited` implements. `home`, `cut` and `unflushed` are history
variables: where each directory was written, whether a readdir error ended a
loop, whether a flush failed.

**`SquashFile`** is one call of `squash_read_file`, an action per iteration:
holes (`ReadSparse`), stored blocks (`ReadBlock`), the tail (`ReadFragment`), and
each rejection. File contents are numbers, byte `i` being `i + 1`, so that any
byte out of place shows. `Word` is the width of the block count.

**`SquashOpen`** is `squash_open` stage by stage and `squash_close`; the lookup
table, the fragment table and the scan for the root share the actions that read
one metadata block (`BlockHeader`, `BlockStored`, `Decode`), each with its own
list of what the failing branch frees (`Listed`, `TableOf`).

**`SquashBlock`** is one block read through one decompressor: `Create`,
`NewState`, `InitLibrary` and `Destroy` for the decompressor, then `Bounds`, `ReadStored`,
`AllocResult` and, by codec, one call (`DecodeAtOnce`), a decoder of the call's
own (`StartDecoder`, `Inflate`), the two calls of lzma (`LzmaStep`) or the xz loop
(`XzStep`). liblzma's `lzma_code` is external: `LzmaCode` says which results it may
give for the bytes left in and out, `Moved` what it consumes and produces. What a
library does not notice is part of the model (`Unnoticed`): lz4 has no end mark, so a
block cut after a run of literals is one that ends there, and only gzip and xz have a
checksum. Of an lzma block the code skips the five bytes of properties (`Input`) but
not the eight bytes of length that follow in the `.lzma` format (`alone`): there the
decoder meets something that is not the stream (`LengthIsDecoded`).

**`SquashInode`** is `squash_read_inode`: the block, the merge with the next one
(`NeedsMerge`, `LoadNext`, `Merge`), then the parsers, each as the same three steps
(`ParseBase`, `ParseFixed`, `ParseVariable`) that differ in the size they copy, in
what they check and in the part of variable length. The layout errors of the
parsers are in `ParsedBase`, `Directory`, `File` and `TargetRead`. `ReaderStaysInList`
takes the count of `squash_read_file` from an instance of `SquashFile`.

**`DirectoryStream`** is what a caller of opendir, readdir and closedir relies on:
an opened directory is a sequence of entries given once each and in order.
**`SquashDirectory`** is the code: a cursor (`cur`: metadata block, position,
bytes left of the listing) that `squash_read_bytes` (`ReadLoads`, `ReadCopies`)
moves by headers, entries and names; `Group`, `ParseHeader`, `NextEntry`,
`ParseEntry`, `NameRead` and `AddEntry` are the two loops around it. Bytes have no
content: a position at which the image has an item yields that item when read as
one, any other yields some item of `GarbageItems`. A block says where it begins among
the unpacked bytes. `Stored` says what a sound directory is by its `marks`: for
each item, and the end, the position, the entries left in the group, its start and
how many entries have been listed by then. `ImplementsStream` is the refinement,
with `stream <- list` once opendir has returned.

**`SquashLookup`** extends it with the two functions that call it. `lpc` is the
place in `squash_lookup_path` or, once `resolved`, in `squash_list_directory`,
which repeats the same steps without looking for a name. `Open` composes the two:
while `lpc = "opening"`, the directory reader steps. What a lookup should answer is
stated without following the code: `Walks` are the sequences of references that
agree with the path so far, and `WalkEnd` what such a walk comes to.

Inputs are records with only the fields the code tests. Where a property speaks of
sound ones, an `ASSUME` says what that is (`SoundImages`, `SoundAssumption`,
`DirectoriesStored`; `Sound` of `SquashFile` is a definition); TLC evaluates it on
every input of the runs, and the proofs use nothing else of it. In `SquashOpen` a bad
stored size in a metadata header (IO, in the fragment table INVALID_FILE) is part of
the failing `BlockHeader`. A reader appears in the modules above it by its outcomes, which its
own module establishes: in the extraction a reference is readable or not and a
directory can be opened or not (`"sealed"`), in `SquashInode` and
`SquashDirectory` a block is loaded or fails, and `IO`, `MEMORY` and `COMPRESSION` are
possible at every such call. That a sound block is loaded whole is
`OkMeansWholeBlock`; one that is damaged may come shorter (`PassedOver`), which is a
damaged inode, directory or file with another size in the modules above. The lookup
takes the fields of a directory's inode as they are stored; that `squash_read_inode`
misreads extended directories is shown in `SquashInode` only, and `LookupIsExact` says
nothing about images that have them.

## Runs

| Run | Question | Bounds | Result |
|---|---|---|---|
| `visited_set` | does the array implement the set? | capacity 1, 4 adds: two doublings, so growth from a full and a partly used array; 3 references, so repeats and misses | holds |
| `extract_file` | resources, delivery, overwriting | files of 0 and 2 blocks: no block, a block held back and one written through; one target with the parent there, one whose parent may be missing or a file, one whose grandparent is missing; calls repeat without bound | holds |
| `extract_tree` | balance, no re-entry, complete, first error, termination | all graphs of 3 directories and a file (any subset of children, of which one directory may name itself), all inode kinds, all kinds of start, absent/directory/file output, a file in the way of a subdirectory | holds |
| `read_file` | right bytes or an error | block size 3 (first, inner and last byte differ), up to 3 blocks with any of them holes, tails at offset 0 and 1, offsets 0-9, sizes around a word of 64 for 2^32, damaged archives and first blocks that fall short | holds |
| `open_image` | balance, fragment table, sound images open, returns | 0-2 lookup blocks, fragment tables of 0-2 blocks, short and long ones, roots found directly, by the scan and not at all; opened again and again | holds |
| `read_block` | whole blocks or errors, balance, sound blocks read, the loops end | metadata blocks of at most 16 bytes, data blocks of 15; stored sizes around these limits, around the 5 bytes of properties of lzma and 0; yields from nothing to more than the buffer, so that "just full" and "too long" occur for both kinds; whole, cut off and damaged streams; blocks of lzma with and without a length; all six codecs and an unknown type; opened, read and closed again and again | holds |
| `read_inode` | balance, body as stored, list as long as the reader's, sound inodes readable | all 14 types and two unknown ones; blocks of 80 and 70 bytes with the inode at 0, where the merge begins (32, 33), at 56, where the margin no longer suffices, where the base itself is cut (65, 79) and behind the end; next blocks of 1, 20 and 70 bytes and none; files of up to 3 blocks of 4 bytes; word 256 for 2^32, half 8 for 2^16, sizes around the word; damaged links whose end wraps and does not | holds |
| `list_directory` | balance, stream of entries, lookup as the tree says, listing complete, calls return | blocks of 5, 12, 13 and 64 bytes, so that every item is cut at some block end and none is; offsets 0 and 3; three directories that contain each other; an array that grows at 1 and 2 entries, a visited set that grows at 1 and 2; 13 paths; two dozen damaged listings | holds |
| `read_file_tail` | `OkMeansTheBytesAsked` | as `read_file` | violated: reads starting inside a tail |
| `inode_base` | `OkMeansBaseAsStored` | basic directories | violated: the base is copied one field off |
| `inode_extended_dir` | `OkMeansDirectoryAsStored` | extended directories | violated: parsed as basic ones |
| `inode_symlink` | `OkMeansTargetAsStored` | links with targets of 1 and 9 bytes | violated: read 8 bytes late |

The bounds suffice for the properties because the code treats blocks, entries
and frames uniformly: the first, a middle and the last one, and a frame below
another one, are all there. The host may hold what the user had: `out` itself as
a file, and `out/d` as a file where the image has a directory. Longer files and
deeper stacks repeat the same actions; the theorems below hold for any number.

A property names the case it excludes, and each such case is a behaviour of the
code that the model has and that shows when the exception is removed:

| Property | Except | Because |
|---|---|---|
| `DeliveredUnlessUnflushed`, `CompleteUnlessCut` | `unflushed` | the last write happens in `fclose` (`squash_utils.c` 432), whose result is ignored |
| `CompleteUnlessCut`, `ListedUnlessCut`, `LookupIsExact` | `cut` | `squash_readdir` running out of memory ends the loop like the end of the directory (628, 749; `squash_inode.c` 72, where it becomes NOT_FOUND) |
| `SoundArchiveIsReadable`, `BodyIsTheStoredOne`, `SoundInodeIsReadable` | `CountWraps`, `Narrow` | `file_size + block_size - 1` is a `uint32_t`: files within a block of 4 GiB have no blocks; extended sizes are cut to 32 bits |
| `CopiesTheFile` | `StartsInsideTail` | run `read_file_tail` |
| `CopiesTheFile` | `BlocksInFull` | a data block that decompresses to less than its share moves the later bytes forward; only damaged images have one |
| `SoundImageOpens` | `Zstd` | compression id 6 is refused (`squash_reader.c` 73) although `src/README.md` lists it |
| `SoundImageOpens` | `RootTypeIsCut` | the scan wants both bytes of the root's type in one metadata block (488) |
| `BodyIsTheStoredOne` | `BlockTakenForTail` | a file of exactly one block that names a fragment is taken for one inside the fragment (`squash_inode.c` 205) |
| `BodyIsTheStoredOne` | types 3, 8, 10 | runs `inode_extended_dir`, `inode_symlink` |
| `OkMeansWholeBlock` | `PassedOver` | lz4 has no end mark (`squash_decompressor.c` 521-529 take any length for the whole one); lz4, lzo, zstd and lzma have no checksum; an lzma block with a length is decoded from the wrong place |
| `SoundBlockIsRead` | `LengthIsDecoded` | `src/README.md` lists LZMA, but `decompress_lzma` skips five bytes (`squash_decompressor.c` 384-385) of a header that in SquashFS has thirteen, and its raw decoder (376) needs an end mark that such blocks seldom have; the context of 102, which reads that header, is never used. Without the exception, every block of lzma in a real image violates the property |
| `SoundInodeIsReadable` | `~EndLoaded` | at most one block is merged, and only when fewer than 32 bytes follow the base |
| `SoundDirectoryOpens`, `LookupIsExact` | `special` | entries of type FIFO and socket are refused (`squash_directory.c` 226) |

Besides, `mkdir` failing with EEXIST is accepted when a regular file stands there
(612): extracting an empty directory onto a file returns `SQUASH_OK` and creates
nothing. `CompleteUnlessCut` speaks of files and is not concerned.

`extract_tree` and `read_file` stop when the call has returned, so deadlock is
not checked there; in the others it is.

Every property also has a mutant of the code (`Mutant of ...` in the modules)
that breaks it.

**Fairness.** `FairSpec` asks for weak fairness of the whole next-state relation
in `SquashExtract` (in `SquashOpen`, `SquashBlock` and `SquashLookup`, of the steps
inside a call, as nobody has to call): the one thread keeps running and every library and host call returns. No particular
outcome of a call is assumed.

## Proofs

See the modules ending in `_proofs`; the assumptions are the `ASSUME`s of the
modules they extend, unless a theorem names others.

| Theorem | States | Invariant behind it |
|---|---|---|
| `SquashVisited_proofs!TypeCorrect` | no slot out of bounds or unwritten is used | itself |
| `SquashVisited_proofs!ArrayImplementsSet` | every step of the array is a step of `VisitedSet` or a stutter | `TypeOK`: the slots below `count` are written, so growth copies the same set |
| `SquashFile_proofs!NeverShort`, `!FileReadTypes` | `NoShortRead`, `TypeOK` for all archives, damaged ones included, and all requests | `IInv`, `Covered` |
| `SquashFile_proofs!CopiesItsFile` | `CopiesTheFile`, any mix of stored, sparse and tail blocks | `JInv` |
| `SquashFile_proofs!SoundArchivesAreRead` | `SoundArchiveIsReadable` | `JInv` |
| `SquashExtractFile_proofs!FileTypes`, `!FileBalance` | `FileTypeOK`, `FileReleasesAll` for `FileSpec` | what is held is a function of `fpc` |
| `SquashExtractFile_proofs!FileDelivered` | `DeliveredUnlessUnflushed`, files of any length | `Written` |
| `SquashExtractFile_proofs!OverwritesOnlyItsFile` | the action property `OverwritesOnlyWithAFile` | `Tested` |
| `SquashExtract_proofs!TreeBalance` | `HoldsExactly` at every depth of the recursion | `Shape` |
| `SquashExtract_proofs!TreeTypes` | `DirTypeOK` | `Shape`, `TreeBalance` |
| `SquashExtract_proofs!EverythingIsExtracted` | `CompleteUnlessCut` on every image, aliases and cycles included; assumes `NamesDiffer` | `Chain`, `Homes`, `Writing`, `Progress` |
| `SquashExtract_proofs!NoDirectoryInsideItself` | `NoReentry` on every image, cyclic ones included | `Shape` and `Recorded` |
| `SquashExtract_proofs!FirstFailureIsReported` | the action property `FailureStops` | `Shape` and `OnTheWayOut` |
| `SquashBlock_proofs!TypeCorrect`, `!BlockBalance` | `TypeOK`, `HoldsExactly` for every block, size and codec | itself, with the places typed |
| `SquashBlock_proofs!WholeBlocksOnly` | `OkMeansWholeBlock`, but for `PassedOver` | `Progressing` |
| `SquashBlock_proofs!SoundBlocksAreRead` | `SoundBlockIsRead`, but for lzma blocks with a length | `Progressing` |
| `SquashInode_proofs!TypeCorrect`, `!InodeBalance` | `TypeOK`, `HoldsExactly` for every stored inode | `Shape` |
| `SquashInode_proofs!ReaderStays` | `ReaderStaysInList`, wrapped counts included | `Shape` |
| `SquashInode_proofs!BodyAsStored` | `BodyIsTheStoredOne` | `Shape` |
| `SquashInode_proofs!SoundInodesAreRead` | `SoundInodeIsReadable`, wherever the inode begins in its block | `RefusedForCause` |
| `SquashOpen_proofs!TypeCorrect`, `!OpenBalance` | `TypeOK`, `HoldsExactly` for every image and failure | `Stored` and `InLoop` |
| `SquashOpen_proofs!FragmentsComplete` | `FragmentTableComplete` | `Complete` |
| `SquashOpen_proofs!SoundImagesOpen` | `SoundImageOpens` for tables of any number of blocks | `SoundSoFar` |
| `SquashLookup_proofs!LookupBalance` | `HoldsExactly` for every image, listing, path and failure | `Related` |
| `SquashLookup_proofs!LookupTypes` | `TypeOK` | `Reader`, `Paced` |
| `SquashLookup_proofs!SoundDirectoriesOpen` | `SoundDirectoryOpens`, wherever block ends cut the listing | `ParsesSoundly` |
| `SquashLookup_proofs!ReaderImplementsStream` | every step of the directory reader is a step of `DirectoryStream` or a stutter | `ParsesSoundly` |
| `SquashLookup_proofs!LookupAnswers` | `LookupIsExact` on every sound image, cyclic ones included | `Walking` |
| `SquashLookup_proofs!ListingIsComplete` | `ListedUnlessCut` | `Paced` |

`NoShortRead` is not inductive: that a hole yields a positive number of zeros rests
on the place inside the current block lying inside the file. `InsideFile` says so;
the lemmas `Division`, `BlockStartsInside` and `CopyLength` carry the arithmetic,
and one lemma per action the rest. `InsideFile` also says that the fall-through of
a hole with nothing to zero (`squash_file.c` 181) is never taken, which is why the
model has no action for it. All of it needs an inode that `squash_read_inode`
returned (`Covered`: the list has an entry for every block counted) and a list of
fewer than `Word - 1` entries, as any cut from two metadata blocks is: where
the sum wraps in a file with blocks, the count is then 0 (`Uncounted`) and nothing
is copied.

That the bytes are the right ones takes two places that move together: in the
image, where the current block is stored (`Placed`), and in the file, which byte is
next (`Aligned`, as long as no stored block falls short). Only the first block is
entered in the middle (`FirstOnly`); with it, the tail is read from where the code
reads it exactly when the call did not start inside it. `NeverRefused` uses the
same facts to go through the early returns.

`Shape` types the stack, ties the file machine to the frame that waits for it
(`fpc # "idle"` only at `"after"`) and says that an entry exists while it is
handled. Over it, `TreeBalance` compares `live` with what the stack accounts for
(`Held`): a return drops one frame and must free exactly what that frame held
above those below it (`LeaveBalances`), every other step takes or frees as its
place changes. `NoReentry` does not speak of the visited set; `Recorded` adds that
every frame past `"enter"` is in it. `OnTheWayOut` says where an error can stand.

`EverythingIsExtracted` is about a set shared by all frames: a directory may be
skipped because it was visited, and is then finished or still on the stack.
`Progress` says so entry by entry: each entry of a visited directory is where it
belongs (`Handled`) or a frame will come to it (`Ahead`), so that at the end, with
no frame left, all are handled. What is in its place must stay there: `Homes` says
that every visited directory was reached through an entry of another one and has
a path of its own, hence no two files of the tree are written to one path.
`Chain` ties the frames to each other and `Writing` the file machine to its
entry. It assumes `NamesDiffer`: no directory has two entries of one name, as the
format promises and the code does not check; the second would overwrite the first.

In `SquashBlock`, what is delivered depends on how far the decoder has got.
`Progressing` says so: the space left lies inside the buffer, and lzma asks for the
end of a sound block only when all input is used and the buffer full, so neither
the second call of lzma nor the xz loop's test for progress rejects it. In
`SquashInode`, `squash_free_inode` decides from the inode in memory what to free. `Shape` therefore says that it has
the type and the parsed body of the stored one, whose list is as long as the count
(`ListLength`), and that a merge is in progress only where `NeedsMerge` holds. The stored and the
parsed body then differ in what `File`, `Directory` and `ListRead` change, which is
nothing where `BodyIsTheStoredOne` names no exception. For `SoundInodeIsReadable`,
each error return of a parser needs bytes behind what was loaded, and
`StoredSoundly` and the merge leave that to the parts of variable length.

Each failing branch of `squash_open` names its own list of what to free; `Stored`
says which members of `*fs` may be set at each stage, which makes every such list
the right one, and `InLoop` that a block is being read only while the loop has one
left. For a sound image, `SoundSoFar` adds that the entries read are those before
the next block (`TableAhead`), so the blocks do not run out first, and that the
blocks the scan has left do not hold the root (`RootAhead`), so it stands
further on. In one file extraction the host's file lags behind what was handed to
`fwrite` by what stdio holds back (`Written`): only what `fclose` adds makes the two
equal. `Related` says which places of the lookup go with which of the directory
reader, and `Typed` there that no collected entry is the NULL that ends a scan, so
that every copy `squash_readdir` hands out is seen and freed.

`Reader` keeps the cursor inside the directory, in any image. In a sound one
(`ParsesSoundly`) there is at each step a mark such that the cursor is behind it by
exactly what has been read of its item, the group in memory is the one of the
mark, and the entries collected are the first so many of the listing; loading a
block keeps this because a block begins where the one before it ends. The loops
can then end only at the last mark, where `DirectoryStream` opens. Of the lookup,
`Walking` says that the components done are a walk whose references are the
visited ones, and, while a directory is scanned, that no entry before `index` has
the name looked for.

Only model-checked are the liveness properties (`Terminates`, `OpenReturns`,
`ReadReturns`, `CallReturns`: fairness and ENABLED are out of the prover's reach)
and, of course, the violations. Every invariant and action property of the passing
runs, and both refinements, are theorems.

The prover cannot apply an induction rule that takes an operator. Where a proof
must unfold a recursive function (`StoredSize`), the rule is stated for sets
(`SetInduction`, from the well-foundedness of the order of the naturals). In
`SquashOpen`, `SquashDirectory` and `SquashLookup` the data carries the sums instead
(`before`, `begin`, `marks`), each tied by an `ASSUME` to the one before it, and a
walk is a sequence, not a recursion.

## What is not modelled, and the plan

What could follow are theorems about the way modules take each other for granted:
that the outcomes the extraction allows a lookup or an opendir are those that
`SquashLookup` and `SquashDirectory` have.

The extraction keeps its own abstraction of lookup, inode and directory reading:
composed with the byte-level readers its state space is out of reach, and their
modules show what it takes for granted.

Not in the model, and so not in what is shown: sums that leave `size_t` and positions
that leave `long` (`squash_file.c` 35 and its seeks); what is copied when the end of a
link's target wraps (`squash_inode.c` 355, 361; that the test then passes is in
`VariableFits`); the contents of the lookup table, whose blocks, when stored
uncompressed, are copied whole into a buffer of the expected size (`squash_reader.c`
314).

Left out for good: error texts, log output, the decompression algorithms, the
name and id strings of inodes, `squash_get_super`, `squash_get_file_size` and
`squash_get_compression_name` (they copy or name fields),
`read_n_bytes_from_metablocks` (116-250 of `squash_utils.c`, never called), and the
example programs, clients that print; `squash_ls` recurses as the extraction does.
