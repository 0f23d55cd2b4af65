------------------------- MODULE SquashExtractFile -------------------------
(***************************************************************************)
(* Extraction of one regular file: squash_extract_file and                 *)
(* squash_extract_file_by_inode of src/src/squash_utils.c, which allocate  *)
(* and release alike but for the lookup the first one starts with (its log *)
(* line at 467 also reads the type of the inode freed before).  One action *)
(* per call that can fail, each failure with the releases of its branch.   *)
(*                                                                         *)
(* An image is a record: kind, blocks and entries are functions of the     *)
(* inode references, start is the reference a path lookup resolves to.     *)
(*   kind    "file", "dir", "sealed" (a directory squash_opendir refuses), *)
(*           "other" (symlink, device, fifo, socket), "bad" (squash_read_  *)
(*           inode refuses it)                                             *)
(*   blocks  the length of a file in data blocks; a tail counts as one     *)
(*   entries the directory entries, in order, as [name, ref] records       *)
(* That one block-aligned squash_read_file returns either an error or      *)
(* exactly the bytes asked for is shown in module SquashFile, so the       *)
(* bytes_read # bytes_to_read branches (410-417, 549-556) are not taken.   *)
(***************************************************************************)
EXTENDS Integers, SequencesExt

CONSTANTS Images,    \* the images that may be open
          HostTrees, \* what the host directory may hold beforehand
          Targets    \* output paths, as sequences of names

ASSUME ImagesAssumption ==
    \A im \in Images :
        /\ im.kind \in [DOMAIN im.kind -> {"file", "dir", "sealed", "other", "bad"}]
        /\ im.blocks \in [DOMAIN im.kind -> Nat]
        /\ im.entries \in [DOMAIN im.kind -> Seq([name : STRING, ref : DOMAIN im.kind])]
        /\ im.start \in DOMAIN im.kind

ASSUME HostAssumption ==
    /\ \A tree \in HostTrees : <<>> \in DOMAIN tree /\ tree[<<>>].type = "dir"
    /\ Targets \subseteq Seq(STRING) \ {<<>>}

VARIABLES image,     \* the open image; never changes
          live,      \* allocations and handles not yet released, by kind
          out,       \* the host's files and directories, by path
          fpc,       \* where the file extraction stands
          job,       \* its inode_ref and output_path
          offset,    \* blocks handed to fwrite so far
          pending,   \* of these, blocks still in the stdio buffer (0 or 1)
          unflushed, \* history: a flush inside fclose failed
          ret        \* the last value returned

fileVars == <<fpc, job, offset, pending, unflushed>>
vars == <<image, live, out, ret, fileVars>>

Refs == DOMAIN image.kind

Resources ==
    {"inode", "iterator", "entry", "path", "visited", "stream", "buffer"}
NothingLive == [r \in Resources |-> 0]
Taken(S) == [r \in Resources |-> IF r \in S THEN live[r] + 1 ELSE live[r]]
Freed(S) == [r \in Resources |-> IF r \in S THEN live[r] - 1 ELSE live[r]]

-----------------------------------------------------------------------------
\* The host's file system, as mkdir and fopen(.., "wb") see it.
Dir == [type |-> "dir"]
Content(ref, n) == [type |-> "file", ref |-> ref, blocks |-> n]
Whole(ref) == Content(ref, image.blocks[ref])

Exists(p) == p \in DOMAIN out
IsDir(p) == Exists(p) /\ out[p].type = "dir"
With(p, node) == [q \in DOMAIN out \cup {p} |-> IF q = p THEN node ELSE out[q]]

\* "mkdir(p) == 0 || errno == EEXIST": an existing file satisfies it as well.
Mkdir(p) ==
    \/ Exists(p) /\ out' = out
    \/ ~Exists(p) /\ IsDir(Front(p)) /\ out' = With(p, Dir)
MkdirMayFail(p) == ~Exists(p)

\* Inode references that squash_read_inode can read; it may also run out of
\* memory or meet an I/O error on any of them.  The codes COMPRESSION and
\* INVALID_FILE are passed on as these two are, so IO stands for them.
Readable(ref) == image.kind[ref] # "bad"
LibraryErrors == {"IO", "MEMORY"}
ReadErrors(ref) == LibraryErrors \cup (IF Readable(ref) THEN {} ELSE {"INVALID_INODE"})

-----------------------------------------------------------------------------
FLeave(e, freed) ==
    /\ ret' = e
    /\ fpc' = "idle"
    /\ live' = Freed(freed)
    /\ UNCHANGED <<image, job, offset>>

\* fclose flushes what stdio still holds; its result is ignored.
FClose(e, freed) ==
    /\ FLeave(e, freed)
    /\ pending' = 0
    /\ \/ /\ out' = [out EXCEPT ![job.path] = Content(job.ref, @.blocks + pending)]
          /\ UNCHANGED unflushed
       \/ /\ pending = 1
          /\ unflushed' = TRUE
          /\ UNCHANGED out

\* squash_extract_file: the path resolves to ref, or does not.
Call(ref, path) ==
    /\ fpc = "idle"
    /\ \/ fpc' = "read" /\ ret' = "none"
       \/ fpc' = "idle" /\ ret' = "NOT_FOUND"
    /\ job' = [ref |-> ref, path |-> path]
    /\ offset' = 0 /\ pending' = 0 /\ unflushed' = FALSE
    /\ UNCHANGED <<image, live, out>>

\* Mutant of FReadInode: no squash_is_file test.
ReadsAnyInode ==
    /\ fpc = "read"
    /\ \/ /\ Readable(job.ref)
          /\ live' = Taken({"inode"})
          /\ fpc' = "parent"
          /\ UNCHANGED <<image, ret, job, offset>>
       \/ \E e \in ReadErrors(job.ref) : FLeave(e, {})
    /\ UNCHANGED <<out, pending, unflushed>>

FReadInode ==
    /\ fpc = "read"
    /\ \/ /\ image.kind[job.ref] = "file"
          /\ live' = Taken({"inode"})
          /\ fpc' = "parent"
          /\ UNCHANGED <<image, ret, job, offset>>
       \/ Readable(job.ref) /\ image.kind[job.ref] # "file" /\ FLeave("NOT_FILE", {})
       \/ \E e \in ReadErrors(job.ref) : FLeave(e, {})
    /\ UNCHANGED <<out, pending, unflushed>>

\* Mutant of FMakeParent: the inode is not freed when mkdir fails.
MakeParentLeaks ==
    LET parent == Front(job.path) IN
    /\ fpc = "parent"
    /\ \/ /\ Mkdir(parent)
          /\ fpc' = "open"
          /\ UNCHANGED <<image, live, ret, job, offset>>
       \/ FLeave("MEMORY", {"inode"}) /\ UNCHANGED out
       \/ MkdirMayFail(parent) /\ FLeave("IO", {}) /\ UNCHANGED out
    /\ UNCHANGED <<pending, unflushed>>

\* strdup, then mkdir of the parent; the copy is freed on every branch.
FMakeParent ==
    LET parent == Front(job.path) IN
    /\ fpc = "parent"
    /\ \/ /\ Mkdir(parent)
          /\ fpc' = "open"
          /\ UNCHANGED <<image, live, ret, job, offset>>
       \/ FLeave("MEMORY", {"inode"}) /\ UNCHANGED out
       \/ MkdirMayFail(parent) /\ FLeave("IO", {"inode"}) /\ UNCHANGED out
    /\ UNCHANGED <<pending, unflushed>>

FOpen ==
    /\ fpc = "open"
    /\ \/ /\ IsDir(Front(job.path)) /\ ~IsDir(job.path)
          /\ out' = With(job.path, Content(job.ref, 0))
          /\ live' = Taken({"stream"})
          /\ fpc' = "buffer"
          /\ UNCHANGED <<image, ret, job, offset>>
       \/ FLeave("IO", {"inode"}) /\ UNCHANGED out
    /\ UNCHANGED <<pending, unflushed>>

\* Mutant of FBuffer: the failing branch frees the buffer it did not get.
BufferFreedTwice ==
    /\ fpc = "buffer"
    /\ FClose("MEMORY", {"buffer", "stream", "inode"})

FBuffer ==
    /\ fpc = "buffer"
    /\ \/ /\ live' = Taken({"buffer"})
          /\ fpc' = "copy"
          /\ UNCHANGED <<image, out, ret, job, offset, pending, unflushed>>
       \/ FClose("MEMORY", {"stream", "inode"})

\* Mutant of FCopyBlock: the result of fwrite is ignored.
WriteUnchecked ==
    /\ fpc = "copy"
    /\ offset < image.blocks[job.ref]
    /\ offset' = offset + 1
    /\ UNCHANGED <<image, live, out, ret, fpc, job, pending, unflushed>>

\* One block of the file, read and handed to stdio, which writes out what it
\* held before and keeps at most the new block.
FCopyBlock ==
    /\ fpc = "copy"
    /\ offset < image.blocks[job.ref]
    /\ \/ \E held \in {0, 1} :
          /\ pending' = held
          /\ offset' = offset + 1
          /\ out' = [out EXCEPT ![job.path] = Content(job.ref, offset + 1 - held)]
          /\ UNCHANGED <<image, live, ret, fpc, job, unflushed>>
       \/ \E e \in LibraryErrors : FClose(e, {"buffer", "stream", "inode"})

FFinish ==
    /\ fpc = "copy"
    /\ offset = image.blocks[job.ref]
    /\ FClose("OK", {"buffer", "stream", "inode"})

FileNext == FReadInode \/ FMakeParent \/ FOpen \/ FBuffer \/ FCopyBlock \/ FFinish

FileInit ==
    /\ image \in Images
    /\ out \in HostTrees
    /\ live = NothingLive
    /\ fpc = "idle"
    /\ job \in [ref : {image.start}, path : Targets]
    /\ offset = 0 /\ pending = 0 /\ unflushed = FALSE
    /\ ret = "none"

Next ==
    \/ \E ref \in Refs, path \in Targets : Call(ref, path)
    \/ FileNext

FileSpec == FileInit /\ [][Next]_vars

-----------------------------------------------------------------------------
FileTypeOK ==
    /\ image \in Images
    /\ live \in [Resources -> Nat]
    /\ fpc \in {"idle", "read", "parent", "open", "buffer", "copy"}
    /\ job.ref \in Refs
    /\ pending \in {0, 1}
    /\ offset \in Nat /\ offset <= image.blocks[job.ref]

(***************************************************************************)
(* What a file extraction holds at each point, hence also that every one   *)
(* of its ten early returns releases exactly that: nothing is left behind  *)
(* and nothing is released twice.                                          *)
(***************************************************************************)
FileHolds(r) ==
    \/ r = "inode"  /\ fpc \in {"parent", "open", "buffer", "copy"}
    \/ r = "stream" /\ fpc \in {"buffer", "copy"}
    \/ r = "buffer" /\ fpc = "copy"
FileReleasesAll ==
    live = [r \in Resources |-> IF FileHolds(r) THEN 1 ELSE 0]

(***************************************************************************)
(* SQUASH_OK means the whole file is on the host, unless the flush inside  *)
(* the unchecked fclose (432, 571) failed.                                 *)
(***************************************************************************)
DeliveredUnlessUnflushed ==
    fpc = "idle" /\ ret = "OK" /\ ~unflushed => out[job.path] = Whole(job.ref)

(***************************************************************************)
(* A host file is truncated or rewritten only by an extraction that has    *)
(* read the inode and found a regular file: a bad path, a bad inode or a   *)
(* directory costs the caller nothing that was on the disk before.         *)
(***************************************************************************)
OverwritesOnlyWithAFile ==
    [][\A p \in DOMAIN out :
          /\ p \in DOMAIN out'
          /\ out'[p] # out[p] =>
               p = job.path /\ image.kind[job.ref] = "file" /\ ~IsDir(p)]_vars
=============================================================================
