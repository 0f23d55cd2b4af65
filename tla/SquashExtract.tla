--------------------------- MODULE SquashExtract ---------------------------
(***************************************************************************)
(* Extraction of a directory tree: squash_extract_directory and            *)
(* squash_extract_directory_recursive of src/src/squash_utils.c.  The C    *)
(* call stack is the sequence `stack'; its last frame runs and dpc says    *)
(* where.  Directories reached twice (an alias or a cycle in the image)    *)
(* are cut by the set of visited references, the set that module           *)
(* SquashVisited implements.  Extraction of one file is the machine of     *)
(* module SquashExtractFile, running while dpc = "after" and fpc # "idle". *)
(***************************************************************************)
EXTENDS SquashExtractFile, FiniteSets

(***************************************************************************)
(* No directory of an image has two entries of one name, as the format     *)
(* promises and the code does not check.  The machine does not need it;    *)
(* that everything is extracted does, for the second of two files of one   *)
(* name is written over the first.                                         *)
(***************************************************************************)
NamesDiffer ==
    \A im \in Images : \A d \in DOMAIN im.kind : \A j, k \in DOMAIN im.entries[d] :
        im.entries[d][j].name = im.entries[d][k].name => j = k

VARIABLES dpc,     \* where the last frame stands
          stack,   \* frames: inode_ref, output_dir, entries read so far
          visited, \* squash_visited_inodes_t
          home,    \* history: the output_dir of each visited reference
          cut      \* history: a squash_readdir error ended a directory's loop

dirVars == <<dpc, stack, visited, home, cut>>
allVars == <<vars, dirVars>>

Top == Last(stack)
Frame(ref, path) == [ref |-> ref, path |-> path, index |-> 0]
EntriesOf(d) == image.entries[d]
Entry == EntriesOf(Top.ref)[Top.index]
EntryPath == Append(Top.path, Entry.name)

IsDirectory(ref) == image.kind[ref] \in {"dir", "sealed"}

-----------------------------------------------------------------------------
Start ==
    /\ image \in Images
    /\ out \in HostTrees
    /\ live = NothingLive
    /\ fpc = "idle"
    /\ job \in [ref : {image.start}, path : Targets]
    /\ offset = 0 /\ pending = 0 /\ unflushed = FALSE
    /\ ret = "none"
    /\ dpc = "start"
    /\ stack = <<>>
    /\ visited = {}
    /\ home = <<>>
    /\ cut = FALSE

\* return e from the running frame, having released `freed'.
Leave(e, freed) ==
    /\ ret' = e
    /\ live' = Freed(freed)
    /\ stack' = Front(stack)
    /\ dpc' = IF Len(stack) = 1 THEN "finish" ELSE "after"
    /\ UNCHANGED <<image, fileVars, visited, home>>

\* squash_extract_directory up to the recursive call: lookup and malloc.
Begin ==
    /\ dpc = "start"
    /\ \/ /\ dpc' = "enter"
          /\ stack' = <<Frame(job.ref, job.path)>>
          /\ live' = Taken({"visited"})
          /\ UNCHANGED ret
       \/ /\ dpc' = "done"
          /\ ret' \in LibraryErrors \cup {"NOT_FOUND"}
          /\ UNCHANGED <<stack, live>>
    /\ UNCHANGED <<image, out, fileVars, visited, home, cut>>

\* A directory met before is skipped with SQUASH_OK.
EnterVisited ==
    /\ dpc = "enter"
    /\ Top.ref \in visited
    /\ Leave("OK", {})
    /\ UNCHANGED <<out, cut>>

\* Mutant of Enter: recorded, but entered again when met again.
EnterUnchecked ==
    /\ dpc = "enter"
    /\ visited' = visited \cup {Top.ref}
    /\ home' = [d \in visited' |-> IF d = Top.ref THEN Top.path ELSE home[d]]
    /\ dpc' = "read"
    /\ UNCHANGED <<vars, stack, cut>>

Enter ==
    /\ dpc = "enter"
    /\ Top.ref \notin visited
    /\ \/ /\ visited' = visited \cup {Top.ref}
          /\ home' = [d \in visited' |-> IF d = Top.ref THEN Top.path ELSE home[d]]
          /\ dpc' = "read"
          /\ UNCHANGED <<image, live, ret, fileVars, stack>>
       \/ Leave("MEMORY", {})
    /\ UNCHANGED <<out, cut>>

\* squash_read_inode and the type check.
ReadDirInode ==
    /\ dpc = "read"
    /\ \/ /\ IsDirectory(Top.ref)
          /\ live' = Taken({"inode"})
          /\ dpc' = "mkdir"
          /\ UNCHANGED <<image, ret, fileVars, stack, visited, home>>
       \/ Readable(Top.ref) /\ ~IsDirectory(Top.ref) /\ Leave("NOT_DIRECTORY", {})
       \/ \E e \in ReadErrors(Top.ref) : Leave(e, {})
    /\ UNCHANGED <<out, cut>>

MakeDir ==
    /\ dpc = "mkdir"
    /\ \/ /\ Mkdir(Top.path)
          /\ dpc' = "opendir"
          /\ UNCHANGED <<image, live, ret, fileVars, stack, visited, home>>
       \/ MkdirMayFail(Top.path) /\ Leave("IO", {"inode"}) /\ UNCHANGED out
    /\ UNCHANGED cut

\* Mutant of OpenDir: closedir is called on the iterator that was not opened.
OpenDirClosesAnyway ==
    /\ dpc = "opendir"
    /\ \E e \in LibraryErrors : Leave(e, {"inode", "iterator"})
    /\ UNCHANGED <<out, cut>>

OpenDir ==
    /\ dpc = "opendir"
    /\ \/ /\ image.kind[Top.ref] = "dir"
          /\ live' = Taken({"iterator"})
          /\ dpc' = "readdir"
          /\ UNCHANGED <<image, ret, fileVars, stack, visited, home>>
       \/ image.kind[Top.ref] = "sealed" /\ Leave("INVALID_FILE", {"inode"})
       \/ \E e \in LibraryErrors : Leave(e, {"inode"})
    /\ UNCHANGED <<out, cut>>

\* Mutant of Advanced: current_entry_index is set to 1, not incremented.
SetToOne == [stack EXCEPT ![Len(stack)].index = 1]

Advanced == [stack EXCEPT ![Len(stack)].index = @ + 1]

\* squash_readdir returns the next entry and moves past it.
NextEntry ==
    /\ dpc = "readdir"
    /\ Top.index < Len(EntriesOf(Top.ref))
    /\ stack' = Advanced
    /\ live' = Taken({"entry"})
    /\ dpc' = "entry"
    /\ UNCHANGED <<image, out, ret, fileVars, visited, home, cut>>

\* Mutant of EndOfDirectory: the last entry is not returned.
EndsOneEarly ==
    /\ dpc = "readdir"
    /\ Top.index + 1 >= Len(EntriesOf(Top.ref))
    /\ Leave("OK", {"iterator", "inode"})
    /\ UNCHANGED <<out, cut>>

EndOfDirectory ==
    /\ dpc = "readdir"
    /\ Top.index = Len(EntriesOf(Top.ref))
    /\ Leave("OK", {"iterator", "inode"})
    /\ UNCHANGED <<out, cut>>

\* squash_readdir returns SQUASH_ERROR_MEMORY: the loop's condition fails as
\* it does at the end of the directory, and the function returns SQUASH_OK.
ReadDirFails ==
    /\ dpc = "readdir"
    /\ Top.index < Len(EntriesOf(Top.ref))
    /\ cut' = TRUE
    /\ Leave("OK", {"iterator", "inode"})
    /\ UNCHANGED out

\* Mutant of EntryFails: no closedir on the way out.
EntryFailsKeepsIterator ==
    /\ dpc = "entry"
    /\ Leave("MEMORY", {"entry", "inode"})
    /\ UNCHANGED <<out, cut>>

\* malloc of the entry's output path, then squash_read_inode of the entry.
EntryFails ==
    /\ dpc = "entry"
    /\ \/ Leave("MEMORY", {"entry", "iterator", "inode"})
       \/ \E e \in ReadErrors(Entry.ref) : Leave(e, {"entry", "iterator", "inode"})
    /\ UNCHANGED <<out, cut>>

EntryRead(kinds) ==
    /\ dpc = "entry"
    /\ image.kind[Entry.ref] \in kinds
    /\ live' = Taken({"path", "inode"})
    /\ UNCHANGED <<image, out, visited, home, cut>>

Descend ==
    /\ EntryRead({"dir", "sealed"})
    /\ stack' = Append(stack, Frame(Entry.ref, EntryPath))
    /\ dpc' = "enter"
    /\ UNCHANGED <<ret, fileVars>>

ExtractFile ==
    /\ EntryRead({"file"})
    /\ job' = [ref |-> Entry.ref, path |-> EntryPath]
    /\ offset' = 0
    /\ fpc' = "read"
    /\ dpc' = "after"
    /\ UNCHANGED <<ret, pending, unflushed, stack>>

\* Symlinks and special files are neither extracted nor reported.
SkipOther ==
    /\ EntryRead({"other"})
    /\ ret' = "OK"
    /\ dpc' = "after"
    /\ UNCHANGED <<fileVars, stack>>

\* Mutant of AfterEntry: the loop goes on whatever the entry returned.
AfterEntryGoesOn ==
    /\ dpc = "after" /\ fpc = "idle"
    /\ live' = Freed({"path", "inode", "entry"})
    /\ dpc' = "readdir"
    /\ UNCHANGED <<image, out, ret, fileVars, stack, visited, home, cut>>

\* The entry's path, inode and copy are released; an error ends the loop.
AfterEntry ==
    /\ dpc = "after" /\ fpc = "idle"
    /\ live' = Freed({"path", "inode", "entry"})
    /\ dpc' = IF ret = "OK" THEN "readdir" ELSE "unwind"
    /\ UNCHANGED <<image, out, ret, fileVars, stack, visited, home, cut>>

Unwind ==
    /\ dpc = "unwind"
    /\ Leave(ret, {"iterator", "inode"})
    /\ UNCHANGED <<out, cut>>

\* squash_visited_inodes_free and the return to the caller.
Finish ==
    /\ dpc = "finish"
    /\ live' = Freed({"visited"})
    /\ dpc' = "done"
    /\ UNCHANGED <<image, out, ret, fileVars, stack, visited, home, cut>>

FileStep == FileNext /\ UNCHANGED dirVars

DirNext ==
    \/ Begin \/ EnterVisited \/ Enter \/ ReadDirInode \/ MakeDir \/ OpenDir
    \/ NextEntry \/ EndOfDirectory \/ ReadDirFails \/ EntryFails
    \/ Descend \/ ExtractFile \/ SkipOther \/ AfterEntry \/ Unwind \/ Finish

ExtractNext == DirNext \/ FileStep

Spec == Start /\ [][ExtractNext]_allVars

\* One thread that keeps running: every library and host call returns.
FairSpec == Spec /\ WF_allVars(ExtractNext)

-----------------------------------------------------------------------------
DirTypeOK ==
    /\ FileTypeOK
    /\ dpc \in {"start", "enter", "read", "mkdir", "opendir", "readdir", "entry",
                "after", "unwind", "finish", "done"}
    /\ stack \in Seq([ref : Refs, path : Seq(STRING), index : Nat])
    /\ (stack = <<>>) <=> dpc \in {"start", "finish", "done"}
    /\ visited \subseteq Refs
    /\ DOMAIN home = visited
    /\ cut \in BOOLEAN

(***************************************************************************)
(* Resource balance of the recursion: every suspended frame holds its      *)
(* inode, its iterator and one entry with that entry's path and inode; the *)
(* running frame holds what its position says.  At "done" that is nothing, *)
(* whichever call failed and however deep (squash_utils.c 577-710).        *)
(***************************************************************************)
One(condition) == IF condition THEN 1 ELSE 0
Suspended == IF stack = <<>> THEN 0 ELSE Len(stack) - 1
Running == dpc \in {"mkdir", "opendir", "readdir", "entry", "after", "unwind"}
Held(r) ==
    CASE r = "visited"  -> One(dpc \notin {"start", "done"})
      [] r = "inode"    -> 2 * Suspended + One(Running) + One(dpc = "after") + One(FileHolds(r))
      [] r = "iterator" -> Suspended + One(dpc \in {"readdir", "entry", "after", "unwind"})
      [] r = "entry"    -> Suspended + One(dpc \in {"entry", "after"})
      [] r = "path"     -> Suspended + One(dpc = "after")
      [] r \in {"stream", "buffer"} -> One(FileHolds(r))
HoldsExactly == live = [r \in Resources |-> Held(r)]

(***************************************************************************)
(* The recursion never re-enters a directory it is inside of, so its depth *)
(* is bounded by the directories of the image, whatever cycles the entries *)
(* make (the check at 583).                                                *)
(***************************************************************************)
NoReentry ==
    \A i, j \in 1 .. Len(stack) :
        i < j /\ ~(j = Len(stack) /\ dpc = "enter") => stack[i].ref # stack[j].ref

(***************************************************************************)
(* The directories below r: the least set with r in it that is closed      *)
(* under directory entries.                                                *)
(***************************************************************************)
Subdirs(d) ==
    {c \in Refs : IsDirectory(c) /\ \E k \in DOMAIN EntriesOf(d) : EntriesOf(d)[k].ref = c}
ClosedUnderSubdirs(S) == \A d \in S : Subdirs(d) \subseteq S
Below(r) ==
    {d \in Refs : \A S \in SUBSET Refs : r \in S /\ ClosedUnderSubdirs(S) => d \in S}

(***************************************************************************)
(* d was given a path of its own on the host, with all of its files in it. *)
(***************************************************************************)
Extracted(d) ==
    /\ d \in visited
    /\ \A k \in DOMAIN EntriesOf(d) :
          LET e == EntriesOf(d)[k] IN
          image.kind[e.ref] = "file" =>
              LET p == Append(home[d], e.name) IN Exists(p) /\ out[p] = Whole(e.ref)

(***************************************************************************)
(* SQUASH_OK means that everything below the start was extracted: each     *)
(* directory once, whatever aliases and cycles lead to it, with its files  *)
(* whole, provided no squash_readdir and no flush in fclose failed.        *)
(***************************************************************************)
ReturnedOK == dpc = "done" /\ ret = "OK"
EverythingExtracted == \A d \in Below(image.start) : Extracted(d)

CompleteUnlessCut == ReturnedOK /\ ~unflushed /\ ~cut => EverythingExtracted

(***************************************************************************)
(* The first failure is the one reported, and nothing is written after it: *)
(* no frame on the way out turns an error into SQUASH_OK or goes on with   *)
(* the next entry.                                                         *)
(***************************************************************************)
Failed == ret \notin {"none", "OK"}
FailureStops == [][Failed => ret' = ret /\ out' = out]_allVars

(***************************************************************************)
(* Extraction ends on every image, cyclic ones included.                   *)
(***************************************************************************)
Terminates == <>(dpc = "done")
=============================================================================
