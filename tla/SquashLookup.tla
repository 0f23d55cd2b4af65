---------------------------- MODULE SquashLookup ----------------------------
(***************************************************************************)
(* squash_lookup_path (src/src/squash_inode.c) and squash_list_directory   *)
(* (src/src/squash_utils.c), which begins with it: both open directories   *)
(* and scan them with the functions of module SquashDirectory.             *)
(*                                                                         *)
(* An image is a record: root; dirs, the directory behind each reference   *)
(* that leads to one; others, the references of inodes of other types;     *)
(* sound.  Any other reference leads to no inode.  A path is the sequence  *)
(* of its components, with bare saying that it is "" or "/".               *)
(***************************************************************************)
EXTENDS SquashDirectory

CONSTANTS Paths,
          LongNames,      \* the components of 1023 bytes and more
          VisitedCapacity \* 16

ASSUME VisitedAssumption == VisitedCapacity \in Nat \ {0}
ASSUME PathsAssumption == \A p \in Paths : p.names \in Seq(STRING) /\ (p.bare => p.names = <<>>)
ASSUME SoundImages ==
    \A i \in Images : i.sound => \A x \in DOMAIN i.dirs :
        /\ i.dirs[x].sound
        /\ \A e \in ToSet(i.dirs[x].listing) :
              /\ e.ref \in DOMAIN i.dirs \cup i.others
              /\ \A f \in ToSet(i.dirs[x].listing) : f.name = e.name => f = e

VARIABLES lpc,
          wants,    \* "reference" or "listing": the function called
          resolved, \* squash_lookup_path has returned to squash_list_directory
          path, k,  \* and the number of components resolved
          ref,      \* *inode_ref
          visited,
          err,
          cut       \* history: an error of squash_readdir ended a scan

lookupVars == <<lpc, wants, resolved, path, k, ref, visited, err, cut>>
vars == <<image, dirVars, live, faulted, ret, lookupVars>>

Init ==
    /\ image \in Images
    /\ DirInit
    /\ live = [r \in Resources |-> 0]
    /\ faulted = FALSE /\ ret = "OK"
    /\ lpc = "idle" /\ wants = "reference" /\ resolved = FALSE
    /\ path = [bare |-> TRUE, names |-> <<>>] /\ k = 0 /\ ref = image.root
    /\ visited = {} /\ err = "none" /\ cut = FALSE

Call(p, w) ==
    /\ lpc = "idle"
    /\ wants' = w /\ path' = p
    /\ lpc' = IF p.bare THEN "resolved" ELSE "visited"
    /\ resolved' = FALSE /\ k' = 0 /\ ref' = image.root
    /\ err' = "OK" /\ cut' = FALSE /\ faulted' = FALSE
    /\ UNCHANGED <<image, dirVars, live, ret, visited>>

Stay == UNCHANGED <<image, dirVars, ret>>
Same == UNCHANGED <<wants, resolved, path, k, ref, visited, cut>>

\* The function returns e; visited and the inode are released where held.
Return(e, inodes) ==
    /\ lpc' = "idle" /\ err' = e
    /\ visited' = {}
    /\ live' = Less([visited |-> live["visited"], inode |-> inodes])
    /\ UNCHANGED <<wants, resolved, path, k, ref, cut>>

InitVisited ==
    /\ lpc = "visited" /\ Stay
    /\ \/ /\ lpc' = "component"
          /\ visited' = {ref}
          /\ live' = Taken("visited")
          /\ UNCHANGED <<faulted, wants, resolved, path, k, ref, err, cut>>
       \/ Return("MEMORY", 0) /\ faulted' = TRUE

Name == path.names[k + 1]

Component ==
    /\ lpc = "component" /\ Stay /\ UNCHANGED faulted
    /\ \/ /\ k = Len(path.names)
          /\ lpc' = "resolved"
          /\ visited' = {} /\ live' = Less([visited |-> 1])
          /\ UNCHANGED <<wants, resolved, path, k, ref, err, cut>>
       \/ /\ k < Len(path.names)
          /\ \/ Name \in LongNames /\ Return("NAME_TOO_LONG", 0)
             \/ Name \notin LongNames /\ lpc' = "inode" /\ Same /\ UNCHANGED <<live, err>>

\* squash_lookup_path has returned OK.
Resolved ==
    /\ lpc = "resolved" /\ Stay /\ UNCHANGED faulted
    /\ \/ wants = "reference" /\ Return("OK", 0)
       \/ /\ wants = "listing"
          /\ lpc' = "inode" /\ resolved' = TRUE
          /\ UNCHANGED <<live, wants, path, k, ref, visited, err, cut>>

ReadInode ==
    /\ lpc = "inode" /\ Stay
    /\ \/ /\ ref \in image.others \cup DOMAIN image.dirs
          /\ lpc' = "type" /\ live' = Taken("inode") /\ Same /\ UNCHANGED <<faulted, err>>
       \/ /\ ref \notin image.others \cup DOMAIN image.dirs
          /\ \E e \in {"INVALID_FILE", "INVALID_INODE"} : Return(e, 0)
          /\ UNCHANGED faulted
       \/ \E e \in {"IO", "MEMORY", "COMPRESSION"} : Return(e, 0) /\ faulted' = TRUE

\* squash_is_directory
TestType ==
    /\ lpc = "type" /\ Stay /\ UNCHANGED faulted
    /\ \/ ref \in DOMAIN image.dirs /\ lpc' = "directory" /\ Same /\ UNCHANGED <<live, err>>
       \/ ref \notin DOMAIN image.dirs /\ Return("NOT_DIRECTORY", 1)

CallOpen ==
    /\ lpc = "directory" /\ OpenDir(image.dirs[ref])
    /\ lpc' = "opening" /\ Same /\ UNCHANGED err

Open == lpc = "opening" /\ Opening /\ UNCHANGED lookupVars

Opened ==
    /\ lpc = "opening" /\ Stay /\ UNCHANGED faulted
    /\ \/ opc = "open" /\ lpc' = "scan" /\ Same /\ UNCHANGED <<live, err>>
       \/ opc = "closed" /\ Return(ret, 1)

Scan ==
    /\ lpc = "scan" /\ ReadDir
    /\ lpc' = "compare" /\ Same /\ UNCHANGED err

\* The loop over the entries ends with e.
EndScan(e) == lpc' = "close" /\ err' = e /\ UNCHANGED <<wants, resolved, path>>

NoEntry ==
    /\ lpc = "compare" /\ answer = Nothing
    /\ EndScan(IF resolved THEN "OK" ELSE "NOT_FOUND")
    /\ cut' = (cut \/ ret # "OK")
    /\ UNCHANGED <<image, dirVars, live, faulted, ret, k, ref, visited>>

Compared == answer # Nothing /\ lpc = "compare" /\ FreeCopy
Matches == ~resolved /\ answer.name = Name
Unchanged == UNCHANGED <<image, dir, opc, cur, rd, group, pending, list, capacity, index, ret>>

NextName ==
    /\ Compared /\ ~Matches /\ Unchanged
    /\ lpc' = "scan" /\ Same /\ UNCHANGED <<faulted, err>>

Revisit ==
    /\ Compared /\ Matches /\ answer.ref \in visited /\ Unchanged
    /\ EndScan("CYCLE_DETECTED")
    /\ UNCHANGED <<faulted, k, ref, visited, cut>>

\* squash_visited_inodes_add reallocates when the array is full.
Full == \E i \in 0 .. Cardinality(visited) : Cardinality(visited) = VisitedCapacity * 2 ^ i

\* Mutant of Found: only the root is remembered.
FoundForgets ==
    /\ Compared /\ Matches /\ answer.ref \notin visited /\ Unchanged
    /\ ref' = answer.ref
    /\ EndScan("OK") /\ k' = k + 1
    /\ UNCHANGED <<visited, faulted, cut>>

Found ==
    /\ Compared /\ Matches /\ answer.ref \notin visited /\ Unchanged
    /\ ref' = answer.ref
    /\ \/ /\ EndScan("OK") /\ k' = k + 1
          /\ visited' = visited \cup {ref'} /\ UNCHANGED <<faulted, cut>>
       \/ Full /\ EndScan("MEMORY") /\ faulted' = TRUE /\ UNCHANGED <<k, visited, cut>>

Close ==
    /\ lpc = "close"
    /\ \/ /\ err = "OK" /\ ~resolved
          /\ lpc' = "component" /\ CloseDir(0) /\ Same /\ UNCHANGED err
       \/ /\ err = "OK" => resolved
          /\ CloseDir(live["visited"])
          /\ lpc' = "idle" /\ visited' = {}
          /\ UNCHANGED <<wants, resolved, path, k, ref, err, cut>>
    /\ UNCHANGED <<ret, faulted>>

Step ==
    \/ InitVisited \/ Component \/ Resolved \/ ReadInode \/ TestType \/ CallOpen \/ Open
    \/ Opened \/ Scan \/ NoEntry \/ NextName \/ Revisit \/ Found \/ Close

Next == (\E p \in Paths, w \in {"reference", "listing"} : Call(p, w)) \/ Step

Spec == Init /\ [][Next]_vars

\* A called function runs: its thread is never descheduled for ever.
FairSpec == Spec /\ WF_vars(Step)

-----------------------------------------------------------------------------
TypeOK ==
    /\ DirTypeOK
    /\ lpc \in {"idle", "visited", "component", "resolved", "inode", "type",
                "directory", "opening", "scan", "compare", "close"}
    /\ k \in 0 .. Len(path.names)
    /\ opc # "closed" => lpc \in {"opening", "scan", "compare", "close"}

(***************************************************************************)
(* At each point of a lookup or a listing exactly the allocations that are *)
(* in use are held: whichever early return of squash_opendir (92-373),     *)
(* squash_lookup_path (39-106) or squash_list_directory (725-756) is taken *)
(* releases each block, name, entry, inode and array, and once.            *)
(***************************************************************************)
Holds ==
    [inode |-> One(lpc \in {"type", "directory", "opening", "scan", "compare", "close"}),
     visited |-> One(~resolved /\ lpc \notin {"idle", "visited", "resolved"}),
     data |-> Held, iterator |-> One(opc = "open"), copy |-> One(answer # Nothing),
     name |-> Len(list) + One(opc \in {"name", "add"}),
     entry |-> Len(list) + One(opc = "add"), array |-> One(capacity > 0)]
HoldsExactly == \A r \in Resources : live[r] = Holds[r]

(***************************************************************************)
(* In a sound image squash_lookup_path (6-107) answers as the tree says:   *)
(* the reference at the end of the path, NOT_FOUND, NOT_DIRECTORY,         *)
(* NAME_TOO_LONG at the first component that deserves it, CYCLE_DETECTED   *)
(* when a reference comes twice; INVALID_FILE at a directory with a FIFO   *)
(* or a socket.  Otherwise the host failed, and the answer says so, except *)
(* that an entry squash_readdir could not copy is NOT_FOUND (72).  What a  *)
(* directory inode says is taken to be what is stored: not so of extended  *)
(* ones (OkMeansDirectoryAsStored of module SquashInode).                  *)
(***************************************************************************)
Listing(r) == ToSet(image.dirs[r].listing)
EntryIn(r, name) == CHOOSE e \in Listing(r) : e.name = name

\* What a walk along the first components, over the references refs, comes to.
WalkEnd(refs) ==
    LET n == Len(refs)
        here == refs[n]
        name == path.names[n]
    IN  CASE n = Len(path.names) + 1 -> "OK"
          [] OTHER ->
             IF name \in LongNames THEN "NAME_TOO_LONG"
             ELSE IF here \notin DOMAIN image.dirs THEN "NOT_DIRECTORY"
             ELSE IF image.dirs[here].special THEN "INVALID_FILE"
             ELSE IF name \notin {e.name : e \in Listing(here)} THEN "NOT_FOUND"
             ELSE IF EntryIn(here, name).ref \in ToSet(refs) THEN "CYCLE_DETECTED"
             ELSE "more"
Walks ==
    LET Refs == DOMAIN image.dirs \cup image.others IN
    {refs \in UNION {[1 .. n -> Refs] : n \in 1 .. Len(path.names) + 1} :
        /\ refs[1] = image.root
        /\ \A n \in 1 .. Len(refs) - 1 :
              /\ WalkEnd(SubSeq(refs, 1, n)) = "more"
              /\ refs[n + 1] = EntryIn(refs[n], path.names[n]).ref}
Answered == lpc = "idle" /\ err # "none" /\ image.sound
LookupIsExact ==
    Answered /\ wants = "reference" =>
        \/ \E refs \in Walks : err = WalkEnd(refs) /\ (err = "OK" => ref = Last(refs))
        \/ faulted /\ err \in {"IO", "MEMORY", "COMPRESSION"}
        \/ cut /\ err = "NOT_FOUND"

(***************************************************************************)
(* squash_list_directory that returns OK has gone through every entry, or  *)
(* an entry could not be copied: its loop (squash_utils.c 749-753) takes   *)
(* any error of squash_readdir for the end, and OK is returned.            *)
(***************************************************************************)
ListedUnlessCut == lpc = "close" /\ resolved /\ ~cut => index = Len(list)

(***************************************************************************)
(* Every call returns: through directories that contain each other, blocks *)
(* that are missing and headers that lie about their count.                *)
(***************************************************************************)
CallReturns == lpc # "idle" ~> lpc = "idle"
=============================================================================
