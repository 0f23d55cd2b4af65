---------------------- MODULE SquashExtractFile_proofs ----------------------
(***************************************************************************)
(* One file extraction on every image and every host: SQUASH_OK means the  *)
(* file is there, and nothing else on the host is rewritten.               *)
(***************************************************************************)
EXTENDS SquashExtractFile, TLAPS

(***************************************************************************)
(* The host's file lags behind what was handed to fwrite by what stdio     *)
(* holds back (Written); only what fclose adds makes the two equal.  From  *)
(* the test of the inode on, the job is a regular file (Tested).           *)
(***************************************************************************)
Typed ==
    /\ image \in Images
    /\ job \in [ref : Refs, path : Targets]
    /\ fpc \in {"idle", "read", "parent", "open", "buffer", "copy"}
    /\ pending \in {0, 1}
    /\ offset \in Nat /\ offset <= image.blocks[job.ref]

Tested == fpc \in {"parent", "open", "buffer", "copy"} => image.kind[job.ref] = "file"

Written ==
    /\ fpc \in {"read", "parent", "open", "buffer"} => offset = 0 /\ pending = 0
    /\ fpc \in {"buffer", "copy"} =>
          /\ job.path \in DOMAIN out
          /\ out[job.path] = Content(job.ref, offset - pending)

IInv == Typed /\ FileReleasesAll /\ Tested /\ Written /\ DeliveredUnlessUnflushed

LEMMA Blocks ==
    ASSUME image \in Images, NEW ref \in Refs
    PROVE  image.blocks[ref] \in Nat
BY ImagesAssumption DEF Refs

LEMMA NotADirectory ==
    ASSUME NEW ref, NEW n
    PROVE  Content(ref, n).type # "dir" /\ Content(ref, n).blocks = n
BY DEF Content

-----------------------------------------------------------------------------
LEMMA StaysTyped ==
    ASSUME Typed, [Next]_vars
    PROVE  Typed'
<1> USE DEF Typed, Refs
<1>1. ASSUME NEW ref \in Refs, NEW path \in Targets, Call(ref, path) PROVE Typed'
  BY <1>1, Blocks DEF Call
<1>2. CASE FReadInode
  BY <1>2 DEF FReadInode, FLeave
<1>3. CASE FMakeParent
  BY <1>3 DEF FMakeParent, FLeave
<1>4. CASE FOpen
  BY <1>4 DEF FOpen, FLeave
<1>5. CASE FBuffer
  BY <1>5 DEF FBuffer, FClose, FLeave
<1>6. CASE FCopyBlock
  BY <1>6, Blocks DEF FCopyBlock, FClose, FLeave
<1>7. CASE FFinish
  BY <1>7 DEF FFinish, FClose, FLeave
<1>8. CASE UNCHANGED vars
  BY <1>8 DEF vars, fileVars
<1> QED BY <1>1, <1>2, <1>3, <1>4, <1>5, <1>6, <1>7, <1>8 DEF Next, FileNext

LEMMA StaysBalanced ==
    ASSUME Typed, FileReleasesAll, [Next]_vars
    PROVE  FileReleasesAll'
<1> USE DEF Typed, FileReleasesAll, FileHolds, Resources, Taken, Freed
<1>1. ASSUME NEW ref, NEW path, Call(ref, path) PROVE FileReleasesAll'
  BY <1>1 DEF Call
<1>2. CASE FReadInode
  BY <1>2 DEF FReadInode, FLeave
<1>3. CASE FMakeParent
  BY <1>3 DEF FMakeParent, FLeave
<1>4. CASE FOpen
  BY <1>4 DEF FOpen, FLeave
<1>5. CASE FBuffer
  BY <1>5 DEF FBuffer, FClose, FLeave
<1>6. CASE FCopyBlock
  BY <1>6 DEF FCopyBlock, FClose, FLeave
<1>7. CASE FFinish
  BY <1>7 DEF FFinish, FClose, FLeave
<1>8. CASE UNCHANGED vars
  BY <1>8 DEF vars, fileVars
<1> QED BY <1>1, <1>2, <1>3, <1>4, <1>5, <1>6, <1>7, <1>8 DEF Next, FileNext

LEMMA StaysTested ==
    ASSUME Typed, Tested, [Next]_vars
    PROVE  Tested'
<1> USE DEF Tested
<1>1. ASSUME NEW ref \in Refs, NEW path \in Targets, Call(ref, path) PROVE Tested'
  BY <1>1 DEF Call
<1>2. CASE FileNext
  BY <1>2 DEF FileNext, FReadInode, FMakeParent, FOpen, FBuffer, FCopyBlock, FFinish,
              FClose, FLeave
<1>3. CASE UNCHANGED vars
  BY <1>3 DEF vars, fileVars
<1> QED BY <1>1, <1>2, <1>3 DEF Next

LEMMA StaysWritten ==
    ASSUME Typed, Written, [Next]_vars
    PROVE  Written'
<1> USE DEF Written
<1>1. ASSUME NEW ref \in Refs, NEW path \in Targets, Call(ref, path) PROVE Written'
  BY <1>1 DEF Call
<1>2. CASE FReadInode
  BY <1>2 DEF FReadInode, FLeave
<1>3. CASE FMakeParent
  BY <1>3 DEF FMakeParent, FLeave
<1>4. CASE FOpen
  BY <1>4 DEF FOpen, FLeave, With
<1>5. CASE FBuffer
  BY <1>5 DEF FBuffer, FClose, FLeave
<1>6. CASE FCopyBlock
  <2>1. CASE \E e \in LibraryErrors : FClose(e, {"buffer", "stream", "inode"})
    BY <2>1 DEF FClose, FLeave
  <2>2. ASSUME NEW held \in {0, 1},
               pending' = held, offset' = offset + 1, fpc' = fpc, job' = job,
               out' = [out EXCEPT ![job.path] = Content(job.ref, offset + 1 - held)]
        PROVE  Written'
    <3>1. fpc' = "copy" /\ job.path \in DOMAIN out
      BY <1>6, <2>2 DEF FCopyBlock
    <3>2. offset' - pending' = offset + 1 - held
      BY <2>2 DEF Typed
    <3>3. job'.path \in DOMAIN out' /\ out'[job'.path] = Content(job'.ref, offset + 1 - held)
      BY <2>2, <3>1
    <3>4. Content(job.ref, offset - pending)' = Content(job'.ref, offset + 1 - held)
      BY <3>2
    <3> QED BY <3>1, <3>3, <3>4
  <2> QED BY <1>6, <2>1, <2>2 DEF FCopyBlock
<1>7. CASE FFinish
  BY <1>7 DEF FFinish, FClose, FLeave
<1>8. CASE UNCHANGED vars
  BY <1>8 DEF vars, fileVars
<1> QED BY <1>1, <1>2, <1>3, <1>4, <1>5, <1>6, <1>7, <1>8 DEF Next, FileNext

\* Only the end of the loop returns SQUASH_OK.
LEMMA StaysDelivered ==
    ASSUME IInv, [Next]_vars
    PROVE  DeliveredUnlessUnflushed'
<1> USE DEF DeliveredUnlessUnflushed
<1>1. ASSUME NEW ref \in Refs, NEW path \in Targets, Call(ref, path)
      PROVE  DeliveredUnlessUnflushed'
  BY <1>1 DEF Call
<1>2. CASE FReadInode \/ FMakeParent \/ FOpen \/ FBuffer \/ FCopyBlock
  <2>1. ret' # "OK" \/ fpc' # "idle"
    BY <1>2 DEF FReadInode, FMakeParent, FOpen, FBuffer, FCopyBlock, FClose, FLeave,
                LibraryErrors, ReadErrors
  <2> QED BY <2>1
<1>3. CASE FFinish
  <2>1. /\ image' = image /\ job' = job /\ offset = image.blocks[job.ref]
        /\ \/ out' = [out EXCEPT ![job.path] = Content(job.ref, out[job.path].blocks + pending)]
           \/ unflushed' = TRUE
    BY <1>3 DEF FFinish, FClose, FLeave
  <2>2. job.path \in DOMAIN out /\ out[job.path].blocks = offset - pending
    BY <1>3, NotADirectory DEF FFinish, IInv, Written
  <2>3. out[job.path].blocks + pending = offset
    BY <2>2 DEF IInv, Typed
  <2> QED BY <2>1, <2>2, <2>3 DEF Whole
<1>4. CASE UNCHANGED vars
  BY <1>4 DEF vars, fileVars, IInv, Whole
<1> QED BY <1>1, <1>2, <1>3, <1>4 DEF Next, FileNext

LEMMA IInvHolds == FileSpec => []IInv
<1>1. FileInit => IInv
  <2>1. SUFFICES ASSUME FileInit PROVE IInv
    OBVIOUS
  <2>2. image.start \in Refs /\ image.blocks[image.start] \in Nat
    BY <2>1, ImagesAssumption, Blocks DEF FileInit, Refs
  <2>3. Typed
    BY <2>1, <2>2 DEF FileInit, Typed
  <2>4. FileReleasesAll
    BY <2>1 DEF FileInit, FileReleasesAll, FileHolds, NothingLive
  <2> QED BY <2>1, <2>3, <2>4 DEF FileInit, IInv, Tested, Written, DeliveredUnlessUnflushed
<1>2. IInv /\ [Next]_vars => IInv'
  BY StaysTyped, StaysBalanced, StaysTested, StaysWritten, StaysDelivered DEF IInv
<1> QED BY <1>1, <1>2, PTL DEF FileSpec

-----------------------------------------------------------------------------
(***************************************************************************)
(* Types; never more is handed to fwrite than the file has.                *)
(***************************************************************************)
THEOREM FileTypes == FileSpec => []FileTypeOK
<1>1. IInv => FileTypeOK
  BY DEF IInv, Typed, FileReleasesAll, FileTypeOK
<1> QED BY <1>1, IInvHolds, PTL

(***************************************************************************)
(* Every return of squash_extract_file and squash_extract_file_by_inode    *)
(* has released what the call acquired, once.                              *)
(***************************************************************************)
THEOREM FileBalance == FileSpec => []FileReleasesAll
<1>1. IInv => FileReleasesAll
  BY DEF IInv
<1> QED BY <1>1, IInvHolds, PTL

(***************************************************************************)
(* SQUASH_OK means the whole file is on the host, unless the flush inside  *)
(* the unchecked fclose failed: for files of any number of blocks, however *)
(* stdio distributes its writes.                                           *)
(***************************************************************************)
THEOREM FileDelivered == FileSpec => []DeliveredUnlessUnflushed
<1>1. IInv => DeliveredUnlessUnflushed
  BY DEF IInv
<1> QED BY <1>1, IInvHolds, PTL

(***************************************************************************)
(* No extraction, on any host tree, removes anything from it or changes a  *)
(* file other than its output, and that only once the inode was read and   *)
(* found to be a regular file.                                             *)
(***************************************************************************)
THEOREM OverwritesOnlyItsFile == FileSpec => OverwritesOnlyWithAFile
<1> DEFINE Spares ==
      \A p \in DOMAIN out :
          /\ p \in DOMAIN out'
          /\ out'[p] # out[p] => p = job.path /\ image.kind[job.ref] = "file" /\ ~IsDir(p)
<1>1. ASSUME IInv, Next PROVE Spares
  <2>1. CASE UNCHANGED out
    BY <2>1
  <2>2. CASE FMakeParent /\ ~UNCHANGED out
    BY <2>2 DEF FMakeParent, FLeave, Mkdir, Exists, With
  <2>3. CASE FOpen /\ ~UNCHANGED out
    BY <1>1, <2>3 DEF FOpen, With, IInv, Tested
  <2>4. ASSUME fpc \in {"buffer", "copy"}, NEW node, out' = [out EXCEPT ![job.path] = node]
        PROVE  Spares
    <3>1. ~IsDir(job.path) /\ image.kind[job.ref] = "file"
      BY <1>1, <2>4, NotADirectory DEF IInv, Written, Tested, IsDir
    <3> QED BY <2>4, <3>1
  <2>5. CASE (FBuffer \/ FCopyBlock \/ FFinish) /\ ~UNCHANGED out
    BY <2>4, <2>5 DEF FBuffer, FCopyBlock, FFinish, FClose
  <2> QED BY <1>1, <2>1, <2>2, <2>3, <2>5 DEF Next, FileNext, Call, FReadInode
<1>2. IInv /\ [Next]_vars => [Spares]_vars
  BY <1>1
<1> QED BY <1>2, IInvHolds, PTL DEF FileSpec, OverwritesOnlyWithAFile
=============================================================================
