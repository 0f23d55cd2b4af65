------------------------ MODULE SquashExtract_proofs ------------------------
(***************************************************************************)
(* Extraction of trees, for every image (cyclic or not), every host and    *)
(* every failing call: what is held at each point is exactly accounted     *)
(* for, and no directory is entered twice.                                 *)
(***************************************************************************)
EXTENDS SquashExtract, SequenceTheorems, TLAPS

(***************************************************************************)
(* The recursion.  Shape types the stack and ties the machine of one file  *)
(* to the place of the frame that called it; the counts of HoldsExactly    *)
(* then follow action by action, as the stack changes by one frame.        *)
(***************************************************************************)
FilePlaces == {"idle", "read", "parent", "open", "buffer", "copy"}
DirEntries == [name : STRING, ref : Refs]
Frames == [ref : Refs, path : Seq(STRING), index : Nat]
Empty == {"start", "finish", "done"}
Inside == {"enter", "read", "mkdir", "opendir", "readdir", "entry", "after", "unwind"}
Shape ==
    /\ image \in Images
    /\ stack \in Seq(Frames)
    /\ dpc \in Empty \cup Inside
    /\ (stack = <<>>) <=> dpc \in Empty
    /\ dpc = "entry" => Top.index \in DOMAIN EntriesOf(Top.ref)
    /\ fpc \in FilePlaces
    /\ fpc # "idle" => dpc = "after"
    /\ job \in [ref : Refs, path : Seq(STRING)]
    /\ offset \in Nat /\ offset <= image.blocks[job.ref]
    /\ pending \in {0, 1}
    /\ visited \subseteq Refs /\ DOMAIN home = visited
    /\ cut \in BOOLEAN

LEMMA ImageFacts ==
    ASSUME image \in Images
    PROVE  /\ image.start \in Refs
           /\ \A r \in Refs : image.blocks[r] \in Nat
           /\ \A r \in Refs : EntriesOf(r) \in Seq(DirEntries)
BY ImagesAssumption DEF Refs, EntriesOf, DirEntries

LEMMA ElementOf ==
    ASSUME NEW S, NEW s \in Seq(S), NEW i \in DOMAIN s
    PROVE  s[i] \in S
<1>1. i \in 1 .. Len(s)
  OBVIOUS
<1> QED BY <1>1, ElementOfSeq

LEMMA FrontAndLast ==
    ASSUME NEW S, NEW s \in Seq(S), s # <<>>
    PROVE  /\ Len(s) \in Nat \ {0}
           /\ Last(s) = s[Len(s)] /\ Last(s) \in S
           /\ Front(s) \in Seq(S) /\ Len(Front(s)) = Len(s) - 1
           /\ \A i \in 1 .. Len(s) - 1 : Front(s)[i] = s[i]
<1>1. Len(s) \in Nat \ {0}
  OBVIOUS
<1>2. Last(s) = s[Len(s)] /\ Last(s) \in S
  BY <1>1, ElementOfSeq DEF Last
<1>3. \A i \in 1 .. Len(s) - 1 : s[i] \in S
  BY <1>1, ElementOfSeq
<1>4. /\ SubSeq(s, 1, Len(s) - 1) \in Seq(S)
      /\ Len(SubSeq(s, 1, Len(s) - 1)) = Len(s) - 1
      /\ \A i \in 1 .. Len(s) - 1 : SubSeq(s, 1, Len(s) - 1)[i] = s[i]
  <2> DEFINE n == Len(s) - 1
  <2>1. n \in Int /\ 1 \in Int /\ \A i \in 1 .. n : s[i] \in S
    BY <1>1, <1>3
  <2> HIDE DEF n
  <2>2. /\ SubSeq(s, 1, n) \in Seq(S)
        /\ Len(SubSeq(s, 1, n)) = IF 1 <= n THEN n - 1 + 1 ELSE 0
        /\ \A i \in 1 .. n - 1 + 1 : SubSeq(s, 1, n)[i] = s[1 + i - 1]
    BY <2>1, SubSeqProperties
  <2>3. n >= 0
    BY <1>1 DEF n
  <2>4. /\ SubSeq(s, 1, n) \in Seq(S)
        /\ Len(SubSeq(s, 1, n)) = n
        /\ \A i \in 1 .. n : SubSeq(s, 1, n)[i] = s[i]
    BY <2>1, <2>2, <2>3
  <2> QED BY <2>4 DEF n
<1> QED BY <1>1, <1>2, <1>4 DEF Front

LEMMA StackFacts ==
    ASSUME Shape, stack # <<>>
    PROVE  /\ Len(stack) \in Nat \ {0}
           /\ Top = stack[Len(stack)] /\ Top \in Frames
           /\ Front(stack) \in Seq(Frames)
           /\ Len(Front(stack)) = Len(stack) - 1
           /\ \A i \in 1 .. Len(stack) - 1 : Front(stack)[i] = stack[i]
<1>1. stack \in Seq(Frames) /\ Len(stack) \in Nat \ {0}
  BY DEF Shape
<1> QED BY <1>1, FrontAndLast DEF Top

\* The entry that was read last, once the index has moved past it.
LEMMA EntryFacts ==
    ASSUME Shape, stack # <<>>, Top.index \in DOMAIN EntriesOf(Top.ref)
    PROVE  /\ Entry \in DirEntries
           /\ EntryPath \in Seq(STRING)
<1>1. Top \in Frames
  BY StackFacts
<1>2. EntriesOf(Top.ref) \in Seq(DirEntries)
  BY <1>1, ImageFacts DEF Shape, Frames
<1>3. Entry \in DirEntries
  BY <1>2, ElementOf DEF Entry
<1>4. Top.path \in Seq(STRING)
  BY <1>1 DEF Frames
<1> QED BY <1>3, <1>4 DEF EntryPath, DirEntries

LEMMA PushFacts ==
    ASSUME Shape, NEW f \in Frames
    PROVE  /\ Append(stack, f) \in Seq(Frames)
           /\ Len(Append(stack, f)) = Len(stack) + 1
           /\ Append(stack, f) # <<>>
           /\ Last(Append(stack, f)) = f
           /\ \A i \in 1 .. Len(stack) : Append(stack, f)[i] = stack[i]
<1>1. stack \in Seq(Frames)
  BY DEF Shape
<1>2. /\ Append(stack, f) \in Seq(Frames) /\ Append(stack, f) # <<>>
      /\ Len(Append(stack, f)) = Len(stack) + 1
      /\ \A i \in 1 .. Len(stack) : Append(stack, f)[i] = stack[i]
      /\ Append(stack, f)[Len(stack) + 1] = f
  BY <1>1, AppendProperties
<1> QED BY <1>2 DEF Last

LEMMA AdvanceFacts ==
    ASSUME Shape, stack # <<>>
    PROVE  /\ Advanced \in Seq(Frames)
           /\ Len(Advanced) = Len(stack)
           /\ Advanced # <<>>
           /\ Last(Advanced) = [Top EXCEPT !.index = @ + 1]
           /\ \A i \in 1 .. Len(stack) - 1 : Advanced[i] = stack[i]
<1> DEFINE n == Len(stack)
           f == [Top EXCEPT !.index = @ + 1]
<1>1. n \in Nat \ {0} /\ stack \in Seq(Frames) /\ Top = stack[n] /\ Top \in Frames
  BY StackFacts DEF Shape
<1>2. f \in Frames
  BY <1>1 DEF Frames
<1>3. n \in 1 .. Len(stack)
  BY <1>1
<1>4. Advanced = [stack EXCEPT ![n] = f]
  BY <1>1 DEF Advanced
<1> HIDE DEF f
<1>5. /\ Advanced \in Seq(Frames) /\ Len(Advanced) = Len(stack)
      /\ \A i \in 1 .. Len(stack) : Advanced[i] = IF i = n THEN f ELSE stack[i]
  BY <1>1, <1>2, <1>3, <1>4, ExceptSeq
<1>6. Advanced # <<>> /\ Last(Advanced) = f
  BY <1>1, <1>3, <1>5 DEF Last
<1> QED BY <1>1, <1>5, <1>6 DEF f

-----------------------------------------------------------------------------
(***************************************************************************)
(* Shape, one lemma per way an action changes the stack.                   *)
(***************************************************************************)
\* image does not change, so the types do not.
LEMMA SameImage ==
    ASSUME image' = image
    PROVE  /\ Refs' = Refs /\ Frames' = Frames /\ DirEntries' = DirEntries
           /\ \A r : EntriesOf(r)' = EntriesOf(r)
BY DEF Refs, Frames, DirEntries, EntriesOf

LEMMA LeaveShape ==
    ASSUME Shape, fpc = "idle", dpc \in Inside, NEW e, NEW freed, Leave(e, freed),
           cut' \in BOOLEAN
    PROVE  Shape'
<1>1. /\ image' = image /\ fileVars' = fileVars /\ visited' = visited /\ home' = home
      /\ stack' = Front(stack) /\ dpc' = IF Len(stack) = 1 THEN "finish" ELSE "after"
  BY DEF Leave
<1>2. stack # <<>>
  BY DEF Shape, Inside, Empty
<1>3. stack' \in Seq(Frames) /\ Len(stack') = Len(stack) - 1 /\ Len(stack) \in Nat \ {0}
  BY <1>1, <1>2, StackFacts
<1>4. stack' = <<>> <=> Len(stack) = 1
  BY <1>3
<1> QED BY <1>1, <1>3, <1>4, SameImage DEF Shape, fileVars, Inside, Empty

\* A step of the last frame that leaves the stack alone.
LEMMA PlaceShape ==
    ASSUME Shape, fpc = "idle", dpc \in Inside, dpc' \in Inside \ {"entry"},
           UNCHANGED <<image, fileVars, stack>>,
           visited' \subseteq Refs, DOMAIN home' = visited', cut' = cut
    PROVE  Shape'
<1>1. Refs' = Refs /\ Frames' = Frames
  BY SameImage
<1>2. stack # <<>>
  BY DEF Shape, Inside, Empty
<1> QED BY <1>1, <1>2 DEF Shape, fileVars, Inside, Empty

\* The machine of one file runs below a frame that waits for it.
LEMMA FileShape ==
    ASSUME Shape, FileStep
    PROVE  Shape'
<1>1. dpc = "after" /\ fpc # "idle"
  BY DEF FileStep, FileNext, FReadInode, FMakeParent, FOpen, FBuffer, FCopyBlock, FFinish,
         Shape
<1>2. UNCHANGED dirVars /\ image' = image /\ job' = job
  BY DEF FileStep, FileNext, FReadInode, FMakeParent, FOpen, FBuffer, FCopyBlock, FFinish,
         FClose, FLeave
<1>3. fpc' \in FilePlaces
  BY DEF FileStep, FileNext, FReadInode, FMakeParent, FOpen, FBuffer, FCopyBlock, FFinish,
         FClose, FLeave, FilePlaces, Shape
<1>4. offset' \in Nat /\ offset' <= image.blocks[job.ref]
  BY ImageFacts
     DEF FileStep, FileNext, FReadInode, FMakeParent, FOpen, FBuffer, FCopyBlock, FFinish,
         FClose, FLeave, Shape
<1>5. pending' \in {0, 1}
  BY DEF FileStep, FileNext, FReadInode, FMakeParent, FOpen, FBuffer, FCopyBlock, FFinish,
         FClose, FLeave, Shape
<1> QED BY <1>1, <1>2, <1>3, <1>4, <1>5, SameImage DEF Shape, dirVars

LEMMA StartShape ==
    ASSUME Start
    PROVE  Shape
<1>1. image \in Images /\ image.start \in Refs
  BY ImageFacts DEF Start
<1>2. job \in [ref : Refs, path : Seq(STRING)]
  BY <1>1, HostAssumption DEF Start
<1>3. stack \in Seq(Frames) /\ stack = <<>>
  BY EmptySeq DEF Start
<1>4. image.blocks[job.ref] \in Nat
  BY <1>1, <1>2, ImageFacts
<1>5. DOMAIN home = visited /\ visited \subseteq Refs
  BY DEF Start
<1>6. cut \in BOOLEAN
  BY DEF Start
<1>7. /\ dpc = "start" /\ fpc = "idle" /\ offset = 0 /\ pending = 0
  BY DEF Start
<1> QED BY <1>1, <1>2, <1>3, <1>4, <1>5, <1>6, <1>7 DEF Shape, FilePlaces, Empty, Inside

LEMMA StepShape ==
    ASSUME Shape, [ExtractNext]_allVars
    PROVE  Shape'
<1> USE DEF Inside
<1>1. CASE Begin
  <2>1. UNCHANGED <<image, fileVars, visited, home, cut>> /\ stack = <<>> /\ fpc = "idle"
    BY <1>1 DEF Begin, Shape, Empty
  <2>2. CASE dpc' = "enter" /\ stack' = <<Frame(job.ref, job.path)>>
    <3>1. Frame(job.ref, job.path) \in Frames
      BY DEF Shape, Frame, Frames
    <3>2. stack' \in Seq(Frames) /\ stack' # <<>>
      BY <2>2, <3>1
    <3> QED BY <2>1, <2>2, <3>2, SameImage DEF Shape, fileVars, Empty
  <2>3. CASE dpc' = "done" /\ UNCHANGED stack
    BY <2>1, <2>3, SameImage DEF Shape, fileVars, Empty
  <2> QED BY <1>1, <2>2, <2>3 DEF Begin
<1>2. CASE EnterVisited
  BY <1>2, LeaveShape DEF EnterVisited, Shape
<1>3. CASE Enter
  <2>1. fpc = "idle" /\ cut' = cut /\ stack # <<>>
    BY <1>3 DEF Enter, Shape, Empty
  <2>2. CASE Leave("MEMORY", {})
    BY <1>3, <2>1, <2>2, LeaveShape DEF Enter, Shape
  <2>3. CASE /\ visited' = visited \cup {Top.ref}
             /\ home' = [d \in visited' |-> IF d = Top.ref THEN Top.path ELSE home[d]]
             /\ dpc' = "read"
             /\ UNCHANGED <<image, live, ret, fileVars, stack>>
    <3>1. Top.ref \in Refs
      BY <2>1, StackFacts DEF Frames
    <3>2. visited' \subseteq Refs /\ DOMAIN home' = visited'
      BY <2>3, <3>1 DEF Shape
    <3> QED BY <1>3, <2>1, <2>3, <3>2, PlaceShape DEF Enter
  <2> QED BY <1>3, <2>2, <2>3 DEF Enter
<1>4. CASE ReadDirInode
  BY <1>4, LeaveShape, PlaceShape DEF ReadDirInode, Shape
<1>5. CASE MakeDir
  BY <1>5, LeaveShape, PlaceShape DEF MakeDir, Shape
<1>6. CASE OpenDir
  BY <1>6, LeaveShape, PlaceShape DEF OpenDir, Shape
<1>7. CASE NextEntry
  <2>1. /\ fpc = "idle" /\ stack # <<>> /\ Top \in Frames
        /\ dpc' = "entry" /\ stack' = Advanced
        /\ UNCHANGED <<image, fileVars, visited, home, cut>>
    BY <1>7, StackFacts DEF NextEntry, Shape, Empty
  <2>2. Top' = [Top EXCEPT !.index = @ + 1] /\ stack' \in Seq(Frames) /\ stack' # <<>>
    BY <2>1, AdvanceFacts DEF Top
  <2>3. Top'.index = Top.index + 1 /\ Top'.ref = Top.ref
    BY <2>1, <2>2 DEF Frames
  <2>4. Top'.index \in DOMAIN EntriesOf(Top.ref)
    <3>1. Top.index \in Nat /\ EntriesOf(Top.ref) \in Seq(DirEntries)
      BY <2>1, ImageFacts DEF Shape, Frames
    <3>2. Top.index < Len(EntriesOf(Top.ref))
      BY <1>7 DEF NextEntry
    <3> QED BY <2>3, <3>1, <3>2
  <2>5. Top'.index \in DOMAIN EntriesOf(Top.ref)'
    BY <2>1, <2>3, <2>4 DEF EntriesOf
  <2> QED BY <2>1, <2>2, <2>3, <2>5, SameImage DEF Shape, fileVars, Empty, EntriesOf
<1>8. CASE EndOfDirectory
  BY <1>8, LeaveShape DEF EndOfDirectory, Shape
<1>9. CASE ReadDirFails
  BY <1>9, LeaveShape DEF ReadDirFails, Shape
<1>10. CASE EntryFails
  BY <1>10, LeaveShape DEF EntryFails, Shape
<1>11. CASE Descend
  <2>1. /\ fpc = "idle" /\ stack # <<>> /\ dpc' = "enter" /\ dpc = "entry"
        /\ stack' = Append(stack, Frame(Entry.ref, EntryPath))
        /\ UNCHANGED <<image, fileVars, visited, home, cut>>
    BY <1>11 DEF Descend, EntryRead, Shape, Empty
  <2>2. Entry \in DirEntries /\ EntryPath \in Seq(STRING)
    BY <2>1, EntryFacts DEF Shape
  <2>3. Frame(Entry.ref, EntryPath) \in Frames
    BY <2>2 DEF Frame, Frames, DirEntries
  <2>4. stack' \in Seq(Frames) /\ stack' # <<>>
    BY <2>1, <2>3, PushFacts
  <2> QED BY <2>1, <2>4, SameImage DEF Shape, fileVars, Empty
<1>12. CASE ExtractFile
  <2>1. /\ fpc = "idle" /\ stack # <<>> /\ dpc' = "after" /\ dpc = "entry"
        /\ job' = [ref |-> Entry.ref, path |-> EntryPath] /\ offset' = 0 /\ fpc' = "read"
        /\ UNCHANGED <<image, pending, stack, visited, home, cut>>
    BY <1>12 DEF ExtractFile, EntryRead, Shape, Empty
  <2>2. Entry \in DirEntries /\ EntryPath \in Seq(STRING)
    BY <2>1, EntryFacts DEF Shape
  <2>3. job' \in [ref : Refs, path : Seq(STRING)]
    BY <2>1, <2>2 DEF DirEntries
  <2>4. offset' \in Nat /\ offset' <= image.blocks[job'.ref]
    BY <2>1, <2>3, ImageFacts DEF Shape
  <2> QED BY <2>1, <2>3, <2>4, SameImage DEF Shape, FilePlaces, Empty
<1>13. CASE SkipOther
  BY <1>13, PlaceShape DEF SkipOther, EntryRead, Shape
<1>14. CASE AfterEntry
  BY <1>14, PlaceShape DEF AfterEntry, Shape
<1>15. CASE Unwind
  BY <1>15, LeaveShape DEF Unwind, Shape
<1>16. CASE Finish
  BY <1>16, SameImage DEF Finish, Shape, fileVars, Empty
<1>17. CASE FileStep
  BY <1>17, FileShape
<1>18. CASE UNCHANGED allVars
  BY <1>18, SameImage DEF allVars, vars, fileVars, dirVars, Shape, Top, Last, EntriesOf
<1> QED
  BY <1>1, <1>2, <1>3, <1>4, <1>5, <1>6, <1>7, <1>8, <1>9, <1>10, <1>11, <1>12, <1>13,
     <1>14, <1>15, <1>16, <1>17, <1>18 DEF ExtractNext, DirNext

-----------------------------------------------------------------------------
(***************************************************************************)
(* The balance.  Base is what the frames below the running one hold; a     *)
(* return is balanced when it frees what is held above it.                 *)
(***************************************************************************)
Base(r) ==
    CASE r = "visited" -> 1
      [] r = "inode" -> 2 * Suspended
      [] r \in {"iterator", "entry", "path"} -> Suspended
      [] r \in {"stream", "buffer"} -> 0

LEMMA SuspendedFacts ==
    ASSUME Shape
    PROVE  /\ Suspended \in Nat
           /\ stack # <<>> => Suspended = Len(stack) - 1
<1>1. CASE stack = <<>>
  BY <1>1 DEF Suspended
<1>2. CASE stack # <<>>
  BY <1>2, StackFacts DEF Suspended
<1> QED BY <1>1, <1>2

LEMMA LeaveBalances ==
    ASSUME Shape, HoldsExactly, fpc = "idle", dpc \in Inside,
           NEW e, NEW F, Leave(e, F),
           \A r \in Resources : Held(r) = Base(r) + One(r \in F)
    PROVE  HoldsExactly'
<1>1. stack # <<>> /\ Len(stack) \in Nat \ {0} /\ Suspended = Len(stack) - 1
  BY StackFacts, SuspendedFacts DEF Shape, Inside, Empty
<1>2. /\ live' = Freed(F) /\ fpc' = "idle"
      /\ stack' = Front(stack)
      /\ dpc' = IF Len(stack) = 1 THEN "finish" ELSE "after"
  BY DEF Leave, fileVars
<1>3. /\ Len(stack') = Len(stack) - 1
      /\ stack' = <<>> <=> Len(stack) = 1
  BY <1>1, <1>2, StackFacts
<1>4. Suspended' = IF Len(stack) = 1 THEN 0 ELSE Len(stack) - 2
  BY <1>1, <1>3 DEF Suspended
<1>5. \A r \in Resources : Base(r) \in Nat
  BY SuspendedFacts DEF Base, Resources
<1>6. \A r \in Resources : Held(r)' = Base(r)
  <2>1. Len(stack) = 1 => dpc' = "finish" /\ Suspended' = 0 /\ Suspended = 0
    BY <1>1, <1>2, <1>4
  <2>2. Len(stack) # 1 => dpc' = "after" /\ Suspended \in Nat /\ Suspended' = Suspended - 1
    BY <1>1, <1>2, <1>4
  <2>3. CASE Len(stack) = 1
    BY <1>2, <2>1, <2>3 DEF Held, Base, One, Running, FileHolds, Resources
  <2>4. CASE Len(stack) # 1
    BY <1>2, <2>2, <2>4 DEF Held, Base, One, Running, FileHolds, Resources
  <2> QED BY <2>3, <2>4
<1>7. \A r \in Resources : live'[r] = Base(r)
  BY <1>2, <1>5 DEF HoldsExactly, Freed, One
<1>8. live' = [r \in Resources |-> live'[r]]
  BY <1>2 DEF Freed
<1> QED BY <1>6, <1>7, <1>8 DEF HoldsExactly

HeldIsNat == \A r \in Resources : Held(r) \in Nat
LEMMA HeldNat == Shape => HeldIsNat
BY SuspendedFacts DEF HeldIsNat, Held, One, Resources

\* A step that keeps the depth of the stack takes or frees as its place says.
LEMMA TakeBalances ==
    ASSUME Shape, HoldsExactly, NEW S, live' = Taken(S),
           \A r \in Resources : Held(r)' = Held(r) + One(r \in S)
    PROVE  HoldsExactly'
<1>1. live' = [r \in Resources |-> IF r \in S THEN live[r] + 1 ELSE live[r]]
  BY DEF Taken
<1>2. \A r \in Resources : live[r] = Held(r)
  BY DEF HoldsExactly
<1>3. \A r \in Resources : Held(r)' = IF r \in S THEN Held(r) + 1 ELSE Held(r)
  BY HeldNat DEF One, HeldIsNat
<1> QED BY <1>1, <1>2, <1>3 DEF HoldsExactly

LEMMA FreeBalances ==
    ASSUME Shape', HoldsExactly, NEW S, live' = Freed(S),
           \A r \in Resources : Held(r) = Held(r)' + One(r \in S)
    PROVE  HoldsExactly'
<1>1. live' = [r \in Resources |-> IF r \in S THEN live[r] - 1 ELSE live[r]]
  BY DEF Freed
<1>2. \A r \in Resources : live[r] = Held(r)
  BY DEF HoldsExactly
<1>3. HeldIsNat'
  BY HeldNat, PTL
<1>4. \A r \in Resources : Held(r)' = IF r \in S THEN Held(r) - 1 ELSE Held(r)
  BY <1>3 DEF One, HeldIsNat
<1> QED BY <1>1, <1>2, <1>4 DEF HoldsExactly

\* An action that takes and frees nothing and does not move what Held counts.
LEMMA SameBalances ==
    ASSUME HoldsExactly, live' = live, \A r \in Resources : Held(r)' = Held(r)
    PROVE  HoldsExactly'
BY DEF HoldsExactly

\* The machine of one file takes and frees as its place says.
LEMMA FileStepBalance ==
    ASSUME Shape, HoldsExactly, FileStep
    PROVE  HoldsExactly'
<1>1. UNCHANGED dirVars /\ dpc = "after"
  BY DEF FileStep, FileNext, FReadInode, FMakeParent, FOpen, FBuffer, FCopyBlock, FFinish,
         Shape
<1>2. dpc' = "after" /\ Suspended' = Suspended /\ Suspended \in Nat
  BY <1>1, SuspendedFacts DEF dirVars, Suspended
<1>3. Shape'
  BY FileShape
<1>4. ASSUME live' = live, \A r \in Resources : FileHolds(r)' <=> FileHolds(r)
      PROVE  HoldsExactly'
  <2>1. \A r \in Resources : Held(r)' = Held(r)
    BY <1>1, <1>2, <1>4 DEF Held, One, Running, Resources
  <2> QED BY <1>4, <2>1, SameBalances
<1>5. ASSUME NEW S, live' = Taken(S),
             \A r \in Resources : ~(FileHolds(r) /\ r \in S),
             \A r \in Resources : FileHolds(r)' <=> FileHolds(r) \/ r \in S,
             S \subseteq {"inode", "stream", "buffer"}
      PROVE  HoldsExactly'
  <2>1. \A r \in Resources : Held(r)' = Held(r) + One(r \in S)
    BY <1>1, <1>2, <1>5 DEF Held, One, Running, Resources
  <2> QED BY <1>5, <2>1, TakeBalances
<1>6. ASSUME NEW S, live' = Freed(S),
             \A r \in Resources : ~FileHolds(r)',
             \A r \in Resources : FileHolds(r) <=> r \in S,
             S \subseteq {"inode", "stream", "buffer"}
      PROVE  HoldsExactly'
  <2>1. \A r \in Resources : Held(r) = Held(r)' + One(r \in S)
    BY <1>1, <1>2, <1>6 DEF Held, One, Running, Resources
  <2> QED BY <1>3, <1>6, <2>1, FreeBalances
<1>7. CASE FReadInode
  <2>1. fpc = "read"
    BY <1>7 DEF FReadInode
  <2>2. CASE fpc' = "parent" /\ live' = Taken({"inode"})
    BY <1>5, <2>1, <2>2 DEF FileHolds, Resources
  <2>3. CASE fpc' = "idle" /\ live' = Freed({})
    BY <1>6, <2>1, <2>3 DEF FileHolds, Resources
  <2> QED BY <1>7, <2>2, <2>3 DEF FReadInode, FLeave
<1>8. CASE FMakeParent
  <2>1. fpc = "parent"
    BY <1>8 DEF FMakeParent
  <2>2. CASE fpc' = "open" /\ live' = live
    BY <1>4, <2>1, <2>2 DEF FileHolds
  <2>3. CASE fpc' = "idle" /\ live' = Freed({"inode"})
    BY <1>6, <2>1, <2>3 DEF FileHolds
  <2> QED BY <1>8, <2>2, <2>3 DEF FMakeParent, FLeave
<1>9. CASE FOpen
  <2>1. fpc = "open"
    BY <1>9 DEF FOpen
  <2>2. CASE fpc' = "buffer" /\ live' = Taken({"stream"})
    BY <1>5, <2>1, <2>2 DEF FileHolds
  <2>3. CASE fpc' = "idle" /\ live' = Freed({"inode"})
    BY <1>6, <2>1, <2>3 DEF FileHolds
  <2> QED BY <1>9, <2>2, <2>3 DEF FOpen, FLeave
<1>10. CASE FBuffer
  <2>1. fpc = "buffer"
    BY <1>10 DEF FBuffer
  <2>2. CASE fpc' = "copy" /\ live' = Taken({"buffer"})
    BY <1>5, <2>1, <2>2 DEF FileHolds
  <2>3. CASE fpc' = "idle" /\ live' = Freed({"stream", "inode"})
    BY <1>6, <2>1, <2>3 DEF FileHolds
  <2> QED BY <1>10, <2>2, <2>3 DEF FBuffer, FClose, FLeave
<1>11. CASE FCopyBlock \/ FFinish
  <2>1. fpc = "copy"
    BY <1>11 DEF FCopyBlock, FFinish
  <2>2. CASE fpc' = fpc /\ live' = live
    BY <1>4, <2>2 DEF FileHolds
  <2>3. CASE fpc' = "idle" /\ live' = Freed({"buffer", "stream", "inode"})
    BY <1>6, <2>1, <2>3 DEF FileHolds
  <2> QED BY <1>11, <2>2, <2>3 DEF FCopyBlock, FFinish, FClose, FLeave
<1> QED BY <1>7, <1>8, <1>9, <1>10, <1>11 DEF FileStep, FileNext

\* A step of the running frame that leaves the stack alone.
LEMMA SameDepth ==
    ASSUME Shape, UNCHANGED <<fpc, stack>>
    PROVE  /\ Suspended' = Suspended /\ Suspended \in Nat
           /\ \A r : FileHolds(r)' <=> FileHolds(r)
BY SuspendedFacts DEF Suspended, FileHolds

LEMMA StepBalance ==
    ASSUME Shape, HoldsExactly, [ExtractNext]_allVars
    PROVE  HoldsExactly'
<1>0. Shape'
  BY StepShape
<1> USE DEF Inside
<1>1. CASE Begin
  <2>1. dpc = "start" /\ fpc = "idle" /\ fpc' = "idle" /\ stack = <<>>
    BY <1>1 DEF Begin, Shape, Empty, fileVars
  <2>2. CASE dpc' = "enter" /\ stack' = <<Frame(job.ref, job.path)>> /\ live' = Taken({"visited"})
    <3>1. Suspended = 0 /\ Suspended' = 0
      BY <2>1, <2>2 DEF Suspended
    <3>2. \A r \in Resources : Held(r)' = Held(r) + One(r \in {"visited"})
      BY <2>1, <2>2, <3>1 DEF Held, One, Running, Resources, FileHolds
    <3> QED BY <2>2, <3>2, TakeBalances
  <2>3. CASE dpc' = "done" /\ UNCHANGED <<stack, live>>
    <3>1. \A r \in Resources : Held(r)' = Held(r)
      BY <2>1, <2>3 DEF Held, One, Running, Resources, FileHolds, Suspended
    <3> QED BY <2>3, <3>1, SameBalances
  <2> QED BY <1>1, <2>2, <2>3 DEF Begin
<1>2. ASSUME fpc = "idle", dpc \in {"enter", "read"}, NEW e, Leave(e, {})
      PROVE  HoldsExactly'
  <2>1. \A r \in Resources : Held(r) = Base(r) + One(r \in {})
    BY <1>2, SuspendedFacts DEF Held, Base, One, Running, Resources, FileHolds
  <2> QED BY <1>2, <2>1, LeaveBalances
<1>3. ASSUME fpc = "idle", dpc \in {"mkdir", "opendir"}, NEW e, Leave(e, {"inode"})
      PROVE  HoldsExactly'
  <2>1. \A r \in Resources : Held(r) = Base(r) + One(r \in {"inode"})
    BY <1>3, SuspendedFacts DEF Held, Base, One, Running, Resources, FileHolds
  <2> QED BY <1>3, <2>1, LeaveBalances
<1>4. ASSUME fpc = "idle", dpc \in {"readdir", "unwind"}, NEW e,
             Leave(e, {"iterator", "inode"})
      PROVE  HoldsExactly'
  <2>1. \A r \in Resources : Held(r) = Base(r) + One(r \in {"iterator", "inode"})
    BY <1>4, SuspendedFacts DEF Held, Base, One, Running, Resources, FileHolds
  <2> QED BY <1>4, <2>1, LeaveBalances
<1>5. ASSUME fpc = "idle", dpc = "entry", NEW e, Leave(e, {"entry", "iterator", "inode"})
      PROVE  HoldsExactly'
  <2>1. \A r \in Resources : Held(r) = Base(r) + One(r \in {"entry", "iterator", "inode"})
    BY <1>5, SuspendedFacts DEF Held, Base, One, Running, Resources, FileHolds
  <2> QED BY <1>5, <2>1, LeaveBalances
<1>6. CASE EnterVisited
  BY <1>2, <1>6 DEF EnterVisited, Shape
<1>7. CASE Enter
  <2>1. CASE Leave("MEMORY", {})
    BY <1>2, <1>7, <2>1 DEF Enter, Shape
  <2>2. CASE dpc' = "read" /\ UNCHANGED <<live, fileVars, stack>>
    <3>1. \A r \in Resources : Held(r)' = Held(r)
      BY <1>7, <2>2, SameDepth DEF Enter, fileVars, Held, One, Running, Resources
    <3> QED BY <2>2, <3>1, SameBalances
  <2> QED BY <1>7, <2>1, <2>2 DEF Enter
<1>8. CASE ReadDirInode
  <2>1. dpc = "read" /\ fpc = "idle"
    BY <1>8 DEF ReadDirInode, Shape
  <2>2. CASE dpc' = "mkdir" /\ live' = Taken({"inode"}) /\ UNCHANGED <<fileVars, stack>>
    <3>1. \A r \in Resources : Held(r)' = Held(r) + One(r \in {"inode"})
      BY <2>1, <2>2, SameDepth DEF fileVars, Held, One, Running, Resources
    <3> QED BY <2>2, <3>1, TakeBalances
  <2> QED BY <1>2, <1>8, <2>1, <2>2 DEF ReadDirInode
<1>9. CASE MakeDir
  <2>1. dpc = "mkdir" /\ fpc = "idle"
    BY <1>9 DEF MakeDir, Shape
  <2>2. CASE dpc' = "opendir" /\ UNCHANGED <<live, fileVars, stack>>
    <3>1. \A r \in Resources : Held(r)' = Held(r)
      BY <2>1, <2>2, SameDepth DEF fileVars, Held, One, Running, Resources
    <3> QED BY <2>2, <3>1, SameBalances
  <2> QED BY <1>3, <1>9, <2>1, <2>2 DEF MakeDir
<1>10. CASE OpenDir
  <2>1. dpc = "opendir" /\ fpc = "idle"
    BY <1>10 DEF OpenDir, Shape
  <2>2. CASE dpc' = "readdir" /\ live' = Taken({"iterator"}) /\ UNCHANGED <<fileVars, stack>>
    <3>1. \A r \in Resources : Held(r)' = Held(r) + One(r \in {"iterator"})
      BY <2>1, <2>2, SameDepth DEF fileVars, Held, One, Running, Resources
    <3> QED BY <2>2, <3>1, TakeBalances
  <2> QED BY <1>3, <1>10, <2>1, <2>2 DEF OpenDir
<1>11. CASE NextEntry
  <2>1. /\ dpc = "readdir" /\ dpc' = "entry" /\ fpc' = fpc
        /\ live' = Taken({"entry"}) /\ stack' = Advanced /\ stack # <<>>
    BY <1>11 DEF NextEntry, Shape, Empty, fileVars
  <2>2. Suspended' = Suspended /\ Suspended \in Nat
    BY <2>1, AdvanceFacts, SuspendedFacts DEF Suspended
  <2>3. \A r \in Resources : Held(r)' = Held(r) + One(r \in {"entry"})
    BY <2>1, <2>2 DEF Held, One, Running, Resources, FileHolds
  <2> QED BY <2>1, <2>3, TakeBalances
<1>12. CASE EndOfDirectory
  BY <1>4, <1>12 DEF EndOfDirectory, Shape
<1>13. CASE ReadDirFails
  BY <1>4, <1>13 DEF ReadDirFails, Shape
<1>14. CASE EntryFails
  BY <1>5, <1>14 DEF EntryFails, Shape
<1>15. CASE Descend
  <2>1. /\ dpc = "entry" /\ dpc' = "enter" /\ fpc' = fpc
        /\ live' = Taken({"path", "inode"}) /\ stack # <<>>
        /\ stack' = Append(stack, Frame(Entry.ref, EntryPath))
    BY <1>15 DEF Descend, EntryRead, Shape, Empty, fileVars
  <2>2. Suspended' = Suspended + 1 /\ Suspended \in Nat
    <3>1. Frame(Entry.ref, EntryPath) \in Frames
      BY <2>1, EntryFacts DEF Shape, Frame, Frames, DirEntries
    <3>2. Len(stack') = Len(stack) + 1 /\ stack' # <<>>
      BY <2>1, <3>1, PushFacts
    <3> QED BY <2>1, <3>2, StackFacts DEF Suspended
  <2>3. \A r \in Resources : Held(r)' = Held(r) + One(r \in {"path", "inode"})
    BY <2>1, <2>2 DEF Held, One, Running, Resources, FileHolds
  <2> QED BY <2>1, <2>3, TakeBalances
<1>16. CASE ExtractFile \/ SkipOther
  <2>1. /\ dpc = "entry" /\ dpc' = "after" /\ fpc = "idle" /\ fpc' \in {"idle", "read"}
        /\ live' = Taken({"path", "inode"}) /\ stack' = stack
    BY <1>16 DEF ExtractFile, SkipOther, EntryRead, Shape, fileVars
  <2>2. Suspended' = Suspended /\ Suspended \in Nat
    BY <2>1, SuspendedFacts DEF Suspended
  <2>3. \A r \in Resources : Held(r)' = Held(r) + One(r \in {"path", "inode"})
    BY <2>1, <2>2 DEF Held, One, Running, Resources, FileHolds
  <2> QED BY <2>1, <2>3, TakeBalances
<1>17. CASE AfterEntry
  <2>1. /\ dpc = "after" /\ dpc' \in {"readdir", "unwind"}
        /\ live' = Freed({"path", "inode", "entry"}) /\ UNCHANGED <<fpc, stack>>
    BY <1>17 DEF AfterEntry, fileVars
  <2>2. \A r \in Resources : Held(r) = Held(r)' + One(r \in {"path", "inode", "entry"})
    BY <1>17, <2>1, SameDepth DEF AfterEntry, Held, One, Running, Resources, FileHolds
  <2> QED BY <1>0, <2>1, <2>2, FreeBalances
<1>18. CASE Unwind
  BY <1>4, <1>18 DEF Unwind, Shape
<1>19. CASE Finish
  <2>1. /\ dpc = "finish" /\ dpc' = "done"
        /\ live' = Freed({"visited"}) /\ UNCHANGED <<fpc, stack>>
    BY <1>19 DEF Finish, fileVars
  <2>2. \A r \in Resources : Held(r) = Held(r)' + One(r \in {"visited"})
    BY <2>1, SameDepth DEF Held, One, Running, Resources
  <2> QED BY <1>0, <2>1, <2>2, FreeBalances
<1>20. CASE FileStep
  BY <1>20, FileStepBalance
<1>21. CASE UNCHANGED allVars
  BY <1>21 DEF allVars, vars, fileVars, dirVars, HoldsExactly, Held, One, Running,
               Suspended, FileHolds
<1> QED
  BY <1>1, <1>6, <1>7, <1>8, <1>9, <1>10, <1>11, <1>12, <1>13, <1>14, <1>15, <1>16,
     <1>17, <1>18, <1>19, <1>20, <1>21 DEF ExtractNext, DirNext

(***************************************************************************)
(* However deep the recursion stands, what is allocated and open is what   *)
(* the frames on the stack account for; when the call has returned, with   *)
(* whatever result, that is nothing.                                       *)
(***************************************************************************)
THEOREM TreeBalance == Spec => []HoldsExactly
<1>1. Start => HoldsExactly
  BY DEF Start, HoldsExactly, NothingLive, Held, One, Running, Suspended, Resources, FileHolds
<1>2. Start => Shape
  BY StartShape
<1>3. Shape /\ HoldsExactly /\ [ExtractNext]_allVars => (Shape /\ HoldsExactly)'
  BY StepShape, StepBalance
<1> QED BY <1>1, <1>2, <1>3, PTL DEF Spec

-----------------------------------------------------------------------------
(***************************************************************************)
(* Re-entry.  NoReentry says nothing of the visited set, so it is not      *)
(* inductive: a frame could be entered for a directory below it that was   *)
(* never recorded.  Recorded adds that every frame past "enter" was.       *)
(***************************************************************************)
Recorded ==
    \A i \in 1 .. Len(stack) :
        i < Len(stack) \/ dpc # "enter" => stack[i].ref \in visited

LEMMA LeaveRecorded ==
    ASSUME Shape, Recorded, NoReentry, stack # <<>>, NEW e, NEW freed, Leave(e, freed)
    PROVE  Recorded' /\ NoReentry'
<1>1. /\ stack' = Front(stack) /\ visited' = visited /\ dpc' # "enter"
  BY DEF Leave
<1>2. /\ Len(stack) \in Nat /\ Len(stack') = Len(stack) - 1
      /\ \A i \in 1 .. Len(stack) - 1 : stack'[i] = stack[i]
  BY <1>1, StackFacts
<1>3. \A i \in 1 .. Len(stack') :
         i \in 1 .. Len(stack) /\ i < Len(stack) /\ stack'[i] = stack[i]
  BY <1>2
<1>4. Recorded'
  BY <1>1, <1>3 DEF Recorded
<1>5. NoReentry'
  <2> SUFFICES ASSUME NEW i \in 1 .. Len(stack'), NEW j \in 1 .. Len(stack'), i < j
               PROVE  stack'[i].ref # stack'[j].ref
    BY DEF NoReentry
  <2>1. /\ i \in 1 .. Len(stack) /\ j \in 1 .. Len(stack) /\ j < Len(stack)
        /\ stack'[i] = stack[i] /\ stack'[j] = stack[j]
    BY <1>3
  <2> QED BY <2>1 DEF NoReentry
<1> QED BY <1>4, <1>5

\* The frames stay, the last one past "enter" or leaving it recorded.
LEMMA StayRecorded ==
    ASSUME Shape, Recorded, NoReentry, dpc # "enter", dpc' # "enter",
           Len(stack') = Len(stack), visited' = visited,
           \A i \in 1 .. Len(stack) : stack'[i].ref = stack[i].ref
    PROVE  Recorded' /\ NoReentry'
BY DEF Recorded, NoReentry

LEMMA EnterRecorded ==
    ASSUME Shape, Recorded, NoReentry, stack # <<>>, stack' = stack, dpc' # "enter",
           Top.ref \notin visited, visited' = visited \cup {Top.ref}
    PROVE  Recorded' /\ NoReentry'
<1>1. Len(stack) \in Nat \ {0} /\ Top = stack[Len(stack)]
  BY StackFacts
<1>2. \A i \in 1 .. Len(stack) : i < Len(stack) => stack[i].ref \in visited
  BY DEF Recorded
<1>3. Recorded'
  BY <1>1, <1>2 DEF Recorded
<1>4. NoReentry'
  <2> SUFFICES ASSUME NEW i \in 1 .. Len(stack), NEW j \in 1 .. Len(stack), i < j
               PROVE  stack[i].ref # stack[j].ref
    BY DEF NoReentry
  <2>1. CASE j < Len(stack)
    BY <2>1 DEF NoReentry
  <2>2. CASE j = Len(stack)
    BY <1>1, <1>2, <2>2
  <2> QED BY <1>1, <2>1, <2>2
<1> QED BY <1>3, <1>4

LEMMA DescendRecorded ==
    ASSUME Shape, Recorded, NoReentry, dpc # "enter", dpc' = "enter", visited' = visited,
           NEW f \in Frames, stack' = Append(stack, f)
    PROVE  Recorded' /\ NoReentry'
<1>1. /\ Len(stack) \in Nat /\ Len(stack') = Len(stack) + 1
      /\ \A i \in 1 .. Len(stack) : stack'[i] = stack[i]
  BY PushFacts DEF Shape
<1>2. \A i \in 1 .. Len(stack') :
         i < Len(stack') => i \in 1 .. Len(stack) /\ stack'[i] = stack[i]
  BY <1>1
<1>3. Recorded'
  BY <1>2 DEF Recorded
<1>4. NoReentry'
  <2> SUFFICES ASSUME NEW i \in 1 .. Len(stack'), NEW j \in 1 .. Len(stack'),
                      i < j, j < Len(stack')
               PROVE  stack'[i].ref # stack'[j].ref
    BY <1>1 DEF NoReentry
  <2>1. /\ i \in 1 .. Len(stack) /\ stack'[i] = stack[i]
        /\ j \in 1 .. Len(stack) /\ stack'[j] = stack[j]
    BY <1>1, <1>2
  <2> QED BY <2>1 DEF NoReentry
<1> QED BY <1>3, <1>4

LEMMA StepRecorded ==
    ASSUME Shape, Recorded, NoReentry, [ExtractNext]_allVars
    PROVE  Recorded' /\ NoReentry'
<1> DEFINE Stays == dpc # "enter" /\ dpc' # "enter" /\ UNCHANGED <<stack, visited>>
<1>1. ASSUME Stays PROVE Recorded' /\ NoReentry'
  BY <1>1, StayRecorded
<1>2. dpc \in Inside => stack # <<>>
  BY DEF Shape, Inside, Empty
<1>3. CASE Begin
  <2>1. CASE stack' = <<Frame(job.ref, job.path)>> /\ dpc' = "enter"
    BY <2>1 DEF Recorded, NoReentry
  <2>2. CASE dpc' = "done" /\ UNCHANGED stack
    BY <1>1, <1>3, <2>2 DEF Begin
  <2> QED BY <1>3, <2>1, <2>2 DEF Begin
<1>4. CASE EnterVisited
  BY <1>2, <1>4, LeaveRecorded DEF EnterVisited, Inside
<1>5. CASE Enter
  BY <1>2, <1>5, LeaveRecorded, EnterRecorded DEF Enter, Inside
<1>6. CASE ReadDirInode
  BY <1>1, <1>2, <1>6, LeaveRecorded DEF ReadDirInode, Inside
<1>7. CASE MakeDir
  BY <1>1, <1>2, <1>7, LeaveRecorded DEF MakeDir, Inside
<1>8. CASE OpenDir
  BY <1>1, <1>2, <1>8, LeaveRecorded DEF OpenDir, Inside
<1>9. CASE NextEntry
  <2>1. /\ stack # <<>> /\ stack' = Advanced /\ visited' = visited
        /\ dpc # "enter" /\ dpc' # "enter"
    BY <1>2, <1>9 DEF NextEntry, Inside
  <2>2. /\ Len(stack) \in Nat \ {0} /\ Top = stack[Len(stack)] /\ Top \in Frames
        /\ Len(stack') = Len(stack)
        /\ Last(stack') = [Top EXCEPT !.index = @ + 1]
        /\ \A i \in 1 .. Len(stack) - 1 : stack'[i] = stack[i]
    BY <2>1, StackFacts, AdvanceFacts
  <2>3. stack'[Len(stack)].ref = stack[Len(stack)].ref
    BY <2>2 DEF Last, Frames
  <2>4. \A i \in 1 .. Len(stack) : stack'[i].ref = stack[i].ref
    BY <2>2, <2>3
  <2> QED BY <2>1, <2>2, <2>4, StayRecorded
<1>10. CASE EndOfDirectory
  BY <1>2, <1>10, LeaveRecorded DEF EndOfDirectory, Inside
<1>11. CASE ReadDirFails
  BY <1>2, <1>11, LeaveRecorded DEF ReadDirFails, Inside
<1>12. CASE EntryFails
  BY <1>2, <1>12, LeaveRecorded DEF EntryFails, Inside
<1>13. CASE Descend
  <2>1. Frame(Entry.ref, EntryPath) \in Frames
    BY <1>2, <1>13, EntryFacts
       DEF Descend, EntryRead, Inside, Shape, Frame, Frames, DirEntries
  <2> QED BY <1>13, <2>1, DescendRecorded DEF Descend, EntryRead
<1>14. CASE ExtractFile \/ SkipOther
  BY <1>1, <1>14 DEF ExtractFile, SkipOther, EntryRead
<1>15. CASE AfterEntry
  BY <1>1, <1>15 DEF AfterEntry
<1>16. CASE Unwind
  BY <1>2, <1>16, LeaveRecorded DEF Unwind, Inside
<1>17. CASE Finish
  BY <1>1, <1>17 DEF Finish
<1>18. CASE FileStep
  <2>1. dpc = "after" /\ UNCHANGED dirVars
    BY <1>18 DEF FileStep, FileNext, FReadInode, FMakeParent, FOpen, FBuffer, FCopyBlock,
                 FFinish, Shape
  <2> QED BY <1>1, <2>1 DEF dirVars
<1>19. CASE UNCHANGED allVars
  BY <1>19 DEF allVars, dirVars, Recorded, NoReentry
<1> QED
  BY <1>3, <1>4, <1>5, <1>6, <1>7, <1>8, <1>9, <1>10, <1>11, <1>12, <1>13, <1>14, <1>15,
     <1>16, <1>17, <1>18, <1>19 DEF ExtractNext, DirNext

(***************************************************************************)
(* On every image, cyclic ones included, the directories the recursion is  *)
(* inside of are all different.                                            *)
(***************************************************************************)
THEOREM NoDirectoryInsideItself == Spec => []NoReentry
<1>1. Start => Shape /\ Recorded /\ NoReentry
  <2>1. Start => Len(stack) = 0
    BY DEF Start
  <2>2. Start => Recorded /\ NoReentry
    BY <2>1 DEF Recorded, NoReentry
  <2> QED BY <2>2, StartShape
<1>2. Shape /\ Recorded /\ NoReentry /\ [ExtractNext]_allVars
      => (Shape /\ Recorded /\ NoReentry)'
  BY StepShape, StepRecorded
<1> QED BY <1>1, <1>2, PTL DEF Spec

-----------------------------------------------------------------------------
(***************************************************************************)
(* Errors.  A failure is only ever seen where the frames return: the place *)
(* after an entry, the way out, the end.                                   *)
(***************************************************************************)
OnTheWayOut == Failed => fpc = "idle" /\ dpc \in {"after", "unwind", "finish", "done"}

\* A return leads to a place on the way out, whatever it returns.
LEMMA LeavesOut ==
    ASSUME fpc = "idle", NEW e, NEW freed, Leave(e, freed)
    PROVE  OnTheWayOut'
BY DEF Leave, OnTheWayOut, fileVars

LEMMA StepOnTheWayOut ==
    ASSUME Shape, OnTheWayOut, [ExtractNext]_allVars
    PROVE  OnTheWayOut'
<1>1. CASE Begin
  BY <1>1 DEF Begin, OnTheWayOut, Failed, Shape, Empty, Inside, fileVars
<1>2. CASE EnterVisited \/ Enter
  BY <1>2, LeavesOut DEF EnterVisited, Enter, OnTheWayOut, Failed, Shape
<1>3. CASE ReadDirInode
  BY <1>3, LeavesOut DEF ReadDirInode, OnTheWayOut, Failed, Shape
<1>4. CASE MakeDir
  BY <1>4, LeavesOut DEF MakeDir, OnTheWayOut, Failed, Shape
<1>5. CASE OpenDir
  BY <1>5, LeavesOut DEF OpenDir, OnTheWayOut, Failed, Shape
<1>6. CASE NextEntry
  BY <1>6 DEF NextEntry, OnTheWayOut, Failed
<1>7. CASE EndOfDirectory \/ ReadDirFails
  BY <1>7, LeavesOut DEF EndOfDirectory, ReadDirFails, Shape
<1>8. CASE EntryFails
  BY <1>8, LeavesOut DEF EntryFails, Shape
<1>9. CASE Descend \/ ExtractFile \/ SkipOther
  BY <1>9 DEF Descend, ExtractFile, SkipOther, EntryRead, OnTheWayOut, Failed
<1>10. CASE AfterEntry
  BY <1>10 DEF AfterEntry, OnTheWayOut, Failed, fileVars
<1>11. CASE Unwind
  BY <1>11, LeavesOut DEF Unwind, Shape
<1>12. CASE Finish
  BY <1>12 DEF Finish, OnTheWayOut, Failed, fileVars
<1>13. CASE FileStep
  <2>1. dpc' = "after" /\ ~Failed
    BY <1>13 DEF FileStep, FileNext, FReadInode, FMakeParent, FOpen, FBuffer, FCopyBlock,
                 FFinish, Shape, dirVars, OnTheWayOut
  <2>2. ret' = ret \/ fpc' = "idle"
    BY <1>13 DEF FileStep, FileNext, FReadInode, FMakeParent, FOpen, FBuffer, FCopyBlock,
                 FFinish, FClose, FLeave
  <2> QED BY <2>1, <2>2 DEF OnTheWayOut, Failed
<1>14. CASE UNCHANGED allVars
  BY <1>14 DEF allVars, vars, fileVars, dirVars, OnTheWayOut, Failed
<1> QED
  BY <1>1, <1>2, <1>3, <1>4, <1>5, <1>6, <1>7, <1>8, <1>9, <1>10, <1>11, <1>12, <1>13,
     <1>14 DEF ExtractNext, DirNext

LEMMA FailedStays ==
    ASSUME Shape, OnTheWayOut, [ExtractNext]_allVars
    PROVE  Failed => ret' = ret /\ out' = out
<1> SUFFICES ASSUME Failed, ExtractNext
             PROVE  ret' = ret /\ out' = out
  BY DEF allVars, vars
<1>1. fpc = "idle" /\ dpc \in {"after", "unwind", "finish", "done"}
  BY DEF OnTheWayOut
<1>2. AfterEntry \/ Unwind \/ Finish
  BY <1>1 DEF ExtractNext, DirNext, FileStep, FileNext, Begin, EnterVisited, Enter,
              ReadDirInode, MakeDir, OpenDir, NextEntry, EndOfDirectory, ReadDirFails,
              EntryFails, Descend, ExtractFile, SkipOther, EntryRead, FReadInode,
              FMakeParent, FOpen, FBuffer, FCopyBlock, FFinish
<1> QED BY <1>2 DEF AfterEntry, Unwind, Finish, Leave

(***************************************************************************)
(* No frame on the way out forgets an error, and nothing more is created   *)
(* or written on the host once a call has failed.                          *)
(***************************************************************************)
THEOREM FirstFailureIsReported == Spec => FailureStops
<1>1. Start => Shape /\ OnTheWayOut
  BY StartShape DEF Start, OnTheWayOut, Failed
<1>2. Shape /\ OnTheWayOut /\ [ExtractNext]_allVars => (Shape /\ OnTheWayOut)'
  BY StepShape, StepOnTheWayOut
<1>3. Shape /\ OnTheWayOut /\ [ExtractNext]_allVars
      => [Failed => ret' = ret /\ out' = out]_allVars
  BY FailedStays
<1> QED BY <1>1, <1>2, <1>3, PTL DEF Spec, FailureStops

-----------------------------------------------------------------------------
(***************************************************************************)
(* Completeness.  What SQUASH_OK promises is about the whole tree, so the  *)
(* invariant says of every entry of every visited directory that it is     *)
(* either handled already or still ahead of a frame on the stack, and what *)
(* is needed to keep that true:                                            *)
(*   Chain    each frame reads the directory of the entry the frame below  *)
(*            it has in its hands, into that entry's path                  *)
(*   Homes    the directories have different places on the host, so that   *)
(*            no file is written over another one                          *)
(*   Writing  what the file being extracted holds so far                   *)
(*   Codes    where a result is looked at, a call has returned one         *)
(***************************************************************************)
\* The set of names; the steps that only move names about need not look into it.
Names == STRING

\* The i-th frame has recorded its directory.
Past(i) == i < Len(stack) \/ dpc # "enter"

\* The entry a frame has in its hands.
EntryAt(f) == EntriesOf(f.ref)[f.index]

Chain ==
    /\ \A i \in 1 .. Len(stack) :
          /\ i < Len(stack) \/ dpc \in {"entry", "after"} =>
                stack[i].index \in DOMAIN EntriesOf(stack[i].ref)
          /\ i < Len(stack) =>
                /\ stack[i + 1].ref = EntryAt(stack[i]).ref
                /\ stack[i + 1].path = Append(stack[i].path, EntryAt(stack[i]).name)
                /\ IsDirectory(stack[i + 1].ref)
          /\ Past(i) => home[stack[i].ref] = stack[i].path
    /\ dpc \in {"enter", "read", "mkdir", "opendir"} => Top.index = 0
    /\ stack # <<>> => stack[1].ref = image.start
    /\ dpc = "start" => job.ref = image.start /\ visited = {}
    /\ Len(stack) = 1 /\ dpc = "enter" => visited = {}

\* d was reached as the k-th entry of p.
Child(d, p, k) ==
    /\ EntriesOf(p)[k].ref = d
    /\ home[d] = Append(home[p], EntriesOf(p)[k].name)

Homes ==
    stack # <<>> =>
        /\ \A d \in visited :
              /\ home[d] \in Seq(Names) /\ Len(home[d]) >= Len(stack[1].path)
              /\ \/ d = image.start /\ home[d] = stack[1].path
                 \/ \E p \in visited : \E k \in DOMAIN EntriesOf(p) : Child(d, p, k)
        /\ \A c, d \in visited : home[c] = home[d] => c = d

Writing ==
    /\ fpc = "idle" => pending = 0
    /\ fpc # "idle" =>
          job = [ref |-> Entry.ref, path |-> EntryPath] /\ image.kind[job.ref] = "file"
    /\ fpc \in {"read", "parent", "open", "buffer"} => offset = 0 /\ pending = 0
    /\ fpc \in {"buffer", "copy"} =>
          Exists(job.path) /\ out[job.path] = Content(job.ref, offset - pending)

Codes ==
    /\ dpc = "after" /\ fpc = "idle" => ret # "none"
    /\ dpc \in {"finish", "done"} => ret # "none"
    /\ dpc = "unwind" => Failed

\* Nothing has failed so far, seen or unseen by the caller.
Good == ~cut /\ ~unflushed /\ ~Failed

\* The k-th entry of d is where it belongs; links and devices belong nowhere.
Handled(d, k) ==
    LET e == EntriesOf(d)[k]
        p == Append(home[d], e.name)
    IN  /\ image.kind[e.ref] = "file" => Exists(p) /\ out[p] = Whole(e.ref)
        /\ IsDirectory(e.ref) => e.ref \in visited

\* A frame on the stack will come to the k-th entry of d, or is at it.
Ahead(d, k) ==
    \E i \in 1 .. Len(stack) :
        /\ Past(i) /\ stack[i].ref = d
        /\ \/ stack[i].index < k
           \/ stack[i].index = k /\ (i < Len(stack) \/ dpc \in {"entry", "after"})

Progress ==
    Good =>
        /\ \A d \in visited : \A k \in DOMAIN EntriesOf(d) : Handled(d, k) \/ Ahead(d, k)
        /\ dpc = "after" /\ fpc = "idle" => Handled(Top.ref, Top.index)
        /\ dpc \in {"finish", "done"} => image.start \in visited

(***************************************************************************)
(* The machine of one file below a frame.                                  *)
(***************************************************************************)
LEMMA FileStepKeeps ==
    ASSUME Shape, FileStep
    PROVE  /\ UNCHANGED <<image, job, dirVars>>
           /\ dpc = "after" /\ fpc # "idle" /\ stack # <<>>
           /\ \A p \in DOMAIN out : p \in DOMAIN out' /\ (p # job.path => out'[p] = out[p])
<1>1. UNCHANGED <<image, job, dirVars>> /\ dpc = "after" /\ fpc # "idle"
  BY DEF FileStep, FileNext, FReadInode, FMakeParent, FOpen, FBuffer, FCopyBlock, FFinish,
         FClose, FLeave, Shape
<1>2. stack # <<>>
  BY <1>1 DEF Shape, Empty
<1>3. \A p \in DOMAIN out : p \in DOMAIN out' /\ (p # job.path => out'[p] = out[p])
  <2>1. CASE FReadInode
    BY <2>1 DEF FReadInode
  <2>2. CASE FMakeParent
    BY <2>2 DEF FMakeParent, Mkdir, With, Exists
  <2>3. CASE FOpen
    BY <2>3 DEF FOpen, With
  <2>4. CASE FBuffer
    BY <2>4 DEF FBuffer, FClose
  <2>5. CASE FCopyBlock
    BY <2>5 DEF FCopyBlock, FClose
  <2>6. CASE FFinish
    BY <2>6 DEF FFinish, FClose
  <2> QED BY <2>1, <2>2, <2>3, <2>4, <2>5, <2>6 DEF FileStep, FileNext
<1> QED BY <1>1, <1>2, <1>3

LEMMA StepCodes ==
    ASSUME Shape, Codes, [ExtractNext]_allVars
    PROVE  Codes'
<1>1. ASSUME NEW e, NEW freed, Leave(e, freed), e # "none" PROVE Codes'
  BY <1>1 DEF Leave, Codes
<1>2. \A ref, e : e \in ReadErrors(ref) => e # "none"
  BY DEF ReadErrors, LibraryErrors
<1>3. CASE Begin
  BY <1>3 DEF Begin, Codes, LibraryErrors
<1>4. CASE EnterVisited \/ Enter
  BY <1>1, <1>4 DEF EnterVisited, Enter, Codes
<1>5. CASE ReadDirInode
  BY <1>1, <1>2, <1>5 DEF ReadDirInode, Codes
<1>6. CASE MakeDir
  BY <1>1, <1>6 DEF MakeDir, Codes
<1>7. CASE OpenDir
  BY <1>1, <1>7 DEF OpenDir, Codes, LibraryErrors
<1>8. CASE NextEntry
  BY <1>8 DEF NextEntry, Codes
<1>9. CASE EndOfDirectory \/ ReadDirFails
  BY <1>1, <1>9 DEF EndOfDirectory, ReadDirFails
<1>10. CASE EntryFails
  BY <1>1, <1>2, <1>10 DEF EntryFails
<1>11. CASE Descend \/ ExtractFile \/ SkipOther
  BY <1>11 DEF Descend, ExtractFile, SkipOther, EntryRead, Codes
<1>12. CASE AfterEntry
  BY <1>12 DEF AfterEntry, Codes, Failed
<1>13. CASE Unwind
  BY <1>1, <1>13 DEF Unwind, Codes, Failed
<1>14. CASE Finish
  BY <1>14 DEF Finish, Codes
<1>15. CASE FileStep
  <2>1. dpc' = "after"
    BY <1>15, FileStepKeeps DEF dirVars
  <2>2. fpc' # "idle" \/ ret' # "none"
    BY <1>15 DEF FileStep, FileNext, FReadInode, FMakeParent, FOpen, FBuffer, FCopyBlock,
                 FFinish, FClose, FLeave, ReadErrors, LibraryErrors, Shape
  <2> QED BY <2>1, <2>2 DEF Codes
<1>16. CASE UNCHANGED allVars
  BY <1>16 DEF allVars, vars, fileVars, dirVars, Codes, Failed
<1> QED
  BY <1>3, <1>4, <1>5, <1>6, <1>7, <1>8, <1>9, <1>10, <1>11, <1>12, <1>13, <1>14, <1>15,
     <1>16 DEF ExtractNext, DirNext

\* While no file is being extracted, the file machine does not move.
LEMMA IdleWriting ==
    ASSUME Writing, fpc = "idle", UNCHANGED fileVars
    PROVE  Writing'
BY DEF Writing, fileVars

LEMMA StepWriting ==
    ASSUME Shape, Writing, [ExtractNext]_allVars
    PROVE  Writing'
<1>1. CASE DirNext /\ ~ExtractFile
  <2>1. fpc = "idle" /\ UNCHANGED fileVars
    BY <1>1 DEF DirNext, Begin, EnterVisited, Enter, ReadDirInode, MakeDir, OpenDir,
                NextEntry, EndOfDirectory, ReadDirFails, EntryFails, Descend, SkipOther,
                EntryRead, AfterEntry, Unwind, Finish, Leave, Shape
  <2> QED BY <2>1, IdleWriting
<1>2. CASE ExtractFile
  <2>1. /\ job' = [ref |-> Entry.ref, path |-> EntryPath] /\ offset' = 0 /\ fpc' = "read"
        /\ pending' = pending /\ fpc = "idle" /\ UNCHANGED <<image, stack>>
        /\ image.kind[Entry.ref] = "file"
    BY <1>2 DEF ExtractFile, EntryRead, Shape
  <2>2. Entry' = Entry /\ EntryPath' = EntryPath
    BY <2>1 DEF Entry, EntryPath, Top, EntriesOf
  <2> QED BY <2>1, <2>2 DEF Writing
<1>3. CASE FileStep
  <2>1. /\ UNCHANGED <<image, job, stack>> /\ fpc # "idle"
        /\ Entry' = Entry /\ EntryPath' = EntryPath
    BY <1>3, FileStepKeeps DEF dirVars, Entry, EntryPath, Top, EntriesOf
  <2>2. CASE FReadInode
    BY <2>1, <2>2 DEF FReadInode, FLeave, Writing
  <2>3. CASE FMakeParent
    BY <2>1, <2>3 DEF FMakeParent, FLeave, Writing
  <2>4. CASE FOpen
    <3>1. CASE FLeave("IO", {"inode"}) /\ UNCHANGED out
      BY <2>1, <2>4, <3>1 DEF FOpen, FLeave, Writing
    <3>2. CASE out' = With(job.path, Content(job.ref, 0)) /\ fpc' = "buffer" /\ offset' = offset
      <4>1. offset' = 0 /\ pending' = 0
        BY <2>4, <3>2 DEF FOpen, Writing
      <4>2. Exists(job.path)' /\ out'[job.path] = Content(job.ref, 0)
        BY <2>1, <3>2 DEF With, Exists
      <4>3. Content(job.ref, offset - pending)' = Content(job.ref, 0)
        BY <2>1, <4>1
      <4> QED BY <2>1, <3>2, <4>1, <4>2, <4>3 DEF Writing
    <3> QED BY <2>4, <3>1, <3>2 DEF FOpen
  <2>5. CASE FBuffer
    BY <2>1, <2>5 DEF FBuffer, FClose, FLeave, Writing, Exists
  <2>6. CASE FCopyBlock
    <3>1. CASE \E e \in LibraryErrors : FClose(e, {"buffer", "stream", "inode"})
      BY <2>1, <3>1 DEF FClose, FLeave, Writing
    <3>2. ASSUME NEW held \in {0, 1},
                 pending' = held, offset' = offset + 1, fpc' = fpc,
                 out' = [out EXCEPT ![job.path] = Content(job.ref, offset + 1 - held)]
          PROVE  Writing'
      <4>1. fpc' = "copy" /\ Exists(job.path)
        BY <2>6, <3>2 DEF FCopyBlock, Writing
      <4>2. offset' - pending' = offset + 1 - held
        BY <3>2 DEF Shape
      <4>3. Exists(job.path)' /\ out'[job.path] = Content(job.ref, offset + 1 - held)
        BY <2>1, <3>2, <4>1 DEF Exists
      <4>4. Content(job.ref, offset - pending)' = Content(job.ref, offset + 1 - held)
        BY <2>1, <4>2
      <4> QED BY <2>1, <4>1, <4>3, <4>4 DEF Writing
    <3> QED BY <2>6, <3>1, <3>2 DEF FCopyBlock
  <2>7. CASE FFinish
    BY <2>1, <2>7 DEF FFinish, FClose, FLeave, Writing
  <2> QED BY <1>3, <2>2, <2>3, <2>4, <2>5, <2>6, <2>7 DEF FileStep, FileNext
<1>4. CASE UNCHANGED allVars
  BY <1>4 DEF allVars, vars, fileVars, dirVars, Writing, Exists, Entry, EntryPath, Top,
              EntriesOf
<1> QED BY <1>1, <1>2, <1>3, <1>4 DEF ExtractNext

\* When the machine of one file ends well, the file of the entry is there.
LEMMA EntryDelivered ==
    ASSUME Shape, Writing, FileStep, fpc' = "idle", Good'
    PROVE  Exists(job.path)' /\ out'[job.path] = Whole(job.ref)
<1>1. ~Failed' /\ ~unflushed' /\ fpc # "idle" /\ job' = job
  BY FileStepKeeps DEF Good
<1>2. FFinish
  BY <1>1 DEF FileStep, FileNext, FReadInode, FMakeParent, FOpen, FBuffer, FCopyBlock,
              FClose, FLeave, ReadErrors, LibraryErrors, Failed
<1>3. /\ offset = image.blocks[job.ref] /\ fpc = "copy"
      /\ out' = [out EXCEPT ![job.path] = Content(job.ref, out[job.path].blocks + pending)]
  BY <1>1, <1>2 DEF FFinish, FClose
<1>4. Exists(job.path) /\ out[job.path] = Content(job.ref, offset - pending)
  BY <1>3 DEF Writing
<1>5. out[job.path].blocks + pending = offset
  BY <1>4 DEF Content, Shape
<1> QED BY <1>1, <1>3, <1>4, <1>5 DEF Exists, Whole

-----------------------------------------------------------------------------
(***************************************************************************)
(* The chain of frames, one lemma per way an action changes the stack.     *)
(***************************************************************************)
LEMMA LeaveChain ==
    ASSUME Shape, Chain, stack # <<>>, NEW e, NEW freed, Leave(e, freed)
    PROVE  Chain'
<1>1. /\ image' = image /\ home' = home /\ stack' = Front(stack)
      /\ dpc' \in {"finish", "after"}
  BY DEF Leave
<1>2. /\ Len(stack) \in Nat \ {0} /\ Len(stack') = Len(stack) - 1
      /\ \A i \in 1 .. Len(stack) - 1 : stack'[i] = stack[i]
      /\ stack' \in Seq(Frames)
  BY <1>1, StackFacts
<1>3. \A i \in 1 .. Len(stack') :
         i \in 1 .. Len(stack) /\ i < Len(stack) /\ stack'[i] = stack[i]
  BY <1>2
<1>4. \A i \in 1 .. Len(stack') : i < Len(stack') => stack'[i + 1] = stack[i + 1]
  BY <1>2
<1>5. stack' # <<>> => stack'[1] = stack[1]
  <2>1. stack' # <<>> => Len(stack') \in Nat \ {0}
    BY <1>2, EmptySeq
  <2> QED BY <1>2, <2>1
<1> QED BY <1>1, <1>3, <1>4, <1>5 DEF Chain, EntryAt, EntriesOf, IsDirectory, Past

LEMMA SameChain ==
    ASSUME Shape, Chain, UNCHANGED <<image, stack, visited, home>>,
           dpc # "enter", dpc' \notin {"start", "enter"},
           dpc' \in {"entry", "after"} => dpc \in {"entry", "after"},
           dpc' \in {"read", "mkdir", "opendir"} => dpc \in {"read", "mkdir", "opendir"}
    PROVE  Chain'
BY DEF Chain, EntryAt, EntriesOf, IsDirectory, Past, Top

LEMMA EnterChain ==
    ASSUME Shape, Recorded, Chain, dpc = "enter", dpc' = "read", Top.ref \notin visited,
           visited' = visited \cup {Top.ref}, UNCHANGED <<image, stack>>,
           home' = [d \in visited' |-> IF d = Top.ref THEN Top.path ELSE home[d]]
    PROVE  Chain'
<1>1. stack # <<>> /\ Len(stack) \in Nat \ {0} /\ Top = stack[Len(stack)]
  BY StackFacts DEF Shape, Empty
<1>2. \A i \in 1 .. Len(stack) : home'[stack[i].ref] = stack[i].path
  <2> SUFFICES ASSUME NEW i \in 1 .. Len(stack)
               PROVE  home'[stack[i].ref] = stack[i].path
    OBVIOUS
  <2>1. CASE i = Len(stack)
    BY <1>1, <2>1
  <2>2. CASE i < Len(stack)
    <3>1. stack[i].ref \in visited /\ home[stack[i].ref] = stack[i].path
      BY <2>2 DEF Recorded, Chain, Past
    <3> QED BY <1>1, <3>1
  <2> QED BY <1>1, <2>1, <2>2
<1> QED BY <1>1, <1>2 DEF Chain, EntryAt, EntriesOf, IsDirectory, Past, Top

LEMMA AdvanceChain ==
    ASSUME Shape, Chain, NextEntry
    PROVE  Chain'
<1>1. /\ dpc = "readdir" /\ stack' = Advanced /\ UNCHANGED <<image, home, visited>>
      /\ dpc' = "entry" /\ stack # <<>>
  BY DEF NextEntry, Shape, Empty
<1>2. /\ Len(stack) \in Nat \ {0} /\ Len(stack') = Len(stack)
      /\ Top = stack[Len(stack)] /\ Top \in Frames /\ stack' # <<>>
      /\ \A i \in 1 .. Len(stack) - 1 : stack'[i] = stack[i]
      /\ stack'[Len(stack)] = [Top EXCEPT !.index = @ + 1]
  BY <1>1, StackFacts, AdvanceFacts DEF Last
<1>3. /\ stack'[Len(stack)].ref = stack[Len(stack)].ref
      /\ stack'[Len(stack)].path = stack[Len(stack)].path
      /\ stack'[Len(stack)].index = Top.index + 1
  BY <1>2 DEF Frames
<1>4. Top.index + 1 \in DOMAIN EntriesOf(Top.ref)
  <2>1. Top.index \in Nat /\ EntriesOf(Top.ref) \in Seq(DirEntries)
    BY <1>2, ImageFacts DEF Shape, Frames
  <2>2. Top.index < Len(EntriesOf(Top.ref))
    BY DEF NextEntry
  <2> QED BY <2>1, <2>2
<1>5. \A i \in 1 .. Len(stack) :
         /\ i < Len(stack) => stack'[i] = stack[i]
         /\ stack'[i].ref = stack[i].ref /\ stack'[i].path = stack[i].path
  <2> SUFFICES ASSUME NEW i \in 1 .. Len(stack)
               PROVE  /\ i < Len(stack) => stack'[i] = stack[i]
                      /\ stack'[i].ref = stack[i].ref /\ stack'[i].path = stack[i].path
    OBVIOUS
  <2>1. CASE i < Len(stack)
    <3>1. i \in 1 .. Len(stack) - 1
      BY <1>2, <2>1
    <3> QED BY <1>2, <3>1
  <2>2. CASE i = Len(stack)
    <3>1. ~(i < Len(stack))
      BY <1>2, <2>2
    <3> QED BY <1>3, <2>2, <3>1
  <2>3. i < Len(stack) \/ i = Len(stack)
    BY <1>2
  <2> QED BY <2>1, <2>2, <2>3
<1>6. \A i \in 1 .. Len(stack) : i < Len(stack) => i + 1 \in 1 .. Len(stack)
  BY <1>2
<1>7. 1 \in 1 .. Len(stack)
  BY <1>2
<1>8. ASSUME NEW i \in 1 .. Len(stack)
      PROVE  stack'[i].index \in DOMAIN EntriesOf(stack'[i].ref)
  <2>1. CASE i = Len(stack)
    BY <1>2, <1>3, <1>4, <2>1
  <2>2. CASE i < Len(stack)
    BY <1>5, <2>2 DEF Chain
  <2> QED BY <1>2, <2>1, <2>2
<1>9. ASSUME NEW i \in 1 .. Len(stack), i < Len(stack)
      PROVE  /\ stack'[i + 1].ref = EntryAt(stack'[i]).ref
             /\ stack'[i + 1].path = Append(stack'[i].path, EntryAt(stack'[i]).name)
             /\ IsDirectory(stack'[i + 1].ref)
  BY <1>5, <1>6, <1>9 DEF Chain
<1>10. \A i \in 1 .. Len(stack) : home[stack'[i].ref] = stack'[i].path
  BY <1>1, <1>5 DEF Chain, Past
<1>11. stack'[1].ref = image.start
  BY <1>1, <1>5, <1>7 DEF Chain
<1> QED
  BY <1>1, <1>2, <1>8, <1>9, <1>10, <1>11 DEF Chain, EntryAt, EntriesOf, IsDirectory, Past

LEMMA DescendChain ==
    ASSUME Shape, Chain, Descend
    PROVE  Chain'
<1> DEFINE f == Frame(Entry.ref, EntryPath)
<1>1. /\ dpc = "entry" /\ dpc' = "enter" /\ stack' = Append(stack, f)
      /\ UNCHANGED <<image, home, visited>> /\ IsDirectory(Entry.ref) /\ stack # <<>>
  BY DEF Descend, EntryRead, IsDirectory, Shape, Empty
<1>2. f \in Frames
  BY <1>1, EntryFacts DEF Shape, Frame, Frames, DirEntries
<1>3. f.ref = Entry.ref /\ f.path = EntryPath /\ f.index = 0
  BY DEF Frame
<1> HIDE DEF f
<1>4. /\ Len(stack) \in Nat \ {0} /\ Len(stack') = Len(stack) + 1 /\ stack' # <<>>
      /\ Top = stack[Len(stack)] /\ Last(stack') = f /\ stack'[Len(stack) + 1] = f
      /\ \A i \in 1 .. Len(stack) : stack'[i] = stack[i]
  <2>1. Len(stack') = Len(stack) + 1 /\ Last(stack') = f
    BY <1>1, <1>2, PushFacts
  <2>2. Last(stack') = stack'[Len(stack')]
    BY DEF Last
  <2> QED BY <1>1, <1>2, <2>1, <2>2, PushFacts, StackFacts
<1>5. ASSUME NEW i \in 1 .. Len(stack') PROVE i < Len(stack') => i \in 1 .. Len(stack)
  BY <1>4
<1>6. ASSUME NEW i \in 1 .. Len(stack') PROVE i < Len(stack) => i + 1 \in 1 .. Len(stack)
  BY <1>4
<1>7. ASSUME NEW i \in 1 .. Len(stack'), i < Len(stack')
      PROVE  stack'[i].index \in DOMAIN EntriesOf(stack'[i].ref)
  BY <1>1, <1>4, <1>5, <1>7 DEF Chain
<1>8. ASSUME NEW i \in 1 .. Len(stack'), i < Len(stack')
      PROVE  /\ stack'[i + 1].ref = EntryAt(stack'[i]).ref
             /\ stack'[i + 1].path = Append(stack'[i].path, EntryAt(stack'[i]).name)
             /\ IsDirectory(stack'[i + 1].ref)
  <2>1. CASE i < Len(stack)
    BY <1>4, <1>5, <1>6, <1>8, <2>1 DEF Chain
  <2>2. CASE i = Len(stack)
    <3>1. stack'[i + 1] = f /\ stack'[i] = Top
      BY <1>4, <1>5, <1>8, <2>2
    <3>2. EntryAt(Top) = Entry
      BY DEF EntryAt, Entry
    <3> QED BY <1>1, <1>3, <3>1, <3>2 DEF EntryPath
  <2> QED BY <1>4, <1>8, <2>1, <2>2
<1>9. \A i \in 1 .. Len(stack') : i < Len(stack') => home[stack'[i].ref] = stack'[i].path
  BY <1>1, <1>4, <1>5 DEF Chain, Past
<1>10. stack'[1].ref = image.start
  BY <1>1, <1>4 DEF Chain
<1>11. Top'.index = 0 /\ Len(stack') # 1
  BY <1>3, <1>4 DEF Top
<1> QED
  BY <1>1, <1>7, <1>8, <1>9, <1>10, <1>11 DEF Chain, EntryAt, EntriesOf, IsDirectory, Past

LEMMA StepChain ==
    ASSUME Shape, Recorded, Chain, [ExtractNext]_allVars
    PROVE  Chain'
<1>1. dpc \in Inside => stack # <<>>
  BY DEF Shape, Inside, Empty
<1>2. CASE Begin
  <2>1. CASE stack' = <<Frame(job.ref, job.path)>> /\ dpc' = "enter"
    <3>1. /\ Len(stack') = 1 /\ stack'[1] = Frame(job.ref, job.path)
          /\ Top' = Frame(job.ref, job.path)
      BY <2>1 DEF Top, Last
    <3>2. job.ref = image.start /\ visited = {} /\ UNCHANGED <<image, visited>>
      BY <1>2 DEF Begin, Chain
    <3>3. \A i \in 1 .. 1 : i = 1
      OBVIOUS
    <3> QED BY <2>1, <3>1, <3>2, <3>3 DEF Chain, Frame, Past
  <2>2. CASE dpc' = "done" /\ UNCHANGED stack
    BY <1>2, <2>2, SameChain DEF Begin
  <2> QED BY <1>2, <2>1, <2>2 DEF Begin
<1>3. CASE EnterVisited
  BY <1>1, <1>3, LeaveChain DEF EnterVisited, Inside
<1>4. CASE Enter
  BY <1>1, <1>4, LeaveChain, EnterChain DEF Enter, Inside
<1>5. CASE ReadDirInode
  BY <1>1, <1>5, LeaveChain, SameChain DEF ReadDirInode, Inside
<1>6. CASE MakeDir
  BY <1>1, <1>6, LeaveChain, SameChain DEF MakeDir, Inside
<1>7. CASE OpenDir
  BY <1>1, <1>7, LeaveChain, SameChain DEF OpenDir, Inside
<1>8. CASE NextEntry
  BY <1>8, AdvanceChain
<1>9. CASE EndOfDirectory \/ ReadDirFails
  BY <1>1, <1>9, LeaveChain DEF EndOfDirectory, ReadDirFails, Inside
<1>10. CASE EntryFails
  BY <1>1, <1>10, LeaveChain DEF EntryFails, Inside
<1>11. CASE Descend
  BY <1>11, DescendChain
<1>12. CASE ExtractFile \/ SkipOther
  BY <1>12, SameChain DEF ExtractFile, SkipOther, EntryRead
<1>13. CASE AfterEntry
  BY <1>13, SameChain DEF AfterEntry
<1>14. CASE Unwind
  BY <1>1, <1>14, LeaveChain DEF Unwind, Inside
<1>15. CASE Finish
  BY <1>15, SameChain DEF Finish
<1>16. CASE FileStep
  BY <1>16, FileStepKeeps, SameChain DEF dirVars
<1>17. CASE UNCHANGED allVars
  BY <1>17 DEF allVars, vars, fileVars, dirVars, Chain, EntryAt, EntriesOf, IsDirectory, Past, Top
<1> QED
  BY <1>2, <1>3, <1>4, <1>5, <1>6, <1>7, <1>8, <1>9, <1>10, <1>11, <1>12, <1>13, <1>14,
     <1>15, <1>16, <1>17 DEF ExtractNext, DirNext

-----------------------------------------------------------------------------
(***************************************************************************)
(* The places on the host.  A path determines the directory and the name   *)
(* it was made of, so two entries with one path are one entry.             *)
(***************************************************************************)
LEMMA DifferentEntries ==
    ASSUME NamesDiffer, Shape, NEW d \in Refs,
           NEW j \in DOMAIN EntriesOf(d), NEW k \in DOMAIN EntriesOf(d),
           EntriesOf(d)[j].name = EntriesOf(d)[k].name
    PROVE  j = k
BY DEF NamesDiffer, Shape, Refs, EntriesOf

LEMMA NameFacts ==
    ASSUME Shape, NEW d \in Refs, NEW k \in DOMAIN EntriesOf(d)
    PROVE  EntriesOf(d)[k] \in DirEntries /\ EntriesOf(d)[k].name \in Names
<1>1. EntriesOf(d) \in Seq(DirEntries)
  BY ImageFacts DEF Shape
<1>2. EntriesOf(d)[k] \in DirEntries
  BY <1>1, ElementOf
<1> QED BY <1>2 DEF DirEntries, Names

LEMMA PathFacts ==
    ASSUME NEW f \in Frames
    PROVE  f.path \in Seq(Names)
BY DEF Frames, Names

\* A directory and the name of an entry are known from the path.
LEMMA PathOfEntry ==
    ASSUME Homes, stack # <<>>,
           NEW c \in visited, NEW d \in visited, NEW x \in Names, NEW y \in Names,
           Append(home[c], x) = Append(home[d], y)
    PROVE  c = d /\ x = y
<1>1. home[c] \in Seq(Names) /\ home[d] \in Seq(Names)
  BY DEF Homes
<1>2. home[c] = home[d] /\ x = y
  BY <1>1, AppendInjective
<1> QED BY <1>2 DEF Homes

LEMMA KeepHomes ==
    ASSUME Homes, UNCHANGED <<image, visited, home>>,
           stack' # <<>> => stack # <<>> /\ stack'[1].path = stack[1].path
    PROVE  Homes'
BY DEF Homes, Child, EntriesOf

LEMMA OneOrMore == \A n \in Nat \ {0} : n = 1 \/ n > 1
OBVIOUS

LEMMA EnterHomes ==
    ASSUME NamesDiffer, Shape, Recorded, Chain, Homes,
           dpc = "enter", Top.ref \notin visited,
           visited' = visited \cup {Top.ref}, UNCHANGED <<image, stack>>,
           home' = [d \in visited' |-> IF d = Top.ref THEN Top.path ELSE home[d]]
    PROVE  Homes'
<1> DEFINE n == Len(stack)
<1>1. /\ stack # <<>> /\ n \in Nat \ {0} /\ Top = stack[n]
      /\ stack \in Seq(Frames) /\ Top \in Frames /\ Top.path \in Seq(Names)
  BY StackFacts, PathFacts DEF Shape, Empty
<1>2. /\ home'[Top.ref] = Top.path
      /\ \A d \in visited : d # Top.ref /\ home'[d] = home[d]
  BY <1>1
<1>3. CASE n = 1
  <2>1. visited = {} /\ Top.ref = image.start /\ stack[1].path = Top.path
    BY <1>1, <1>3 DEF Chain
  <2>2. visited' = {Top.ref}
    BY <2>1
  <2> QED BY <1>1, <1>2, <2>1, <2>2 DEF Homes
<1>4. CASE n > 1
  <2> DEFINE f == stack[n - 1]
  <2>1. n - 1 \in 1 .. Len(stack) /\ n - 1 < Len(stack) /\ (n - 1) + 1 = n
    BY <1>1, <1>4
  <2>2. /\ f.index \in DOMAIN EntriesOf(f.ref)
        /\ Top.ref = EntryAt(f).ref /\ Top.path = Append(f.path, EntryAt(f).name)
        /\ home[f.ref] = f.path /\ f.ref \in visited /\ f.ref \in Refs
    BY <1>1, <2>1 DEF Chain, Recorded, Past, Shape
  <2>3. PICK p, k :
           /\ p \in visited /\ k \in DOMAIN EntriesOf(p)
           /\ p \in Refs /\ EntriesOf(p)[k].name \in Names
           /\ Top.ref = EntriesOf(p)[k].ref /\ Top.path = Append(home[p], EntriesOf(p)[k].name)
    BY <2>2, NameFacts DEF EntryAt
  <2> DEFINE name == EntriesOf(p)[k].name
  <2>4. home[p] \in Seq(Names) /\ Len(home[p]) >= Len(stack[1].path) /\ name \in Names
    BY <1>1, <2>3 DEF Homes
  <2>5. Len(Top.path) = Len(home[p]) + 1
    BY <2>3, <2>4, AppendProperties
  <2>6. stack[1].path \in Seq(Names) /\ Len(stack[1].path) \in Nat /\ Len(home[p]) \in Nat
    <3>1. stack[1] \in Frames
      BY <1>1, ElementOfSeq
    <3> QED BY <3>1, <2>4, PathFacts
  <2>7. ASSUME NEW c \in visited, home[c] = Top.path PROVE FALSE
    <3>1. CASE c = image.start /\ home[c] = stack[1].path
      BY <2>4, <2>5, <2>6, <2>7, <3>1
    <3>2. ASSUME NEW q \in visited, NEW j \in DOMAIN EntriesOf(q), Child(c, q, j)
          PROVE  FALSE
      <4>1. q \in Refs /\ EntriesOf(q)[j].name \in Names
        BY NameFacts DEF Shape
      <4>2. Append(home[q], EntriesOf(q)[j].name) = Append(home[p], name)
        BY <2>3, <2>7, <3>2 DEF Child
      <4>3. q = p /\ EntriesOf(q)[j].name = name
        BY <1>1, <2>3, <2>4, <4>1, <4>2, PathOfEntry
      <4>4. j = k
        BY <2>3, <4>3, DifferentEntries
      <4>5. c = Top.ref
        BY <2>3, <3>2, <4>3, <4>4 DEF Child
      <4> QED BY <4>5
    <3> QED BY <1>1, <3>1, <3>2 DEF Homes
  <2>8. ASSUME NEW d \in visited'
        PROVE  /\ home'[d] \in Seq(Names) /\ Len(home'[d]) >= Len(stack'[1].path)
               /\ \/ d = image'.start /\ home'[d] = stack'[1].path
                  \/ \E q \in visited' : \E j \in DOMAIN EntriesOf(q)' : Child(d, q, j)'
    <3>0. stack' = stack /\ image' = image /\ \A q : EntriesOf(q)' = EntriesOf(q)
      BY DEF EntriesOf
    <3>1. CASE d = Top.ref
      <4>1. Child(d, p, k)'
        BY <1>2, <2>3, <3>1 DEF Child, EntriesOf
      <4> QED BY <1>2, <2>3, <2>4, <2>5, <2>6, <3>0, <3>1, <4>1
    <3>2. CASE d # Top.ref
      <4>1. d \in visited /\ home'[d] = home[d]
        BY <1>2, <3>2
      <4>2. ASSUME NEW q \in visited, NEW j \in DOMAIN EntriesOf(q), Child(d, q, j)
            PROVE  Child(d, q, j)'
        BY <1>2, <4>1, <4>2 DEF Child, EntriesOf
      <4> QED BY <1>1, <3>0, <4>1, <4>2 DEF Homes
    <3> QED BY <3>1, <3>2
  <2>9. ASSUME NEW c \in visited', NEW d \in visited', home'[c] = home'[d]
        PROVE  c = d
    <3>1. CASE c = Top.ref \/ d = Top.ref
      BY <1>2, <2>7, <2>9, <3>1
    <3>2. CASE c \in visited /\ d \in visited
      BY <1>1, <1>2, <2>9, <3>2 DEF Homes
    <3> QED BY <3>1, <3>2
  <2>10. Homes' = (stack' # <<>> =>
            /\ \A d \in visited' :
                  /\ home'[d] \in Seq(Names) /\ Len(home'[d]) >= Len(stack'[1].path)
                  /\ \/ d = image'.start /\ home'[d] = stack'[1].path
                     \/ \E q \in visited' : \E j \in DOMAIN EntriesOf(q)' : Child(d, q, j)'
            /\ \A c, d \in visited' : home'[c] = home'[d] => c = d)
    BY Zenon DEF Homes
  <2> QED BY <2>8, <2>9, <2>10
<1>5. n = 1 \/ n > 1
  <2>1. n \in Nat \ {0}
    BY <1>1
  <2> QED BY <2>1, OneOrMore, Zenon
<1> QED BY <1>3, <1>4, <1>5

LEMMA LeaveHomes ==
    ASSUME Shape, Homes, stack # <<>>, NEW e, NEW freed, Leave(e, freed)
    PROVE  Homes'
<1>1. UNCHANGED <<image, visited, home>> /\ stack' = Front(stack)
  BY DEF Leave
<1>2. /\ Len(stack) \in Nat \ {0} /\ Len(stack') = Len(stack) - 1
      /\ \A i \in 1 .. Len(stack) - 1 : stack'[i] = stack[i]
      /\ stack' \in Seq(Frames)
  BY <1>1, StackFacts
<1>3. stack' # <<>> => stack'[1] = stack[1]
  <2>1. stack' # <<>> => Len(stack') \in Nat \ {0}
    BY <1>2, EmptySeq
  <2> QED BY <1>2, <2>1
<1> QED BY <1>1, <1>3, KeepHomes

LEMMA StepHomes ==
    ASSUME NamesDiffer, Shape, Recorded, Chain, Homes, [ExtractNext]_allVars
    PROVE  Homes'
<1>1. dpc \in Inside => stack # <<>>
  BY DEF Shape, Inside, Empty
<1>2. CASE Begin
  <2>1. visited' = {}
    BY <1>2 DEF Begin, Chain
  <2> QED BY <2>1 DEF Homes
<1>3. CASE EnterVisited
  BY <1>1, <1>3, LeaveHomes DEF EnterVisited, Inside
<1>4. CASE Enter
  BY <1>1, <1>4, LeaveHomes, EnterHomes DEF Enter, Inside
<1>5. CASE ReadDirInode
  BY <1>1, <1>5, LeaveHomes, KeepHomes DEF ReadDirInode, Inside
<1>6. CASE MakeDir
  BY <1>1, <1>6, LeaveHomes, KeepHomes DEF MakeDir, Inside
<1>7. CASE OpenDir
  BY <1>1, <1>7, LeaveHomes, KeepHomes DEF OpenDir, Inside
<1>8. CASE NextEntry
  <2>1. stack' = Advanced /\ UNCHANGED <<image, visited, home>> /\ stack # <<>>
    BY <1>1, <1>8 DEF NextEntry, Inside
  <2>2. /\ Len(stack) \in Nat \ {0} /\ Top = stack[Len(stack)] /\ Top \in Frames
        /\ Len(stack') = Len(stack) /\ stack'[Len(stack)] = [Top EXCEPT !.index = @ + 1]
        /\ \A i \in 1 .. Len(stack) - 1 : stack'[i] = stack[i]
    BY <2>1, StackFacts, AdvanceFacts DEF Last
  <2>3. stack'[Len(stack)].path = stack[Len(stack)].path
    BY <2>2 DEF Frames
  <2>4. Len(stack) = 1 \/ 1 \in 1 .. Len(stack) - 1
    BY <2>2
  <2>5. stack'[1].path = stack[1].path
    BY <2>2, <2>3, <2>4
  <2> QED BY <2>1, <2>5, KeepHomes
<1>9. CASE EndOfDirectory \/ ReadDirFails
  BY <1>1, <1>9, LeaveHomes DEF EndOfDirectory, ReadDirFails, Inside
<1>10. CASE EntryFails
  BY <1>1, <1>10, LeaveHomes DEF EntryFails, Inside
<1>11. CASE Descend
  <2>1. /\ stack' = Append(stack, Frame(Entry.ref, EntryPath)) /\ dpc = "entry"
        /\ UNCHANGED <<image, visited, home>> /\ stack # <<>>
    BY <1>1, <1>11 DEF Descend, EntryRead, Inside
  <2>2. Frame(Entry.ref, EntryPath) \in Frames
    BY <2>1, EntryFacts DEF Shape, Frame, Frames, DirEntries
  <2>3. stack'[1] = stack[1]
    BY <2>1, <2>2, PushFacts, StackFacts
  <2> QED BY <2>1, <2>3, KeepHomes
<1>12. CASE ExtractFile \/ SkipOther
  BY <1>12, KeepHomes DEF ExtractFile, SkipOther, EntryRead
<1>13. CASE AfterEntry
  BY <1>13, KeepHomes DEF AfterEntry
<1>14. CASE Unwind
  BY <1>1, <1>14, LeaveHomes DEF Unwind, Inside
<1>15. CASE Finish
  BY <1>15, KeepHomes DEF Finish
<1>16. CASE FileStep
  BY <1>16, FileStepKeeps, KeepHomes DEF dirVars
<1>17. CASE UNCHANGED allVars
  BY <1>17, KeepHomes DEF allVars, vars, dirVars
<1> QED
  BY <1>2, <1>3, <1>4, <1>5, <1>6, <1>7, <1>8, <1>9, <1>10, <1>11, <1>12, <1>13, <1>14,
     <1>15, <1>16, <1>17 DEF ExtractNext, DirNext

-----------------------------------------------------------------------------
(***************************************************************************)
(* Progress, one lemma per way an action moves an entry on.                *)
(***************************************************************************)
LEMMA HandledStays ==
    ASSUME image' = image, visited \subseteq visited', NEW d, NEW k, home'[d] = home[d],
           Handled(d, k),
           LET p == Append(home[d], EntriesOf(d)[k].name)
           IN  Exists(p) => p \in DOMAIN out' /\ out'[p] = out[p]
    PROVE  Handled(d, k)'
BY DEF Handled, EntriesOf, Exists, Whole, IsDirectory

\* What was good stays good backwards.
LEMMA GoodBefore ==
    ASSUME Shape, OnTheWayOut, [ExtractNext]_allVars, Good'
    PROVE  Good
<1>1. ~Failed
  BY FailedStays DEF Good, Failed
<1>2. cut' = cut \/ cut' = TRUE
  BY DEF ExtractNext, DirNext, FileStep, Begin, EnterVisited, Enter, ReadDirInode, MakeDir,
         OpenDir, NextEntry, EndOfDirectory, ReadDirFails, EntryFails, Descend,
         ExtractFile, SkipOther, EntryRead, AfterEntry, Unwind, Finish, allVars, dirVars
<1>3. unflushed' = unflushed \/ unflushed' = TRUE
  BY DEF ExtractNext, DirNext, FileStep, Begin, EnterVisited, Enter, ReadDirInode, MakeDir,
         OpenDir, NextEntry, EndOfDirectory, ReadDirFails, EntryFails, Descend,
         ExtractFile, SkipOther, EntryRead, AfterEntry, Unwind, Finish, Leave, fileVars,
         FileNext, FReadInode, FMakeParent, FOpen, FBuffer, FCopyBlock, FFinish, FClose,
         allVars, vars
<1> QED BY <1>1, <1>2, <1>3 DEF Good

LEMMA NoErrorCode ==
    ASSUME Good'
    PROVE  ret' \notin LibraryErrors \cup {"NOT_FOUND", "INVALID_INODE", "NOT_DIRECTORY",
                                           "INVALID_FILE", "NOT_FILE"}
BY DEF Good, Failed, LibraryErrors

\* squash_extract_directory_recursive returns SQUASH_OK to its caller.
LEMMA LeaveProgress ==
    ASSUME Shape, Recorded, Chain, Progress, Good, stack # <<>>, NEW freed, Leave("OK", freed),
           UNCHANGED <<out, cut>>,
           dpc = "enter" => Top.ref \in visited,
           dpc # "enter" => dpc = "readdir" /\ Top.index = Len(EntriesOf(Top.ref))
    PROVE  Progress'
<1> DEFINE n == Len(stack)
<1>1. /\ UNCHANGED <<image, fileVars, visited, home>> /\ stack' = Front(stack)
      /\ dpc' = IF n = 1 THEN "finish" ELSE "after"
  BY DEF Leave
<1>2. /\ n \in Nat \ {0} /\ Len(stack') = n - 1 /\ Top = stack[n] /\ Top \in Frames
      /\ \A i \in 1 .. n - 1 : stack'[i] = stack[i]
      /\ stack' \in Seq(Frames)
  BY <1>1, StackFacts
<1>3. \A i \in 1 .. n - 1 : i \in 1 .. n /\ i < n
  BY <1>2
<1>4. Top.ref \in visited
  BY <1>2 DEF Recorded
<1>5. n = 1 \/ n > 1
  BY <1>2, OneOrMore, Zenon
<1>6. ASSUME NEW d \in visited, NEW k \in DOMAIN EntriesOf(d)
      PROVE  Handled(d, k)' \/ Ahead(d, k)'
  <2>1. CASE Handled(d, k)
    BY <1>1, <2>1, HandledStays DEF Exists
  <2>2. ASSUME NEW i \in 1 .. n, Past(i), stack[i].ref = d,
               \/ stack[i].index < k
               \/ stack[i].index = k /\ (i < n \/ dpc \in {"entry", "after"})
        PROVE  Ahead(d, k)'
    <3>1. i # n
      <4> SUFFICES ASSUME i = n PROVE FALSE
        OBVIOUS
      <4>1. dpc # "enter"
        BY <2>2 DEF Past
      <4>2. EntriesOf(d) \in Seq(DirEntries) /\ Top.ref = d
        BY <1>2, <2>2, ImageFacts DEF Shape
      <4>3. Top.index = Len(EntriesOf(d)) /\ Top.index < k
        BY <1>2, <2>2, <4>1, <4>2
      <4>4. k \in 1 .. Len(EntriesOf(d)) /\ Len(EntriesOf(d)) \in Nat
        BY <4>2
      <4> QED BY <4>3, <4>4
    <3>2. i \in 1 .. n - 1 /\ n # 1
      BY <1>2, <3>1
    <3>3. i \in 1 .. Len(stack') /\ stack'[i] = stack[i] /\ dpc' = "after"
      BY <1>1, <1>2, <3>2
    <3> QED BY <2>2, <3>3 DEF Ahead, Past
  <2> QED BY <2>1, <2>2 DEF Progress, Ahead
<1>7. CASE n = 1
  <2>1. image.start \in visited
    <3>1. stack[1].ref = image.start
      BY DEF Chain
    <3> QED BY <1>2, <1>4, <1>7, <3>1
  <2>2. dpc' = "finish"
    BY <1>1, <1>7
  <2> QED BY <1>1, <1>6, <2>1, <2>2 DEF Progress, EntriesOf
<1>8. CASE n > 1
  <2> DEFINE f == stack[n - 1]
  <2>1. n - 1 \in 1 .. n /\ n - 1 < n /\ (n - 1) + 1 = n /\ n # 1
    BY <1>2, <1>8
  <2>2. Top.ref = EntryAt(f).ref /\ IsDirectory(Top.ref)
    BY <1>2, <2>1 DEF Chain
  <2>3. Top' = f
    <3>1. Len(stack') = n - 1 /\ stack'[n - 1] = stack[n - 1]
      BY <1>2, <1>8
    <3> QED BY <3>1 DEF Top, Last
  <2> HIDE DEF f
  <2>4. Handled(Top.ref, Top.index)'
    <3>1. EntryAt(f) = EntriesOf(f.ref)[f.index]
      BY DEF EntryAt
    <3>2. image.kind[Top.ref] # "file"
      BY <2>2 DEF IsDirectory
    <3> QED BY <1>1, <1>4, <2>2, <2>3, <3>1, <3>2 DEF Handled, EntriesOf, IsDirectory
  <2>5. dpc' = "after"
    BY <1>1, <2>1
  <2> QED BY <1>1, <1>6, <2>4, <2>5 DEF Progress, EntriesOf
<1> QED BY <1>5, <1>7, <1>8

LEMMA EnterProgress ==
    ASSUME Shape, Chain, Progress, Good, dpc = "enter", dpc' = "read", Top.ref \notin visited,
           visited' = visited \cup {Top.ref}, UNCHANGED <<image, stack, out>>,
           home' = [d \in visited' |-> IF d = Top.ref THEN Top.path ELSE home[d]]
    PROVE  Progress'
<1>1. /\ stack # <<>> /\ Len(stack) \in Nat \ {0} /\ Top = stack[Len(stack)]
      /\ Top.index = 0 /\ Top.ref \in Refs
  BY StackFacts DEF Shape, Empty, Chain, Frames
<1>2. ASSUME NEW d \in visited', NEW k \in DOMAIN EntriesOf(d)
      PROVE  Handled(d, k)' \/ Ahead(d, k)'
  <2>1. CASE d = Top.ref
    <3>1. EntriesOf(d) \in Seq(DirEntries)
      BY <1>1, <2>1, ImageFacts DEF Shape
    <3>2. 0 < k
      BY <3>1
    <3> QED BY <1>1, <2>1, <3>2 DEF Ahead, Past
  <2>2. CASE d # Top.ref
    <3>1. d \in visited /\ home'[d] = home[d]
      BY <2>2
    <3>2. Handled(d, k) => Handled(d, k)'
      BY <3>1, HandledStays DEF Exists
    <3>3. Ahead(d, k) => Ahead(d, k)'
      BY DEF Ahead, Past
    <3> QED BY <3>1, <3>2, <3>3 DEF Progress
  <2> QED BY <2>1, <2>2
<1> QED BY <1>2 DEF Progress, EntriesOf

\* A step of the frame on top; what was created or written before stays.
LEMMA PlaceProgress ==
    ASSUME Shape, Progress, Good, dpc # "enter", dpc' # "enter",
           UNCHANGED <<image, stack, visited, home>>,
           \A p \in DOMAIN out : p \in DOMAIN out' /\ out'[p] = out[p],
           dpc \in {"entry", "after"} => dpc' \in {"entry", "after"},
           dpc' = "after" /\ fpc' = "idle" => Handled(Top.ref, Top.index)',
           dpc' \in {"finish", "done"} => dpc \in {"finish", "done"}
    PROVE  Progress'
<1>1. ASSUME NEW d \in visited, NEW k \in DOMAIN EntriesOf(d)
      PROVE  Handled(d, k)' \/ Ahead(d, k)'
  <2>1. Handled(d, k) => Handled(d, k)'
    BY HandledStays DEF Exists
  <2>2. Ahead(d, k) => Ahead(d, k)'
    BY DEF Ahead, Past
  <2> QED BY <2>1, <2>2 DEF Progress
<1> QED BY <1>1 DEF Progress, EntriesOf

\* squash_readdir returned an entry: it is now the one in the frame's hands.
LEMMA AdvanceProgress ==
    ASSUME Shape, Progress, Good, NextEntry
    PROVE  Progress'
<1>1. /\ dpc = "readdir" /\ dpc' = "entry" /\ stack' = Advanced /\ stack # <<>>
      /\ UNCHANGED <<image, out, visited, home>>
  BY DEF NextEntry, Shape, Empty
<1>2. /\ Len(stack) \in Nat \ {0} /\ Len(stack') = Len(stack)
      /\ Top = stack[Len(stack)] /\ Top \in Frames
      /\ \A i \in 1 .. Len(stack) - 1 : stack'[i] = stack[i]
      /\ stack'[Len(stack)] = [Top EXCEPT !.index = @ + 1]
  BY <1>1, StackFacts, AdvanceFacts DEF Last
<1>3. /\ stack'[Len(stack)].ref = Top.ref
      /\ stack'[Len(stack)].index = Top.index + 1 /\ Top.index \in Nat
      /\ Top.ref \in Refs
  BY <1>2 DEF Frames
<1>4. ASSUME NEW d \in visited, NEW k \in DOMAIN EntriesOf(d)
      PROVE  Handled(d, k)' \/ Ahead(d, k)'
  <2>1. Handled(d, k) => Handled(d, k)'
    BY <1>1, HandledStays DEF Exists
  <2>2. ASSUME NEW i \in 1 .. Len(stack), stack[i].ref = d,
               \/ stack[i].index < k
               \/ stack[i].index = k /\ i < Len(stack)
        PROVE  Ahead(d, k)'
    <3>1. CASE i = Len(stack)
      <4>1. k \in Nat
        <5>1. d = Top.ref /\ EntriesOf(d) \in Seq(DirEntries)
          BY <1>2, <1>3, <2>2, <3>1, ImageFacts DEF Shape
        <5> QED BY <5>1
      <4>2. Top.index < k
        BY <1>2, <2>2, <3>1
      <4>3. Top.index + 1 < k \/ Top.index + 1 = k
        BY <1>3, <4>1, <4>2
      <4>4. i \in 1 .. Len(stack') /\ stack'[i].ref = d /\ stack'[i].index = Top.index + 1
        BY <1>2, <1>3, <2>2, <3>1
      <4> QED BY <1>1, <4>3, <4>4 DEF Ahead, Past
    <3>2. CASE i # Len(stack)
      <4>1. i \in 1 .. Len(stack) - 1 /\ i < Len(stack)
        BY <1>2, <3>2
      <4>2. i \in 1 .. Len(stack') /\ i < Len(stack') /\ stack'[i] = stack[i]
        BY <1>2, <4>1
      <4> QED BY <2>2, <4>2 DEF Ahead, Past
    <3> QED BY <3>1, <3>2
  <2> QED BY <1>1, <2>1, <2>2 DEF Progress, Ahead
<1> QED BY <1>1, <1>4 DEF Progress, EntriesOf

\* The entry is a directory: the frame that will read it is pushed.
LEMMA DescendProgress ==
    ASSUME Shape, Progress, Good, Descend
    PROVE  Progress'
<1> DEFINE f == Frame(Entry.ref, EntryPath)
<1>1. /\ dpc = "entry" /\ dpc' = "enter" /\ stack' = Append(stack, f) /\ stack # <<>>
      /\ UNCHANGED <<image, out, visited, home>>
  BY DEF Descend, EntryRead, Shape, Empty
<1>2. f \in Frames
  BY <1>1, EntryFacts DEF Shape, Frame, Frames, DirEntries
<1> HIDE DEF f
<1>3. /\ Len(stack) \in Nat /\ Len(stack') = Len(stack) + 1
      /\ \A i \in 1 .. Len(stack) : stack'[i] = stack[i]
  BY <1>1, <1>2, PushFacts, StackFacts
<1>4. \A i \in 1 .. Len(stack) :
         i \in 1 .. Len(stack') /\ i < Len(stack') /\ stack'[i] = stack[i]
  BY <1>3
<1>5. ASSUME NEW d \in visited, NEW k \in DOMAIN EntriesOf(d)
      PROVE  Handled(d, k)' \/ Ahead(d, k)'
  <2>1. Handled(d, k) => Handled(d, k)'
    BY <1>1, HandledStays DEF Exists
  <2>2. Ahead(d, k) => Ahead(d, k)'
    BY <1>4 DEF Ahead, Past
  <2> QED BY <2>1, <2>2 DEF Progress
<1> QED BY <1>1, <1>5 DEF Progress, EntriesOf

\* The entry in the frame's hands is done with.
LEMMA AfterProgress ==
    ASSUME Shape, Progress, Codes, Good, AfterEntry
    PROVE  Progress'
<1>1. /\ dpc = "after" /\ fpc = "idle" /\ ret = "OK" /\ dpc' = "readdir" /\ stack # <<>>
      /\ UNCHANGED <<image, out, visited, home, stack>>
  BY DEF AfterEntry, Codes, Good, Failed, Shape, Empty
<1>2. Len(stack) \in Nat \ {0} /\ Top = stack[Len(stack)]
  BY <1>1, StackFacts
<1>3. Handled(Top.ref, Top.index)
  BY <1>1 DEF Progress
<1>4. ASSUME NEW d \in visited, NEW k \in DOMAIN EntriesOf(d)
      PROVE  Handled(d, k)' \/ Ahead(d, k)'
  <2>1. Handled(d, k) => Handled(d, k)'
    BY <1>1, HandledStays DEF Exists
  <2>2. ASSUME NEW i \in 1 .. Len(stack), stack[i].ref = d,
               stack[i].index < k \/ stack[i].index = k
        PROVE  Handled(d, k) \/ Ahead(d, k)'
    <3>1. CASE i = Len(stack) /\ stack[i].index = k
      BY <1>2, <1>3, <2>2, <3>1
    <3>2. CASE i < Len(stack) \/ stack[i].index < k
      BY <1>1, <2>2, <3>2 DEF Ahead, Past
    <3>3. i = Len(stack) \/ i < Len(stack)
      BY <1>2
    <3> QED BY <2>2, <3>1, <3>2, <3>3
  <2> QED BY <2>1, <2>2 DEF Progress, Ahead
<1> QED BY <1>1, <1>4 DEF Progress, EntriesOf

\* The file of the entry is written; no other entry has its path.
LEMMA FileProgress ==
    ASSUME NamesDiffer, Shape, Recorded, Chain, Homes, Writing, Progress, Good, FileStep, Good'
    PROVE  Progress'
<1>1. /\ UNCHANGED <<image, job, dirVars>>
      /\ dpc = "after" /\ fpc # "idle" /\ stack # <<>>
      /\ \A p \in DOMAIN out : p \in DOMAIN out' /\ (p # job.path => out'[p] = out[p])
  BY FileStepKeeps
<1>2. /\ Len(stack) \in Nat \ {0} /\ Top = stack[Len(stack)] /\ Top \in Frames
      /\ Len(stack) \in 1 .. Len(stack)
  BY <1>1, StackFacts
<1>3. /\ Top.ref \in visited /\ Top.ref \in Refs /\ home[Top.ref] = Top.path
      /\ Top.index \in DOMAIN EntriesOf(Top.ref)
  BY <1>1, <1>2 DEF Recorded, Chain, Past, Frames
<1>4. /\ job.path = Append(home[Top.ref], EntriesOf(Top.ref)[Top.index].name)
      /\ job.ref = EntriesOf(Top.ref)[Top.index].ref /\ image.kind[job.ref] = "file"
  BY <1>1, <1>3 DEF Writing, Entry, EntryPath
<1>5. ASSUME NEW d \in visited, NEW k \in DOMAIN EntriesOf(d)
      PROVE  Handled(d, k)' \/ Ahead(d, k)'
  <2>1. CASE d = Top.ref /\ k = Top.index
    BY <1>1, <1>2, <2>1 DEF Ahead, Past, dirVars
  <2>2. CASE Append(home[d], EntriesOf(d)[k].name) = job.path
    <3>1. /\ d \in Refs
          /\ EntriesOf(d)[k].name \in Names /\ EntriesOf(Top.ref)[Top.index].name \in Names
      BY <1>3, NameFacts DEF Shape
    <3>2. Append(home[d], EntriesOf(d)[k].name)
            = Append(home[Top.ref], EntriesOf(Top.ref)[Top.index].name)
      BY <1>4, <2>2
    <3> DEFINE x == EntriesOf(d)[k].name
               y == EntriesOf(Top.ref)[Top.index].name
    <3>4. x \in Names /\ y \in Names /\ Append(home[d], x) = Append(home[Top.ref], y)
      BY <3>1, <3>2
    <3> HIDE DEF x, y
    <3>5. d = Top.ref /\ x = y
      BY <1>1, <1>3, <3>4, PathOfEntry
    <3>6. EntriesOf(d)[k].name = EntriesOf(Top.ref)[Top.index].name
      BY <3>5 DEF x, y
    <3>3. k = Top.index
      BY <1>3, <3>5, <3>6, DifferentEntries
    <3> QED BY <2>1, <3>5, <3>3
  <2>3. CASE Append(home[d], EntriesOf(d)[k].name) # job.path
    <3>1. Handled(d, k) => Handled(d, k)'
      BY <1>1, <2>3, HandledStays DEF Exists, dirVars
    <3>2. Ahead(d, k) => Ahead(d, k)'
      BY <1>1 DEF Ahead, Past, dirVars
    <3> QED BY <3>1, <3>2 DEF Progress
  <2> QED BY <2>2, <2>3
<1>6. ASSUME fpc' = "idle" PROVE Handled(Top.ref, Top.index)'
  <2>1. Exists(job.path)' /\ out'[job.path] = Whole(job.ref)
    BY <1>6, EntryDelivered
  <2> QED BY <1>1, <1>4, <2>1 DEF Handled, EntriesOf, Exists, Whole, IsDirectory, dirVars, Top
<1> QED BY <1>1, <1>5, <1>6 DEF Progress, EntriesOf, dirVars

LEMMA StepProgress ==
    ASSUME NamesDiffer, Shape, Recorded, OnTheWayOut, Codes, Chain, Homes, Writing, Progress,
           [ExtractNext]_allVars
    PROVE  Progress'
<1> SUFFICES ASSUME Good' PROVE Progress'
  BY DEF Progress
<1>1. Good
  BY GoodBefore
<1>2. ASSUME NEW e, NEW freed, Leave(e, freed) PROVE e \notin LibraryErrors \cup
         {"INVALID_INODE", "NOT_DIRECTORY", "INVALID_FILE"}
  BY <1>2, NoErrorCode DEF Leave
<1>3. dpc \in Inside => stack # <<>>
  BY DEF Shape, Inside, Empty
<1>4. \A ref : ReadErrors(ref) \subseteq LibraryErrors \cup {"INVALID_INODE"}
  BY DEF ReadErrors
<1>5. "MEMORY" \in LibraryErrors /\ "IO" \in LibraryErrors
  BY DEF LibraryErrors
<1>6. CASE Begin
  <2>1. dpc' = "enter" /\ visited' = visited /\ visited = {}
    BY <1>6, NoErrorCode DEF Begin, Chain
  <2> QED BY <2>1 DEF Progress
<1>7. CASE EnterVisited
  BY <1>1, <1>3, <1>7, LeaveProgress DEF EnterVisited, Inside
<1>8. CASE Enter
  BY <1>1, <1>2, <1>5, <1>8, EnterProgress DEF Enter
<1>9. CASE ReadDirInode
  <2>1. /\ dpc = "read" /\ dpc' = "mkdir"
        /\ UNCHANGED <<image, stack, visited, home, out>>
    BY <1>2, <1>4, <1>9 DEF ReadDirInode
  <2> QED BY <1>1, <2>1, PlaceProgress
<1>10. CASE MakeDir
  <2>1. /\ dpc = "mkdir" /\ dpc' = "opendir" /\ Mkdir(Top.path)
        /\ UNCHANGED <<image, stack, visited, home>>
    BY <1>2, <1>5, <1>10 DEF MakeDir
  <2>2. \A p \in DOMAIN out : p \in DOMAIN out' /\ out'[p] = out[p]
    BY <2>1 DEF Mkdir, With, Exists
  <2> QED BY <1>1, <2>1, <2>2, PlaceProgress
<1>11. CASE OpenDir
  <2>1. /\ dpc = "opendir" /\ dpc' = "readdir"
        /\ UNCHANGED <<image, stack, visited, home, out>>
    BY <1>2, <1>11 DEF OpenDir
  <2> QED BY <1>1, <2>1, PlaceProgress
<1>12. CASE NextEntry
  BY <1>1, <1>12, AdvanceProgress
<1>13. CASE EndOfDirectory
  BY <1>1, <1>3, <1>13, LeaveProgress DEF EndOfDirectory, Inside
<1>14. CASE ReadDirFails
  BY <1>14 DEF ReadDirFails, Good
<1>15. CASE EntryFails
  BY <1>2, <1>4, <1>5, <1>15 DEF EntryFails
<1>16. CASE Descend
  BY <1>1, <1>16, DescendProgress
<1>17. CASE ExtractFile
  <2>1. /\ dpc = "entry" /\ dpc' = "after" /\ fpc' = "read"
        /\ UNCHANGED <<image, stack, visited, home, out>>
    BY <1>17 DEF ExtractFile, EntryRead
  <2> QED BY <1>1, <2>1, PlaceProgress
<1>18. CASE SkipOther
  <2>1. /\ dpc = "entry" /\ dpc' = "after" /\ image.kind[Entry.ref] = "other"
        /\ UNCHANGED <<image, stack, visited, home, out>>
    BY <1>18 DEF SkipOther, EntryRead
  <2>2. Handled(Top.ref, Top.index)'
    BY <2>1 DEF Handled, Entry, EntriesOf, IsDirectory, Top
  <2> QED BY <1>1, <2>1, <2>2, PlaceProgress
<1>19. CASE AfterEntry
  BY <1>1, <1>19, AfterProgress
<1>20. CASE Unwind
  BY <1>20 DEF Unwind, Leave, Codes, Good, Failed
<1>21. CASE Finish
  <2>1. /\ dpc = "finish" /\ dpc' = "done"
        /\ UNCHANGED <<image, stack, visited, home, out>>
    BY <1>21 DEF Finish
  <2> QED BY <1>1, <2>1, PlaceProgress
<1>22. CASE FileStep
  BY <1>1, <1>22, FileProgress
<1>23. CASE UNCHANGED allVars
  <2>1. UNCHANGED <<image, out, ret, fpc, dpc, stack, visited, home>>
    BY <1>23 DEF allVars, vars, fileVars, dirVars
  <2>2. ASSUME NEW d, NEW k PROVE Handled(d, k)' = Handled(d, k) /\ Ahead(d, k)' = Ahead(d, k)
    BY <2>1 DEF Handled, Ahead, Past, EntriesOf, Exists, Whole, IsDirectory
  <2>3. Top' = Top /\ \A d : EntriesOf(d)' = EntriesOf(d)
    BY <2>1 DEF Top, EntriesOf
  <2>4. Handled(Top.ref, Top.index)' = Handled(Top.ref, Top.index)
    BY <2>1 DEF Handled, EntriesOf, Exists, Whole, IsDirectory, Top
  <2> QED BY <1>1, <2>1, <2>2, <2>3, <2>4 DEF Progress
<1> QED
  BY <1>6, <1>7, <1>8, <1>9, <1>10, <1>11, <1>12, <1>13, <1>14, <1>15, <1>16, <1>17, <1>18,
     <1>19, <1>20, <1>21, <1>22, <1>23 DEF ExtractNext, DirNext

-----------------------------------------------------------------------------
LEMMA StartComplete ==
    Start => Recorded /\ NoReentry /\ OnTheWayOut /\ Codes /\ Chain /\ Homes /\ Writing /\ Progress
<1> SUFFICES ASSUME Start
             PROVE  Recorded /\ NoReentry /\ OnTheWayOut /\ Codes /\ Chain /\ Homes /\ Writing
                    /\ Progress
  OBVIOUS
<1>1. Len(stack) = 0 /\ 1 .. Len(stack) = {}
  BY DEF Start
<1>2. /\ stack = <<>> /\ visited = {} /\ dpc = "start" /\ fpc = "idle" /\ pending = 0
      /\ ret = "none" /\ job.ref = image.start
  BY DEF Start
<1>3. Recorded /\ NoReentry
  BY <1>1, <1>2 DEF Recorded, NoReentry
<1>4. OnTheWayOut /\ Codes
  BY <1>2 DEF OnTheWayOut, Codes, Failed
<1>5. Chain
  BY <1>1, <1>2 DEF Chain
<1>6. Homes /\ Writing /\ Progress
  BY <1>2 DEF Homes, Writing, Progress
<1> QED BY <1>3, <1>4, <1>5, <1>6

\* At the end no entry is ahead, so every entry of a visited directory is handled.
LEMMA ProgressIsComplete ==
    ASSUME Shape, Progress
    PROVE  CompleteUnlessCut
<1> SUFFICES ASSUME ReturnedOK, ~unflushed, ~cut PROVE EverythingExtracted
  BY DEF CompleteUnlessCut
<1>1. Good /\ dpc = "done" /\ stack = <<>>
  BY DEF ReturnedOK, Good, Failed, Shape, Empty
<1>2. 1 .. Len(stack) = {}
  BY <1>1
<1>3. \A d \in visited : \A k \in DOMAIN EntriesOf(d) : Handled(d, k)
  BY <1>1, <1>2 DEF Progress, Ahead
<1>4. image.start \in visited /\ visited \in SUBSET Refs
  BY <1>1 DEF Progress, Shape
<1>5. ClosedUnderSubdirs(visited)
  BY <1>3 DEF ClosedUnderSubdirs, Subdirs, Handled
<1>6. ASSUME NEW d \in visited PROVE Extracted(d)
  BY <1>3 DEF Extracted, Handled
<1> QED BY <1>4, <1>5, <1>6 DEF EverythingExtracted, Below

(***************************************************************************)
(* SQUASH_OK means everything: on every image in which no directory has    *)
(* two entries of one name, the recursion that returns SQUASH_OK has       *)
(* given each directory below the start its place on the host and every    *)
(* file in it its whole content, whatever aliases and cycles lead there,   *)
(* unless squash_readdir or the flush inside fclose failed on the way.     *)
(***************************************************************************)
THEOREM EverythingIsExtracted == ASSUME NamesDiffer PROVE Spec => []CompleteUnlessCut
<1> DEFINE Inv == Shape /\ Recorded /\ NoReentry /\ OnTheWayOut /\ Codes /\ Chain /\ Homes
                  /\ Writing /\ Progress
<1>1. Start => Inv
  BY StartShape, StartComplete
<1>2. Inv /\ [ExtractNext]_allVars => Inv'
  BY StepShape, StepRecorded, StepOnTheWayOut, StepCodes, StepChain, StepHomes, StepWriting,
     StepProgress
<1>3. Inv => CompleteUnlessCut
  BY ProgressIsComplete
<1> QED BY <1>1, <1>2, <1>3, PTL DEF Spec

(***************************************************************************)
(* The types of the recursion.  That no count of a resource goes below     *)
(* zero is the balance: what is held is a sum of numbers of frames.        *)
(***************************************************************************)
THEOREM TreeTypes == Spec => []DirTypeOK
<1>1. Start => Shape
  BY StartShape
<1>2. Shape /\ [ExtractNext]_allVars => Shape'
  BY StepShape
<1>3. Shape /\ HoldsExactly => DirTypeOK
  <2> SUFFICES ASSUME Shape, HoldsExactly PROVE DirTypeOK
    OBVIOUS
  <2>1. live \in [Resources -> Nat]
    BY HeldNat DEF HoldsExactly, HeldIsNat
  <2>2. FileTypeOK
    BY <2>1 DEF FileTypeOK, Shape, FilePlaces
  <2> QED BY <2>2 DEF DirTypeOK, Shape, Frames, Empty, Inside
<1> QED BY <1>1, <1>2, <1>3, TreeBalance, PTL DEF Spec
=============================================================================
