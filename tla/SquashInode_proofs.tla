------------------------- MODULE SquashInode_proofs -------------------------
(***************************************************************************)
(* Reading an inode, for every image: whatever fails, exactly what is in   *)
(* use is held, and the block list of a file is as long as the reader of   *)
(* files takes it to be.                                                   *)
(***************************************************************************)
EXTENDS SquashInode, TLAPS

(***************************************************************************)
(* What is held is a function of pc and of the stored inode.  What         *)
(* squash_free_inode frees it decides from the inode in memory instead, so *)
(* the invariant also says that this one has the parsed type and body.     *)
(***************************************************************************)
Places == {"idle", "load", "fit", "merge", "base", "fixed", "variable", "result", "returned"}
Shape ==
    /\ pc \in Places
    /\ stored \in Inodes
    /\ pc = "merge" => NeedsMerge(stored)
    /\ pc \in {"fixed", "variable", "result", "returned"} => stored.type \in Types
    /\ pc = "returned" => inode.type = stored.type /\ inode.body = ParsedBody
    /\ pc = "returned" <=> inode # None

IInv == Shape /\ HoldsExactly

USE WidthAssumption, SuperAssumption, InodesAssumption

-----------------------------------------------------------------------------
\* The count of blocks is a number, and the list parsed has that many words.
LEMMA Remainder ==
    ASSUME NEW n \in Int, NEW w \in Nat \ {0}
    PROVE  n % w \in Nat
OBVIOUS

LEMMA CountIsNat ==
    ASSUME NEW f \in FileBodies
    PROVE  BlockCount(f) \in Nat
<1> DEFINE sum == f.file_size + super.block_size - 1
           rounded == (sum % Word) \div super.block_size
<1>1. sum \in Int /\ sum % Word \in Nat
  <2>1. f.file_size \in Nat
    BY DEF FileBodies
  <2>2. sum \in Int
    BY <2>1
  <2> HIDE DEF sum
  <2> QED BY <2>2, Remainder
<1>2. rounded \in Nat
  <2> HIDE DEF sum
  <2> QED BY <1>1
<1> HIDE DEF rounded
<1>3. rounded - 1 \in Int /\ (rounded - 1) % Word \in Nat
  BY <1>2, Remainder
<1> QED BY <1>2, <1>3 DEF BlockCount, rounded

LEMMA ListLength ==
    ASSUME stored \in Inodes, stored.type \in FileTypes
    PROVE  /\ File(stored.body) \in FileBodies
           /\ ParsedBody.file_size = File(stored.body).file_size
           /\ ParsedBody.fragment = File(stored.body).fragment
           /\ Len(ParsedBody.block_list) = BlockCount(File(stored.body))
<1> DEFINE f == File(stored.body)
<1>1. f \in FileBodies
  <2>1. stored.body \in FileBodies
    OBVIOUS
  <2>2. stored.body.file_size \in Int /\ stored.body.start_block \in Int
    BY <2>1 DEF FileBodies
  <2>3. stored.body.file_size % Word \in Nat /\ stored.body.start_block % Word \in Nat
    BY <2>2, WidthAssumption, Remainder
  <2> QED BY <2>1, <2>3 DEF File, FileBodies
<1>2. BlockCount(f) \in Nat
  BY <1>1, CountIsNat
<1>3. ParsedBody = [f EXCEPT !.block_list = ListRead(f)]
  BY DEF ParsedBody, FileTypes, DirTypes, LinkTypes
<1>4. Len(ListRead(f)) = BlockCount(f)
  BY <1>2 DEF ListRead
<1> HIDE DEF f
<1> QED BY <1>1, <1>3, <1>4 DEF FileBodies, f

\* squash_free_inode decides from the inode what was allocated for it.
LEMMA FreesThePart ==
    ASSUME Shape, pc = "returned"
    PROVE  (IF inode.type \in FileTypes /\ Len(inode.body.block_list) > 0 THEN {"list"} ELSE {})
             \cup (IF inode.type \in LinkTypes THEN {"target"} ELSE {})
           = VariablePart
<1>1. inode.type = stored.type /\ inode.body = ParsedBody /\ stored \in Inodes
  BY DEF Shape
<1>2. CASE stored.type \in FileTypes
  <2>1. BlockCount(File(stored.body)) \in Nat
    BY <1>1, <1>2, ListLength, CountIsNat
  <2>2. VariableSize = 4 * BlockCount(File(stored.body))
    BY <1>2 DEF VariableSize, FileTypes, LinkTypes
  <2>3. Len(inode.body.block_list) > 0 <=> VariableSize > 0
    BY <1>1, <1>2, <2>1, <2>2, ListLength
  <2> QED BY <1>1, <1>2, <2>3 DEF VariablePart, FileTypes, LinkTypes
<1>3. CASE stored.type \notin FileTypes
  BY <1>1, <1>3 DEF VariablePart
<1> QED BY <1>2, <1>3

-----------------------------------------------------------------------------
LEMMA Parts == VariablePart \in {{}, {"list"}, {"target"}}
BY DEF VariablePart

LEMMA Typed ==
    ASSUME Shape, [Next]_vars
    PROVE  Shape'
<1> USE DEF Shape, Places, Go, Fail, HostFails, Refused
<1>1. ASSUME NEW i \in Inodes, Call(i) PROVE Shape'
  BY <1>1 DEF Call
<1>2. CASE Load \/ Fits \/ LoadNext \/ Merge
  BY <1>2 DEF Load, Fits, LoadNext, Merge
<1>3. CASE ParseBase
  BY <1>3 DEF ParseBase
<1>4. CASE ParseFixed \/ ParseVariable
  BY <1>4 DEF ParseFixed, ParseVariable
<1>5. CASE Result
  BY <1>5 DEF Result, None, Types, ParsedBody
<1>6. CASE FreeInode
  BY <1>6 DEF FreeInode
<1>7. CASE UNCHANGED vars
  BY <1>7 DEF vars, ParsedBody
<1> QED BY <1>1, <1>2, <1>3, <1>4, <1>5, <1>6, <1>7 DEF Next, Reading

LEMMA OneTaken ==
    [[r \in Resources |-> 0] EXCEPT !["merged"] = @ + 1]
        = [r \in Resources |-> IF r = "merged" THEN 1 ELSE 0]
<1> DEFINE none == [r \in Resources |-> 0]
           one == [r \in Resources |-> IF r = "merged" THEN 1 ELSE 0]
<1>1. \A r \in Resources : [none EXCEPT !["merged"] = @ + 1][r] = one[r]
  OBVIOUS
<1> QED BY <1>1

\* Neither changes while the inode of the call is the same.
LEMMA SameInode ==
    ASSUME stored' = stored
    PROVE  VariablePart' = VariablePart
BY DEF VariablePart, VariableSize, BlockCount, File

LEMMA Balance ==
    ASSUME Shape, HoldsExactly, [Next]_vars
    PROVE  HoldsExactly'
<1> USE DEF Shape, Places, HoldsExactly, Holds, Buffering, Resources, Taken, Freed,
            Go, Fail, HostFails, Refused, Buffer, NeedsMerge
<1>0. stored' = stored => VariablePart' = VariablePart
  BY SameInode
<1>1. ASSUME NEW i \in Inodes, Call(i) PROVE HoldsExactly'
  BY <1>1 DEF Call
<1>2. CASE Load
  BY <1>2, <1>0 DEF Load
<1>3. CASE Fits
  BY <1>3, <1>0 DEF Fits
<1>4. CASE LoadNext
  <2>1. CASE pc' = "merge"
    BY <1>4, <1>0, <2>1 DEF LoadNext
  <2>2. CASE pc' # "merge"
    <3>1. pc = "fit" /\ pc' = "idle" /\ live' = Freed({"data"})
      BY <1>4, <2>2 DEF LoadNext
    <3> QED BY <3>1
  <2> QED BY <2>1, <2>2
<1>5. CASE Merge
  <2>1. CASE pc' = "base"
    <3>1. pc = "merge" /\ stored' = stored /\ NeedsMerge(stored)
      BY <1>5, <2>1 DEF Merge
    <3>2. live' = [r \in Resources |-> IF r = "merged" THEN 1 ELSE 0]
      <4>1. live = [r \in Resources |-> IF r \in {"data", "next"} THEN 1 ELSE 0]
        BY <3>1
      <4>2. Freed({"data", "next"}) = [r \in Resources |-> 0]
        BY <4>1
      <4>3. live' = [Freed({"data", "next"}) EXCEPT !["merged"] = @ + 1]
        BY <1>5, <2>1 DEF Merge
      <4>4. live' = [[r \in Resources |-> 0] EXCEPT !["merged"] = @ + 1]
        BY <4>2, <4>3, Zenon
      <4> QED BY <4>4, OneTaken, Zenon
    <3> QED BY <2>1, <3>1, <3>2
  <2>2. CASE pc' # "base"
    BY <1>5, <1>0, <2>2 DEF Merge
  <2> QED BY <2>1, <2>2
<1>6. CASE ParseBase
  BY <1>6, <1>0 DEF ParseBase
<1>7. CASE ParseFixed
  <2>1. CASE pc' = "variable"
    BY <1>7, <1>0, <2>1 DEF ParseFixed
  <2>2. CASE pc' # "variable"
    BY <1>7, <1>0, <2>2 DEF ParseFixed
  <2> QED BY <2>1, <2>2
<1>8. CASE ParseVariable
  <2>1. CASE pc' = "result"
    BY <1>8, <1>0, <2>1, Parts DEF ParseVariable
  <2>2. CASE pc' # "result"
    BY <1>8, <1>0, <2>2, Parts DEF ParseVariable
  <2> QED BY <2>1, <2>2
<1>9. CASE Result
  BY <1>9, <1>0, Parts DEF Result
<1>10. CASE FreeInode
  BY <1>10, <1>0, Parts, FreesThePart DEF FreeInode
<1>11. CASE UNCHANGED vars
  BY <1>11, <1>0 DEF vars
<1> QED BY <1>1, <1>2, <1>3, <1>4, <1>5, <1>6, <1>7, <1>8, <1>9, <1>10, <1>11 DEF Next, Reading

LEMMA IInvHolds == Spec => []IInv
<1>1. Init => IInv
  BY DEF Init, IInv, Shape, Places, HoldsExactly, Holds, Buffering, None
<1>2. IInv /\ [Next]_vars => IInv'
  BY Typed, Balance DEF IInv
<1> QED BY <1>1, <1>2, PTL DEF Spec

-----------------------------------------------------------------------------
(***************************************************************************)
(* Types; in particular *inode is set exactly when squash_read_inode       *)
(* returned SQUASH_OK and it was not freed (squash_inode.c 585-728).       *)
(***************************************************************************)
THEOREM TypeCorrect == Spec => []TypeOK
<1>1. IInv => TypeOK
  BY DEF IInv, Shape, Places, HoldsExactly, TypeOK
<1> QED BY <1>1, IInvHolds, PTL

(***************************************************************************)
(* Every early return of squash_read_inode and its parsers releases what   *)
(* was allocated, and squash_free_inode frees what the parsers allocated,  *)
(* however the inode is stored and whatever fails.                         *)
(***************************************************************************)
THEOREM InodeBalance == Spec => []HoldsExactly
<1>1. IInv => HoldsExactly
  BY DEF IInv
<1> QED BY <1>1, IInvHolds, PTL

(***************************************************************************)
(* The list parse_*_reg_inode allocates has as many entries as the count   *)
(* squash_read_file computes on its own: no index leaves it.               *)
(***************************************************************************)
THEOREM ReaderStays == Spec => []ReaderStaysInList
<1>1. ASSUME IInv PROVE ReaderStaysInList
  <2>1. SUFFICES ASSUME pc = "returned", stored.type \in FileTypes
                 PROVE  Len(inode.body.block_list) = Reader!BlockCount
    BY DEF ReaderStaysInList
  <2>2. inode.body = ParsedBody /\ stored \in Inodes
    BY <1>1, <2>1 DEF IInv, Shape
  <2> DEFINE f == File(stored.body)
  <2>3. /\ Len(inode.body.block_list) = BlockCount(f)
        /\ inode.body.file_size = f.file_size /\ inode.body.fragment = f.fragment
    BY <2>1, <2>2, ListLength
  <2> HIDE DEF f
  <2>4. Reader!BlockCount = BlockCount(f)
    BY <2>3 DEF BlockCount, NoFragment, Reader!BlockCount, Reader!InFragmentOnly,
                Reader!HasFragment, Reader!NoFragment
  <2> QED BY <2>3, <2>4
<1> QED BY <1>1, IInvHolds, PTL

-----------------------------------------------------------------------------
(***************************************************************************)
(* What is read of a file is its body, its list as long as the format says *)
(* and its numbers unchanged by their widths.                              *)
(***************************************************************************)
LEMMA Quotients ==
    ASSUME NEW f \in Nat, NEW b \in Nat \ {0}
    PROVE  /\ f \div b \in Nat /\ f % b \in 0 .. b - 1 /\ b * (f \div b) + (f % b) = f
           /\ (f + b - 1) \div b \in Nat
<1>1. f \in Int /\ b \in Int /\ b > 0 /\ f + b - 1 \in Nat
  OBVIOUS
<1>2. b * (f \div b) + (f % b) = f
  BY <1>1, Z3
<1> QED BY <1>1, <1>2

LEMMA QuotientIsUnique ==
    ASSUME NEW b \in Nat \ {0}, NEW x \in Int, NEW y \in Int,
           NEW r \in 0 .. b - 1, NEW s \in 0 .. b - 1, b * x + r = b * y + s
    PROVE  x = y
<1>1. ASSUME NEW u \in Int, NEW v \in Int, NEW p \in 0 .. b - 1, NEW q \in 0 .. b - 1,
             b * u + p = b * v + q
      PROVE  ~(u < v)
  <2> SUFFICES ASSUME u + 1 <= v PROVE FALSE
    OBVIOUS
  <2>1. b * (u + 1) <= b * v
    BY Z3
  <2>2. b * (u + 1) = b * u + b
    BY Z3
  <2> DEFINE bu == b * u
             bv == b * v
  <2>3. bu \in Int /\ bv \in Int /\ bu + b <= bv /\ bu + p = bv + q
    BY <1>1, <2>1, <2>2
  <2> HIDE DEF bu, bv
  <2> QED BY <2>3
<1>2. ~(x < y) /\ ~(y < x)
  BY <1>1
<1> QED BY <1>2

\* Rounded up, a size that is no multiple counts one block more.
LEMMA RoundedUp ==
    ASSUME NEW f \in Nat, NEW b \in Nat \ {0}
    PROVE  LET q == (f + b - 1) \div b IN
           /\ f % b = 0 => q = f \div b
           /\ f % b # 0 => q = f \div b + 1
<1> DEFINE q == (f + b - 1) \div b
           r == (f + b - 1) % b
           d == f \div b
           m == f % b
<1>1. f + b - 1 \in Nat
  OBVIOUS
<1>2. q \in Nat /\ r \in 0 .. b - 1 /\ b * q + r = f + b - 1
  BY <1>1, Quotients
<1>3. d \in Nat /\ m \in 0 .. b - 1 /\ b * d + m = f
  BY Quotients
<1> HIDE DEF q, r, d, m
<1>4. CASE m = 0
  <2>1. b * q + r = b * d + (b - 1) /\ b - 1 \in 0 .. b - 1
    BY <1>2, <1>3, <1>4
  <2> QED BY <1>2, <1>3, <1>4, <2>1, QuotientIsUnique DEF q, d, m
<1>5. CASE m # 0
  <2>1. b * (d + 1) = b * d + b
    BY <1>3, Z3
  <2> DEFINE y == d + 1
             s == m - 1
             bd == b * d
  <2>2. bd \in Int /\ bd + m = f /\ b * y = bd + b
    BY <1>3, <2>1
  <2>3. s \in 0 .. b - 1 /\ y \in Int
    <3>1. m \in 0 .. b - 1 /\ m # 0 /\ d \in Nat
      BY <1>3, <1>5
    <3> QED BY <3>1
  <2>4. s = m - 1
    OBVIOUS
  <2> HIDE DEF y, s, bd
  <2>5. b * q + r = b * y + s /\ q \in Int
    BY <1>2, <1>3, <2>2, <2>4
  <2>6. q = y
    BY <1>2, <2>3, <2>5, QuotientIsUnique
  <2> QED BY <1>5, <2>6 DEF q, d, m, y
<1> QED BY <1>4, <1>5

LEMMA CountIsTheFormats ==
    ASSUME NEW f \in FileBodies, f.file_size + super.block_size <= Word,
           f.fragment = NoFragment \/ f.file_size # super.block_size
    PROVE  BlockCount(f) = FormatBlocks(f)
<1> DEFINE n == f.file_size
           b == super.block_size
           q == (n + b - 1) \div b
           d == n \div b
           m == n % b
<1>1. n \in Nat /\ b \in Nat \ {0} /\ n + b <= Word /\ Word \in Nat \ {0}
  BY DEF FileBodies
<1>2. (n + b - 1) % Word = n + b - 1
  <2> HIDE DEF n, b
  <2> QED BY <1>1
<1>3. /\ d \in Nat /\ m \in 0 .. b - 1 /\ b * d + m = n
      /\ (m = 0 => q = d) /\ (m # 0 => q = d + 1) /\ q \in Nat
  BY <1>1, Quotients, RoundedUp
<1>4. BlockCount(f) = IF f.fragment # NoFragment /\ n <= b THEN 0
                      ELSE IF f.fragment # NoFragment /\ m # 0 THEN (q - 1) % Word ELSE q
  BY <1>2 DEF BlockCount
<1>5. FormatBlocks(f) = IF f.fragment = NoFragment THEN q ELSE d
  BY DEF FormatBlocks
<1>6. f.fragment = NoFragment \/ n # b
  OBVIOUS
<1> HIDE DEF n, b, q, d, m
<1>7. m # 0 => (q - 1) % Word = d
  <2> SUFFICES ASSUME m # 0 PROVE d % Word = d
    BY <1>3
  <2>1. d <= b * d
    BY <1>1, <1>3, Z3
  <2>2. d \in 0 .. Word - 1
    BY <1>1, <1>3, <2>1
  <2> QED BY <1>1, <2>2
<1>8. f.fragment # NoFragment /\ n <= b => d = 0
  <2> SUFFICES ASSUME n < b PROVE d = 0
    BY <1>1, <1>6
  <2>1. b * d + m = b * 0 + n /\ n \in 0 .. b - 1
    BY <1>1, <1>3
  <2> QED BY <1>1, <1>3, <2>1, QuotientIsUnique
<1> QED BY <1>3, <1>4, <1>5, <1>7, <1>8

\* In a file body whose numbers are narrow nothing is cut off.
LEMMA FileIsStored ==
    ASSUME stored \in Inodes, stored.type \in FileTypes, Narrow(stored),
           ~BlockTakenForTail(stored)
    PROVE  ParsedBody = stored.body
<1> DEFINE f == stored.body
<1>1. f \in FileBodies /\ Len(f.block_list) = FormatBlocks(f)
  OBVIOUS
<1>2. File(f) = f
  <2>1. ASSUME NEW n \in Nat, n < Word PROVE n % Word = n
    BY <2>1
  <2>2. f.start_block \in Nat /\ f.file_size \in Nat
    BY <1>1 DEF FileBodies
  <2>3. f.start_block < Word /\ f.file_size < Word
    BY <2>2 DEF Narrow
  <2>4. f.start_block % Word = f.start_block /\ f.file_size % Word = f.file_size
    BY <2>1, <2>2, <2>3
  <2>5. f = [start_block |-> f.start_block, fragment |-> f.fragment, offset |-> f.offset,
             file_size |-> f.file_size, block_list |-> f.block_list]
    BY <1>1 DEF FileBodies
  <2> QED BY <2>4, <2>5 DEF File
<1>3. Len(f.block_list) = BlockCount(f)
  BY <1>1, CountIsTheFormats DEF Narrow, BlockTakenForTail
<1>4. f.block_list \in Seq(Nat)
  BY <1>1 DEF FileBodies
<1>5. ListRead(f) = f.block_list
  <2> DEFINE l == f.block_list
             n == BlockCount(f)
  <2>1. l \in Seq(Nat) /\ Len(l) = n /\ DOMAIN l = 1 .. n
    BY <1>3, <1>4
  <2>2. ListRead(f) = [k \in 1 .. n |-> IF k \in DOMAIN l THEN l[k] ELSE 0]
    BY DEF ListRead
  <2> HIDE DEF l, n
  <2>3. ListRead(f) = [k \in DOMAIN l |-> l[k]]
    BY <2>1, <2>2
  <2>4. l = [k \in DOMAIN l |-> l[k]]
    BY <2>1
  <2> QED BY <2>3, <2>4 DEF l
<1>6. ParsedBody = [File(f) EXCEPT !.block_list = ListRead(File(f))]
  BY DEF ParsedBody, FileTypes, DirTypes, LinkTypes
<1>7. [f EXCEPT !.block_list = f.block_list] = f
  BY <1>1 DEF FileBodies
<1> QED BY <1>2, <1>5, <1>6, <1>7

(***************************************************************************)
(* squash_read_inode returns the body that is stored, wherever in its      *)
(* block it begins, except of extended directories and links and of files  *)
(* too large for 32 bits or one block long with a fragment named.          *)
(***************************************************************************)
THEOREM BodyAsStored == Spec => []BodyIsTheStoredOne
<1>1. ASSUME IInv PROVE BodyIsTheStoredOne
  <2> SUFFICES ASSUME pc = "returned", stored.type \notin {8} \cup LinkTypes,
                      Narrow(stored), ~BlockTakenForTail(stored)
               PROVE  inode.body = stored.body
    BY DEF BodyIsTheStoredOne
  <2>1. inode.body = ParsedBody /\ stored \in Inodes /\ stored.type \in Types
    BY <1>1 DEF IInv, Shape
  <2>2. CASE stored.type \in FileTypes
    BY <2>1, <2>2, FileIsStored
  <2>3. CASE stored.type = 1
    BY <2>1, <2>3 DEF ParsedBody, FileTypes, DirTypes, Directory
  <2>4. CASE stored.type \notin FileTypes \cup DirTypes
    BY <2>1, <2>4 DEF ParsedBody
  <2> QED BY <2>2, <2>3, <2>4 DEF DirTypes
<1> QED BY <1>1, IInvHolds, PTL

-----------------------------------------------------------------------------
(***************************************************************************)
(* A sound inode is refused for no other reason than those allowed: the    *)
(* invariant is the property, with what is known at each place before.     *)
(***************************************************************************)
Excused ==
    \/ faulted
    \/ stored.type \in FileTypes \cup LinkTypes /\ ~EndLoaded
    \/ ~Narrow(stored)
RefusedForCause ==
    /\ pc = "idle" /\ ret \notin {"none", "OK"} /\ stored.sound => Excused
    /\ pc = "returned" => ret = "OK"

LEMMA PlainSizes ==
    ASSUME NEW t \in Types, t \notin FileTypes \cup LinkTypes
    PROVE  FixedSize(t) \in 0 .. 12
BY DEF FixedSize, FileTypes, LinkTypes, DirTypes, Types

\* In a sound inode what the parsers need is there.
LEMMA SoundFits ==
    ASSUME stored \in Inodes, stored.sound
    PROVE  /\ stored.type \in Types /\ stored.next # NoBlock /\ ~FieldsRefused
           /\ stored.type \notin FileTypes \cup LinkTypes =>
                  /\ Available >= 0 /\ FixedSize(stored.type) <= Available
                  /\ EndLoaded
<1> DEFINE t == stored.type
           o == stored.offset
           n == stored.next
           f == stored.first
<1>1. StoredSoundly(stored)
  BY SoundAssumption
<1>2. t \in Types /\ n # NoBlock
  BY <1>1 DEF StoredSoundly
<1>3. ~FieldsRefused
  <2>1. stored.type = 9 => stored.type \in FileTypes
    BY DEF FileTypes
  <2>2. stored.type \in FileTypes =>
           /\ stored.body.start_block \in Nat /\ stored.body.start_block < super.bytes_used
           /\ stored.body.fragment \in Int
           /\ stored.body.fragment = NoFragment \/ stored.body.fragment < super.fragments
    BY <1>1 DEF StoredSoundly, FileBodies, NoFragment
  <2> QED BY <2>1, <2>2 DEF FieldsRefused
<1>4. ASSUME t \notin FileTypes \cup LinkTypes
      PROVE  FixedSize(t) \in 0 .. 12 /\ VariableSize = 0
  BY <1>2, <1>4, PlainSizes DEF VariableSize
<1>5. o \in Nat /\ f \in Nat /\ n \in Nat
  BY <1>2
<1>6. t \notin FileTypes \cup LinkTypes => o + 16 + FixedSize(t) <= f + n
  BY <1>1 DEF StoredSoundly
<1>7. Available = f + (IF o + 48 > f THEN n ELSE 0) - (o + 16)
  <2>1. Margin = 48
    BY DEF Margin
  <2>2. NeedsMerge(stored) <=> o + 48 > f
    BY <2>1 DEF NeedsMerge
  <2>3. CASE NeedsMerge(stored)
    <3>1. Loaded = f + n
      BY <2>3, Zenon DEF Loaded
    <3>2. Available = (f + n) - (o + 16)
      BY <1>5, <3>1 DEF Available
    <3> QED BY <1>5, <2>2, <2>3, <3>2
  <2>4. CASE ~NeedsMerge(stored)
    <3>1. Available = (f + 0) - (o + 16)
      BY <1>5, <2>4 DEF Available, Loaded
    <3> QED BY <1>5, <2>2, <2>4, <3>1
  <2> QED BY <2>3, <2>4
<1>8. EndLoaded <=> FixedSize(t) + VariableSize <= Available
  BY DEF EndLoaded
<1> HIDE DEF t, o, n, f
<1>9. ASSUME t \notin FileTypes \cup LinkTypes
      PROVE  Available \in Int /\ FixedSize(t) <= Available
  <2> DEFINE s == FixedSize(t)
  <2>1. s \in 0 .. 12 /\ o + 16 + s <= f + n
    BY <1>4, <1>6, <1>9
  <2> HIDE DEF s
  <2>2. Available \in Int /\ s <= Available
    <3>1. CASE o + 48 > f
      BY <1>5, <1>7, <2>1, <3>1
    <3>2. CASE ~(o + 48 > f)
      BY <1>5, <1>7, <2>1, <3>2
    <3> QED BY <3>1, <3>2
  <2> QED BY <2>2 DEF s
<1>10. ASSUME t \notin FileTypes \cup LinkTypes
       PROVE  Available >= 0 /\ FixedSize(t) <= Available /\ EndLoaded
  BY <1>4, <1>8, <1>9, <1>10
<1> QED BY <1>2, <1>3, <1>10 DEF t, n

\* A refusal before the variable part is one of what that part needs too.
LEMMA ShortIsShort ==
    ASSUME stored \in Inodes, stored.type \in FileTypes \cup LinkTypes,
           Available < 0 \/ FixedSize(stored.type) > Available
    PROVE  ~EndLoaded
<1>1. VariableSize \in Nat
  <2>1. CASE stored.type \in FileTypes
    <3>1. BlockCount(File(stored.body)) \in Nat
      BY <2>1, ListLength, CountIsNat
    <3> QED BY <2>1, <3>1 DEF VariableSize
  <2>2. CASE stored.type \in LinkTypes
    <3>1. ASSUME NEW s \in Seq(Nat) PROVE Len(s) \in Nat
      OBVIOUS
    <3>2. VariableSize = Len(stored.body.target)
      BY <2>2 DEF VariableSize, FileTypes, LinkTypes
    <3> QED BY <2>2, <3>1, <3>2
  <2> QED BY <2>1, <2>2
<1>2. FixedSize(stored.type) \in {16, 40}
  BY DEF FixedSize, FileTypes, LinkTypes, DirTypes
<1>3. Available \in Int
  BY DEF Available, Loaded, NoBlock
<1> DEFINE v == VariableSize
           x == FixedSize(stored.type)
           y == Available
<1>4. v \in Nat /\ x \in {16, 40} /\ y \in Int /\ (y < 0 \/ x > y)
  BY <1>1, <1>2, <1>3
<1>5. EndLoaded <=> x + v <= y
  BY DEF EndLoaded
<1> HIDE DEF v, x, y
<1> QED BY <1>4, <1>5

\* A remainder is not larger than what it is the remainder of.
LEMMA RemainderBelow ==
    ASSUME NEW n \in Nat, NEW w \in Nat \ {0}
    PROVE  n % w \in Int /\ n % w <= n
OBVIOUS

\* The sum that wraps refuses no part the other would take.
LEMMA UnfitIsShort ==
    ASSUME stored \in Inodes, ~VariableFits
    PROVE  ~EndLoaded
<1>1. CASE stored.type \notin LinkTypes
  BY <1>1 DEF VariableFits
<1>2. CASE stored.type \in LinkTypes
  <2> DEFINE v == VariableSize
             l == Loaded
             o == stored.offset
             sum == o + 16 + 16 + v
  <2>1. v \in Nat
    <3>1. ASSUME NEW s \in Seq(Nat) PROVE Len(s) \in Nat
      OBVIOUS
    <3>2. VariableSize = Len(stored.body.target)
      BY <1>2 DEF VariableSize, FileTypes, LinkTypes
    <3> QED BY <1>2, <3>1, <3>2
  <2>2. FixedSize(stored.type) = 16
    BY <1>2 DEF FixedSize, FileTypes, LinkTypes, DirTypes
  <2>3. l \in Int /\ o \in Nat
    BY DEF Loaded, NoBlock
  <2>4. ~(sum % Word <= l)
    BY <1>2, <2>2 DEF VariableFits
  <2>5. EndLoaded <=> 16 + v <= l - (o + 16)
    BY <2>2 DEF EndLoaded, Available
  <2> HIDE DEF v, l, o
  <2>6. sum \in Nat
    BY <2>1, <2>3
  <2>7. sum % Word \in Int /\ sum % Word <= sum
    <3> HIDE DEF sum
    <3> QED BY <2>6, RemainderBelow
  <2> DEFINE rest == sum % Word
  <2> HIDE DEF rest
  <2>8. rest \in Int /\ rest <= sum /\ ~(rest <= l)
    BY <2>4, <2>7 DEF rest
  <2> QED BY <2>1, <2>3, <2>5, <2>8
<1> QED BY <1>1, <1>2

LEMMA RefusalsHaveCause ==
    ASSUME Shape, RefusedForCause, [Next]_vars
    PROVE  RefusedForCause'
<1>0. ASSUME stored' = stored
      PROVE  EndLoaded' = EndLoaded /\ Narrow(stored)' = Narrow(stored)
  BY <1>0 DEF EndLoaded, VariableSize, Available, Loaded, NeedsMerge, BlockCount, File, Narrow
\* What ends the call: a failing host, or a refusal that the inode causes.
<1>1. ASSUME stored' = stored, faulted' = TRUE, pc' = "idle"
      PROVE  RefusedForCause'
  BY <1>1 DEF RefusedForCause, Excused
<1>2. ASSUME stored' = stored, pc' = "idle",
             stored.sound => stored.type \in FileTypes \cup LinkTypes /\ ~EndLoaded
      PROVE  RefusedForCause'
  BY <1>0, <1>2 DEF RefusedForCause, Excused
<1>3. ASSUME pc' \in {"load", "fit", "merge", "base", "fixed", "variable", "result"}
      PROVE  RefusedForCause'
  BY <1>3 DEF RefusedForCause
<1> USE DEF Go, Fail, HostFails, Refused
<1>4. ASSUME NEW i \in Inodes, Call(i) PROVE RefusedForCause'
  BY <1>3, <1>4 DEF Call
<1>5. CASE Load \/ Fits \/ Merge
  <2>1. CASE ~stored.sound /\ Refused("INVALID_FILE", {})
    BY <1>2, <2>1
  <2> QED BY <1>1, <1>3, <1>5, <2>1 DEF Load, Fits, Merge
<1>6. CASE LoadNext
  <2>1. CASE stored.next = NoBlock /\ Refused("INVALID_FILE", {"data"})
    BY <1>2, <2>1, SoundFits DEF Shape
  <2> QED BY <1>1, <1>3, <1>6, <2>1 DEF LoadNext
<1>7. CASE ParseBase
  <2>1. CASE pc' = "idle"
    <3>1. stored' = stored /\ stored \in Inodes /\ (Available < 0 \/ stored.type \notin Types)
      BY <1>7, <2>1 DEF ParseBase, Shape
    <3>2. Available \in Int
      BY <3>1 DEF Available, Loaded, NoBlock
    <3> QED BY <1>2, <2>1, <3>1, <3>2, SoundFits, ShortIsShort
  <2> QED BY <1>3, <1>7, <2>1 DEF ParseBase
<1>8. CASE ParseFixed
  <2>1. CASE pc' = "idle" /\ faulted' # TRUE
    <3>1. /\ stored' = stored /\ stored \in Inodes
          /\ FixedSize(stored.type) > Available \/ FieldsRefused
      BY <1>8, <2>1 DEF ParseFixed, Shape
    <3>2. Available \in Int
      BY <3>1 DEF Available, Loaded, NoBlock
    <3>3. ASSUME stored.sound, stored.type \notin FileTypes \cup LinkTypes
          PROVE  ~(FixedSize(stored.type) > Available)
      <4> DEFINE x == FixedSize(stored.type)
                 y == Available
      <4>1. x <= y /\ y \in Int
        BY <3>1, <3>2, <3>3, SoundFits
      <4>2. x \in 0 .. 12
        <5>1. stored.type \in Types
          BY <3>1, <3>3, SoundFits
        <5> QED BY <3>3, <5>1, PlainSizes
      <4> HIDE DEF x, y
      <4>3. ~(x > y)
        BY <4>1, <4>2
      <4> QED BY <4>3 DEF x, y
    <3> QED BY <1>2, <2>1, <3>1, <3>3, SoundFits, ShortIsShort
  <2> QED BY <1>1, <1>3, <1>8, <2>1 DEF ParseFixed
<1>9. CASE ParseVariable
  <2>1. CASE pc' = "idle" /\ faulted' # TRUE
    <3>1. stored' = stored /\ stored \in Inodes /\ (FieldsRefused \/ ~EndLoaded)
      BY <1>9, <2>1, UnfitIsShort DEF ParseVariable, Shape
    <3> QED BY <1>2, <2>1, <3>1, SoundFits
  <2> QED BY <1>1, <1>3, <1>9, <2>1 DEF ParseVariable
<1>10. CASE Result
  BY <1>10 DEF Result, RefusedForCause
<1>11. CASE FreeInode
  BY <1>11 DEF FreeInode, RefusedForCause
<1>12. CASE UNCHANGED vars
  BY <1>0, <1>12 DEF vars, RefusedForCause, Excused
<1> QED BY <1>4, <1>5, <1>6, <1>7, <1>8, <1>9, <1>10, <1>11, <1>12 DEF Next, Reading

(***************************************************************************)
(* squash_read_inode reads every inode stored as the format says when no   *)
(* host call fails, wherever it begins in its block, except of files and   *)
(* links whose end was not loaded and of files too large for 32 bits.      *)
(***************************************************************************)
THEOREM SoundInodesAreRead == Spec => []SoundInodeIsReadable
<1>1. Init => RefusedForCause
  BY DEF Init, RefusedForCause
<1>2. IInv /\ RefusedForCause /\ [Next]_vars => RefusedForCause'
  BY RefusalsHaveCause DEF IInv
<1>3. RefusedForCause => SoundInodeIsReadable
  BY DEF RefusedForCause, Excused, SoundInodeIsReadable
<1> QED BY <1>1, <1>2, <1>3, IInvHolds, PTL DEF Spec
=============================================================================
