------------------------- MODULE SquashOpen_proofs -------------------------
(***************************************************************************)
(* Opening an image, for every image and whatever fails: each of the       *)
(* failure branches of squash_open releases what is held, a fragment table *)
(* that is there is complete, and a sound image opens.                     *)
(***************************************************************************)
EXTENDS SquashOpen, TLAPS

Loops == {"lookup blocks", "fragment blocks", "scan"}
Places ==
    {"closed", "file", "super", "decompressor", "lookup", "lookup index", "fragments",
     "fragment index", "root", "filename", "open"} \cup Loops

Typed ==
    /\ image \in Images
    /\ pc \in Places
    /\ step \in {"header", "read", "decode", "use"}
    /\ block \in Nat /\ loaded \in Nat

(***************************************************************************)
(* The members of *fs at each stage.  Every branch names its own list of   *)
(* what to free; it is the right one because of the stages that have run.  *)
(***************************************************************************)
Tables == {"lookup_table", "fragment_table"}
Stored ==
    /\ pc \in {"closed", "file", "super", "decompressor"} => fields = {}
    /\ pc \in {"lookup", "lookup index"} => fields = {"decompressor"}
    /\ pc = "lookup blocks" => fields = {"decompressor", "lookup_table"}
    /\ pc \in {"fragments", "fragment index"} =>
          fields \in {{"decompressor"}, {"decompressor", "lookup_table"}}
    /\ pc = "fragment blocks" =>
          \E t \in SUBSET {"lookup_table"} : fields = {"decompressor", "fragment_table"} \cup t
    /\ pc \in {"root", "scan", "filename"} =>
          \E t \in SUBSET Tables : fields = {"decompressor"} \cup t
    /\ pc = "open" =>
          \E t \in SUBSET Tables : fields = {"decompressor", "filename"} \cup t

\* A block is being read only while the loop has one left.
InLoop ==
    /\ pc \in Loops /\ step # "header" => block < BlocksOf(pc)
    /\ pc \in {"root", "filename"} => step = "header"

Complete ==
    pc \in {"root", "scan", "filename", "open"} /\ "fragment_table" \in fields =>
        loaded = image.fragments

Shape == Typed /\ Stored /\ InLoop /\ Complete
Balanced == live = [r \in Resources |-> IF Holds(r) THEN 1 ELSE 0]
IInv == Shape /\ Balanced

-----------------------------------------------------------------------------
\* A failing branch leaves nothing behind: it lists what the stage had.
LEMMA FailReleases ==
    ASSUME Balanced, NEW e, NEW temporaries \in SUBSET Temporaries, NEW table, NEW listed,
           fields \subseteq Members,
           Fail(e, temporaries, table, listed),
           pc \notin {"closed", "file"},
           fields \subseteq table \cup listed,
           \A r \in Temporaries : Holds(r) <=> r \in temporaries
    PROVE  Balanced' /\ pc' = "closed" /\ fields' = {}
<1> DEFINE S == temporaries \cup (table \cap fields) \cup (listed \cap (fields \ table))
                \cup {"file", "fs"}
<1>1. \A r \in Resources : r \in S <=> Holds(r)
  <2>1. \A r \in Members : r \in S <=> r \in fields
    BY DEF Members, Temporaries
  <2>2. \A r \in Members : Holds(r) <=> r \in fields
    BY DEF Members, Holds
  <2>3. \A r \in Temporaries : r \in S <=> r \in temporaries
    BY DEF Members, Temporaries
  <2>4. Holds("fs") /\ Holds("file") /\ "fs" \in S /\ "file" \in S
    BY DEF Holds
  <2> HIDE DEF S
  <2> QED BY <2>1, <2>2, <2>3, <2>4 DEF Resources
<1>2. live' = Freed(S) /\ pc' = "closed" /\ fields' = {}
  BY DEF Fail
<1> HIDE DEF S
<1>3. Freed(S) = [r \in Resources |-> 0]
  <2>1. \A r \in Resources : Freed(S)[r] = 0
    BY <1>1 DEF Freed, Balanced
  <2> QED BY <2>1 DEF Freed
<1>4. \A r \in Resources : ~Holds(r)'
  BY <1>2 DEF Holds, Reading
<1> QED BY <1>2, <1>3, <1>4 DEF Balanced

LEMMA Failing ==
    ASSUME IInv, NEW e, NEW temporaries \in SUBSET Temporaries, NEW table, NEW listed,
           HostFails(e, temporaries, table, listed) \/ ImageFails(e, temporaries, table, listed),
           pc \notin {"closed", "file"},
           fields \subseteq table \cup listed,
           \A r \in Temporaries : Holds(r) <=> r \in temporaries
    PROVE  IInv'
<1>1. Fail(e, temporaries, table, listed)
  BY DEF HostFails, ImageFails
<1>2. fields \subseteq Members
  BY DEF IInv, Shape, Typed, Places, Loops, Stored, Tables, Members
<1>3. Balanced' /\ pc' = "closed" /\ fields' = {}
  BY <1>1, <1>2, FailReleases DEF IInv
<1>4. image' = image /\ block' = block /\ step' = step /\ loaded' = loaded
  BY <1>1 DEF Fail
<1> QED BY <1>3, <1>4 DEF IInv, Shape, Typed, Places, Loops, Stored, InLoop, Complete

-----------------------------------------------------------------------------
\* A step that goes on takes one thing, or frees some, or neither.
LEMMA Takes ==
    ASSUME Balanced, NEW r \in Resources, live' = Taken(r), ~Holds(r),
           \A q \in Resources : Holds(q)' <=> Holds(q) \/ q = r
    PROVE  Balanced'
<1>1. \A q \in Resources : Taken(r)[q] = IF Holds(q)' THEN 1 ELSE 0
  BY DEF Taken, Balanced
<1> QED BY <1>1 DEF Taken, Balanced

LEMMA Frees ==
    ASSUME Balanced, NEW S \in SUBSET Resources, live' = Freed(S),
           \A q \in S : Holds(q),
           \A q \in Resources : Holds(q)' <=> Holds(q) /\ q \notin S
    PROVE  Balanced'
<1>1. \A q \in Resources : Freed(S)[q] = IF Holds(q)' THEN 1 ELSE 0
  BY DEF Freed, Balanced
<1> QED BY <1>1 DEF Freed, Balanced

LEMMA Keeps ==
    ASSUME Balanced, live' = live,
           \A q \in Resources : Holds(q)' <=> Holds(q)
    PROVE  Balanced'
BY DEF Balanced

-----------------------------------------------------------------------------
\* The stages without a loop.
LEMMA Begins ==
    ASSUME IInv, Open \/ OpenFile \/ ReadSuper \/ InitDecompressor
    PROVE  IInv'
<1> USE DEF IInv, Shape, Typed, Places, Loops, Stored, InLoop, Complete, GoTo
<1> USE DEF Resources, Members, Temporaries
<1>1. CASE Open
  <2>1. CASE pc' = "file"
    <3>1. live' = Taken("fs") /\ fields' = fields /\ pc = "closed"
      BY <1>1, <2>1 DEF Open
    <3>2. Balanced'
      BY <2>1, <3>1, Takes DEF Holds, Reading
    <3> QED BY <1>1, <2>1, <3>1, <3>2 DEF Open
  <2>2. CASE pc' # "file"
    <3>1. pc' = "closed" /\ live' = live /\ fields' = fields /\ pc = "closed"
      BY <1>1, <2>2 DEF Open
    <3>2. Balanced'
      BY <3>1, Keeps DEF Holds, Reading
    <3> QED BY <1>1, <3>1, <3>2 DEF Open
  <2> QED BY <2>1, <2>2
<1>2. CASE OpenFile
  <2>1. CASE pc' = "super"
    <3>1. live' = Taken("file") /\ fields' = fields /\ pc = "file"
      BY <1>2, <2>1 DEF OpenFile
    <3>2. Balanced'
      BY <2>1, <3>1, Takes DEF Holds, Reading
    <3> QED BY <1>2, <2>1, <3>1, <3>2 DEF OpenFile
  <2>2. CASE pc' # "super"
    <3>1. pc' = "closed" /\ live' = Freed({"fs"}) /\ fields' = fields /\ pc = "file"
      BY <1>2, <2>2 DEF OpenFile
    <3>2. Balanced'
      BY <3>1, Frees DEF Holds, Reading
    <3> QED BY <1>2, <2>2, <3>1, <3>2 DEF OpenFile
  <2> QED BY <2>1, <2>2
<1>3. CASE ReadSuper
  <2>1. pc = "super" /\ fields = {} /\ \A r \in Temporaries : ~Holds(r)
    BY <1>3 DEF ReadSuper, Holds, Reading
  <2>2. CASE pc' = "decompressor"
    <3>1. live' = live /\ fields' = fields
      BY <1>3, <2>2 DEF ReadSuper, ImageFails, HostFails, Fail
    <3>2. Balanced'
      BY <2>1, <2>2, <3>1, Keeps DEF Holds, Reading
    <3> QED BY <1>3, <2>1, <2>2, <3>1, <3>2 DEF ReadSuper, ImageFails, HostFails, Fail
  <2>3. CASE pc' # "decompressor"
    <3>1. ImageFails(SuperCheck(image), {}, {}, {}) \/ HostFails("IO", {}, {}, {})
      BY <1>3, <2>3 DEF ReadSuper
    <3> QED BY <2>1, <3>1, Failing
  <2> QED BY <2>2, <2>3
<1>4. CASE InitDecompressor
  <2>1. pc = "decompressor" /\ fields = {} /\ \A r \in Temporaries : ~Holds(r)
    BY <1>4 DEF InitDecompressor, Holds, Reading
  <2>2. CASE pc' = "lookup"
    <3>1. live' = Taken("decompressor") /\ fields' = {"decompressor"}
      BY <1>4, <2>1, <2>2 DEF InitDecompressor, ImageFails, HostFails, Fail
    <3>2. Balanced'
      BY <2>1, <2>2, <3>1, Takes DEF Holds, Reading
    <3> QED BY <1>4, <2>1, <2>2, <3>1, <3>2 DEF InitDecompressor, ImageFails, HostFails, Fail
  <2>3. CASE pc' # "lookup"
    <3>1. ImageFails("COMPRESSION", {}, {}, {}) \/ HostFails("COMPRESSION", {}, {}, {})
      BY <1>4, <2>3 DEF InitDecompressor
    <3> QED BY <2>1, <3>1, Failing
  <2> QED BY <2>2, <2>3
<1> QED BY <1>1, <1>2, <1>3, <1>4

\* A step to the next stage.
LEMMA Advances ==
    ASSUME IInv, Balanced', Stored', pc' \in Places, step' = "header", block' = 0,
           loaded' \in {0, loaded}, image' = image,
           pc' \in {"root", "scan", "filename", "open"} => Complete'
    PROVE  IInv'
BY DEF IInv, Shape, Typed, InLoop, Complete

LEMMA LooksUp ==
    ASSUME IInv, SkipLookup \/ LookupIndex \/ LookupTable \/ LookupLoaded
    PROVE  IInv'
<1>0. Stored /\ Balanced
  BY DEF IInv, Shape
<1>1. CASE SkipLookup
  <2>1. /\ pc = "lookup" /\ pc' = "fragments" /\ live' = live /\ fields' = fields
        /\ step' = "header" /\ block' = 0 /\ loaded' = loaded /\ image' = image
    BY <1>1 DEF SkipLookup, GoTo
  <2>2. Balanced'
    BY <1>0, <2>1, Keeps DEF Holds, Reading
  <2>3. Stored' /\ pc' \in Places
    BY <1>0, <2>1 DEF Stored, Places
  <2> QED BY <2>1, <2>2, <2>3, Advances
<1>2. CASE LookupIndex
  <2>1. pc = "lookup" /\ fields = {"decompressor"}
    BY <1>0, <1>2 DEF LookupIndex, Stored
  <2>2. \A r \in Temporaries : Holds(r) <=> r \in {}
    BY <2>1 DEF Holds, Reading, Temporaries
  <2>3. CASE HostFails("MEMORY", {}, {}, Listed("lookup"))
    <3>1. fields \subseteq {} \cup Listed("lookup")
      BY <2>1 DEF Listed
    <3> QED BY <2>1, <2>2, <2>3, <3>1, Failing
  <2>4. CASE GoTo("lookup index") /\ live' = Taken("index") /\ UNCHANGED <<loaded, fields>>
    <3>1. Balanced'
      <4>1. "index" \in Resources /\ ~Holds("index")
        BY <2>2 DEF Resources, Temporaries
      <4>2. \A q \in Resources : Holds(q)' <=> Holds(q) \/ q = "index"
        BY <2>1, <2>4 DEF Holds, Reading, GoTo
      <4> QED BY <1>0, <2>4, <4>1, <4>2, Takes
    <3>2. Stored' /\ pc' \in Places
      BY <2>1, <2>4 DEF Stored, Places, GoTo
    <3> QED BY <2>4, <3>1, <3>2, Advances DEF GoTo
  <2> QED BY <1>2, <2>3, <2>4 DEF LookupIndex
<1>3. CASE LookupTable
  <2>1. pc = "lookup index" /\ fields = {"decompressor"}
    BY <1>0, <1>3 DEF LookupTable, Stored
  <2>2. \A r \in Temporaries : Holds(r) <=> r \in {"index"}
    BY <2>1 DEF Holds, Reading, Temporaries
  <2>3. CASE \E e \in {"IO", "MEMORY"} : HostFails(e, {"index"}, {}, Listed("lookup"))
    <3>1. fields \subseteq {} \cup Listed("lookup") /\ {"index"} \in SUBSET Temporaries
      BY <2>1 DEF Listed, Temporaries
    <3> QED BY <2>1, <2>2, <2>3, <3>1, Failing
  <2>4. CASE GoTo("fragments") /\ live' = Freed({"index"}) /\ UNCHANGED <<loaded, fields>>
    <3>1. Balanced'
      BY <1>0, <2>1, <2>4, Frees DEF Holds, Reading, Resources, Temporaries, GoTo
    <3>2. Stored' /\ pc' \in Places
      BY <2>1, <2>4 DEF Stored, Places, GoTo
    <3> QED BY <2>4, <3>1, <3>2, Advances DEF GoTo
  <2>5. CASE /\ GoTo("lookup blocks") /\ live' = Taken("lookup_table")
             /\ fields' = fields \cup {"lookup_table"} /\ loaded' = loaded
    <3>1. fields' = {"decompressor", "lookup_table"}
      BY <2>1, <2>5
    <3>2. Balanced'
      <4>1. "lookup_table" \in Resources /\ ~Holds("lookup_table")
        BY <2>1 DEF Resources, Members, Holds
      <4>2. \A q \in Resources : Holds(q)' <=> Holds(q) \/ q = "lookup_table"
        BY <2>1, <2>5, <3>1 DEF Holds, Reading, GoTo
      <4> QED BY <1>0, <2>5, <4>1, <4>2, Takes
    <3>3. Stored' /\ pc' \in Places
      BY <3>1, <2>5 DEF Stored, Places, Loops, GoTo
    <3> QED BY <2>5, <3>2, <3>3, Advances DEF GoTo
  <2> QED BY <1>3, <2>3, <2>4, <2>5 DEF LookupTable
<1>4. CASE LookupLoaded
  <2>1. pc = "lookup blocks" /\ fields = {"decompressor", "lookup_table"} /\ step = "header"
    <3>1. pc = "lookup blocks" /\ block = BlocksOf(pc) /\ block \in Nat
      BY <1>4 DEF LookupLoaded, IInv, Shape, Typed
    <3>2. step = "header"
      <4>1. step # "header" => block < BlocksOf(pc)
        BY <3>1 DEF IInv, Shape, InLoop, Loops
      <4>2. \A n \in Nat : ~(n < n)
        OBVIOUS
      <4> QED BY <3>1, <4>1, <4>2, Zenon
    <3> QED BY <1>0, <3>1, <3>2 DEF Stored
  <2>2. Balanced'
    <3>1. {"index"} \in SUBSET Resources /\ Holds("index")
      BY <2>1 DEF Resources, Temporaries, Holds
    <3>2. \A q \in Resources : Holds(q)' <=> Holds(q) /\ q \notin {"index"}
      <4>1. pc' = "fragments" /\ fields' = fields
        BY <1>4 DEF LookupLoaded, GoTo
      <4> QED BY <2>1, <4>1 DEF Holds, Reading
    <3> QED BY <1>0, <1>4, <3>1, <3>2, Frees DEF LookupLoaded
  <2>3. Stored' /\ pc' \in Places
    BY <1>4, <2>1 DEF LookupLoaded, Stored, Places, GoTo
  <2> QED BY <1>4, <2>2, <2>3, Advances DEF LookupLoaded, GoTo
<1> QED BY <1>1, <1>2, <1>3, <1>4

LEMMA LoadsFragments ==
    ASSUME IInv, SkipFragments \/ FragmentIndex \/ FragmentTable \/ FragmentsLoaded
    PROVE  IInv'
<1>0. Stored /\ Balanced
  BY DEF IInv, Shape
<1> DEFINE Before == {{"decompressor"}, {"decompressor", "lookup_table"}}
<1>1. CASE SkipFragments
  <2>1. /\ pc = "fragments" /\ pc' = "root" /\ live' = live /\ fields' = fields
        /\ step' = "header" /\ block' = 0 /\ loaded' = loaded /\ image' = image
    BY <1>1 DEF SkipFragments, GoTo
  <2>2. Balanced'
    BY <1>0, <2>1, Keeps DEF Holds, Reading
  <2>3. fields \in Before
    BY <1>0, <2>1 DEF Stored
  <2>4. \E t \in SUBSET Tables : fields' = {"decompressor"} \cup t
    <3>1. CASE fields = {"decompressor"}
      BY <2>1, <3>1, {} \in SUBSET Tables
    <3>2. CASE fields = {"decompressor", "lookup_table"}
      BY <2>1, <3>2, {"lookup_table"} \in SUBSET Tables DEF Tables
    <3> QED BY <2>3, <3>1, <3>2
  <2>5. Stored' /\ Complete' /\ pc' \in Places
    BY <2>1, <2>3, <2>4 DEF Stored, Places, Complete
  <2> QED BY <2>1, <2>2, <2>5, Advances
<1>2. CASE FragmentIndex
  <2>1. pc = "fragments" /\ fields \in Before
    BY <1>0, <1>2 DEF FragmentIndex, Stored
  <2>2. \A r \in Temporaries : Holds(r) <=> r \in {}
    BY <2>1 DEF Holds, Reading, Temporaries
  <2>3. CASE HostFails("MEMORY", {}, {}, Listed("fragments"))
    <3>1. fields \subseteq {} \cup Listed("fragments")
      BY <2>1 DEF Listed
    <3> QED BY <2>1, <2>2, <2>3, <3>1, Failing
  <2>4. CASE GoTo("fragment index") /\ live' = Taken("index") /\ UNCHANGED <<loaded, fields>>
    <3>1. Balanced'
      <4>1. "index" \in Resources /\ ~Holds("index")
        BY <2>2 DEF Resources, Temporaries
      <4>2. \A q \in Resources : Holds(q)' <=> Holds(q) \/ q = "index"
        BY <2>1, <2>4 DEF Holds, Reading, GoTo
      <4> QED BY <1>0, <2>4, <4>1, <4>2, Takes
    <3>2. Stored' /\ pc' \in Places
      BY <2>1, <2>4 DEF Stored, Places, GoTo
    <3> QED BY <2>4, <3>1, <3>2, Advances DEF GoTo
  <2> QED BY <1>2, <2>3, <2>4 DEF FragmentIndex
<1>3. CASE FragmentTable
  <2>1. pc = "fragment index" /\ fields \in Before
    BY <1>0, <1>3 DEF FragmentTable, Stored
  <2>2. \A r \in Temporaries : Holds(r) <=> r \in {"index"}
    BY <2>1 DEF Holds, Reading, Temporaries
  <2>3. CASE \E e \in {"IO", "MEMORY"} : HostFails(e, {"index"}, {}, Listed("fragments"))
    <3>1. fields \subseteq {} \cup Listed("fragments") /\ {"index"} \in SUBSET Temporaries
      BY <2>1 DEF Listed, Temporaries
    <3> QED BY <2>1, <2>2, <2>3, <3>1, Failing
  <2>4. CASE /\ GoTo("fragment blocks") /\ live' = Taken("fragment_table")
             /\ fields' = fields \cup {"fragment_table"} /\ loaded' = 0
    <3>1. Balanced'
      <4>1. "fragment_table" \in Resources /\ ~Holds("fragment_table")
        BY <2>1 DEF Resources, Members, Holds
      <4>2. \A q \in Resources : Holds(q)' <=> Holds(q) \/ q = "fragment_table"
        BY <2>1, <2>4 DEF Holds, Reading, GoTo
      <4> QED BY <1>0, <2>4, <4>1, <4>2, Takes
    <3>2. \E t \in SUBSET {"lookup_table"} : fields' = {"decompressor", "fragment_table"} \cup t
      <4>1. CASE fields = {"decompressor"}
        BY <2>4, <4>1, {} \in SUBSET {"lookup_table"}
      <4>2. CASE fields = {"decompressor", "lookup_table"}
        BY <2>4, <4>2, {"lookup_table"} \in SUBSET {"lookup_table"}
      <4> QED BY <2>1, <4>1, <4>2
    <3>3. Stored' /\ pc' \in Places
      BY <2>4, <3>2 DEF Stored, Places, Loops, GoTo
    <3> QED BY <2>4, <3>1, <3>3, Advances DEF GoTo
  <2> QED BY <1>3, <2>3, <2>4 DEF FragmentTable
<1>4. CASE FragmentsLoaded
  <2>1. pc = "fragment blocks" /\ step = "header"
    BY <1>4 DEF FragmentsLoaded
  <2>2. PICK t \in SUBSET {"lookup_table"} : fields = {"decompressor", "fragment_table"} \cup t
    BY <1>0, <2>1 DEF Stored
  <2>3. \A r \in Temporaries : Holds(r) <=> r \in {"index"}
    BY <2>1, <2>2 DEF Holds, Reading, Temporaries
  <2>4. CASE ImageFails("INVALID_FILE", {"index"}, TableOf(pc), Listed("fragments"))
    <3>1. fields \subseteq TableOf(pc) \cup Listed("fragments") /\ {"index"} \in SUBSET Temporaries
      BY <2>1, <2>2 DEF Listed, TableOf, Temporaries
    <3> QED BY <2>1, <2>3, <2>4, <3>1, Failing
  <2>5. CASE /\ GoTo("root") /\ live' = Freed({"index"}) /\ UNCHANGED <<loaded, fields>>
             /\ loaded = image.fragments
    <3>1. Balanced'
      <4>1. {"index"} \in SUBSET Resources /\ Holds("index")
        BY <2>3 DEF Resources, Temporaries
      <4>2. \A q \in Resources : Holds(q)' <=> Holds(q) /\ q \notin {"index"}
        BY <2>1, <2>2, <2>5 DEF Holds, Reading, GoTo
      <4> QED BY <1>0, <2>5, <4>1, <4>2, Frees
    <3>2. \E u \in SUBSET Tables : fields' = {"decompressor"} \cup u
      <4>1. {"fragment_table"} \cup t \in SUBSET Tables
        BY DEF Tables
      <4> QED BY <2>2, <2>5, <4>1
    <3>3. Stored' /\ Complete' /\ pc' \in Places
      BY <2>5, <3>2 DEF Stored, Places, Complete, GoTo
    <3> QED BY <2>5, <3>1, <3>3, Advances DEF GoTo
  <2> QED BY <1>4, <2>4, <2>5 DEF FragmentsLoaded
<1> QED BY <1>1, <1>2, <1>3, <1>4

-----------------------------------------------------------------------------
\* The loops: the branch of the table being filled lists all other members.
LEMMA BlockFailing ==
    ASSUME IInv, pc \in Loops, NEW e, NEW temporaries \in SUBSET {"compressed", "uncompressed"},
           BlockFails(e, temporaries),
           \A r \in {"compressed", "uncompressed"} : Holds(r) <=> r \in temporaries
    PROVE  IInv'
<1>0. Stored
  BY DEF IInv, Shape
<1>1. fields \subseteq TableOf(pc) \cup Listed(StageOf(pc))
  <2>1. CASE pc = "lookup blocks"
    BY <1>0, <2>1 DEF Stored, TableOf, StageOf, Listed
  <2>2. CASE pc = "fragment blocks"
    <3>1. PICK t \in SUBSET {"lookup_table"} : fields = {"decompressor", "fragment_table"} \cup t
      BY <1>0, <2>2 DEF Stored
    <3> QED BY <2>2, <3>1 DEF TableOf, StageOf, Listed
  <2>3. CASE pc = "scan"
    <3>1. PICK t \in SUBSET Tables : fields = {"decompressor"} \cup t
      BY <1>0, <2>3 DEF Stored
    <3> QED BY <2>3, <3>1 DEF TableOf, StageOf, Listed, Tables
  <2> QED BY <2>1, <2>2, <2>3 DEF Loops
<1>2. "index" \notin fields
  <2>1. fields \subseteq Members
    BY <1>1 DEF TableOf, StageOf, Listed, Loops, Members
  <2> QED BY <2>1 DEF Members
<1>3. temporaries \cup IndexOf(pc) \in SUBSET Temporaries
  BY DEF IndexOf, Temporaries
<1>4. \A r \in Temporaries : Holds(r) <=> r \in temporaries \cup IndexOf(pc)
  <2>1. Holds("index") <=> "index" \in temporaries \cup IndexOf(pc)
    BY <1>2 DEF Holds, IndexOf, Loops
  <2>2. \A r \in {"compressed", "uncompressed"} : r \notin IndexOf(pc)
    BY DEF IndexOf
  <2> QED BY <2>1, <2>2 DEF Temporaries
<1>5. HostFails(e, temporaries \cup IndexOf(pc), TableOf(pc), Listed(StageOf(pc)))
  BY DEF BlockFails
<1>6. pc \notin {"closed", "file"}
  BY DEF Loops
<1> QED BY <1>1, <1>3, <1>4, <1>5, <1>6, Failing

\* A step inside the reading of one block.
LEMMA StepsOn ==
    ASSUME IInv, Balanced', pc \in Loops, block < BlocksOf(pc),
           NEW s \in {"read", "decode", "use"}, StepTo(s)
    PROVE  IInv'
<1>1. BlocksOf(pc)' = BlocksOf(pc)
  BY DEF StepTo, BlocksOf
<1>2. Typed' /\ Stored' /\ Complete'
  BY DEF IInv, Shape, Typed, Stored, Complete, StepTo
<1>3. InLoop'
  BY <1>1 DEF InLoop, StepTo, Loops
<1> QED BY <1>2, <1>3 DEF IInv, Shape

LEMMA ReadsBlocks ==
    ASSUME IInv, BlockHeader \/ BlockStored \/ Decode
    PROVE  IInv'
<1>0. Balanced /\ pc \in Loops /\ block < BlocksOf(pc) /\ fields \subseteq Members
  <2>1. pc \in Loops /\ block < BlocksOf(pc)
    BY DEF BlockHeader, BlockStored, Decode, ReadingBlock, Loops
  <2>2. fields \subseteq Members
    BY <2>1 DEF IInv, Shape, Stored, Loops, Tables, Members
  <2> QED BY <2>1, <2>2 DEF IInv
<1>1. "compressed" \notin fields /\ "uncompressed" \notin fields
  BY <1>0 DEF Members
<1>2. CASE BlockHeader
  <2>1. step = "header"
    BY <1>2 DEF BlockHeader, ReadingBlock
  <2>2. \A r \in {"compressed", "uncompressed"} : ~Holds(r)
    BY <1>1, <2>1 DEF Holds
  <2>3. CASE \E e \in HeaderErrors : BlockFails(e, {})
    BY <1>0, <2>2, <2>3, BlockFailing
  <2>4. CASE StepTo("read") /\ live' = Taken("compressed")
    <3>1. "compressed" \in Resources /\ ~Holds("compressed")
      BY <2>2 DEF Resources, Temporaries
    <3>2. \A q \in Resources : Holds(q)' <=> Holds(q) \/ q = "compressed"
      BY <1>0, <2>1, <2>4 DEF Holds, Reading, StepTo, Loops
    <3>3. Balanced'
      BY <1>0, <2>4, <3>1, <3>2, Takes
    <3> QED BY <1>0, <2>4, <3>3, StepsOn
  <2> QED BY <1>2, <2>3, <2>4 DEF BlockHeader
<1>3. CASE BlockStored
  <2>1. step = "read"
    BY <1>3 DEF BlockStored, ReadingBlock
  <2>2. Holds("compressed") /\ ~Holds("uncompressed")
    BY <1>0, <1>1, <2>1 DEF Holds, Reading, Loops
  <2>3. CASE \E e \in {"IO", "MEMORY"} : BlockFails(e, {"compressed"})
    BY <1>0, <2>2, <2>3, BlockFailing
  <2>4. CASE StepTo("decode") /\ pc # "fragment blocks" /\ live' = Taken("uncompressed")
    <3>1. "uncompressed" \in Resources
      BY DEF Resources, Temporaries
    <3>2. \A q \in Resources : Holds(q)' <=> Holds(q) \/ q = "uncompressed"
      BY <1>0, <2>1, <2>4 DEF Holds, Reading, StepTo, Loops
    <3>3. Balanced'
      BY <1>0, <2>2, <2>4, <3>1, <3>2, Takes
    <3> QED BY <1>0, <2>4, <3>3, StepsOn
  <2>5. CASE StepTo("decode") /\ pc = "fragment blocks" /\ live' = live
    <3>1. \A q \in Resources : Holds(q)' <=> Holds(q)
      BY <1>0, <2>1, <2>5 DEF Holds, Reading, StepTo, Loops
    <3>2. Balanced'
      BY <1>0, <2>5, <3>1, Keeps
    <3> QED BY <1>0, <2>5, <3>2, StepsOn
  <2> QED BY <1>3, <2>3, <2>4, <2>5 DEF BlockStored
<1>4. CASE Decode
  <2>1. step = "decode"
    BY <1>4 DEF Decode, ReadingBlock
  <2>2. Holds("compressed") /\ (Holds("uncompressed") <=> pc # "fragment blocks")
    BY <1>0, <1>1, <2>1 DEF Holds, Reading, Loops
  <2> DEFINE buffers == {"compressed"} \cup
                        (IF pc = "fragment blocks" THEN {} ELSE {"uncompressed"})
  <2>3. CASE BlockFails("COMPRESSION", buffers)
    <3>1. /\ buffers \in SUBSET {"compressed", "uncompressed"}
          /\ \A r \in {"compressed", "uncompressed"} : Holds(r) <=> r \in buffers
      BY <2>2
    <3> HIDE DEF buffers
    <3> QED BY <1>0, <2>3, <3>1, BlockFailing
  <2>4. CASE StepTo("use") /\ live' = Freed({"compressed"})
    <3>1. {"compressed"} \in SUBSET Resources
      BY DEF Resources, Temporaries
    <3>2. \A q \in Resources : Holds(q)' <=> Holds(q) /\ q \notin {"compressed"}
      BY <1>0, <1>1, <2>1, <2>4 DEF Holds, Reading, StepTo, Loops
    <3>3. Balanced'
      BY <1>0, <2>2, <2>4, <3>1, <3>2, Frees
    <3> QED BY <1>0, <2>4, <3>3, StepsOn
  <2> QED BY <1>4, <2>3, <2>4 DEF Decode
<1> QED BY <1>2, <1>3, <1>4

LEMMA TableTypes ==
    ASSUME NEW im \in Images
    PROVE  /\ im.fragments \in Nat /\ Len(im.fragment_blocks) \in Nat
           /\ \A n \in 1 .. Len(im.fragment_blocks) :
                 LET b == im.fragment_blocks[n] IN
                 /\ b.before \in Nat /\ b.held \in Nat
                 /\ b.before = IF n = 1 THEN 0
                               ELSE im.fragment_blocks[n - 1].before + im.fragment_blocks[n - 1].held
<1> DEFINE B == [before : Nat, held : Nat]
           table == im.fragment_blocks
<1>1. im.fragments \in Nat /\ table \in Seq(B)
  BY ImagesAssumption
<1>2. \A n \in DOMAIN table :
         table[n].before = IF n = 1 THEN 0 ELSE table[n - 1].before + table[n - 1].held
  BY ImagesAssumption
<1> HIDE DEF B, table
<1>3. Len(table) \in Nat /\ DOMAIN table = 1 .. Len(table)
  BY <1>1
<1>4. ASSUME NEW n \in 1 .. Len(table)
      PROVE  table[n].before \in Nat /\ table[n].held \in Nat
  <2>1. table[n] \in B
    BY <1>1, <1>3, <1>4
  <2> QED BY <2>1 DEF B
<1> QED BY <1>1, <1>2, <1>3, <1>4 DEF table

LEMMA Below ==
    ASSUME NEW m \in Nat, NEW n \in Nat, m < n
    PROVE  n - m \in Nat /\ m + 1 \in 1 .. n
OBVIOUS

\* To the next block of the table or of the inodes.
LEMMA NextBlocks ==
    ASSUME IInv, UseLookupBlock \/ UseFragmentBlock \/ ScanOn
    PROVE  IInv'
<1>0. /\ Balanced /\ pc \in Loops /\ step = "use" /\ block < BlocksOf(pc)
      /\ fields \subseteq Members
  <2>1. pc \in Loops /\ step = "use" /\ block < BlocksOf(pc)
    BY DEF UseLookupBlock, UseFragmentBlock, ScanOn, ReadingBlock, Loops
  <2>2. fields \subseteq Members
    BY <2>1 DEF IInv, Shape, Stored, Loops, Tables, Members
  <2> QED BY <2>1, <2>2 DEF IInv
<1>1. "compressed" \notin fields /\ "uncompressed" \notin fields
  BY <1>0 DEF Members
<1>2. ASSUME NEW n \in Nat, NEW S \in SUBSET {"uncompressed"}, NextBlock(n, S),
             "uncompressed" \in S <=> pc # "fragment blocks",
             pc = "scan" => n = loaded
      PROVE  IInv'
  <2>1. live' = Freed(S) /\ step' = "header" /\ pc' = pc /\ fields' = fields
    BY <1>2 DEF NextBlock
  <2>2. \A q \in S : Holds(q)
    BY <1>0, <1>2 DEF Holds, Reading, Loops
  <2>3. \A q \in Resources : Holds(q)' <=> Holds(q) /\ q \notin S
    BY <1>0, <1>1, <1>2, <2>1 DEF Holds, Reading, Loops
  <2>4. S \in SUBSET Resources
    BY <1>2 DEF Resources, Temporaries
  <2>5. Balanced'
    BY <1>0, <2>1, <2>2, <2>3, <2>4, Frees
  <2>6. Typed' /\ Stored' /\ InLoop'
    <3>1. Typed'
      <4>1. image' = image /\ loaded' = n /\ block' = block + 1
        BY <1>2 DEF NextBlock
      <4>2. block' \in Nat
        BY <4>1 DEF IInv, Shape, Typed
      <4> QED BY <1>2, <2>1, <4>1, <4>2 DEF IInv, Shape, Typed
    <3>2. Stored'
      BY <2>1 DEF IInv, Shape, Stored
    <3>3. InLoop'
      BY <1>0, <2>1 DEF InLoop, Loops
    <3> QED BY <3>1, <3>2, <3>3
  <2>7. Complete'
    BY <1>0, <1>2, <2>1 DEF NextBlock, IInv, Shape, Complete, Loops
  <2> QED BY <2>5, <2>6, <2>7 DEF IInv, Shape
<1>3. loaded \in Nat /\ block \in Nat /\ image \in Images
  BY DEF IInv, Shape, Typed
<1>4. CASE UseLookupBlock
  BY <1>2, <1>3, <1>4 DEF UseLookupBlock
<1>5. CASE ScanOn
  BY <1>2, <1>3, <1>5 DEF ScanOn
<1>6. CASE UseFragmentBlock
  <2> DEFINE left == image.fragments - loaded
             here == image.fragment_blocks[block + 1].held
             n == loaded + (IF here > left THEN left ELSE here)
  <2>1. pc = "fragment blocks" /\ loaded < image.fragments /\ block < Len(image.fragment_blocks)
    BY <1>6 DEF UseFragmentBlock, ReadingBlock, BlocksOf
  <2>2. image.fragments \in Nat /\ Len(image.fragment_blocks) \in Nat
    BY <1>3, TableTypes
  <2>3. left \in Nat /\ here \in Nat
    <3>1. left \in Nat
      BY <1>3, <2>1, <2>2, Below
    <3>2. block + 1 \in 1 .. Len(image.fragment_blocks)
      BY <1>3, <2>1, <2>2, Below
    <3> QED BY <1>3, <3>1, <3>2, TableTypes
  <2>4. NextBlock(n, {})
    BY <1>6 DEF UseFragmentBlock
  <2> HIDE DEF left, here
  <2>5. n \in Nat
    BY <1>3, <2>3
  <2> HIDE DEF n
  <2> QED BY <1>2, <2>1, <2>4, <2>5
<1> QED BY <1>4, <1>5, <1>6

LEMMA FindsRoot ==
    ASSUME IInv, CheckRoot \/ ScanFinds \/ ScanEnds
    PROVE  IInv'
<1>0. Stored /\ Balanced /\ InLoop /\ Complete
  BY DEF IInv, Shape
<1>1. pc \in {"root", "scan"}
  BY DEF CheckRoot, ScanFinds, ScanEnds
<1>2. PICK t \in SUBSET Tables : fields = {"decompressor"} \cup t
  BY <1>0, <1>1 DEF Stored
<1>3. fields \cap Temporaries = {}
  BY <1>2 DEF Tables, Temporaries
<1>4. fields' = fields /\ pc' \in {"root", "scan", "filename"} => Stored' /\ pc' \in Places
  BY <1>2 DEF Stored, Places, Loops
<1>5. CASE CheckRoot
  <2>1. /\ pc' \in {"filename", "scan"} /\ step' = "header" /\ block' = 0
        /\ UNCHANGED <<loaded, fields, live, image>> /\ pc = "root"
    BY <1>5 DEF CheckRoot, GoTo
  <2>2. Balanced'
    <3>1. \A q \in Resources : Holds(q)' <=> Holds(q)
      BY <2>1 DEF Holds, Reading
    <3> QED BY <1>0, <2>1, <3>1, Keeps
  <2>3. Complete'
    BY <1>0, <2>1 DEF Complete
  <2> QED BY <1>4, <2>1, <2>2, <2>3, Advances
<1>6. CASE ScanFinds
  <2>1. /\ pc' = "filename" /\ step' = "header" /\ block' = 0 /\ pc = "scan" /\ step = "use"
        /\ UNCHANGED <<loaded, fields, image>> /\ live' = Freed({"uncompressed"})
    BY <1>6 DEF ScanFinds, GoTo, ReadingBlock
  <2>2. Balanced'
    <3>1. {"uncompressed"} \in SUBSET Resources
      BY DEF Resources, Temporaries
    <3>2. Holds("uncompressed")
      BY <2>1 DEF Holds, Reading
    <3>3. \A q \in Resources : Holds(q)' <=> Holds(q) /\ q \notin {"uncompressed"}
      BY <1>3, <2>1 DEF Holds, Reading, Temporaries
    <3> QED BY <1>0, <2>1, <3>1, <3>2, <3>3, Frees
  <2>3. Complete'
    BY <1>0, <2>1 DEF Complete
  <2> QED BY <1>4, <2>1, <2>2, <2>3, Advances
<1>7. CASE ScanEnds
  <2>1. pc = "scan" /\ block = BlocksOf(pc) /\ block \in Nat
    BY <1>7 DEF ScanEnds, IInv, Shape, Typed
  <2>2. step = "header"
    <3>1. step # "header" => block < BlocksOf(pc)
      BY <1>0, <2>1 DEF InLoop, Loops
    <3>2. \A n \in Nat : ~(n < n)
      OBVIOUS
    <3> QED BY <2>1, <3>1, <3>2, Zenon
  <2>3. \A r \in Temporaries : Holds(r) <=> r \in {}
    BY <1>3, <2>1, <2>2 DEF Holds, Temporaries
  <2>4. fields \subseteq {} \cup Listed("root")
    BY <1>2 DEF Listed, Tables
  <2> QED BY <1>7, <2>1, <2>3, <2>4, Failing DEF ScanEnds
<1> QED BY <1>5, <1>6, <1>7

LEMMA OpensOrCloses ==
    ASSUME IInv, CopyFilename \/ Close
    PROVE  IInv'
<1>0. Stored /\ Balanced /\ InLoop /\ Complete
  BY DEF IInv, Shape
<1>1. CASE CopyFilename
  <2>1. pc = "filename" /\ step = "header"
    BY <1>0, <1>1 DEF CopyFilename, InLoop
  <2>2. PICK t \in SUBSET Tables : fields = {"decompressor"} \cup t
    BY <1>0, <2>1 DEF Stored
  <2>3. CASE HostFails("MEMORY", {}, {}, Listed("filename"))
    <3>1. \A r \in Temporaries : Holds(r) <=> r \in {}
      BY <2>1, <2>2 DEF Holds, Reading, Temporaries, Tables
    <3>2. fields \subseteq {} \cup Listed("filename")
      BY <2>2 DEF Listed, Tables
    <3> QED BY <2>1, <2>3, <3>1, <3>2, Failing
  <2>4. CASE ~HostFails("MEMORY", {}, {}, Listed("filename"))
    <3>1. /\ pc' = "open" /\ fields' = fields \cup {"filename"} /\ live' = Taken("filename")
          /\ UNCHANGED <<image, block, step, loaded>>
      BY <1>1, <2>4 DEF CopyFilename
    <3>2. fields' = {"decompressor", "filename"} \cup t
      BY <2>2, <3>1
    <3>3. Balanced'
      <4>1. "filename" \in Resources /\ ~Holds("filename")
        BY <2>2 DEF Resources, Members, Holds, Tables
      <4>2. \A q \in Resources : Holds(q)' <=> Holds(q) \/ q = "filename"
        BY <2>1, <3>1 DEF Holds, Reading
      <4> QED BY <1>0, <3>1, <4>1, <4>2, Takes
    <3>4. Complete'
      BY <1>0, <2>1, <3>1 DEF Complete
    <3>5. Stored' /\ Typed' /\ InLoop'
      BY <2>1, <3>1, <3>2 DEF IInv, Shape, Stored, Typed, InLoop, Places, Loops
    <3> QED BY <3>3, <3>4, <3>5 DEF IInv, Shape
  <2> QED BY <2>3, <2>4
<1>2. CASE Close
  <2>1. pc = "open"
    BY <1>2 DEF Close
  <2>2. PICK t \in SUBSET Tables : fields = {"decompressor", "filename"} \cup t
    BY <1>0, <2>1 DEF Stored
  <2>3. /\ pc' = "closed" /\ fields' = {} /\ live' = Freed({"file", "fs"} \cup fields)
        /\ UNCHANGED <<image, block, step, loaded>>
    BY <1>2 DEF Close
  <2>4. Balanced'
    <3>1. {"file", "fs"} \cup fields \in SUBSET Resources
      BY <2>2 DEF Resources, Members, Tables
    <3>2. \A q \in {"file", "fs"} \cup fields : Holds(q)
      BY <2>1 DEF Holds
    <3>3. \A q \in Resources : Holds(q)' <=> Holds(q) /\ q \notin {"file", "fs"} \cup fields
      BY <2>1, <2>3 DEF Holds, Reading
    <3> QED BY <1>0, <2>3, <3>1, <3>2, <3>3, Frees
  <2>5. Stored' /\ Typed' /\ InLoop' /\ Complete'
    BY <2>3 DEF IInv, Shape, Stored, Typed, InLoop, Complete, Places, Loops
  <2> QED BY <2>4, <2>5 DEF IInv, Shape
<1> QED BY <1>1, <1>2

LEMMA IInvHolds == Spec => []IInv
<1>1. Init => IInv
  BY DEF Init, IInv, Shape, Typed, Stored, InLoop, Complete, Balanced, Places, Loops,
         Holds, Reading
<1>2. IInv /\ [Next]_vars => IInv'
  <2>1. CASE UNCHANGED vars
    <3>1. BlocksOf(pc)' = BlocksOf(pc) /\ \A q \in Resources : Holds(q)' <=> Holds(q)
      BY <2>1 DEF vars, BlocksOf, Holds, Reading
    <3>2. IInv => Balanced'
      BY <2>1, <3>1, Keeps DEF vars, IInv
    <3>3. IInv => Typed' /\ Stored' /\ Complete'
      BY <2>1 DEF vars, IInv, Shape, Typed, Stored, Complete
    <3>4. IInv => InLoop'
      BY <2>1, <3>1 DEF vars, IInv, Shape, InLoop
    <3> QED BY <3>2, <3>3, <3>4 DEF IInv, Shape
  <2>2. CASE Next
    BY <2>2, Begins, LooksUp, LoadsFragments, ReadsBlocks, NextBlocks, FindsRoot, OpensOrCloses
       DEF Next, Stages, BlockReading
  <2> QED BY <2>1, <2>2
<1> QED BY <1>1, <1>2, PTL DEF Spec

-----------------------------------------------------------------------------
(***************************************************************************)
(* Whatever fails, at whatever stage, in whatever image: squash_open and   *)
(* squash_close release each thing acquired once (squash_reader.c).        *)
(***************************************************************************)
THEOREM OpenBalance == Spec => []HoldsExactly
<1>1. IInv => HoldsExactly
  <2>1. SUFFICES ASSUME IInv PROVE HoldsExactly
    OBVIOUS
  <2>2. pc = "open" => {"decompressor", "filename"} \subseteq fields
    BY <2>1 DEF IInv, Shape, Stored
  <2> QED BY <2>1, <2>2 DEF IInv, Shape, Stored, Balanced, HoldsExactly
<1> QED BY <1>1, IInvHolds, PTL

(***************************************************************************)
(* The file reader indexes the fragment table up to super.fragments        *)
(* without asking how many entries were read (squash_file.c 102).          *)
(***************************************************************************)
THEOREM FragmentsComplete == Spec => []FragmentTableComplete
<1>1. IInv => FragmentTableComplete
  BY DEF IInv, Shape, Complete, FragmentTableComplete
<1> QED BY <1>1, IInvHolds, PTL

(***************************************************************************)
(* Types; no allocation is released twice, so no count is negative.        *)
(***************************************************************************)
THEOREM TypeCorrect == Spec => []TypeOK
<1>1. IInv => TypeOK
  <2>1. SUFFICES ASSUME IInv PROVE TypeOK
    OBVIOUS
  <2>2. fields \subseteq Members
    BY <2>1 DEF IInv, Shape, Typed, Places, Loops, Stored, Tables, Members
  <2>3. live \in [Resources -> Nat]
    BY <2>1 DEF IInv, Balanced
  <2> QED BY <2>1, <2>2, <2>3 DEF IInv, Shape, Typed, TypeOK
<1> QED BY <1>1, IInvHolds, PTL

-----------------------------------------------------------------------------
(***************************************************************************)
(* A sound image.  While its fragment table is read, what is read is what  *)
(* stands before the next block, so that the blocks do not run out before  *)
(* the entries; while the root is searched for, it is in none of the       *)
(* blocks gone through.                                                    *)
(***************************************************************************)
TableAhead ==
    /\ loaded <= image.fragments
    /\ loaded < image.fragments =>
          /\ block < Len(image.fragment_blocks)
          /\ loaded = image.fragment_blocks[block + 1].before
RootAhead == \A n \in 1 .. block : ~RootIn(image.inode_blocks[n], image.root)
SoundSoFar ==
    /\ pc \in {"fragment index", "fragment blocks"} =>
          image.fragments # 0 /\ image.fragment_table_start # "invalid"
    /\ image.sound =>
          /\ pc = "fragment blocks" => TableAhead
          /\ pc = "scan" => RootAhead
          /\ SoundImageOpens

\* squash_open returns an error: of the host, or of an image with an excuse.
LEMMA EndsSoundly ==
    ASSUME pc' = "closed", image' = image,
           image.sound => \/ faulted' \/ image.compression = Zstd
                          \/ RootTypeIsCut
    PROVE  SoundSoFar'
BY DEF SoundSoFar, SoundImageOpens, RootTypeIsCut

LEMMA HostEndsSoundly ==
    ASSUME NEW e, NEW temporaries, NEW table, NEW listed, HostFails(e, temporaries, table, listed)
    PROVE  SoundSoFar'
BY EndsSoundly DEF HostFails, Fail

LEMMA GoesOnSoundly ==
    ASSUME pc' \notin {"closed", "fragment index", "fragment blocks", "scan"}
    PROVE  SoundSoFar'
BY DEF SoundSoFar, SoundImageOpens

LEMMA StaysSound ==
    ASSUME SoundSoFar, UNCHANGED <<image, pc, block, loaded, faulted, ret>>
    PROVE  SoundSoFar'
<1>1. TableAhead' = TableAhead /\ RootAhead' = RootAhead /\ SoundImageOpens' = SoundImageOpens
  BY DEF TableAhead, RootAhead, SoundImageOpens, RootTypeIsCut
<1> QED BY <1>1 DEF SoundSoFar

LEMMA SoundBegins ==
    ASSUME IInv, SoundSoFar, Open \/ OpenFile \/ ReadSuper \/ InitDecompressor
    PROVE  SoundSoFar'
<1>1. CASE Open
  <2>1. pc' = "file" \/ (pc' = "closed" /\ faulted')
    BY <1>1 DEF Open
  <2> QED BY <2>1 DEF SoundSoFar, SoundImageOpens
<1>2. CASE OpenFile
  <2>1. pc' = "super" \/ (pc' = "closed" /\ faulted' /\ image' = image)
    BY <1>2 DEF OpenFile, GoTo
  <2> QED BY <2>1, GoesOnSoundly, EndsSoundly
<1>3. image \in Images
  BY DEF IInv, Shape, Typed
<1>4. CASE ReadSuper
  <2>1. CASE ImageFails(SuperCheck(image), {}, {}, {}) /\ SuperCheck(image) # "OK"
    <3>1. image.sound => image.compression = Zstd
      BY <1>3, <2>1, SoundImages
    <3> QED BY <2>1, <3>1, EndsSoundly DEF ImageFails, Fail
  <2>2. CASE GoTo("decompressor")
    BY <2>2, GoesOnSoundly DEF GoTo
  <2> QED BY <1>4, <2>1, <2>2, HostEndsSoundly DEF ReadSuper
<1>5. CASE InitDecompressor
  <2>1. CASE ImageFails("COMPRESSION", {}, {}, {}) /\ image.compression \notin Built
    <3>1. ~image.sound
      BY <1>3, <2>1, SoundImages
    <3> QED BY <2>1, <3>1, EndsSoundly DEF ImageFails, Fail
  <2>2. CASE GoTo("lookup")
    BY <2>2, GoesOnSoundly DEF GoTo
  <2> QED BY <1>5, <2>1, <2>2, HostEndsSoundly DEF InitDecompressor
<1> QED BY <1>1, <1>2, <1>4, <1>5

LEMMA SoundLooksUp ==
    ASSUME SoundSoFar, SkipLookup \/ LookupIndex \/ LookupTable \/ LookupLoaded
    PROVE  SoundSoFar'
<1>1. \/ \E e, temporaries, table, listed : HostFails(e, temporaries, table, listed)
      \/ pc' \in {"fragments", "lookup index", "lookup blocks"}
  BY DEF SkipLookup, LookupIndex, LookupTable, LookupLoaded, GoTo
<1> QED BY <1>1, HostEndsSoundly, GoesOnSoundly

LEMMA SoundFragments ==
    ASSUME IInv, SoundSoFar, SkipFragments \/ FragmentIndex \/ FragmentTable \/ FragmentsLoaded
    PROVE  SoundSoFar'
<1>1. image \in Images /\ loaded \in Nat /\ block \in Nat
  BY DEF IInv, Shape, Typed
<1>2. CASE SkipFragments
  BY <1>2, GoesOnSoundly DEF SkipFragments, GoTo
<1>3. CASE FragmentIndex
  <2>1. CASE HostFails("MEMORY", {}, {}, Listed("fragments"))
    BY <2>1, HostEndsSoundly
  <2>2. CASE GoTo("fragment index")
    <3>1. /\ pc' = "fragment index" /\ image' = image
          /\ image.fragments # 0 /\ image.fragment_table_start # "invalid"
      BY <1>3, <2>2 DEF FragmentIndex, GoTo
    <3> QED BY <3>1 DEF SoundSoFar, SoundImageOpens
  <2> QED BY <1>3, <2>1, <2>2 DEF FragmentIndex
<1>4. CASE FragmentTable
  <2>1. CASE \E e : HostFails(e, {"index"}, {}, Listed("fragments"))
    BY <2>1, HostEndsSoundly
  <2>2. CASE GoTo("fragment blocks") /\ loaded' = 0
    <3>1. /\ pc' = "fragment blocks" /\ image' = image /\ block' = 0 /\ loaded' = 0
          /\ image.fragments # 0 /\ image.fragment_table_start # "invalid"
      BY <1>4, <2>2 DEF FragmentTable, GoTo, SoundSoFar
    <3>2. ASSUME image.sound
          PROVE  Len(image.fragment_blocks) > 0
      BY <1>1, <3>1, <3>2, SoundImages
    <3>3. image.fragments \in Nat /\ Len(image.fragment_blocks) \in Nat
      BY <1>1, TableTypes
    <3>4. ASSUME image.sound
          PROVE  image.fragment_blocks[1].before = 0
      <4>1. 1 \in 1 .. Len(image.fragment_blocks)
        BY <3>2, <3>3, <3>4
      <4> QED BY <1>1, <4>1, TableTypes
    <3>5. block' = 0 /\ 0 + 1 = 1 /\ image' = image /\ loaded' = 0
      <4>1. block' = 0 /\ image' = image /\ loaded' = 0
        BY <2>2 DEF GoTo
      <4> QED BY <4>1
    <3>6. ASSUME image.sound
          PROVE  TableAhead'
      <4>1. block' + 1 = 1 /\ loaded' = image'.fragment_blocks[1].before
        BY <3>4, <3>5, <3>6
      <4>2. block' < Len(image'.fragment_blocks) /\ loaded' <= image'.fragments
        BY <3>2, <3>3, <3>5, <3>6
      <4> QED BY <4>1, <4>2 DEF TableAhead
    <3> QED BY <3>1, <3>6 DEF SoundSoFar, SoundImageOpens
  <2> QED BY <1>4, <2>1, <2>2 DEF FragmentTable
<1>5. CASE FragmentsLoaded
  <2>1. CASE GoTo("root")
    BY <2>1, GoesOnSoundly DEF GoTo
  <2>2. CASE loaded # image.fragments /\ ImageFails("INVALID_FILE", {"index"}, TableOf(pc), Listed("fragments"))
    <3>1. pc = "fragment blocks" /\ block = Len(image.fragment_blocks)
      BY <1>5, <2>2 DEF FragmentsLoaded, BlocksOf
    <3>2. image.fragments \in Nat /\ Len(image.fragment_blocks) \in Nat
      BY <1>1, TableTypes
    <3>3. ~TableAhead
      <4>1. ~(block < Len(image.fragment_blocks))
        <5>1. \A n \in Nat : ~(n < n)
          OBVIOUS
        <5> QED BY <1>1, <3>1, <5>1, Zenon
      <4>2. loaded <= image.fragments => loaded < image.fragments
        BY <1>1, <2>2, <3>2
      <4> QED BY <4>1, <4>2 DEF TableAhead
    <3>4. ~image.sound
      BY <3>1, <3>3 DEF SoundSoFar
    <3> QED BY <2>2, <3>4, EndsSoundly DEF ImageFails, Fail
  <2> QED BY <1>5, <2>1, <2>2 DEF FragmentsLoaded
<1> QED BY <1>2, <1>3, <1>4, <1>5

LEMMA SoundBlocks ==
    ASSUME IInv, SoundSoFar, BlockHeader \/ BlockStored \/ Decode
    PROVE  SoundSoFar'
<1>1. CASE \E s : StepTo(s)
  BY <1>1, StaysSound DEF StepTo
<1>2. CASE \E e, temporaries : BlockFails(e, temporaries)
  BY <1>2, HostEndsSoundly DEF BlockFails
<1> QED BY <1>1, <1>2 DEF BlockHeader, BlockStored, Decode

LEMMA Added ==
    ASSUME NEW n \in Nat, NEW entries \in Nat, NEW held \in Nat, n < entries, NEW m,
           m = n + (IF held > entries - n THEN entries - n ELSE held)
    PROVE  m <= entries /\ (m < entries => m = n + held) /\ m \in Nat
OBVIOUS

LEMMA Reached ==
    ASSUME NEW n \in Nat, NEW size \in Nat, n < size
    PROVE  n + 1 \in 1 .. size /\ (n + 1 # size => n + 1 + 1 \in 1 .. size /\ n + 1 < size)
           /\ n + 1 + 1 # 1 /\ n + 1 + 1 - 1 = n + 1
OBVIOUS

\* From one block of the fragment table of a sound image to the next.
LEMMA TableGoesOn ==
    ASSUME NEW im \in Images, im.sound, im.fragments # 0, im.fragment_table_start # "invalid",
           NEW n \in Nat, n < Len(im.fragment_blocks), NEW l \in Nat, l < im.fragments,
           l = im.fragment_blocks[n + 1].before, NEW m,
           m = l + (IF im.fragment_blocks[n + 1].held > im.fragments - l
                    THEN im.fragments - l ELSE im.fragment_blocks[n + 1].held)
    PROVE  /\ m <= im.fragments
           /\ m < im.fragments =>
                 n + 1 < Len(im.fragment_blocks) /\ m = im.fragment_blocks[n + 1 + 1].before
<1>1. PICK table : table = im.fragment_blocks
  OBVIOUS
<1>2. PICK entries : entries = im.fragments
  OBVIOUS
<1>3. entries \in Nat /\ Len(table) \in Nat
  BY <1>1, <1>2, TableTypes
<1>4. /\ n + 1 \in 1 .. Len(table)
      /\ n + 1 # Len(table) => n + 1 + 1 \in 1 .. Len(table) /\ n + 1 < Len(table)
      /\ n + 1 + 1 # 1 /\ n + 1 + 1 - 1 = n + 1
  BY <1>1, <1>3, Reached
<1>5. PICK held : held = table[n + 1].held
  OBVIOUS
<1>6. held \in Nat
  BY <1>1, <1>4, <1>5, TableTypes
<1>7. m <= entries /\ (m < entries => m = l + held) /\ m \in Nat
  <2>1. l < entries /\ m = l + (IF held > entries - l THEN entries - l ELSE held)
    BY <1>1, <1>2, <1>5
  <2> QED BY <2>1, <1>3, <1>6, Added
<1>8. n + 1 = Len(table) => l + held = entries
  BY <1>1, <1>2, <1>5, SoundImages
<1>9. n + 1 # Len(table) => table[n + 1 + 1].before = l + held
  BY <1>1, <1>4, <1>5, TableTypes
<1>10. m < entries => n + 1 # Len(table)
  BY <1>3, <1>7, <1>8
<1> QED BY <1>1, <1>2, <1>4, <1>7, <1>9, <1>10

LEMMA SoundUses ==
    ASSUME IInv, SoundSoFar, UseLookupBlock \/ UseFragmentBlock \/ ScanOn
    PROVE  SoundSoFar'
<1>1. image \in Images /\ loaded \in Nat /\ block \in Nat
  BY DEF IInv, Shape, Typed
<1>2. pc' = pc /\ image' = image /\ block' = block + 1
  BY DEF UseLookupBlock, UseFragmentBlock, ScanOn, NextBlock
<1>3. CASE UseLookupBlock
  BY <1>2, <1>3, GoesOnSoundly DEF UseLookupBlock
<1>4. CASE UseFragmentBlock
  <2>1. /\ pc = "fragment blocks" /\ loaded < image.fragments /\ block < Len(image.fragment_blocks)
        /\ loaded' = loaded + (IF image.fragment_blocks[block + 1].held > image.fragments - loaded
                              THEN image.fragments - loaded
                              ELSE image.fragment_blocks[block + 1].held)
    BY <1>4 DEF UseFragmentBlock, ReadingBlock, BlocksOf, NextBlock
  <2>2. image.fragments # 0 /\ image.fragment_table_start # "invalid"
    BY <2>1 DEF SoundSoFar
  <2>3. ASSUME image.sound
        PROVE  TableAhead'
    <3>1. loaded = image.fragment_blocks[block + 1].before
      BY <2>1, <2>3 DEF SoundSoFar, TableAhead
    <3>2. /\ loaded' <= image.fragments
          /\ loaded' < image.fragments =>
                /\ block + 1 < Len(image.fragment_blocks)
                /\ loaded' = image.fragment_blocks[block + 1 + 1].before
      BY <1>1, <2>1, <2>2, <2>3, <3>1, TableGoesOn
    <3> QED BY <1>2, <3>2 DEF TableAhead
  <2> QED BY <1>2, <2>1, <2>3 DEF SoundSoFar, SoundImageOpens
<1>5. CASE ScanOn
  <2>1. pc = "scan" /\ ~RootIn(image.inode_blocks[block + 1], image.root)
    BY <1>5 DEF ScanOn, RootHere
  <2>2. ASSUME image.sound
        PROVE  RootAhead'
    <3>1. \A n \in 1 .. block + 1 : n \in 1 .. block \/ n = block + 1
      BY <1>1
    <3> QED BY <1>2, <2>1, <2>2, <3>1 DEF SoundSoFar, RootAhead
  <2> QED BY <1>2, <2>1, <2>2 DEF SoundSoFar, SoundImageOpens
<1> QED BY <1>3, <1>4, <1>5

LEMMA SoundRoot ==
    ASSUME IInv, SoundSoFar, CheckRoot \/ ScanFinds \/ ScanEnds \/ CopyFilename \/ Close
    PROVE  SoundSoFar'
<1>1. CASE CheckRoot
  <2>1. pc' = "filename" \/ (pc' = "scan" /\ block' = 0)
    BY <1>1 DEF CheckRoot, GoTo
  <2>2. block' = 0 => RootAhead'
    BY DEF RootAhead
  <2> QED BY <2>1, <2>2 DEF SoundSoFar, SoundImageOpens
<1>2. CASE ScanFinds
  BY <1>2, GoesOnSoundly DEF ScanFinds, GoTo
<1>3. CASE ScanEnds
  <2>1. /\ pc = "scan" /\ block = Len(image.inode_blocks) /\ image \in Images
        /\ ImageFails("INVALID_INODE", {}, {}, Listed("root"))
    BY <1>3 DEF ScanEnds, BlocksOf, IInv, Shape, Typed
  <2>2. image.sound => RootTypeIsCut
    BY <2>1, SoundImages DEF SoundSoFar, RootAhead, RootTypeIsCut
  <2> QED BY <2>1, <2>2, EndsSoundly DEF ImageFails, Fail
<1>4. CASE CopyFilename
  BY <1>4, HostEndsSoundly, GoesOnSoundly DEF CopyFilename
<1>5. CASE Close
  BY <1>5 DEF Close, SoundSoFar, SoundImageOpens
<1> QED BY <1>1, <1>2, <1>3, <1>4, <1>5

(***************************************************************************)
(* A sound image opens unless the host fails, but for zstd and a root      *)
(* whose type is cut by the end of its block: the fragment table does not  *)
(* run out, and the scan comes to the root.                                *)
(***************************************************************************)
THEOREM SoundImagesOpen == Spec => []SoundImageOpens
<1>1. Init => SoundSoFar
  BY DEF Init, SoundSoFar, SoundImageOpens
<1>2. IInv /\ SoundSoFar /\ [Next]_vars => SoundSoFar'
  <2>1. ASSUME IInv, SoundSoFar, UNCHANGED vars
        PROVE  SoundSoFar'
    BY <2>1, StaysSound DEF vars
  <2>2. ASSUME IInv, SoundSoFar, Next
        PROVE  SoundSoFar'
    BY <2>2, SoundBegins, SoundLooksUp, SoundFragments, SoundBlocks, SoundUses, SoundRoot
       DEF Next, Stages, BlockReading
  <2> QED BY <2>1, <2>2
<1>3. SoundSoFar => SoundImageOpens
  BY DEF SoundSoFar, SoundImageOpens
<1> QED BY <1>1, <1>2, <1>3, IInvHolds, PTL DEF Spec

=============================================================================
