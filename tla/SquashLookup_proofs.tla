------------------------ MODULE SquashLookup_proofs ------------------------
(***************************************************************************)
(* Lookup and listing, for every image, every path and whatever fails:     *)
(* exactly the allocations in use are held, in damaged images too; a sound *)
(* directory opens, and gives its entries once and in order; and in a      *)
(* sound image the answer is the one at the end of the walk.               *)
(***************************************************************************)
EXTENDS SquashLookup, TLAPS

(***************************************************************************)
(* HoldsExactly, resource by resource.                                     *)
(***************************************************************************)
WithInode == {"type", "directory", "opening", "scan", "compare", "close"}
WithoutVisited == {"idle", "visited", "resolved"}
Balanced ==
    /\ live["inode"] = One(lpc \in WithInode)
    /\ live["visited"] = One(~resolved /\ lpc \notin WithoutVisited)
    /\ live["data"] = Held
    /\ live["iterator"] = One(opc = "open")
    /\ live["copy"] = One(answer # Nothing)
    /\ live["name"] = Len(list) + One(opc \in {"name", "add"})
    /\ live["entry"] = Len(list) + One(opc = "add")
    /\ live["array"] = One(capacity > 0)

(***************************************************************************)
(* What makes it inductive: which places of the lookup go with which of    *)
(* the directory reader (Related), and that no entry collected is the NULL *)
(* that ends a scan (Typed), so that every copy is seen and freed.         *)
(***************************************************************************)
LookupPlaces == {"component", "inode"} \cup WithInode \cup WithoutVisited
DirPlaces == {"closed", "group", "header", "next", "entry", "name", "add", "finish", "open"}
Typed ==
    /\ lpc \in LookupPlaces /\ opc \in DirPlaces
    /\ resolved \in BOOLEAN
    /\ live \in [Resources -> Int]
    /\ index \in Nat /\ capacity \in Nat
    /\ DOMAIN cur = {"next", "pos", "data", "left", "first"} /\ cur.data \in BOOLEAN
    /\ \E S : Nothing \notin S /\ list \in Seq(S)
Related ==
    /\ lpc \in {"scan", "compare", "close"} => opc = "open"
    /\ lpc \notin {"opening", "scan", "compare", "close"} => opc = "closed"
    /\ opc = "closed" => list = <<>> /\ capacity = 0
    /\ opc \in {"closed", "open"} => ~cur.data
    /\ opc \notin {"header", "entry", "name"} => rd = NoRead
    /\ answer # Nothing => lpc = "compare"
    /\ lpc \in {"visited", "component"} => ~resolved

IInv == Typed /\ Related /\ Balanced

-----------------------------------------------------------------------------
LEMMA Ones ==
    /\ \A c : One(c) \in {0, 1}
    /\ \A c : c => One(c) = 1
    /\ \A c : ~c => One(c) = 0
BY DEF One

LEMMA BalancedHolds == Balanced => HoldsExactly
<1>1. /\ Holds["inode"] = One(lpc \in WithInode)
      /\ Holds["visited"] = One(~resolved /\ lpc \notin WithoutVisited)
      /\ Holds["data"] = Held
      /\ Holds["iterator"] = One(opc = "open")
      /\ Holds["copy"] = One(answer # Nothing)
      /\ Holds["name"] = Len(list) + One(opc \in {"name", "add"})
      /\ Holds["entry"] = Len(list) + One(opc = "add")
      /\ Holds["array"] = One(capacity > 0)
  BY DEF Holds, WithInode, WithoutVisited
<1> QED BY <1>1 DEF HoldsExactly, Balanced, Resources

LEMMA Lesser ==
    ASSUME live \in [Resources -> Int], NEW f, live' = Less(f),
           \A r \in DOMAIN f : f[r] \in Int
    PROVE  /\ live' \in [Resources -> Int]
           /\ \A r \in Resources : live'[r] = live[r] - (IF r \in DOMAIN f THEN f[r] ELSE 0)
BY DEF Less

LEMMA Collected ==
    ASSUME Typed
    PROVE  Len(list) \in Nat
BY DEF Typed

\* An entry more is still no NULL.
LEMMA Appended ==
    ASSUME Typed, NEW e, e # Nothing
    PROVE  /\ Len(Append(list, e)) = Len(list) + 1
           /\ \E S : Nothing \notin S /\ Append(list, e) \in Seq(S)
<1>1. PICK S : Nothing \notin S /\ list \in Seq(S)
  BY DEF Typed
<1>2. list \in Seq(S \cup {e}) /\ e \in S \cup {e}
  BY <1>1
<1>3. Append(list, e) \in Seq(S \cup {e}) /\ Len(Append(list, e)) = Len(list) + 1
  BY <1>2
<1> QED BY <1>1, <1>3

-----------------------------------------------------------------------------
\* A failing squash_opendir releases all that it has.
LEMMA FailingFrees ==
    ASSUME IInv, lpc = "opening", UNCHANGED lookupVars, opc # "open",
           NEW e, NEW names, NEW entries, OpenFails(e, Held, names, entries),
           names = One(opc \in {"name", "add"}), entries = One(opc = "add")
    PROVE  IInv'
<1> DEFINE f == [name |-> Len(list) + names, entry |-> Len(list) + entries,
                 array |-> One(capacity > 0), data |-> Held]
<1>1. /\ live' = Less(f) /\ opc' = "closed" /\ list' = <<>> /\ capacity' = 0
      /\ cur' = NoCursor /\ rd' = NoRead /\ UNCHANGED <<index, answer>>
  BY DEF OpenFails
<1>2. Len(list) \in Nat /\ names \in {0, 1} /\ entries \in {0, 1} /\ Held \in {0, 1}
      /\ One(capacity > 0) \in {0, 1}
  BY Collected DEF IInv, One, Held
<1>3. /\ DOMAIN f = {"name", "entry", "array", "data"}
      /\ f["name"] = Len(list) + names /\ f["entry"] = Len(list) + entries
      /\ f["array"] = One(capacity > 0) /\ f["data"] = Held
  OBVIOUS
<1> HIDE DEF f
<1>4. \A r \in DOMAIN f : f[r] \in Int
  BY <1>2, <1>3
<1>5. /\ live' \in [Resources -> Int]
      /\ \A r \in Resources : live'[r] = live[r] - (IF r \in DOMAIN f THEN f[r] ELSE 0)
  BY <1>1, <1>4, Lesser DEF IInv, Typed
<1>6. /\ \A r \in {"name", "entry", "array", "data"} : live'[r] = 0
      /\ \A r \in {"inode", "visited", "iterator", "copy"} : live'[r] = live[r]
  <2>1. \A r \in {"name", "entry", "array", "data"} : live[r] = f[r]
    BY <1>3 DEF IInv, Balanced
  <2>2. \A r \in {"name", "entry", "array", "data"} : live'[r] = f[r] - f[r]
    BY <1>3, <1>5, <2>1 DEF Resources
  <2>3. \A r \in {"inode", "visited", "iterator", "copy"} : live'[r] = live[r] - 0
    BY <1>3, <1>5 DEF Resources
  <2>4. \A r \in Resources : live[r] \in Int
    BY DEF IInv, Typed
  <2> QED BY <1>3, <1>4, <2>2, <2>3, <2>4 DEF Resources
<1>7. lpc' = lpc /\ resolved' = resolved
  BY DEF lookupVars
<1>8. Typed'
  <2>1. Nothing \notin {} /\ list' \in Seq({})
    BY <1>1
  <2> QED BY <1>1, <1>5, <1>7, <2>1 DEF IInv, Typed, NoCursor, DirPlaces
<1>9. Related'
  BY <1>1, <1>7 DEF IInv, Related, NoCursor
<1>10. Balanced'
  BY <1>1, <1>6, <1>7 DEF IInv, Balanced, One, Held, NoCursor
<1> QED BY <1>8, <1>9, <1>10 DEF IInv

\* A block is loaded in the place of the one before, or the whole call fails.
LEMMA LoadKeeps ==
    ASSUME IInv, lpc = "opening", UNCHANGED lookupVars,
           NEW stage, NEW pos, NEW inRead, LoadBlock(stage, pos, inRead),
           \/ opc \in {"header", "entry", "name"} /\ stage = opc
           \/ opc = "group" /\ stage = "header"
    PROVE  IInv'
<1> USE DEF lookupVars
<1>1. CASE /\ cur' = NextBlock(pos)
           /\ live' = [live EXCEPT !["data"] = @ + 1 - Held]
           /\ Go(stage) /\ UNCHANGED <<group, pending>>
  <2>1. cur'.data = TRUE /\ DOMAIN cur' = DOMAIN cur
    BY <1>1 DEF NextBlock, IInv, Typed
  <2>2. live["data"] \in {0, 1} /\ live["data"] = Held
    BY DEF IInv, Balanced, Held, One
  <2>3. live["data"] + 1 - Held = 1
    BY <2>2
  <2>4. live' = [live EXCEPT !["data"] = 1]
    BY <1>1, <2>2, <2>3 DEF IInv, Typed, Resources
  <2>5. Typed'
    <3>1. live' \in [Resources -> Int]
      <4>1. live \in [Resources -> Int]
        BY DEF IInv, Typed
      <4> QED BY <2>4, <4>1 DEF Resources
    <3>2. opc' \in DirPlaces /\ UNCHANGED <<lpc, resolved, index, capacity, list>>
      BY <1>1 DEF Go, DirPlaces
    <3> QED BY <2>1, <3>1, <3>2 DEF IInv, Typed
  <2>6. Related'
    BY <1>1, <2>1 DEF Go, IInv, Related
  <2>7. Balanced'
    <3>1. One(opc \in {"name", "add"})' = One(opc \in {"name", "add"})
          /\ One(opc = "add")' = One(opc = "add") /\ One(opc = "open")' = One(opc = "open")
      BY <1>1 DEF Go, One
    <3>2. \A r \in Resources \ {"data"} : live'[r] = live[r]
      BY <2>4 DEF IInv, Typed
    <3>3. live'["data"] = 1 /\ Held' = 1
      BY <2>1, <2>4 DEF Held, One, Resources, IInv, Typed
    <3> QED BY <1>1, <3>1, <3>2, <3>3 DEF Go, IInv, Balanced, Resources
  <2> QED BY <2>5, <2>6, <2>7 DEF IInv
<1>2. CASE \E e : OpenFails(e, Held, NameHeld, 0)
  <2>1. NameHeld = One(opc \in {"name", "add"}) /\ 0 = One(opc = "add") /\ opc # "open"
    BY DEF NameHeld, One
  <2> QED BY <1>2, <2>1, FailingFrees
<1> QED BY <1>1, <1>2 DEF LoadBlock, Refused

\* Reading goes on in the three places that read, and nowhere else.
LEMMA ReadingPlaces ==
    ASSUME IInv, Reading
    PROVE  opc \in {"header", "entry", "name"}
<1>1. CASE opc \notin {"header", "entry", "name"}
  <2>1. Want = 0 /\ rd.filled = 0
    BY <1>1 DEF Want, IInv, Related, NoRead
  <2> QED BY <2>1 DEF Reading
<1> QED BY <1>1

LEMMA ReadsBytes ==
    ASSUME IInv, lpc = "opening", UNCHANGED lookupVars, Group \/ ReadLoads \/ ReadCopies
    PROVE  IInv'
<1>1. CASE Group
  <2>1. CASE \E pos : LoadBlock("header", pos, FALSE)
    BY <1>1, <2>1, LoadKeeps DEF Group
  <2>2. CASE /\ opc' \in {"header", "finish"}
             /\ UNCHANGED <<cur, rd, group, pending, live, image, dir, list, capacity, index, answer>>
    <3>1. opc = "group" /\ lpc' = lpc /\ resolved' = resolved
      BY <1>1 DEF Group, lookupVars
    <3>2. Typed'
      BY <2>2, <3>1 DEF IInv, Typed, DirPlaces
    <3>3. Related'
      BY <2>2, <3>1 DEF IInv, Related
    <3>4. Balanced'
      BY <2>2, <3>1 DEF IInv, Balanced, One, Held
    <3> QED BY <3>2, <3>3, <3>4 DEF IInv
  <2> QED BY <1>1, <2>1, <2>2 DEF Group, Go
<1>2. CASE ReadLoads
  BY <1>2, ReadingPlaces, LoadKeeps DEF ReadLoads
<1>3. CASE ReadCopies
  <2>1. opc \in {"header", "entry", "name"} /\ lpc' = lpc /\ resolved' = resolved
    BY <1>3, ReadingPlaces DEF ReadCopies, lookupVars
  <2>2. CASE Refused(ReadFailed, NameHeld)
    <3>1. NameHeld = One(opc \in {"name", "add"}) /\ 0 = One(opc = "add") /\ opc # "open"
      BY <2>1 DEF NameHeld, One
    <3> QED BY <2>2, <3>1, FailingFrees DEF Refused, ReadFailed
  <2>3. CASE /\ cur' = [cur EXCEPT !.pos = @ + ToCopy, !.left = @ - ToCopy]
             /\ opc' = opc
             /\ UNCHANGED <<live, list, capacity, index, answer>>
    <3>1. cur'.data = cur.data /\ DOMAIN cur' = DOMAIN cur
      BY <2>3 DEF IInv, Typed
    <3>2. Typed'
      BY <2>1, <2>3, <3>1 DEF IInv, Typed
    <3>3. Related'
      BY <2>1, <2>3, <3>1 DEF IInv, Related
    <3>4. Balanced'
      BY <2>1, <2>3, <3>1 DEF IInv, Balanced, Held
    <3> QED BY <3>2, <3>3, <3>4 DEF IInv
  <2> QED BY <1>3, <2>2, <2>3 DEF ReadCopies, Go
<1> QED BY <1>1, <1>2, <1>3

\* A step that only takes or frees the name and the entry being read.
LEMMA ParsingKeeps ==
    ASSUME IInv, lpc = "opening", UNCHANGED lookupVars,
           UNCHANGED <<cur, list, capacity, index, answer>>,
           opc \notin {"closed", "open"}, opc' \in DirPlaces \ {"closed", "open"},
           opc' \notin {"header", "entry", "name"} => rd' = NoRead,
           live' \in [Resources -> Int],
           \A r \in Resources \ {"name", "entry"} : live'[r] = live[r],
           live'["name"] = Len(list) + One(opc' \in {"name", "add"}),
           live'["entry"] = Len(list) + One(opc' = "add")
    PROVE  IInv'
<1>1. lpc' = lpc /\ resolved' = resolved
  BY DEF lookupVars
<1>2. Typed'
  BY <1>1 DEF IInv, Typed
<1>3. Related'
  BY <1>1 DEF IInv, Related
<1>4. Balanced'
  <2>1. One(opc = "open")' = One(opc = "open")
    BY DEF One
  <2>2. Held' = Held
    BY DEF Held
  <2> QED BY <1>1, <2>1, <2>2 DEF IInv, Balanced, Resources
<1> QED BY <1>2, <1>3, <1>4 DEF IInv

LEMMA Frees ==
    ASSUME live \in [Resources -> Int], live' = Less([name |-> 1])
    PROVE  /\ live' \in [Resources -> Int] /\ live'["name"] = live["name"] - 1
           /\ \A r \in Resources \ {"name"} : live'[r] = live[r]
<1> DEFINE f == [name |-> 1]
<1>1. DOMAIN f = {"name"} /\ f["name"] = 1
  OBVIOUS
<1> HIDE DEF f
<1>2. /\ live' \in [Resources -> Int]
      /\ \A r \in Resources : live'[r] = live[r] - (IF r \in DOMAIN f THEN f[r] ELSE 0)
  BY <1>1, Lesser DEF f
<1> QED BY <1>1, <1>2 DEF Resources

LEMMA Takes ==
    ASSUME live \in [Resources -> Int], NEW r \in Resources, live' = Taken(r)
    PROVE  /\ live' \in [Resources -> Int] /\ live'[r] = live[r] + 1
           /\ \A q \in Resources \ {r} : live'[q] = live[q]
BY DEF Taken

LEMMA Parses ==
    ASSUME IInv, lpc = "opening", UNCHANGED lookupVars,
           ParseHeader \/ NextEntry \/ ParseEntry \/ NameRead
    PROVE  IInv'
<1>0. live \in [Resources -> Int] /\ {"name", "entry"} \in SUBSET Resources /\ Len(list) \in Nat
  BY Collected DEF IInv, Typed, Resources
<1>1. CASE ParseHeader \/ NextEntry
  <2>1. /\ opc \in {"header", "next"} /\ opc' \in {"next", "group", "entry"}
        /\ opc' \notin {"header", "entry", "name"} => rd' = NoRead
        /\ UNCHANGED <<cur, list, capacity, index, answer, live>>
    BY <1>1 DEF ParseHeader, NextEntry, Go, IInv, Related
  <2>2. live["name"] = Len(list) + One(opc' \in {"name", "add"})
        /\ live["entry"] = Len(list) + One(opc' = "add")
    BY <2>1 DEF IInv, Balanced, One
  <2> QED BY <1>0, <2>1, <2>2, ParsingKeeps DEF DirPlaces
<1>2. CASE ParseEntry
  <2>1. opc = "entry" /\ rd' = NoRead
        /\ live["name"] = Len(list) + 0 /\ live["entry"] = Len(list) + 0
    BY <1>2 DEF ParseEntry, IInv, Balanced, One
  <2>2. CASE Refused(Held, 0) \/ HostFails(Held, 0, 0)
    <3>1. 0 = One(opc \in {"name", "add"}) /\ 0 = One(opc = "add") /\ opc # "open"
      BY <2>1 DEF One
    <3> QED BY <2>2, <3>1, FailingFrees DEF Refused, HostFails
  <2>3. CASE Go("group") /\ UNCHANGED <<cur, live>>
    <3>1. opc' = "group" /\ UNCHANGED <<cur, list, capacity, index, answer, live>>
      BY <2>3 DEF Go
    <3>2. One(opc' \in {"name", "add"}) = 0 /\ One(opc' = "add") = 0
      BY <3>1 DEF One
    <3> QED BY <1>0, <2>1, <3>1, <3>2, ParsingKeeps DEF DirPlaces
  <2>4. CASE Go("name") /\ UNCHANGED cur /\ live' = Taken("name")
    <3>1. opc' = "name" /\ UNCHANGED <<cur, list, capacity, index, answer>>
      BY <2>4 DEF Go
    <3>2. One(opc' \in {"name", "add"}) = 1 /\ One(opc' = "add") = 0
      BY <3>1 DEF One
    <3>3. /\ live' \in [Resources -> Int] /\ live'["name"] = live["name"] + 1
          /\ \A r \in Resources \ {"name"} : live'[r] = live[r]
      BY <1>0, <2>4, Takes
    <3>4. live'["name"] = Len(list) + 1 /\ live'["entry"] = Len(list) + 0
      BY <1>0, <2>1, <3>3
    <3> QED BY <1>0, <2>1, <3>1, <3>2, <3>3, <3>4, ParsingKeeps DEF DirPlaces
  <2> QED BY <1>2, <2>2, <2>3, <2>4 DEF ParseEntry
<1>3. CASE NameRead
  <2>1. opc = "name" /\ rd' = NoRead
        /\ live["name"] = Len(list) + 1 /\ live["entry"] = Len(list) + 0
    BY <1>3 DEF NameRead, IInv, Balanced, One
  <2>2. CASE HostFails(Held, 1, 0)
    <3>1. 1 = One(opc \in {"name", "add"}) /\ 0 = One(opc = "add") /\ opc # "open"
      BY <2>1 DEF One
    <3> QED BY <2>2, <3>1, FailingFrees DEF HostFails
  <2>3. CASE Go("next") /\ UNCHANGED cur /\ live' = Less([name |-> 1])
    <3>1. opc' = "next" /\ UNCHANGED <<cur, list, capacity, index, answer>>
      BY <2>3 DEF Go
    <3>2. One(opc' \in {"name", "add"}) = 0 /\ One(opc' = "add") = 0
      BY <3>1 DEF One
    <3>3. /\ live' \in [Resources -> Int] /\ live'["name"] = live["name"] - 1
          /\ \A r \in Resources \ {"name"} : live'[r] = live[r]
      BY <1>0, <2>3, Frees
    <3>4. live'["name"] = Len(list) + 0 /\ live'["entry"] = Len(list) + 0
      BY <1>0, <2>1, <3>3
    <3> QED BY <1>0, <2>1, <3>1, <3>2, <3>3, <3>4, ParsingKeeps DEF DirPlaces
  <2>4. CASE Go("add") /\ UNCHANGED cur /\ live' = Taken("entry")
    <3>1. opc' = "add" /\ UNCHANGED <<cur, list, capacity, index, answer>>
      BY <2>4 DEF Go
    <3>2. One(opc' \in {"name", "add"}) = 1 /\ One(opc' = "add") = 1
      BY <3>1 DEF One
    <3>3. /\ live' \in [Resources -> Int] /\ live'["entry"] = live["entry"] + 1
          /\ \A r \in Resources \ {"entry"} : live'[r] = live[r]
      BY <1>0, <2>4, Takes
    <3>4. live'["name"] = Len(list) + 1 /\ live'["entry"] = Len(list) + 1
      BY <1>0, <2>1, <3>3
    <3> QED BY <1>0, <2>1, <3>1, <3>2, <3>3, <3>4, ParsingKeeps DEF DirPlaces
  <2> QED BY <1>3, <2>2, <2>3, <2>4 DEF NameRead
<1> QED BY <1>1, <1>2, <1>3

LEMMA AddsEntry ==
    ASSUME IInv, lpc = "opening", UNCHANGED lookupVars, AddEntry
    PROVE  IInv'
<1>1. /\ opc = "add" /\ Len(list) \in Nat /\ live \in [Resources -> Int] /\ capacity \in Nat
      /\ live["name"] = Len(list) + 1 /\ live["entry"] = Len(list) + 1
      /\ live["array"] = One(capacity > 0)
  BY Collected DEF AddEntry, IInv, Typed, Balanced, One
<1>2. CASE HostFails(Held, 1, 1)
  <2>1. 1 = One(opc \in {"name", "add"}) /\ 1 = One(opc = "add") /\ opc # "open"
    BY <1>1 DEF One
  <2> QED BY <1>2, <2>1, FailingFrees DEF HostFails
<1>3. CASE ~HostFails(Held, 1, 1)
  <2> DEFINE e == [name |-> pending.name, ref |-> <<group.start, pending.offset>>]
  <2>1. /\ opc' = "next" /\ list' = Append(list, e)
        /\ capacity' = IF Len(list) >= capacity THEN Grown ELSE capacity
        /\ live' = [live EXCEPT !["array"] = @ + One(capacity = 0)]
        /\ UNCHANGED <<cur, rd, index, answer>>
    BY <1>3 DEF AddEntry
  <2>2. e # Nothing
    BY DEF Nothing
  <2> HIDE DEF e
  <2>3. Len(list') = Len(list) + 1 /\ \E S : Nothing \notin S /\ list' \in Seq(S)
    BY <2>1, <2>2, Appended DEF IInv
  <2>4. capacity' \in Nat /\ capacity' > 0
    <3>1. CASE capacity = 0
      <4>1. Len(list) >= capacity
        BY <1>1, <3>1
      <4>2. capacity' = FirstCapacity
        BY <2>1, <3>1, <4>1 DEF Grown
      <4> QED BY <4>2, DirectoryAssumption
    <3>2. CASE capacity # 0
      BY <1>1, <2>1, <3>2 DEF Grown
    <3> QED BY <3>1, <3>2
  <2>5. /\ live' \in [Resources -> Int]
        /\ live'["array"] = 1 /\ One(capacity' > 0) = 1
        /\ \A r \in Resources \ {"array"} : live'[r] = live[r]
    <3>1. live["array"] + One(capacity = 0) = 1
      BY <1>1 DEF One
    <3>2. live' = [live EXCEPT !["array"] = 1]
      BY <1>1, <2>1, <3>1 DEF Resources
    <3> QED BY <1>1, <2>4, <3>2 DEF One, Resources
  <2>6. lpc' = lpc /\ resolved' = resolved
    BY DEF lookupVars
  <2>7. Typed'
    BY <2>1, <2>3, <2>4, <2>5, <2>6 DEF IInv, Typed, DirPlaces
  <2>8. Related'
    BY <1>1, <2>1, <2>6 DEF IInv, Related
  <2>9. Balanced'
    <3>1. /\ One(opc' \in {"name", "add"}) = 0 /\ One(opc' = "add") = 0
          /\ One(opc = "open")' = One(opc = "open") /\ Held' = Held
      BY <1>1, <2>1 DEF One, Held
    <3>2. live'["name"] = Len(list') + 0 /\ live'["entry"] = Len(list') + 0
      BY <1>1, <2>3, <2>5 DEF Resources
    <3>3. \A r \in {"inode", "visited", "data", "iterator", "copy"} : live'[r] = live[r]
      BY <2>5 DEF Resources
    <3> QED BY <2>1, <2>5, <2>6, <3>1, <3>2, <3>3 DEF IInv, Balanced
  <2> QED BY <2>7, <2>8, <2>9 DEF IInv
<1> QED BY <1>2, <1>3

LEMMA Finishes ==
    ASSUME IInv, lpc = "opening", UNCHANGED lookupVars, Finish
    PROVE  IInv'
<1>1. /\ opc = "finish" /\ Len(list) \in Nat /\ live \in [Resources -> Int]
      /\ live["data"] = Held /\ Held \in {0, 1} /\ live["iterator"] = 0
  BY Collected DEF Finish, IInv, Typed, Balanced, One, Held
<1>2. CASE HostFails(Held, 0, 0)
  <2>1. 0 = One(opc \in {"name", "add"}) /\ 0 = One(opc = "add") /\ opc # "open"
    BY <1>1 DEF One
  <2> QED BY <1>2, <2>1, FailingFrees DEF HostFails
<1>3. CASE ~HostFails(Held, 0, 0)
  <2>1. /\ opc' = "open" /\ cur' = NoCursor
        /\ live' = [Less([data |-> Held]) EXCEPT !["iterator"] = @ + 1]
        /\ UNCHANGED <<rd, list, capacity, index, answer>>
    BY <1>3 DEF Finish
  <2>2. /\ Less([data |-> Held]) \in [Resources -> Int]
        /\ Less([data |-> Held])["data"] = 0
        /\ \A r \in Resources \ {"data"} : Less([data |-> Held])[r] = live[r]
    <3> DEFINE f == [data |-> Held]
    <3>1. DOMAIN f = {"data"} /\ f["data"] = Held
      OBVIOUS
    <3> HIDE DEF f
    <3>2. \A r \in Resources : (IF r \in DOMAIN f THEN f[r] ELSE 0) \in Int
      BY <1>1, <3>1
    <3>3. Less(f) \in [Resources -> Int] /\ Less(f)["data"] = 0
          /\ \A r \in Resources \ {"data"} : Less(f)[r] = live[r]
      BY <1>1, <3>1, <3>2 DEF Less, Resources
    <3> QED BY <3>3 DEF f
  <2>3. /\ live' \in [Resources -> Int]
        /\ live'["data"] = 0 /\ live'["iterator"] = 1
        /\ \A r \in Resources \ {"data", "iterator"} : live'[r] = live[r]
    BY <1>1, <2>1, <2>2 DEF Resources
  <2>4. lpc' = lpc /\ resolved' = resolved
    BY DEF lookupVars
  <2>5. Typed'
    BY <2>1, <2>3, <2>4 DEF IInv, Typed, DirPlaces, NoCursor
  <2>6. Related'
    BY <1>1, <2>1, <2>4 DEF IInv, Related, NoCursor
  <2>7. Balanced'
    <3>1. /\ One(opc' \in {"name", "add"}) = One(opc \in {"name", "add"})
          /\ One(opc' = "add") = One(opc = "add") /\ One(opc' = "open") = 1 /\ Held' = 0
      BY <1>1, <2>1 DEF One, Held, NoCursor
    <3>2. \A r \in {"inode", "visited", "name", "entry", "copy", "array"} : live'[r] = live[r]
      BY <2>3 DEF Resources
    <3> QED BY <2>1, <2>3, <2>4, <3>1, <3>2 DEF IInv, Balanced
  <2> QED BY <2>5, <2>6, <2>7 DEF IInv
<1> QED BY <1>2, <1>3

LEMMA OpensDirectory ==
    ASSUME IInv, Open
    PROVE  IInv'
<1>1. lpc = "opening" /\ UNCHANGED lookupVars /\ Opening
  BY DEF Open
<1> QED BY <1>1, ReadsBytes, Parses, AddsEntry, Finishes DEF Opening

-----------------------------------------------------------------------------
\* A step of the lookup itself, the directory being as it was.
LEMMA LooksOn ==
    ASSUME IInv, UNCHANGED dirVars, lpc' \in LookupPlaces, resolved' \in BOOLEAN,
           lpc' \in {"scan", "compare", "close"} => opc = "open",
           lpc' \notin {"opening", "scan", "compare", "close"} => opc = "closed",
           answer # Nothing => lpc' = "compare",
           lpc' \in {"visited", "component"} => ~resolved',
           live' \in [Resources -> Int],
           \A r \in Resources \ {"inode", "visited"} : live'[r] = live[r],
           live'["inode"] = One(lpc' \in WithInode),
           live'["visited"] = One(~resolved' /\ lpc' \notin WithoutVisited)
    PROVE  IInv'
<1>1. UNCHANGED <<dir, opc, cur, rd, group, pending, list, capacity, index, answer>>
  BY DEF dirVars
<1>2. Typed'
  BY <1>1 DEF IInv, Typed
<1>3. Related'
  BY <1>1 DEF IInv, Related
<1>4. Balanced'
  <2>1. /\ One(opc = "open")' = One(opc = "open") /\ Held' = Held
        /\ One(opc \in {"name", "add"})' = One(opc \in {"name", "add"})
        /\ One(opc = "add")' = One(opc = "add")
        /\ One(answer # Nothing)' = One(answer # Nothing)
        /\ One(capacity > 0)' = One(capacity > 0)
    BY <1>1 DEF One, Held
  <2>2. \A r \in {"data", "iterator", "copy", "name", "entry", "array"} : live'[r] = live[r]
    BY DEF Resources
  <2> QED BY <1>1, <2>1, <2>2 DEF IInv, Balanced
<1> QED BY <1>2, <1>3, <1>4 DEF IInv

LEMMA Returns ==
    ASSUME IInv, UNCHANGED dirVars, opc = "closed", answer = Nothing,
           NEW e, NEW inodes, Return(e, inodes), inodes = live["inode"]
    PROVE  IInv'
<1> DEFINE f == [visited |-> live["visited"], inode |-> inodes]
<1>1. lpc' = "idle" /\ resolved' = resolved /\ live' = Less(f)
  BY DEF Return
<1>2. /\ DOMAIN f = {"visited", "inode"}
      /\ f["visited"] = live["visited"] /\ f["inode"] = live["inode"]
  OBVIOUS
<1> HIDE DEF f
<1>3. live["visited"] \in {0, 1} /\ live["inode"] \in {0, 1} /\ live \in [Resources -> Int]
  BY DEF IInv, Typed, Balanced, One
<1>4. /\ live' \in [Resources -> Int]
      /\ \A r \in Resources : live'[r] = live[r] - (IF r \in DOMAIN f THEN f[r] ELSE 0)
  <2>1. \A r \in DOMAIN f : f[r] \in Int
    BY <1>2, <1>3
  <2> QED BY <1>1, <1>3, <2>1, Lesser
<1>5. /\ live'["visited"] = 0 /\ live'["inode"] = 0
      /\ \A r \in Resources \ {"inode", "visited"} : live'[r] = live[r]
  BY <1>2, <1>3, <1>4 DEF Resources
<1>6. One(lpc' \in WithInode) = 0 /\ One(~resolved' /\ lpc' \notin WithoutVisited) = 0
  BY <1>1 DEF One, WithInode, WithoutVisited
<1> QED BY <1>1, <1>4, <1>5, <1>6, LooksOn
        DEF IInv, Typed, LookupPlaces, WithoutVisited

LEMMA CallKeeps ==
    ASSUME IInv, NEW p, NEW w, Call(p, w)
    PROVE  IInv'
<1>1. /\ lpc = "idle" /\ lpc' \in {"resolved", "visited"} /\ resolved' = FALSE
      /\ UNCHANGED dirVars /\ live' = live
  BY DEF Call
<1>2. opc = "closed" /\ answer = Nothing
  BY <1>1 DEF IInv, Related
<1>3. live["inode"] = 0 /\ live["visited"] = 0 /\ live \in [Resources -> Int]
  BY <1>1 DEF IInv, Typed, Balanced, One, WithInode, WithoutVisited
<1>4. One(lpc' \in WithInode) = 0 /\ One(~resolved' /\ lpc' \notin WithoutVisited) = 0
  BY <1>1 DEF One, WithInode, WithoutVisited
<1> QED BY <1>1, <1>2, <1>3, <1>4, LooksOn DEF LookupPlaces, WithoutVisited

\* The steps before squash_opendir.
LEMMA Resolves ==
    ASSUME IInv, InitVisited \/ Component \/ Resolved \/ ReadInode
    PROVE  IInv'
<1>1. /\ lpc \in {"visited", "component", "resolved", "inode"} /\ UNCHANGED dirVars
  BY DEF InitVisited, Component, Resolved, ReadInode, Stay
<1>2. /\ opc = "closed" /\ answer = Nothing /\ live["inode"] = 0
      /\ live \in [Resources -> Int] /\ {"inode", "visited"} \in SUBSET Resources
      /\ resolved \in BOOLEAN /\ (lpc \in {"visited", "component"} => ~resolved)
      /\ live["visited"] = One(~resolved /\ lpc \notin WithoutVisited)
  BY <1>1 DEF IInv, Typed, Related, Balanced, One, WithInode, Resources
<1>3. CASE \E e : Return(e, 0)
  BY <1>1, <1>2, <1>3, Returns
<1>4. CASE InitVisited /\ ~\E e : Return(e, 0)
  <2>1. lpc = "visited" /\ lpc' = "component" /\ live' = Taken("visited") /\ resolved' = resolved
    BY <1>4 DEF InitVisited
  <2>2. live["visited"] = 0
    BY <1>2, <2>1 DEF One, WithoutVisited
  <2>3. /\ live' \in [Resources -> Int] /\ live'["visited"] = 1
        /\ \A q \in Resources \ {"visited"} : live'[q] = live[q]
    BY <1>2, <2>1, <2>2, Takes
  <2>4. One(lpc' \in WithInode) = 0 /\ One(~resolved' /\ lpc' \notin WithoutVisited) = 1
    BY <1>2, <2>1 DEF One, WithInode, WithoutVisited
  <2> QED BY <1>1, <1>2, <2>1, <2>3, <2>4, LooksOn DEF LookupPlaces
<1>5. CASE Component /\ ~\E e : Return(e, 0)
  <2>1. lpc = "component" /\ resolved' = resolved
    BY <1>5 DEF Component, Same
  <2>2. live["visited"] = 1
    BY <1>2, <2>1 DEF One, WithoutVisited
  <2>3. CASE lpc' = "inode" /\ live' = live
    <3>1. One(lpc' \in WithInode) = 0 /\ One(~resolved' /\ lpc' \notin WithoutVisited) = 1
      BY <1>2, <2>1, <2>3 DEF One, WithInode, WithoutVisited
    <3> QED BY <1>1, <1>2, <2>1, <2>2, <2>3, <3>1, LooksOn DEF LookupPlaces
  <2>4. CASE lpc' = "resolved" /\ live' = Less([visited |-> 1])
    <3> DEFINE f == [visited |-> 1]
    <3>1. DOMAIN f = {"visited"} /\ f["visited"] = 1 /\ live' = Less(f)
      BY <2>4
    <3> HIDE DEF f
    <3>2. /\ live' \in [Resources -> Int]
          /\ \A r \in Resources : live'[r] = live[r] - (IF r \in DOMAIN f THEN f[r] ELSE 0)
      BY <1>2, <3>1, Lesser
    <3>3. /\ live'["visited"] = 0
          /\ \A r \in Resources \ {"visited"} : live'[r] = live[r]
      <4>1. live'["visited"] = live["visited"] - 1
        BY <1>2, <3>1, <3>2
      <4>2. \A r \in Resources \ {"visited"} : live'[r] = live[r] - 0 /\ live[r] \in Int
        BY <1>2, <3>1, <3>2
      <4> QED BY <2>2, <4>1, <4>2
    <3>4. One(lpc' \in WithInode) = 0 /\ One(~resolved' /\ lpc' \notin WithoutVisited) = 0
      BY <2>4 DEF One, WithInode, WithoutVisited
    <3> QED BY <1>1, <1>2, <2>1, <2>4, <3>2, <3>3, <3>4, LooksOn DEF LookupPlaces, WithoutVisited
  <2> QED BY <1>5, <2>3, <2>4 DEF Component
<1>6. CASE Resolved /\ ~\E e : Return(e, 0)
  <2>1. lpc = "resolved" /\ lpc' = "inode" /\ resolved' = TRUE /\ live' = live
    BY <1>6 DEF Resolved
  <2>2. live["visited"] = 0
    BY <1>2, <2>1 DEF One, WithoutVisited
  <2>3. One(lpc' \in WithInode) = 0 /\ One(~resolved' /\ lpc' \notin WithoutVisited) = 0
    BY <2>1 DEF One, WithInode
  <2> QED BY <1>1, <1>2, <2>1, <2>2, <2>3, LooksOn DEF LookupPlaces
<1>7. CASE ReadInode /\ ~\E e : Return(e, 0)
  <2>1. lpc = "inode" /\ lpc' = "type" /\ live' = Taken("inode") /\ resolved' = resolved
    BY <1>7 DEF ReadInode, Same
  <2>2. /\ live' \in [Resources -> Int] /\ live'["inode"] = 1
        /\ \A q \in Resources \ {"inode"} : live'[q] = live[q]
    BY <1>2, <2>1, Takes
  <2>3. /\ One(lpc' \in WithInode) = 1
        /\ One(~resolved' /\ lpc' \notin WithoutVisited) = One(~resolved /\ lpc \notin WithoutVisited)
    BY <2>1 DEF One, WithInode, WithoutVisited
  <2> QED BY <1>1, <1>2, <2>1, <2>2, <2>3, LooksOn DEF LookupPlaces, WithInode
<1> QED BY <1>3, <1>4, <1>5, <1>6, <1>7

LEMMA Tests ==
    ASSUME IInv, TestType
    PROVE  IInv'
<1>1. lpc = "type" /\ UNCHANGED dirVars
  BY DEF TestType, Stay
<1>2. opc = "closed" /\ answer = Nothing
  BY <1>1 DEF IInv, Related
<1>3. live["inode"] = 1 /\ live \in [Resources -> Int] /\ resolved \in BOOLEAN
  BY <1>1 DEF IInv, Typed, Balanced, One, WithInode
<1>4. CASE Return("NOT_DIRECTORY", 1)
  BY <1>1, <1>2, <1>3, <1>4, Returns
<1>5. CASE lpc' = "directory" /\ resolved' = resolved /\ live' = live
  <2>1. /\ One(lpc' \in WithInode) = One(lpc \in WithInode)
        /\ One(~resolved' /\ lpc' \notin WithoutVisited) = One(~resolved /\ lpc \notin WithoutVisited)
    BY <1>1, <1>5 DEF One, WithInode, WithoutVisited
  <2>2. /\ live["inode"] = One(lpc' \in WithInode)
        /\ live["visited"] = One(~resolved' /\ lpc' \notin WithoutVisited)
    BY <2>1 DEF IInv, Balanced
  <2> QED BY <1>1, <1>2, <1>3, <1>5, <2>2, LooksOn DEF LookupPlaces, WithInode
<1> QED BY <1>4, <1>5 DEF TestType, Same

\* The call of squash_opendir, and its return.
LEMMA CallsOpen ==
    ASSUME IInv, CallOpen
    PROVE  IInv'
<1>1. /\ lpc = "directory" /\ lpc' = "opening" /\ resolved' = resolved
      /\ opc = "closed" /\ opc' \in {"closed", "group"}
      /\ cur' \in {cur, [NoCursor EXCEPT !.pos = image.dirs[ref].offset,
                                         !.left = image.dirs[ref].file_size]}
      /\ UNCHANGED <<rd, list, capacity, index, answer, live>>
  BY DEF CallOpen, OpenDir, Same
<1>2. DOMAIN cur' = {"next", "pos", "data", "left", "first"} /\ cur'.data = FALSE
  BY <1>1 DEF NoCursor, IInv, Typed, Related
<1>3. Typed'
  BY <1>1, <1>2 DEF IInv, Typed, DirPlaces, LookupPlaces, WithInode
<1>4. Related'
  BY <1>1, <1>2 DEF IInv, Related
<1>5. Balanced'
  <2>1. /\ One(opc' \in {"name", "add"}) = One(opc \in {"name", "add"})
        /\ One(opc' = "add") = One(opc = "add") /\ One(opc' = "open") = One(opc = "open")
        /\ Held' = Held
    BY <1>1, <1>2 DEF One, Held, IInv, Related
  <2>2. /\ One(lpc' \in WithInode) = One(lpc \in WithInode)
        /\ One(~resolved' /\ lpc' \notin WithoutVisited) = One(~resolved /\ lpc \notin WithoutVisited)
    BY <1>1 DEF One, WithInode, WithoutVisited
  <2> QED BY <1>1, <2>1, <2>2 DEF IInv, Balanced
<1> QED BY <1>3, <1>4, <1>5 DEF IInv

LEMMA OpenReturns ==
    ASSUME IInv, Opened
    PROVE  IInv'
<1>1. lpc = "opening" /\ UNCHANGED dirVars /\ answer = Nothing
  BY DEF Opened, Stay, IInv, Related
<1>2. live["inode"] = 1 /\ live \in [Resources -> Int] /\ resolved \in BOOLEAN
  BY <1>1 DEF IInv, Typed, Balanced, One, WithInode
<1>3. CASE opc = "closed" /\ Return(ret, 1)
  BY <1>1, <1>2, <1>3, Returns
<1>4. CASE opc = "open" /\ lpc' = "scan" /\ resolved' = resolved /\ live' = live
  <2>1. /\ One(lpc' \in WithInode) = One(lpc \in WithInode)
        /\ One(~resolved' /\ lpc' \notin WithoutVisited) = One(~resolved /\ lpc \notin WithoutVisited)
    BY <1>1, <1>4 DEF One, WithInode, WithoutVisited
  <2>2. /\ live["inode"] = One(lpc' \in WithInode)
        /\ live["visited"] = One(~resolved' /\ lpc' \notin WithoutVisited)
    BY <2>1 DEF IInv, Balanced
  <2> QED BY <1>1, <1>2, <1>4, <2>2, LooksOn DEF LookupPlaces, WithInode
<1> QED BY <1>3, <1>4 DEF Opened, Same

-----------------------------------------------------------------------------
\* The scan: squash_readdir, then what the caller does with its copy.
LEMMA Scans ==
    ASSUME IInv, Scan
    PROVE  IInv'
<1>1. /\ lpc = "scan" /\ lpc' = "compare" /\ resolved' = resolved
      /\ opc = "open" /\ answer = Nothing
      /\ UNCHANGED <<opc, cur, rd, list, capacity>>
  BY DEF Scan, ReadDir, Same, Iterator, IInv, Related
<1>2. live \in [Resources -> Int] /\ live["copy"] = 0 /\ "copy" \in Resources
  BY <1>1 DEF IInv, Typed, Balanced, One, Resources
<1>3. /\ One(lpc' \in WithInode) = One(lpc \in WithInode)
      /\ One(~resolved' /\ lpc' \notin WithoutVisited) = One(~resolved /\ lpc \notin WithoutVisited)
      /\ One(opc' = "open") = One(opc = "open") /\ Held' = Held
      /\ One(opc' \in {"name", "add"}) = One(opc \in {"name", "add"})
      /\ One(opc' = "add") = One(opc = "add") /\ One(capacity' > 0) = One(capacity > 0)
  BY <1>1 DEF One, WithInode, WithoutVisited, Held
<1>4. Related'
  BY <1>1 DEF IInv, Related
<1>5. CASE index < Len(list) /\ answer' = list[index + 1] /\ index' = Advanced /\ live' = Taken("copy")
  <2>1. index' \in Nat /\ index + 1 \in 1 .. Len(list)
    BY <1>5, Collected DEF Advanced, IInv, Typed
  <2>2. answer' # Nothing
    <3>1. PICK S : Nothing \notin S /\ list \in Seq(S)
      BY DEF IInv, Typed
    <3> QED BY <1>5, <2>1, <3>1
  <2>3. /\ live' \in [Resources -> Int] /\ live'["copy"] = 1
        /\ \A q \in Resources \ {"copy"} : live'[q] = live[q]
    BY <1>2, <1>5, Takes
  <2>4. Typed'
    BY <1>1, <2>1, <2>3 DEF IInv, Typed, LookupPlaces, WithInode
  <2>5. One(answer' # Nothing) = 1
    BY <2>2 DEF One
  <2>6. \A r \in {"inode", "visited", "data", "iterator", "name", "entry", "array"} : live'[r] = live[r]
    BY <2>3 DEF Resources
  <2>7. Balanced'
    BY <1>1, <1>3, <2>3, <2>5, <2>6 DEF IInv, Balanced
  <2> QED BY <1>4, <2>4, <2>7 DEF IInv
<1>6. CASE answer' = Nothing /\ UNCHANGED <<index, live>>
  <2>1. Typed'
    BY <1>1, <1>6 DEF IInv, Typed, LookupPlaces, WithInode
  <2>2. One(answer' # Nothing) = One(answer # Nothing)
    BY <1>1, <1>6 DEF One
  <2>3. Balanced'
    BY <1>1, <1>3, <1>6, <2>2 DEF IInv, Balanced
  <2> QED BY <1>4, <2>1, <2>3 DEF IInv
<1> QED BY <1>5, <1>6 DEF Scan, ReadDir

LEMMA CopyIsFreed ==
    ASSUME IInv, Compared, Unchanged, lpc' \in {"scan", "close"}, resolved' = resolved
    PROVE  IInv'
<1>1. /\ lpc = "compare" /\ opc = "open" /\ answer # Nothing /\ answer' = Nothing
      /\ live' = Less([copy |-> 1])
      /\ UNCHANGED <<opc, cur, rd, list, capacity, index>>
  BY DEF Compared, FreeCopy, Unchanged, IInv, Related
<1>2. live \in [Resources -> Int] /\ live["copy"] = 1
  BY <1>1 DEF IInv, Typed, Balanced, One
<1>3. /\ live' \in [Resources -> Int] /\ live'["copy"] = 0
      /\ \A r \in Resources \ {"copy"} : live'[r] = live[r]
  <2> DEFINE f == [copy |-> 1]
  <2>1. DOMAIN f = {"copy"} /\ f["copy"] = 1 /\ live' = Less(f)
    BY <1>1
  <2> HIDE DEF f
  <2>2. /\ live' \in [Resources -> Int]
        /\ \A r \in Resources : live'[r] = live[r] - (IF r \in DOMAIN f THEN f[r] ELSE 0)
    BY <1>2, <2>1, Lesser
  <2>3. live'["copy"] = live["copy"] - 1
    BY <2>1, <2>2 DEF Resources
  <2>4. \A r \in Resources \ {"copy"} : live'[r] = live[r] - 0 /\ live[r] \in Int
    BY <1>2, <2>1, <2>2
  <2> QED BY <1>2, <2>2, <2>3, <2>4
<1>4. /\ One(lpc' \in WithInode) = One(lpc \in WithInode)
      /\ One(~resolved' /\ lpc' \notin WithoutVisited) = One(~resolved /\ lpc \notin WithoutVisited)
      /\ One(opc' = "open") = One(opc = "open") /\ Held' = Held
      /\ One(opc' \in {"name", "add"}) = One(opc \in {"name", "add"})
      /\ One(opc' = "add") = One(opc = "add") /\ One(capacity' > 0) = One(capacity > 0)
      /\ One(answer' # Nothing) = 0
  BY <1>1 DEF One, WithInode, WithoutVisited, Held
<1>5. Typed'
  BY <1>1, <1>3 DEF IInv, Typed, LookupPlaces, WithInode
<1>6. Related'
  BY <1>1 DEF IInv, Related
<1>7. Balanced'
  <2>1. \A r \in {"inode", "visited", "data", "iterator", "name", "entry", "array"} : live'[r] = live[r]
    BY <1>3 DEF Resources
  <2> QED BY <1>1, <1>3, <1>4, <2>1 DEF IInv, Balanced
<1> QED BY <1>5, <1>6, <1>7 DEF IInv

LEMMA Compares ==
    ASSUME IInv, NoEntry \/ NextName \/ Revisit \/ Found
    PROVE  IInv'
<1>1. CASE NoEntry
  <2>1. /\ lpc = "compare" /\ lpc' = "close" /\ resolved' = resolved /\ answer = Nothing
        /\ UNCHANGED dirVars /\ live' = live
    BY <1>1 DEF NoEntry, EndScan
  <2>2. opc = "open" /\ live \in [Resources -> Int] /\ resolved \in BOOLEAN
    BY <2>1 DEF IInv, Related, Typed
  <2>3. /\ One(lpc' \in WithInode) = One(lpc \in WithInode)
        /\ One(~resolved' /\ lpc' \notin WithoutVisited) = One(~resolved /\ lpc \notin WithoutVisited)
    BY <2>1 DEF One, WithInode, WithoutVisited
  <2>4. /\ live["inode"] = One(lpc' \in WithInode)
        /\ live["visited"] = One(~resolved' /\ lpc' \notin WithoutVisited)
    BY <2>3 DEF IInv, Balanced
  <2> QED BY <2>1, <2>2, <2>4, LooksOn DEF LookupPlaces, WithInode
<1>2. CASE NextName
  BY <1>2, CopyIsFreed DEF NextName, Same
<1>3. CASE Revisit \/ Found
  BY <1>3, CopyIsFreed DEF Revisit, Found, EndScan
<1> QED BY <1>1, <1>2, <1>3

LEMMA Closes ==
    ASSUME IInv, Close
    PROVE  IInv'
<1>1. PICK n \in {0, live["visited"]} :
          /\ CloseDir(n)
          /\ \/ n = 0 /\ lpc' = "component" /\ ~resolved
             \/ n = live["visited"] /\ lpc' = "idle"
  BY DEF Close
<1>2. /\ lpc = "close" /\ resolved' = resolved /\ opc = "open" /\ answer = Nothing
      /\ opc' = "closed" /\ list' = <<>> /\ capacity' = 0 /\ index' = 0
      /\ UNCHANGED <<cur, rd, answer>>
  BY <1>1 DEF Close, CloseDir, Same, IInv, Related
<1> DEFINE f == [name |-> Len(list), entry |-> Len(list), array |-> One(capacity > 0),
                 iterator |-> 1, inode |-> 1, visited |-> n]
<1>3. /\ DOMAIN f = {"name", "entry", "array", "iterator", "inode", "visited"}
      /\ f["name"] = Len(list) /\ f["entry"] = Len(list) /\ f["array"] = One(capacity > 0)
      /\ f["iterator"] = 1 /\ f["inode"] = 1 /\ f["visited"] = n
      /\ live' = Less(f)
  BY <1>1 DEF CloseDir
<1> HIDE DEF f
<1>4. /\ live["name"] = Len(list) + 0 /\ live["entry"] = Len(list) + 0
      /\ live["array"] = One(capacity > 0) /\ live["iterator"] = 1 /\ live["inode"] = 1
      /\ live["visited"] = One(~resolved) /\ live["data"] = Held /\ live["copy"] = 0
  BY <1>2 DEF IInv, Balanced, One, WithInode, WithoutVisited
<1>5. Len(list) \in Nat /\ live \in [Resources -> Int] /\ One(capacity > 0) \in {0, 1}
      /\ One(~resolved) \in {0, 1}
  BY Collected DEF IInv, Typed, One
<1>6. /\ live' \in [Resources -> Int]
      /\ \A r \in Resources : live'[r] = live[r] - (IF r \in DOMAIN f THEN f[r] ELSE 0)
  <2>1. \A r \in DOMAIN f : f[r] \in Int
    BY <1>1, <1>3, <1>4, <1>5
  <2> QED BY <1>3, <1>5, <2>1, Lesser
<1>7. /\ \A r \in {"name", "entry", "array", "iterator", "inode", "copy"} : live'[r] = 0
      /\ live'["data"] = Held
      /\ live'["visited"] = One(~resolved) - n
  <2>1. \A r \in {"data", "copy"} : live'[r] = live[r] - 0 /\ live[r] \in Int
    BY <1>3, <1>5, <1>6 DEF Resources
  <2>2. \A r \in {"name", "entry", "array", "iterator", "inode", "visited"} : live'[r] = live[r] - f[r]
    BY <1>3, <1>6 DEF Resources
  <2>3. live'["name"] = 0 /\ live'["entry"] = 0
    <3>1. live'["name"] = (Len(list) + 0) - Len(list)
      BY <1>3, <1>4, <2>2
    <3>2. live'["entry"] = (Len(list) + 0) - Len(list)
      BY <1>3, <1>4, <2>2
    <3> QED BY <1>5, <3>1, <3>2
  <2>4. live'["array"] = 0
    BY <1>3, <1>4, <1>5, <2>2
  <2>5. live'["iterator"] = 0 /\ live'["inode"] = 0
    BY <1>3, <1>4, <2>2
  <2>6. live'["copy"] = 0
    BY <1>4, <2>1
  <2>7. live'["data"] = live["data"]
    BY <2>1
  <2>8. live'["visited"] = live["visited"] - n
    BY <1>3, <2>2
  <2> QED BY <1>4, <2>3, <2>4, <2>5, <2>6, <2>7, <2>8
<1>8. live'["visited"] = One(~resolved' /\ lpc' \notin WithoutVisited)
  <2>1. CASE n = 0 /\ lpc' = "component" /\ ~resolved
    BY <1>2, <1>7, <2>1 DEF One, WithoutVisited
  <2>2. CASE n = live["visited"] /\ lpc' = "idle"
    BY <1>4, <1>5, <1>7, <2>2 DEF One, WithoutVisited
  <2> QED BY <1>1, <2>1, <2>2
<1>9. Typed'
  <2>1. Nothing \notin {} /\ list' \in Seq({})
    BY <1>2
  <2> QED BY <1>1, <1>2, <1>6, <2>1 DEF IInv, Typed, DirPlaces, LookupPlaces, WithoutVisited
<1>10. Related'
  BY <1>1, <1>2 DEF IInv, Related
<1>11. Balanced'
  <2>1. /\ One(lpc' \in WithInode) = 0 /\ One(opc' = "open") = 0 /\ Held' = Held
        /\ One(answer' # Nothing) = 0 /\ One(opc' \in {"name", "add"}) = 0
        /\ One(opc' = "add") = 0 /\ One(capacity' > 0) = 0 /\ Len(list') = 0
    BY <1>1, <1>2 DEF One, Held, WithInode
  <2> QED BY <1>7, <1>8, <2>1 DEF Balanced
<1> QED BY <1>9, <1>10, <1>11 DEF IInv

LEMMA IInvHolds == Spec => []IInv
<1>1. Init => IInv
  <2>1. SUFFICES ASSUME Init PROVE IInv
    OBVIOUS
  <2>2. /\ lpc = "idle" /\ opc = "closed" /\ resolved = FALSE /\ cur = NoCursor /\ rd = NoRead
        /\ list = <<>> /\ capacity = 0 /\ index = 0 /\ answer = Nothing
        /\ live = [r \in Resources |-> 0]
    BY <2>1 DEF Init, DirInit
  <2>3. Nothing \notin {} /\ list \in Seq({})
    BY <2>2
  <2>4. Typed
    <3>1. live \in [Resources -> Int]
      BY <2>2
    <3>2. \E S : Nothing \notin S /\ list \in Seq(S)
      BY <2>3
    <3>3. DOMAIN cur = {"next", "pos", "data", "left", "first"} /\ cur.data \in BOOLEAN
      BY <2>2 DEF NoCursor
    <3>4. lpc \in LookupPlaces /\ opc \in DirPlaces /\ resolved \in BOOLEAN
      BY <2>2 DEF LookupPlaces, DirPlaces, WithoutVisited
    <3>5. index \in Nat /\ capacity \in Nat
      BY <2>2
    <3> QED BY <3>1, <3>2, <3>3, <3>4, <3>5 DEF Typed
  <2>5. Related
    BY <2>2 DEF Related, NoCursor
  <2>6. Balanced
    BY <2>2 DEF Balanced, One, Held, NoCursor, Resources, WithInode, WithoutVisited
  <2> QED BY <2>4, <2>5, <2>6 DEF IInv
<1>2. IInv /\ [Next]_vars => IInv'
  <2>1. CASE UNCHANGED vars
    BY <2>1 DEF vars, dirVars, lookupVars, IInv, Typed, Related, Balanced, Held, One
  <2>2. CASE Next
    BY <2>2, CallKeeps, Resolves, Tests, CallsOpen, OpensDirectory, OpenReturns, Scans, Compares, Closes
       DEF Next, Step
  <2> QED BY <2>1, <2>2
<1> QED BY <1>1, <1>2, PTL DEF Spec

-----------------------------------------------------------------------------
(***************************************************************************)
(* Every early return of squash_opendir, squash_readdir's callers,         *)
(* squash_lookup_path and squash_list_directory releases what is held, and *)
(* once, for every image, listing, path, and failing call.                 *)
(***************************************************************************)
THEOREM LookupBalance == Spec => []HoldsExactly
<1>1. IInv => HoldsExactly
  BY BalancedHolds DEF IInv
<1> QED BY <1>1, IInvHolds, PTL

-----------------------------------------------------------------------------
(***************************************************************************)
(* Where the reader of a directory stands, in any directory: the cursor,   *)
(* and the running read, are inside what there is.                         *)
(***************************************************************************)
HostErrors == {"IO", "MEMORY", "COMPRESSION"}
CursorOK ==
    /\ cur.next \in 0 .. Len(dir.blocks) /\ cur.left \in 0 .. dir.file_size /\ cur.pos \in Nat
    /\ cur.data \in BOOLEAN /\ (cur.data <=> cur.next > 0) /\ (cur.first <=> ~cur.data)
    /\ ~cur.data => cur.pos = dir.offset /\ opc \in {"group", "finish"}
    /\ DOMAIN rd = {"filled", "from", "loaded"}
    /\ rd.loaded \in BOOLEAN /\ rd.filled \in Nat /\ rd.filled <= Want
    /\ rd.loaded => cur.pos = 0
Reader ==
    /\ image \in Images
    /\ \E x \in DOMAIN image.dirs : dir = image.dirs[x]
    /\ opc \in {"closed", "open"} => cur = NoCursor
    /\ opc \notin {"closed", "open"} => CursorOK
    /\ opc \in {"name", "add"} =>
          pending \in Item /\ pending.kind = "entry" /\ pending.type \in EntryTypes
    /\ opc = "add" => ~Dot(pending)
    /\ DOMAIN group = {"count", "start"} /\ group.start \in Nat
    /\ list \in Seq(Entry)
    /\ Len(list) <= capacity /\ index \in 0 .. Len(list)
    /\ lpc \notin {"scan", "compare", "close"} => index = 0
Returned ==
    /\ opc = "open" => ret \in {"OK", "MEMORY"}
    /\ opc = "closed" /\ lpc = "opening" =>
          ret = "INVALID_FILE" \/ (faulted /\ ret \in HostErrors)
    /\ lpc = "compare" /\ answer # Nothing => index > 0 /\ answer = list[index]
    /\ lpc = "compare" /\ answer = Nothing /\ ret = "OK" => index = Len(list)

(***************************************************************************)
(* In a sound directory: all before a mark has been read, the cursor is    *)
(* behind the mark by as much as is read of its item, and what is in       *)
(* memory is what the mark says.                                           *)
(***************************************************************************)
Past ==
    CASE opc \in {"header", "entry"} -> rd.filled
      [] opc = "name" -> EntrySize + rd.filled
      [] opc = "add" -> EntrySize + pending.size
      [] OTHER -> 0
At == IF cur.data THEN Position ELSE dir.offset
Reads(mark) ==
    /\ At = mark.at + Past
    /\ cur.left = dir.file_size - (At - dir.offset)
    /\ cur.data => cur.pos <= LoadedSize
    /\ opc \in {"header", "entry"} /\ rd.filled > 0 => rd.from = mark.at
Groups(mark) ==
    /\ opc \in {"group", "header", "finish"} => mark.left = 0
    /\ opc \in {"entry", "name", "add"} => mark.left > 0
    /\ opc \notin {"group", "header", "finish"} => group.count = mark.left /\ group.start = mark.start
Lists(mark) ==
    /\ Len(list) = mark.listed
    /\ \A m \in 1 .. mark.listed : list[m] = dir.listing[m]
AtMark(n) ==
    /\ Reads(dir.marks[n]) /\ Groups(dir.marks[n]) /\ Lists(dir.marks[n])
    /\ opc \in {"name", "add"} => pending = Marked(dir, n)
    /\ opc = "header" => n < Len(dir.marks)
    /\ opc = "finish" => n = Len(dir.marks)
    /\ \A m \in 1 .. n - 1 : ~Special(Marked(dir, m))
ParsesSoundly ==
    dir.sound =>
        /\ opc \notin {"closed", "open"} => \E n \in 1 .. Len(dir.marks) : AtMark(n)
        /\ opc = "open" => list = dir.listing /\ ~dir.special
        /\ SoundDirectoryOpens
DInv == Reader /\ Returned /\ ParsesSoundly

(***************************************************************************)
(* The lookup has walked as far as k components, and remembers the way.    *)
(***************************************************************************)
Scanning == {"directory", "opening", "scan", "compare"}
AtComponent == ~resolved /\ lpc \in {"inode", "type"} \cup Scanning
Paced ==
    /\ lpc # "idle" \/ err # "none" => path \in Paths
    /\ k \in 0 .. Len(path.names)
    /\ resolved => wants = "listing"
    /\ AtComponent => k < Len(path.names) /\ Name \notin LongNames
    /\ lpc \in Scanning => ref \in DOMAIN image.dirs
    /\ lpc \in Scanning \ {"directory"} => dir = image.dirs[ref]
    /\ lpc = "close" /\ resolved /\ ~cut => index = Len(list)
    /\ lpc # "idle" => err # "none"
WalkedTo(refs) == Len(refs) = k + 1 /\ refs[k + 1] = ref
Trail == \E refs \in Walks : WalkedTo(refs) /\ visited = ToSet(refs)
OnTheWay == ~resolved /\ (lpc = "component" \/ AtComponent \/ (lpc = "close" /\ err = "OK"))
Ended ==
    \/ \E refs \in Walks : err = WalkEnd(refs) /\ (err = "OK" => ref = Last(refs))
    \/ faulted /\ err \in HostErrors
    \/ cut /\ err = "NOT_FOUND"
Over ==
    \/ ~resolved /\ lpc = "close" /\ err # "OK"
    \/ lpc = "idle" /\ err # "none" /\ wants = "reference"
Unmatched ==
    ~resolved /\ lpc \in {"scan", "compare"} =>
        \A m \in 1 .. index : list[m].name = Name => m = index /\ lpc = "compare" /\ answer # Nothing
Walking ==
    image.sound =>
        /\ OnTheWay => Trail
        /\ ~resolved /\ lpc \in {"visited", "resolved"} => \E refs \in Walks : WalkedTo(refs)
        /\ ~resolved /\ lpc = "visited" => k = 0
        /\ ~resolved /\ lpc = "resolved" => k = Len(path.names)
        /\ Over => Ended
        /\ Unmatched
LInv == Paced /\ Walking
-----------------------------------------------------------------------------
LEMMA MinOf ==
    ASSUME NEW a \in Int, NEW b \in Int
    PROVE  /\ Min({a, b}) \in {a, b}
           /\ Min({a, b}) <= a /\ Min({a, b}) <= b
<1>1. \E x \in {a, b} : \A y \in {a, b} : x <= y
  <2>1. CASE a <= b
    BY <2>1
  <2>2. CASE b <= a
    BY <2>2
  <2> QED BY <2>1, <2>2
<1> QED BY <1>1 DEF Min

LEMMA Element ==
    ASSUME NEW S, NEW s \in Seq(S), NEW n \in 1 .. Len(s)
    PROVE  s[n] \in S /\ Len(s) \in Nat /\ DOMAIN s = 1 .. Len(s)
OBVIOUS

\* What is read is a directory, stored as it should be if it is sound.
LEMMA Directories ==
    ASSUME Reader
    PROVE  IsDirectory(dir) /\ (dir.sound => Stored(dir))
BY ImagesAssumption, DirectoriesStored DEF Reader

LEMMA BlockTypes ==
    ASSUME NEW d, IsDirectory(d), NEW n \in 1 .. Len(d.blocks)
    PROVE  /\ d.blocks[n].begin \in Nat /\ d.blocks[n].size \in Nat
           /\ n = 1 => d.blocks[n].begin = 0
           /\ n > 1 => d.blocks[n].begin = d.blocks[n - 1].begin + d.blocks[n - 1].size
<1> DEFINE B == [begin : Nat, size : Nat]
<1>1. d.blocks \in Seq(B)
  BY DEF IsDirectory
<1> HIDE DEF B
<1>2. DOMAIN d.blocks = 1 .. Len(d.blocks) /\ d.blocks[n] \in B
  BY <1>1, Element
<1>3. d.blocks[n].begin = IF n = 1 THEN 0 ELSE d.blocks[n - 1].begin + d.blocks[n - 1].size
  BY <1>2 DEF IsDirectory
<1> QED BY <1>2, <1>3 DEF B

LEMMA ItemTypes ==
    ASSUME NEW x \in Item
    PROVE  /\ x.kind \in {"header", "entry"}
           /\ x.kind = "header" => x.count \in Nat /\ x.start \in Nat
           /\ x.kind = "entry" =>
                 x.offset \in Nat /\ x.type \in Nat /\ x.size \in Nat /\ x.name \in STRING
BY DEF Item

\* The marks of a sound directory, and where it ends.
LEMMA MarkTypes ==
    ASSUME NEW d, Stored(d), NEW n \in 1 .. Len(d.marks)
    PROVE  /\ d.marks[n].at \in Nat /\ d.marks[n].left \in Nat
           /\ d.marks[n].start \in Nat /\ d.marks[n].listed \in Nat
           /\ Len(d.marks) \in Nat
<1> DEFINE M == [at : Nat, left : Nat, start : Nat, listed : Nat]
<1>1. d.marks \in Seq(M)
  BY DEF Stored
<1> HIDE DEF M
<1>2. d.marks[n] \in M /\ Len(d.marks) \in Nat
  BY <1>1, Element
<1> QED BY <1>2 DEF M

EndAt(d) == d.marks[Len(d.marks)].at

LEMMA NextMark ==
    ASSUME NEW d, IsDirectory(d), Stored(d), NEW n \in 1 .. Len(d.marks), n # Len(d.marks)
    PROVE  /\ n + 1 \in 1 .. Len(d.marks) /\ n \in 1 .. Len(d.marks) - 1
           /\ d.marks[n].at \in DOMAIN d.items /\ Marked(d, n) \in Item
           /\ HeaderAt(d, n) \/ EntryAt(d, n)
           /\ EndAt(d) \in Nat /\ d.marks[n + 1].at <= EndAt(d)
           /\ d.marks[n].left = 0 => HeaderAt(d, n)
           /\ d.marks[n].left > 0 => EntryAt(d, n)
<1>1. Len(d.marks) \in Nat
  BY MarkTypes
<1>2. n + 1 \in 1 .. Len(d.marks) /\ n \in 1 .. Len(d.marks) - 1
  BY <1>1
<1>3. d.marks[n].at \in DOMAIN d.items /\ (HeaderAt(d, n) \/ EntryAt(d, n))
  BY <1>2 DEF Stored
<1>4. Marked(d, n) \in Item
  BY <1>3 DEF IsDirectory, Marked
<1>5. Len(d.marks) \in 1 .. Len(d.marks)
  BY <1>1
<1>6. EndAt(d) \in Nat /\ d.marks[n + 1].at \in Nat
  BY <1>2, <1>5, MarkTypes DEF EndAt
<1>7. d.marks[n + 1].at <= EndAt(d)
  <2>1. CASE n + 1 = Len(d.marks)
    BY <1>6, <2>1 DEF EndAt
  <2>2. CASE n + 1 # Len(d.marks)
    <3>1. n + 1 < Len(d.marks)
      BY <1>1, <1>2, <2>2
    <3>2. d.marks[n + 1].at < d.marks[Len(d.marks)].at
      BY <1>2, <1>5, <3>1 DEF Stored
    <3> QED BY <1>6, <3>2 DEF EndAt
  <2> QED BY <2>1, <2>2
<1>8. d.marks[n].left = 0 => HeaderAt(d, n)
  BY <1>3 DEF EntryAt
<1>9. d.marks[n].left > 0 => EntryAt(d, n)
  BY <1>3 DEF HeaderAt
<1> QED BY <1>2, <1>3, <1>4, <1>6, <1>7, <1>8, <1>9

LEMMA Header ==
    ASSUME NEW d, IsDirectory(d), Stored(d), NEW n \in 1 .. Len(d.marks), n # Len(d.marks),
           d.marks[n].left = 0
    PROVE  LET item == Marked(d, n) next == d.marks[n + 1] IN
           /\ item.kind = "header" /\ item.start \in Nat
           /\ (item.count + 1) % Word = item.count + 1
           /\ next.at = d.marks[n].at + HeaderSize /\ next.left = item.count + 1
           /\ next.start = item.start /\ next.listed = d.marks[n].listed
           /\ ~Special(item)
<1>1. HeaderAt(d, n) /\ Marked(d, n) \in Item
  BY NextMark
<1>2. Marked(d, n).kind = "header" /\ Marked(d, n).count + 1 < Word
  BY <1>1 DEF HeaderAt
<1>3. Marked(d, n).count \in Nat /\ Marked(d, n).start \in Nat
  BY <1>1, <1>2, ItemTypes
<1>4. (Marked(d, n).count + 1) % Word = Marked(d, n).count + 1
  BY <1>2, <1>3, DirectoryAssumption
<1>5. ~Special(Marked(d, n))
  BY <1>2 DEF Special
<1> QED BY <1>1, <1>2, <1>3, <1>4, <1>5 DEF HeaderAt

LEMMA EntryMark ==
    ASSUME NEW d, IsDirectory(d), Stored(d), NEW n \in 1 .. Len(d.marks),
           d.marks[n].left > 0
    PROVE  LET item == Marked(d, n) mark == d.marks[n] next == d.marks[n + 1] IN
           /\ n # Len(d.marks)
           /\ item.kind = "entry" /\ item.size \in 1 .. NameMax /\ item.size \in Nat
           /\ next.at = mark.at + EntrySize + item.size /\ next.left = mark.left - 1
           /\ next.start = mark.start
           /\ Dot(item) => next.listed = mark.listed
           /\ ~Dot(item) =>
                 /\ next.listed = mark.listed + 1
                 /\ d.listing[mark.listed + 1] = [name |-> item.name, ref |-> <<mark.start, item.offset>>]
<1>1. n # Len(d.marks)
  BY DEF Stored
<1>2. EntryAt(d, n) /\ Marked(d, n) \in Item
  BY <1>1, NextMark
<1>3. Marked(d, n).kind = "entry" /\ Marked(d, n).size \in 1 .. NameMax
  BY <1>2 DEF EntryAt
<1>4. Marked(d, n).size \in Nat
  BY <1>2, <1>3, ItemTypes
<1> QED BY <1>1, <1>2, <1>3, <1>4 DEF EntryAt

-----------------------------------------------------------------------------
Reads1 == <<image, dir, opc, cur, rd, group, pending, list, capacity>>

\* The reader of directories stays as it is, or only moves along the list.
LEMMA StaysReading ==
    ASSUME DInv, UNCHANGED Reads1, index' \in 0 .. Len(list),
           lpc' \notin {"scan", "compare", "close"} => index' = 0,
           opc = "closed" => ret' = ret, Returned'
    PROVE  DInv'
<1> USE DEF Reads1
<1>1. CursorOK' = CursorOK
  BY DEF CursorOK, Want
<1>2. Reader'
  <2>1. image' \in Images /\ \E x \in DOMAIN image'.dirs : dir' = image'.dirs[x]
    BY DEF DInv, Reader
  <2>2. (opc' \in {"closed", "open"} => cur' = NoCursor) /\ (opc' \notin {"closed", "open"} => CursorOK')
    BY <1>1 DEF DInv, Reader
  <2>3. opc' \in {"name", "add"} =>
          pending' \in Item /\ pending'.kind = "entry" /\ pending'.type \in EntryTypes
    BY DEF DInv, Reader
  <2>4. /\ opc' = "add" => ~Dot(pending')
        /\ DOMAIN group' = {"count", "start"} /\ group'.start \in Nat
        /\ list' \in Seq(Entry) /\ Len(list') <= capacity'
    BY DEF DInv, Reader
  <2> QED BY <2>1, <2>2, <2>3, <2>4 DEF Reader
<1>3. ParsesSoundly'
  <2>1. ASSUME NEW n, AtMark(n)
        PROVE  AtMark(n)'
    <3>1. At' = At /\ Past' = Past
      BY DEF At, Past, Position
    <3>2. Reads(dir.marks[n])' /\ Groups(dir.marks[n])' /\ Lists(dir.marks[n])'
      BY <2>1, <3>1 DEF AtMark, Reads, Groups, Lists, LoadedSize
    <3> QED BY <2>1, <3>2 DEF AtMark
  <2>2. SoundDirectoryOpens' \/ ~dir.sound
    BY DEF DInv, ParsesSoundly, SoundDirectoryOpens
  <2> QED BY <2>1, <2>2 DEF DInv, ParsesSoundly
<1> QED BY <1>2, <1>3 DEF DInv

\* A step of squash_opendir that goes on.
LEMMA GoesOn ==
    ASSUME DInv, Open, opc' \notin {"closed", "open"}, dir' = dir, image' = image,
           index' = index, CursorOK', answer' = answer, answer = Nothing,
           opc' \in {"name", "add"} =>
               pending' \in Item /\ pending'.kind = "entry" /\ pending'.type \in EntryTypes,
           opc' = "add" => ~Dot(pending'),
           DOMAIN group' = {"count", "start"}, group'.start \in Nat,
           list' \in Seq(Entry), Len(list') <= capacity',
           dir.sound => \E n \in 1 .. Len(dir.marks) : AtMark(n)'
    PROVE  DInv'
<1>1. lpc = "opening" /\ lpc' = lpc
  BY DEF Open, lookupVars
<1>2. index' = 0 /\ index' \in 0 .. Len(list')
  <2>1. Len(list') \in Nat
    OBVIOUS
  <2> QED BY <1>1, <2>1 DEF DInv, Reader
<1>3. Reader'
  BY <1>1, <1>2 DEF DInv, Reader
<1>4. Returned'
  BY <1>1 DEF Returned
<1>5. ParsesSoundly'
  BY DEF ParsesSoundly, SoundDirectoryOpens
<1> QED BY <1>3, <1>4, <1>5 DEF DInv

\* squash_opendir fails, of what the host does or of the listing.
LEMMA OpenReturnsError ==
    ASSUME DInv, Open, NEW e, NEW b, NEW m, NEW j, OpenFails(e, b, m, j),
           answer = Nothing,
           \/ e \in HostErrors /\ faulted' = TRUE
           \/ e = "INVALID_FILE" /\ (dir.sound => dir.special)
    PROVE  DInv'
<1>1. /\ lpc = "opening" /\ lpc' = lpc
      /\ opc' = "closed" /\ ret' = e /\ list' = <<>> /\ capacity' = 0
      /\ cur' = NoCursor /\ group' = NoGroup /\ UNCHANGED <<image, dir, index, answer>>
  BY DEF Open, lookupVars, OpenFails
<1>2. index' = 0 /\ Len(list') = 0 /\ list' \in Seq(Entry)
      /\ DOMAIN group' = {"count", "start"} /\ group'.start \in Nat
  BY <1>1 DEF DInv, Reader, NoGroup
<1>3. Reader'
  BY <1>1, <1>2 DEF DInv, Reader
<1>4. Returned'
  BY <1>1 DEF Returned
<1>5. ParsesSoundly'
  BY <1>1 DEF ParsesSoundly, SoundDirectoryOpens, HostErrors
<1> QED BY <1>3, <1>4, <1>5 DEF DInv

\* The effect of moving the cursor into the next block.
LEMMA Moves ==
    ASSUME DOMAIN cur = {"next", "pos", "data", "left", "first"},
           NEW p, cur' = NextBlock(p)
    PROVE  /\ cur'.next = cur.next + 1 /\ cur'.pos = p /\ cur'.data = TRUE /\ cur'.first = FALSE
           /\ cur'.left = cur.left
BY DEF NextBlock

LEMMA Copies ==
    ASSUME DOMAIN cur = {"next", "pos", "data", "left", "first"},
           NEW c, cur' = [cur EXCEPT !.pos = @ + c, !.left = @ - c]
    PROVE  /\ cur'.next = cur.next /\ cur'.pos = cur.pos + c /\ cur'.data = cur.data
           /\ cur'.first = cur.first /\ cur'.left = cur.left - c
OBVIOUS

\* The cursor, outside and inside a block.
LEMMA CursorTypes ==
    ASSUME Reader, CursorOK
    PROVE  /\ dir.offset \in Nat /\ dir.file_size \in Nat /\ Len(dir.blocks) \in Nat
           /\ cur.next \in Nat /\ cur.pos \in Nat /\ cur.left \in Nat /\ cur.data \in BOOLEAN
           /\ cur.data => /\ LoadedSize \in Nat /\ dir.blocks[cur.next].begin \in Nat
                          /\ cur.next \in 1 .. Len(dir.blocks)
           /\ At \in Nat
<1>1. IsDirectory(dir)
  BY Directories
<1>2. Len(dir.blocks) \in Nat /\ dir.offset \in Nat /\ dir.file_size \in Nat
  <2> DEFINE B == [begin : Nat, size : Nat]
  <2>1. dir.blocks \in Seq(B)
    BY <1>1 DEF IsDirectory
  <2> HIDE DEF B
  <2>2. Len(dir.blocks) \in Nat
    BY <2>1
  <2> QED BY <1>1, <2>2 DEF IsDirectory
<1>3. cur.next \in Nat /\ cur.pos \in Nat /\ cur.left \in Nat /\ cur.data \in BOOLEAN
  BY <1>2 DEF CursorOK
<1>4. ASSUME cur.data
      PROVE  cur.next \in 1 .. Len(dir.blocks)
  BY <1>2, <1>4 DEF CursorOK
<1>5. ASSUME cur.data
      PROVE  LoadedSize \in Nat /\ dir.blocks[cur.next].begin \in Nat
  BY <1>1, <1>4, <1>5, BlockTypes DEF LoadedSize
<1>6. At \in Nat
  BY <1>2, <1>3, <1>5 DEF At, Position
<1> QED BY <1>2, <1>3, <1>4, <1>5, <1>6

-----------------------------------------------------------------------------
\* What a running squash_opendir may rely on.
LEMMA WhileOpening ==
    ASSUME IInv, DInv, Open
    PROVE  /\ lpc = "opening" /\ answer = Nothing /\ Reader
           /\ opc \notin {"closed", "open"} => CursorOK
           /\ opc \notin {"header", "entry", "name"} => rd = NoRead
           /\ DOMAIN cur = {"next", "pos", "data", "left", "first"}
           /\ dir.sound /\ opc \notin {"closed", "open"} =>
                 \E n \in 1 .. Len(dir.marks) : AtMark(n)
BY DEF Open, IInv, Typed, Related, DInv, Reader, ParsesSoundly

LEMMA HasMarks ==
    ASSUME NEW d, Stored(d)
    PROVE  Len(d.marks) \in 1 .. Len(d.marks)
<1> DEFINE M == [at : Nat, left : Nat, start : Nat, listed : Nat]
<1>1. d.marks \in Seq(M) /\ Len(d.marks) > 0
  BY DEF Stored
<1> HIDE DEF M
<1> QED BY <1>1

LEMMA Ends ==
    ASSUME Reader, dir.sound
    PROVE  /\ IsDirectory(dir) /\ Stored(dir) /\ Len(dir.marks) \in 1 .. Len(dir.marks)
           /\ EndAt(dir) \in Nat /\ dir.offset \in Nat
           /\ dir.file_size = EndAt(dir) - dir.offset + 3
<1>1. IsDirectory(dir) /\ Stored(dir)
  BY Directories
<1>3. Len(dir.marks) \in 1 .. Len(dir.marks)
  BY <1>1, HasMarks
<1>4. EndAt(dir) \in Nat
  BY <1>1, <1>3, MarkTypes DEF EndAt
<1>5. dir.file_size = EndAt(dir) - dir.offset + 3 /\ dir.offset \in Nat
  BY <1>1 DEF Stored, EndAt, IsDirectory
<1> QED BY <1>1, <1>3, <1>4, <1>5

\* While an item is being read, all of what is left of it lies ahead.
LEMMA Ahead ==
    ASSUME IInv, DInv, CursorOK, Reading, dir.sound, NEW n \in 1 .. Len(dir.marks), AtMark(n)
    PROVE  /\ n # Len(dir.marks) /\ At < EndAt(dir)
           /\ Want - rd.filled < cur.left
<1>1. opc \in {"header", "entry", "name"} /\ Reader
  BY ReadingPlaces DEF DInv
<1>2. IsDirectory(dir) /\ Stored(dir) /\ EndAt(dir) \in Nat /\ dir.offset \in Nat
      /\ dir.file_size = EndAt(dir) - dir.offset + 3
  BY <1>1, Ends
<1> DEFINE a == dir.marks[n].at
           b == dir.marks[n + 1].at
           f == rd.filled
           end == EndAt(dir)
           s == Marked(dir, n).size
<1>3. /\ At = a + Past /\ cur.left = dir.file_size - (At - dir.offset)
      /\ opc = "header" => dir.marks[n].left = 0 /\ n # Len(dir.marks)
      /\ opc \in {"entry", "name"} => dir.marks[n].left > 0
      /\ opc = "name" => pending = Marked(dir, n)
  BY <1>1, <1>2 DEF AtMark, Reads, Groups
<1>4. n # Len(dir.marks)
  BY <1>1, <1>2, <1>3, EntryMark
<1>5. a \in Nat /\ b \in Nat /\ f \in Nat /\ f < Want /\ b <= end
  BY <1>2, <1>4, MarkTypes, NextMark DEF CursorOK, Reading
<1>6. CASE opc = "header"
  <2>1. b = a + 12 /\ Want = 12 /\ Past = f
    BY <1>2, <1>3, <1>4, <1>6, Header DEF HeaderSize, Want, Past
  <2> HIDE DEF a, b, f, end
  <2> QED BY <1>2, <1>3, <1>4, <1>5, <2>1 DEF f, end
<1>7. CASE opc = "entry"
  <2>1. b = a + 8 + s /\ s \in Nat /\ Want = 8 /\ Past = f
    BY <1>2, <1>3, <1>7, EntryMark DEF EntrySize, Want, Past
  <2> HIDE DEF a, b, f, end, s
  <2> QED BY <1>2, <1>3, <1>4, <1>5, <2>1 DEF f, end
<1>8. CASE opc = "name"
  <2>1. b = a + 8 + s /\ s \in Nat /\ Want = s /\ Past = 8 + f
    <3>1. b = a + 8 + s /\ s \in Nat
      BY <1>2, <1>3, <1>8, EntryMark DEF EntrySize
    <3>2. Want = s
      BY <1>3, <1>8 DEF Want
    <3>3. Past = 8 + f
      BY <1>8 DEF Past, EntrySize
    <3> QED BY <3>1, <3>2, <3>3
  <2>2. At = a + (8 + f) /\ cur.left = (end - dir.offset + 3) - (At - dir.offset) /\ end \in Nat
    BY <1>2, <1>3, <2>1
  <2>3. f < s
    BY <1>5, <2>1
  <2> HIDE DEF a, b, f, end, s
  <2>4. At < end /\ s - f < cur.left
    BY <1>2, <1>5, <2>1, <2>2, <2>3
  <2> QED BY <1>4, <2>1, <2>4 DEF f, end
<1> QED BY <1>1, <1>6, <1>7, <1>8

-----------------------------------------------------------------------------
\* A block is loaded where one is needed: for the next group, or for the
\* item being read.  In a sound directory there is one.
LEMMA Loads ==
    ASSUME IInv, DInv, Open, NeedsBlock,
           NEW stage, NEW pos, NEW inRead \in BOOLEAN, LoadBlock(stage, pos, inRead),
           \/ Reading /\ stage = opc /\ pos = 0
           \/ /\ opc = "group" /\ cur.left >= HeaderSize /\ stage = "header"
              /\ pos = IF cur.first THEN dir.offset ELSE 0
              /\ ~inRead
    PROVE  DInv'
<1>1. /\ opc \in {"group", "header", "entry", "name"} /\ answer = Nothing /\ Reader /\ CursorOK
      /\ DOMAIN cur = {"next", "pos", "data", "left", "first"}
      /\ opc = "group" => rd = NoRead
      /\ dir.sound => \E n \in 1 .. Len(dir.marks) : AtMark(n)
  BY ReadingPlaces, WhileOpening
<1>2. IsDirectory(dir) /\ Len(dir.blocks) \in Nat /\ dir.offset \in Nat /\ cur.next \in Nat
      /\ cur.pos \in Nat /\ cur.left \in Nat /\ cur.data \in BOOLEAN
  BY <1>1, CursorTypes, Directories
<1>3. Reading => cur.data
  BY <1>1, ReadingPlaces DEF CursorOK
<1>4. ASSUME NEW n \in 1 .. Len(dir.marks), AtMark(n), dir.sound
      PROVE  /\ At < EndAt(dir) /\ n # Len(dir.marks)
             /\ cur.data => cur.pos = LoadedSize
             /\ opc = "group" => At = dir.marks[n].at /\ dir.marks[n].left = 0
  <2>1. ASSUME Reading
        PROVE  At < EndAt(dir) /\ n # Len(dir.marks) /\ opc # "group"
    <3>1. opc \in {"header", "entry", "name"}
      BY <2>1, ReadingPlaces
    <3> QED BY <1>1, <1>4, <2>1, <3>1, Ahead
  <2>2. ASSUME opc = "group", cur.left >= HeaderSize
        PROVE  /\ At < EndAt(dir) /\ n # Len(dir.marks)
               /\ At = dir.marks[n].at /\ dir.marks[n].left = 0
    <3>1. At = dir.marks[n].at /\ dir.marks[n].left = 0
          /\ cur.left = dir.file_size - (At - dir.offset)
      <4>1. Past = 0 /\ dir.marks[n].at \in Nat
        BY <1>1, <1>2, <1>4, <2>2, Ends, MarkTypes DEF Past
      <4> QED BY <1>4, <2>2, <4>1 DEF AtMark, Reads, Groups
    <3>2. At \in Nat /\ EndAt(dir) \in Nat /\ dir.file_size = EndAt(dir) - dir.offset + 3
          /\ cur.left >= 12
      BY <1>1, <1>4, <2>2, CursorTypes, Ends DEF HeaderSize
    <3>3. At < EndAt(dir)
      BY <1>2, <3>1, <3>2
    <3> QED BY <3>1, <3>2, <3>3 DEF EndAt
  <2>3. cur.data => cur.pos = LoadedSize
    <3>1. cur.data => cur.pos <= LoadedSize /\ LoadedSize \in Nat
      BY <1>1, <1>4, CursorTypes DEF AtMark, Reads
    <3> QED BY <1>2, <3>1 DEF NeedsBlock
  <2> QED BY <2>1, <2>2, <2>3
<1>5. CASE /\ cur.next < Len(dir.blocks)
           /\ cur' = NextBlock(pos) /\ rd' = [rd EXCEPT !.loaded = inRead]
           /\ Go(stage) /\ UNCHANGED <<group, pending>>
  <2>1. /\ cur'.next = cur.next + 1 /\ cur'.pos = pos /\ cur'.data = TRUE /\ cur'.first = FALSE
        /\ cur'.left = cur.left
    BY <1>1, <1>5, Moves
  <2>2. /\ rd'.filled = rd.filled /\ rd'.from = rd.from /\ rd'.loaded = inRead
        /\ DOMAIN rd' = {"filled", "from", "loaded"}
    BY <1>1, <1>5 DEF CursorOK
  <2>3. /\ opc' = stage /\ UNCHANGED <<image, dir, list, capacity, index, answer, group, pending>>
    BY <1>5 DEF Go
  <2>4. pos \in Nat /\ (inRead => pos = 0)
    BY <1>2
  <2>5. Reading => Want' = Want
    BY <2>3, ReadingPlaces DEF Want
  <2>6. rd.filled \in Nat /\ rd.filled <= Want'
    <3>1. CASE Reading
      BY <1>1, <2>5, <3>1 DEF CursorOK
    <3>2. CASE opc = "group" /\ stage = "header"
      <4>1. Want' = 12 /\ rd.filled = 0
        BY <1>1, <2>3, <3>2 DEF Want, NoRead, HeaderSize
      <4> QED BY <4>1
    <3> QED BY <3>1, <3>2
  <2>7. CursorOK'
    <3>1. cur'.next \in 0 .. Len(dir'.blocks) /\ cur'.next > 0 /\ cur'.left \in 0 .. dir'.file_size
      BY <1>1, <1>2, <1>5, <2>1, <2>3 DEF CursorOK
    <3> QED BY <2>1, <2>2, <2>4, <2>6, <3>1 DEF CursorOK
  <2>8. ASSUME dir.sound
        PROVE  \E n \in 1 .. Len(dir.marks) : AtMark(n)'
    <3>1. PICK n \in 1 .. Len(dir.marks) : AtMark(n)
      BY <1>1, <2>8
    <3>2. /\ At < EndAt(dir) /\ n # Len(dir.marks) /\ (cur.data => cur.pos = LoadedSize)
          /\ opc = "group" => At = dir.marks[n].at /\ dir.marks[n].left = 0
      BY <1>4, <2>8, <3>1
    <3>3. Stored(dir) /\ cur.next + 1 \in 1 .. Len(dir.blocks)
      BY <1>1, <1>2, <1>5, <2>8, Ends
    <3> DEFINE b == dir.blocks[cur.next + 1]
    <3>4. b.begin \in Nat /\ b.size \in Nat
      BY <1>2, <3>3, BlockTypes
    <3>5. At' = b.begin + pos
      BY <2>1, <2>3 DEF At, Position
    <3>6. At' = At /\ pos <= b.size
      <4>1. CASE cur.data
        <5>1. pos = 0
          BY <1>1, <4>1 DEF CursorOK
        <5>2. cur.next > 0
          BY <1>1, <4>1 DEF CursorOK
        <5>3. b.begin = dir.blocks[cur.next + 1 - 1].begin + dir.blocks[cur.next + 1 - 1].size
          BY <1>2, <3>3, <5>2, BlockTypes
        <5>4. cur.next + 1 - 1 = cur.next
          BY <1>2
        <5>5. b.begin = dir.blocks[cur.next].begin + dir.blocks[cur.next].size
          BY <5>3, <5>4
        <5>6. At = dir.blocks[cur.next].begin + dir.blocks[cur.next].size
          BY <3>2, <4>1 DEF At, Position, LoadedSize
        <5> QED BY <3>4, <3>5, <5>1, <5>5, <5>6
      <4>2. CASE ~cur.data
        <5>1. cur.next = 0 /\ cur.first /\ opc = "group" /\ pos = dir.offset /\ At = dir.offset
          BY <1>1, <1>2, <1>3, <4>2 DEF CursorOK, At
        <5>2. b = dir.blocks[1] /\ b.begin = 0
          BY <1>2, <3>3, <5>1, BlockTypes
        <5>3. Len(dir.marks) > 1
          BY <3>1, <3>2
        <5>4. dir.offset <= dir.blocks[1].size
          BY <3>3, <5>3 DEF Stored
        <5> QED BY <1>2, <3>5, <5>1, <5>2, <5>4
      <4> QED BY <1>2, <4>1, <4>2
    <3>7. Past' = Past
      <4>1. CASE Reading
        BY <2>2, <2>3, <4>1, ReadingPlaces DEF Past
      <4>2. CASE opc = "group" /\ stage = "header"
        BY <1>1, <2>2, <2>3, <4>2 DEF Past, NoRead
      <4> QED BY <4>1, <4>2
    <3>8. Reads(dir.marks[n])'
      <4>1. /\ At = dir.marks[n].at + Past /\ cur.left = dir.file_size - (At - dir.offset)
            /\ (opc \in {"header", "entry"} /\ rd.filled > 0 => rd.from = dir.marks[n].at)
        BY <3>1 DEF AtMark, Reads
      <4>2. cur'.pos <= LoadedSize'
        BY <2>1, <2>3, <3>6 DEF LoadedSize
      <4>3. opc' \in {"header", "entry"} /\ rd'.filled > 0 => rd'.from = dir.marks[n].at
        <5>1. opc = "group" => rd'.filled = 0
          BY <1>1, <2>2 DEF NoRead
        <5> QED BY <2>2, <2>3, <4>1, <5>1
      <4> QED BY <2>1, <2>3, <3>6, <3>7, <4>1, <4>2, <4>3 DEF Reads
    <3>9. Groups(dir.marks[n])' /\ Lists(dir.marks[n])'
      BY <2>3, <3>1 DEF AtMark, Groups, Lists
    <3>10. AtMark(n)'
      <4>1. opc' = "header" => n < Len(dir.marks)
        BY <3>1, <3>2
      <4>2. opc' # "finish" /\ (opc' \in {"name", "add"} => opc = opc')
        BY <1>1, <2>3
      <4> QED BY <2>3, <3>1, <3>8, <3>9, <4>1, <4>2 DEF AtMark
    <3> QED BY <3>10
  <2>9. opc' \notin {"closed", "open", "add"} /\ (opc' = "name" => opc = "name")
    BY <1>1, <2>3
  <2> QED BY <1>1, <2>3, <2>7, <2>8, <2>9, GoesOn DEF Reader
<1>6. CASE cur.next = Len(dir.blocks) /\ Refused(Held, NameHeld)
  <2>1. ~dir.sound
    <3>1. SUFFICES ASSUME dir.sound PROVE FALSE
      OBVIOUS
    <3>2. PICK n \in 1 .. Len(dir.marks) : AtMark(n)
      BY <1>1, <3>1
    <3>3. At < EndAt(dir) /\ n # Len(dir.marks) /\ (cur.data => cur.pos = LoadedSize)
      BY <1>4, <3>1, <3>2
    <3>4. /\ dir.blocks # <<>>
          /\ EndAt(dir) <= Last(dir.blocks).begin + Last(dir.blocks).size
      <4>1. Stored(dir)
        BY <1>1, <3>1, Directories
      <4>2. Len(dir.marks) > 1
        BY <3>2, <3>3
      <4> QED BY <4>1, <4>2 DEF Stored, EndAt
    <3>5. Len(dir.blocks) # 0
      <4> DEFINE B == [begin : Nat, size : Nat]
      <4>1. dir.blocks \in Seq(B)
        BY <1>2 DEF IsDirectory
      <4> HIDE DEF B
      <4> QED BY <3>4, <4>1
    <3>6. cur.data
      BY <1>1, <1>2, <1>6, <3>5 DEF CursorOK
    <3>7. At = dir.blocks[cur.next].begin + dir.blocks[cur.next].size
      BY <3>3, <3>6 DEF At, Position, LoadedSize
    <3>8. Last(dir.blocks) = dir.blocks[cur.next]
      BY <1>6 DEF Last
    <3>9. At \in Nat /\ EndAt(dir) \in Nat
      BY <1>1, <3>1, CursorTypes, Ends
    <3> QED BY <3>3, <3>4, <3>7, <3>8, <3>9
  <2> QED BY <1>1, <1>6, <2>1, OpenReturnsError DEF Refused
<1>7. CASE /\ \E e \in HostErrors : OpenFails(e, Held, NameHeld, 0)
           /\ faulted' = TRUE
  BY <1>1, <1>7, OpenReturnsError
<1> QED BY <1>5, <1>6, <1>7 DEF LoadBlock, HostErrors

-----------------------------------------------------------------------------
\* Steps that parse what has been read leave the cursor where it is.
LEMMA CursorStays ==
    ASSUME CursorOK, UNCHANGED <<dir, cur>>, rd' = NoRead,
           cur.data \/ opc' \in {"group", "finish"}, Want' \in Nat
    PROVE  CursorOK'
<1>1. /\ DOMAIN rd' = {"filled", "from", "loaded"} /\ rd'.filled = 0 /\ rd'.loaded = FALSE
  BY DEF NoRead
<1>2. rd'.filled \in Nat /\ rd'.filled <= Want'
  BY <1>1
<1>3. /\ cur'.next \in 0 .. Len(dir'.blocks) /\ cur'.left \in 0 .. dir'.file_size /\ cur'.pos \in Nat
      /\ cur'.data \in BOOLEAN /\ (cur'.data <=> cur'.next > 0) /\ (cur'.first <=> ~cur'.data)
  BY DEF CursorOK
<1>4. ~cur'.data => cur'.pos = dir'.offset /\ opc' \in {"group", "finish"}
  BY DEF CursorOK
<1> QED BY <1>1, <1>2, <1>3, <1>4 DEF CursorOK

LEMMA Shift ==
    ASSUME NEW a \in Int, NEW x \in Int, NEW c \in Int
    PROVE  (a + x) + c = a + (x + c)
OBVIOUS

LEMMA Consumed ==
    ASSUME NEW size \in Int, NEW at \in Int, NEW from \in Int, NEW c \in Int
    PROVE  (size - (at - from)) - c = size - ((at + c) - from)
OBVIOUS

LEMMA ReadsFrom ==
    ASSUME UNCHANGED <<dir, cur>>, rd' = NoRead, NEW m, Reads(m), NEW mark, At = mark.at + Past'
    PROVE  Reads(mark)'
<1>1. At' = At
  BY DEF At, Position
<1>2. rd'.filled = 0
  BY DEF NoRead
<1> QED BY <1>1, <1>2 DEF Reads, LoadedSize

LEMMA GroupKeeps ==
    ASSUME IInv, DInv, Open, Group
    PROVE  DInv'
<1>1. /\ opc = "group" /\ answer = Nothing /\ Reader /\ CursorOK /\ rd = NoRead
      /\ dir.sound => \E n \in 1 .. Len(dir.marks) : AtMark(n)
  BY WhileOpening DEF Group
<1>2. CASE cur.left >= HeaderSize /\ NeedsBlock
  BY <1>1, <1>2, Loads DEF Group
<1>3. CASE /\ opc' = IF cur.left >= HeaderSize THEN "header" ELSE "finish"
           /\ UNCHANGED <<image, dir, list, capacity, index, answer, cur, rd, group, pending>>
           /\ cur.left >= HeaderSize => ~NeedsBlock
  <2>1. cur.left >= HeaderSize => cur.data
    BY <1>3 DEF NeedsBlock
  <2>2. Want' \in Nat
    BY <1>3 DEF Want, HeaderSize
  <2>3. CursorOK'
    BY <1>1, <1>3, <2>1, <2>2, CursorStays
  <2>4. ASSUME dir.sound
        PROVE  \E n \in 1 .. Len(dir.marks) : AtMark(n)'
    <3>1. PICK n \in 1 .. Len(dir.marks) : AtMark(n)
      BY <1>1, <2>4
    <3>2. /\ IsDirectory(dir) /\ Stored(dir) /\ Len(dir.marks) \in 1 .. Len(dir.marks)
          /\ EndAt(dir) \in Nat /\ dir.offset \in Nat /\ dir.file_size = EndAt(dir) - dir.offset + 3
      BY <1>1, <2>4, Ends
    <3> DEFINE a == dir.marks[n].at
               end == EndAt(dir)
    <3>3. a \in Nat
      BY <3>2, MarkTypes
    <3>4. Past = 0 /\ Past' = 0
      BY <1>1, <1>3 DEF Past, NoRead
    <3>5. At = a /\ cur.left = (end - dir.offset + 3) - (At - dir.offset) /\ dir.marks[n].left = 0
      BY <1>1, <3>1, <3>2, <3>3, <3>4 DEF AtMark, Reads, Groups
    <3>6. Reads(dir.marks[n])'
      BY <1>1, <1>3, <3>1, <3>3, <3>4, <3>5, ReadsFrom DEF AtMark
    <3>7. Groups(dir.marks[n])' /\ Lists(dir.marks[n])'
      BY <1>3, <3>1, <3>5 DEF AtMark, Groups, Lists
    <3>8. CASE cur.left >= HeaderSize
      <4>1. opc' = "header"
        BY <1>3, <3>8
      <4>2. a < end
        <5> HIDE DEF a, end
        <5> QED BY <3>2, <3>3, <3>5, <3>8 DEF HeaderSize, end
      <4>3. n # Len(dir.marks)
        BY <3>3, <4>2 DEF EndAt
      <4> QED BY <1>3, <3>1, <3>2, <3>6, <3>7, <4>1, <4>3 DEF AtMark
    <3>9. CASE ~(cur.left >= HeaderSize)
      <4>1. opc' = "finish"
        BY <1>3, <3>9
      <4>2. n = Len(dir.marks)
        <5>1. SUFFICES ASSUME n # Len(dir.marks) PROVE FALSE
          OBVIOUS
        <5>2. dir.marks[n + 1].at = a + 12 /\ dir.marks[n + 1].at <= end
          BY <3>2, <3>5, <5>1, Header, NextMark DEF HeaderSize
        <5> HIDE DEF a, end
        <5> QED BY <3>2, <3>3, <3>5, <3>9, <5>2 DEF HeaderSize, end
      <4> QED BY <1>3, <3>1, <3>2, <3>6, <3>7, <4>1, <4>2 DEF AtMark
    <3> QED BY <3>8, <3>9
  <2>5. opc' \in {"header", "finish"}
    BY <1>3
  <2> QED BY <1>1, <1>3, <2>3, <2>4, <2>5, GoesOn DEF Reader
<1> QED BY <1>1, <1>2, <1>3 DEF Group, Go

\* A copy takes as much as is wanted and as there is; in a sound directory
\* that is something.
LEMMA CopyKeeps ==
    ASSUME IInv, DInv, Open, ReadCopies
    PROVE  DInv'
<1>1. /\ opc \in {"header", "entry", "name"} /\ answer = Nothing /\ Reader /\ CursorOK
      /\ DOMAIN cur = {"next", "pos", "data", "left", "first"}
      /\ dir.sound => \E n \in 1 .. Len(dir.marks) : AtMark(n)
  BY ReadingPlaces, WhileOpening DEF ReadCopies
<1>2. cur.data
  BY <1>1 DEF CursorOK
<1>3. /\ IsDirectory(dir) /\ cur.pos \in Nat /\ cur.left \in Nat /\ LoadedSize \in Nat /\ At \in Nat
      /\ cur.next \in 1 .. Len(dir.blocks) /\ dir.blocks[cur.next].begin \in Nat
  BY <1>1, <1>2, CursorTypes, Directories
<1>4. rd.filled \in Nat /\ Want \in Nat /\ rd.filled < Want
  <2>1. pending \in Item /\ pending.kind = "entry" => pending.size \in Nat
    BY ItemTypes
  <2>2. Want \in Nat
    BY <1>1, <2>1 DEF Want, HeaderSize, EntrySize, Reader
  <2> QED BY <1>1, <2>2 DEF ReadCopies, Reading, CursorOK
<1> DEFINE w == Want - rd.filled
           r == LoadedSize - cur.pos
<1>5. ToCopy \in {w, r} /\ ToCopy <= w /\ ToCopy <= r /\ w \in Int /\ r \in Int /\ w > 0
  <2>1. w \in Int /\ r \in Int /\ w > 0
    BY <1>3, <1>4
  <2>2. ToCopy = Min({w, r})
    BY DEF ToCopy
  <2> HIDE DEF w, r
  <2> QED BY <2>1, <2>2, MinOf
<1>6. r > 0 \/ (rd.loaded /\ cur.pos = 0)
  <2>1. ~NeedsBlock \/ rd.loaded
    BY DEF ReadCopies
  <2>2. ~NeedsBlock => r > 0
    BY <1>2, <1>3 DEF NeedsBlock
  <2> QED BY <1>1, <2>1, <2>2 DEF CursorOK
<1>7. ToCopy \in Nat
  <2> HIDE DEF w
  <2> QED BY <1>3, <1>5, <1>6
<1>8. CASE CopyRefused /\ Refused(ReadFailed, NameHeld)
  <2>1. ~dir.sound
    <3>1. SUFFICES ASSUME dir.sound PROVE FALSE
      OBVIOUS
    <3>2. PICK n \in 1 .. Len(dir.marks) : AtMark(n)
      BY <1>1, <3>1
    <3>3. w < cur.left
      BY <1>1, <3>1, <3>2, Ahead DEF ReadCopies
    <3>4. r > 0
      <4>1. LoadedSize > 0
        <5>1. Stored(dir) /\ DOMAIN dir.blocks = 1 .. Len(dir.blocks)
          <6> DEFINE B == [begin : Nat, size : Nat]
          <6>1. dir.blocks \in Seq(B)
            BY <1>3 DEF IsDirectory
          <6> HIDE DEF B
          <6> QED BY <1>1, <3>1, <6>1, Directories
        <5> QED BY <1>3, <5>1 DEF Stored, LoadedSize
      <4> QED BY <1>3, <1>6, <4>1
    <3> HIDE DEF w, r
    <3> QED BY <1>3, <1>5, <1>7, <1>8, <3>3, <3>4 DEF CopyRefused
  <2> QED BY <1>1, <1>8, <2>1, OpenReturnsError DEF Refused
<1>9. CASE /\ ~CopyRefused
           /\ cur' = [cur EXCEPT !.pos = @ + ToCopy, !.left = @ - ToCopy]
           /\ rd' = [filled |-> rd.filled + ToCopy, loaded |-> FALSE,
                     from |-> IF rd.filled = 0 THEN Position ELSE rd.from]
           /\ opc' = opc
           /\ UNCHANGED <<image, dir, list, capacity, index, answer, group, pending>>
  <2> DEFINE c == ToCopy
  <2>1. /\ cur'.next = cur.next /\ cur'.pos = cur.pos + c /\ cur'.data = cur.data
        /\ cur'.first = cur.first /\ cur'.left = cur.left - c
    BY <1>1, <1>9, Copies
  <2>2. /\ rd'.filled = rd.filled + c /\ rd'.loaded = FALSE
        /\ DOMAIN rd' = {"filled", "from", "loaded"}
        /\ rd'.from = IF rd.filled = 0 THEN Position ELSE rd.from
    BY <1>9
  <2>3. c \in Nat /\ c > 0 /\ cur.left >= c /\ c <= w /\ c <= r
    BY <1>3, <1>5, <1>7, <1>9 DEF CopyRefused
  <2>4. Want' = Want
    BY <1>9 DEF Want
  <2>5. CursorOK'
    <3>1. rd'.filled \in Nat /\ rd'.filled <= Want'
      BY <1>4, <2>2, <2>3, <2>4
    <3>2. cur'.pos \in Nat /\ cur'.left \in 0 .. dir.file_size
      <4>1. dir.file_size \in Nat /\ cur.left \in 0 .. dir.file_size
        BY <1>1, <1>3 DEF CursorOK, IsDirectory
      <4> QED BY <1>3, <2>1, <2>3, <4>1
    <3> QED BY <1>1, <1>2, <1>9, <2>1, <2>2, <3>1, <3>2 DEF CursorOK
  <2>6. ASSUME dir.sound
        PROVE  \E n \in 1 .. Len(dir.marks) : AtMark(n)'
    <3>1. PICK n \in 1 .. Len(dir.marks) : AtMark(n)
      BY <1>1, <2>6
    <3>2. At' = At + c
      BY <1>2, <1>3, <1>9, <2>1, <2>3 DEF At, Position
    <3>3. Past' = Past + c
      <4>1. opc \in {"header", "entry"} => Past = rd.filled /\ Past' = rd'.filled
        BY <1>9 DEF Past
      <4>2. opc = "name" => Past = EntrySize + rd.filled /\ Past' = EntrySize + rd'.filled
        BY <1>9 DEF Past
      <4> QED BY <1>1, <1>4, <2>2, <2>3, <4>1, <4>2 DEF EntrySize
    <3>4. /\ At = dir.marks[n].at + Past /\ cur.left = dir.file_size - (At - dir.offset)
          /\ opc \in {"header", "entry"} /\ rd.filled > 0 => rd.from = dir.marks[n].at
      BY <3>1 DEF AtMark, Reads
    <3>5. dir.marks[n].at \in Nat /\ dir.file_size \in Nat /\ dir.offset \in Nat
      BY <1>1, <1>3, <2>6, Directories, MarkTypes DEF IsDirectory
    <3>6. Past \in Nat
      BY <1>1, <1>4 DEF Past, EntrySize
    <3>7. Reads(dir.marks[n])'
      <4>1. At' = dir.marks[n].at + Past'
        <5>1. (dir.marks[n].at + Past) + c = dir.marks[n].at + (Past + c)
          BY <2>3, <3>5, <3>6, Shift
        <5> QED BY <3>2, <3>3, <3>4, <5>1, Zenon
      <4>2. cur'.left = dir.file_size - (At' - dir.offset)
        <5>1. (dir.file_size - (At - dir.offset)) - c = dir.file_size - ((At + c) - dir.offset)
          BY <1>3, <2>3, <3>5, Consumed
        <5>2. cur'.left = (dir.file_size - (At - dir.offset)) - c
          BY <2>1, <3>4, Zenon
        <5> QED BY <3>2, <5>1, <5>2, Zenon
      <4>3. cur'.pos <= LoadedSize'
        <5>1. LoadedSize' = LoadedSize
          BY <1>9, <2>1 DEF LoadedSize
        <5> QED BY <1>3, <2>1, <2>3, <5>1
      <4>4. opc \in {"header", "entry"} => rd'.from = dir.marks[n].at
        <5>1. ASSUME opc \in {"header", "entry"}, rd.filled = 0
              PROVE  Position = dir.marks[n].at
          <6>1. Past = 0
            BY <5>1 DEF Past
          <6> QED BY <1>2, <3>4, <3>5, <6>1 DEF At
        <5> QED BY <1>4, <2>2, <3>4, <5>1
      <4> QED BY <1>9, <4>1, <4>2, <4>3, <4>4 DEF Reads
    <3>8. Groups(dir.marks[n])' /\ Lists(dir.marks[n])'
      BY <1>9, <3>1 DEF AtMark, Groups, Lists
    <3> QED BY <1>9, <3>1, <3>7, <3>8 DEF AtMark
  <2>7. opc' \notin {"closed", "open", "add"}
    BY <1>1, <1>9
  <2> QED BY <1>1, <1>9, <2>5, <2>6, <2>7, GoesOn DEF Reader
<1> QED BY <1>1, <1>8, <1>9 DEF ReadCopies, Go

-----------------------------------------------------------------------------
\* What is parsed is an item of its kind, and the one that was marked.
LEMMA Parsed ==
    ASSUME Reader, NEW kind \in {"header", "entry"}, NEW x \in ItemsRead(kind)
    PROVE  x \in Item /\ x.kind = kind
<1>1. GarbageItems \subseteq Item /\ IsDirectory(dir)
  BY Directories, ImagesAssumption
<1> QED BY <1>1 DEF ItemsRead, IsDirectory

LEMMA ParsedAtMark ==
    ASSUME NEW n, rd.from = dir.marks[n].at, dir.marks[n].at \in DOMAIN dir.items,
           NEW kind, Marked(dir, n).kind = kind, NEW x \in ItemsRead(kind)
    PROVE  x = Marked(dir, n)
BY DEF ItemsRead, Marked

\* One item further on.
LEMMA NextMarkReached ==
    ASSUME NEW n \in 1 .. Len(dir.marks), n + 1 \in 1 .. Len(dir.marks), AtMark(n),
           dir' = dir, ~Special(Marked(dir, n)),
           Reads(dir.marks[n + 1])', Groups(dir.marks[n + 1])', Lists(dir.marks[n + 1])',
           opc' \in {"next", "group"}
    PROVE  AtMark(n + 1)'
<1>1. \A m \in 1 .. n + 1 - 1 : ~Special(Marked(dir, m))
  <2>1. SUFFICES ASSUME NEW m \in 1 .. n + 1 - 1 PROVE ~Special(Marked(dir, m))
    OBVIOUS
  <2>2. CASE m = n
    BY <2>2
  <2>3. CASE m # n
    <3>1. m \in 1 .. n - 1
      BY <2>1, <2>3
    <3> QED BY <3>1 DEF AtMark
  <2> QED BY <2>2, <2>3
<1> QED BY <1>1 DEF AtMark

LEMMA HeaderKeeps ==
    ASSUME IInv, DInv, Open, ParseHeader
    PROVE  DInv'
<1>1. /\ opc = "header" /\ answer = Nothing /\ Reader /\ CursorOK /\ cur.data
      /\ dir.sound => \E n \in 1 .. Len(dir.marks) : AtMark(n)
  BY WhileOpening DEF ParseHeader, CursorOK
<1>2. PICK h \in ItemsRead("header") : group' = [count |-> (h.count + 1) % Word, start |-> h.start]
  BY DEF ParseHeader
<1>3. /\ opc' = "next" /\ rd' = NoRead /\ rd.filled = 12
      /\ UNCHANGED <<image, dir, list, capacity, index, answer, cur, pending>>
  BY DEF ParseHeader, Go, HeaderSize
<1>4. h \in Item /\ h.kind = "header" /\ h.start \in Nat
  BY <1>1, Parsed, ItemTypes
<1>5. group'.count = (h.count + 1) % Word /\ group'.start = h.start
      /\ DOMAIN group' = {"count", "start"}
  BY <1>2
<1>6. CursorOK'
  <2>1. Want' \in Nat
    BY <1>3 DEF Want
  <2> QED BY <1>1, <1>3, <2>1, CursorStays
<1>7. ASSUME dir.sound
      PROVE  \E n \in 1 .. Len(dir.marks) : AtMark(n)'
  <2>1. PICK n \in 1 .. Len(dir.marks) : AtMark(n)
    BY <1>1, <1>7
  <2>2. IsDirectory(dir) /\ Stored(dir)
    BY <1>1, <1>7, Ends
  <2>3. n # Len(dir.marks) /\ dir.marks[n].left = 0 /\ rd.from = dir.marks[n].at
        /\ At = dir.marks[n].at + 12
    <3>1. Past = 12
      BY <1>1, <1>3 DEF Past
    <3>2. n < Len(dir.marks) /\ Len(dir.marks) \in Nat
      BY <1>1, <2>1, <2>2, MarkTypes DEF AtMark
    <3>3. rd.filled > 0
      BY <1>3
    <3> QED BY <1>1, <2>1, <3>1, <3>2, <3>3 DEF AtMark, Reads, Groups
  <2> DEFINE item == Marked(dir, n)
             next == dir.marks[n + 1]
  <2>4. /\ item.kind = "header" /\ (item.count + 1) % Word = item.count + 1
        /\ next.at = dir.marks[n].at + 12 /\ next.left = item.count + 1
        /\ next.start = item.start /\ next.listed = dir.marks[n].listed /\ ~Special(item)
    BY <2>2, <2>3, Header DEF HeaderSize
  <2>5. n + 1 \in 1 .. Len(dir.marks) /\ dir.marks[n].at \in DOMAIN dir.items
        /\ next.at \in Nat
    BY <2>2, <2>3, NextMark, MarkTypes
  <2>6. h = item
    BY <1>2, <2>3, <2>4, <2>5, ParsedAtMark
  <2>7. Past' = 0
    BY <1>3 DEF Past
  <2>8. Reads(next)'
    <3>1. At = next.at + Past'
      BY <2>3, <2>4, <2>5, <2>7
    <3> QED BY <1>3, <2>1, <3>1, ReadsFrom DEF AtMark
  <2>9. Groups(next)'
    BY <1>3, <1>5, <2>4, <2>6 DEF Groups
  <2>10. Lists(next)'
    BY <1>3, <2>1, <2>4 DEF AtMark, Lists
  <2>11. AtMark(n + 1)'
    BY <1>3, <2>1, <2>4, <2>5, <2>8, <2>9, <2>10, NextMarkReached
  <2> QED BY <2>5, <2>11
<1> QED BY <1>1, <1>3, <1>4, <1>5, <1>6, <1>7, GoesOn DEF Reader

\* Past an entry, before the next mark.
LEMMA EntryAhead ==
    ASSUME Reader, dir.sound, NEW n \in 1 .. Len(dir.marks), AtMark(n), dir.marks[n].left > 0
    PROVE  /\ IsDirectory(dir) /\ Stored(dir) /\ n + 1 \in 1 .. Len(dir.marks)
           /\ dir.marks[n].at \in DOMAIN dir.items
           /\ dir.marks[n].at \in Nat /\ dir.marks[n + 1].at \in Nat
           /\ Marked(dir, n) \in Item /\ Marked(dir, n).size \in Nat
           /\ Past \in Nat =>
                 cur.left >= EntrySize + Marked(dir, n).size + 3 - Past
<1>1. /\ IsDirectory(dir) /\ Stored(dir) /\ EndAt(dir) \in Nat /\ dir.offset \in Nat
      /\ dir.file_size = EndAt(dir) - dir.offset + 3
  BY Ends
<1> DEFINE a == dir.marks[n].at
           b == dir.marks[n + 1].at
           s == Marked(dir, n).size
           end == EndAt(dir)
<1>2. n # Len(dir.marks) /\ s \in Nat /\ b = a + 8 + s
  BY <1>1, EntryMark DEF EntrySize
<1>3. /\ n + 1 \in 1 .. Len(dir.marks) /\ a \in DOMAIN dir.items
      /\ Marked(dir, n) \in Item /\ a \in Nat /\ b \in Nat /\ b <= end
  BY <1>1, <1>2, NextMark, MarkTypes
<1>4. ASSUME Past \in Nat
      PROVE  cur.left >= 8 + s + 3 - Past
  <2>1. At = a + Past /\ cur.left = (end - dir.offset + 3) - (At - dir.offset)
    BY <1>1 DEF AtMark, Reads
  <2> HIDE DEF a, b, s, end
  <2> QED BY <1>1, <1>2, <1>3, <1>4, <2>1 DEF end
<1> QED BY <1>1, <1>2, <1>3, <1>4 DEF EntrySize

LEMMA NextKeeps ==
    ASSUME IInv, DInv, Open, NextEntry
    PROVE  DInv'
<1>1. /\ opc = "next" /\ answer = Nothing /\ Reader /\ CursorOK /\ cur.data /\ rd = NoRead
      /\ dir.sound => \E n \in 1 .. Len(dir.marks) : AtMark(n)
  BY WhileOpening DEF NextEntry, CursorOK
<1>2. /\ opc' = IF group.count = 0 \/ cur.left < EntrySize THEN "group" ELSE "entry"
      /\ UNCHANGED <<image, dir, list, capacity, index, answer, cur, rd, group, pending>>
  BY DEF NextEntry, Go
<1>3. CursorOK'
  <2>1. Want' \in Nat
    BY <1>2 DEF Want, EntrySize
  <2> QED BY <1>1, <1>2, <2>1, CursorStays
<1>4. ASSUME dir.sound
      PROVE  \E n \in 1 .. Len(dir.marks) : AtMark(n)'
  <2>1. PICK n \in 1 .. Len(dir.marks) : AtMark(n)
    BY <1>1, <1>4
  <2>2. Past = 0 /\ Past' = 0
    BY <1>1, <1>2 DEF Past, NoRead
  <2>3. group.count = dir.marks[n].left /\ group.start = dir.marks[n].start
    BY <1>1, <2>1 DEF AtMark, Groups
  <2>4. IsDirectory(dir) /\ Stored(dir) /\ dir.marks[n].left \in Nat /\ dir.marks[n].at \in Nat
    BY <1>1, <1>4, Ends, MarkTypes
  <2>5. opc' = IF dir.marks[n].left = 0 THEN "group" ELSE "entry"
    <3>1. CASE dir.marks[n].left = 0
      BY <1>2, <2>3, <3>1
    <3>2. CASE dir.marks[n].left > 0
      <4>1. cur.left >= 8 + Marked(dir, n).size + 3 - 0 /\ Marked(dir, n).size \in Nat
        BY <1>1, <1>4, <2>1, <2>2, <3>2, EntryAhead DEF EntrySize
      <4>2. cur.left \in Nat
        BY <1>1, CursorTypes
      <4>3. ~(cur.left < 8)
        BY <4>1, <4>2
      <4> QED BY <1>2, <2>3, <3>2, <4>3 DEF EntrySize
    <3> QED BY <2>4, <3>1, <3>2
  <2>6. Reads(dir.marks[n])'
    <3>1. At = dir.marks[n].at + Past
      BY <2>1 DEF AtMark, Reads
    <3> QED BY <1>1, <1>2, <2>1, <2>2, <3>1, ReadsFrom DEF AtMark
  <2>7. Groups(dir.marks[n])'
    BY <1>2, <2>3, <2>4, <2>5 DEF Groups
  <2>8. Lists(dir.marks[n])'
    BY <1>2, <2>1 DEF AtMark, Lists
  <2>9. opc' \in {"group", "entry"}
    BY <2>5
  <2> QED BY <1>2, <2>1, <2>6, <2>7, <2>8, <2>9 DEF AtMark
<1>5. opc' \in {"group", "entry"}
  BY <1>2
<1> QED BY <1>1, <1>2, <1>3, <1>4, <1>5, GoesOn DEF Reader

-----------------------------------------------------------------------------
LEMMA EntryKeeps ==
    ASSUME IInv, DInv, Open, ParseEntry
    PROVE  DInv'
<1>1. /\ opc = "entry" /\ answer = Nothing /\ Reader /\ CursorOK /\ cur.data
      /\ dir.sound => \E n \in 1 .. Len(dir.marks) : AtMark(n)
  BY WhileOpening DEF ParseEntry, CursorOK
<1>2. PICK e \in ItemsRead("entry") :
          \/ (e.type \notin EntryTypes \/ e.size \notin 1 .. NameMax) /\ Refused(Held, 0)
          \/ /\ e.type \in EntryTypes /\ e.size \in 1 .. NameMax
             /\ \/ /\ ~NameFits(e)
                   /\ Go("group")
                   /\ UNCHANGED <<cur, group, pending, live>>
                \/ /\ NameFits(e)
                   /\ Go("name")
                   /\ pending' = e
                   /\ live' = Taken("name")
                   /\ UNCHANGED <<cur, group>>
                \/ NameFits(e) /\ HostFails(Held, 0, 0)
  BY DEF ParseEntry
<1>3. rd' = NoRead \/ opc' = "closed"
  BY DEF ParseEntry
<1>4. e \in Item /\ e.kind = "entry" /\ e.size \in Nat
  BY <1>1, Parsed, ItemTypes
<1>5. ASSUME NEW n \in 1 .. Len(dir.marks), AtMark(n), dir.sound
      PROVE  /\ e = Marked(dir, n) /\ n \in 1 .. Len(dir.marks) - 1 /\ Stored(dir)
             /\ e.size \in 1 .. NameMax /\ NameFits(e)
             /\ At = dir.marks[n].at + 8 /\ dir.marks[n].at \in Nat
             /\ group.count = dir.marks[n].left /\ group.start = dir.marks[n].start
             /\ dir.marks[n].left > 0
  <2>1. dir.marks[n].left > 0 /\ rd.filled = 8 /\ Past = 8
        /\ group.count = dir.marks[n].left /\ group.start = dir.marks[n].start
    BY <1>1, <1>5 DEF AtMark, Groups, ParseEntry, Past, EntrySize
  <2>2. rd.from = dir.marks[n].at /\ At = dir.marks[n].at + 8
    BY <1>1, <1>5, <2>1 DEF AtMark, Reads
  <2>3. /\ IsDirectory(dir) /\ Stored(dir) /\ n + 1 \in 1 .. Len(dir.marks)
        /\ dir.marks[n].at \in DOMAIN dir.items /\ dir.marks[n].at \in Nat
        /\ cur.left >= 8 + Marked(dir, n).size + 3 - 8
    BY <1>1, <1>5, <2>1, EntryAhead DEF EntrySize
  <2>4. Marked(dir, n).kind = "entry" /\ Marked(dir, n).size \in 1 .. NameMax
    BY <1>5, <2>1, <2>3, EntryMark
  <2>5. e = Marked(dir, n)
    BY <1>2, <2>2, <2>3, <2>4, ParsedAtMark
  <2>6. NameFits(e)
    <3> DEFINE s == e.size
    <3>1. cur.left >= 8 + s + 3 - 8 /\ cur.left \in Nat /\ s \in Nat
      BY <1>1, <1>4, <2>3, <2>5, CursorTypes
    <3> HIDE DEF s
    <3>2. cur.left >= s + 1
      BY <3>1
    <3> QED BY <3>2 DEF NameFits, s
  <2>7. n \in 1 .. Len(dir.marks) - 1
    BY <2>3
  <2> QED BY <2>1, <2>2, <2>3, <2>4, <2>5, <2>6, <2>7
<1>6. CASE e.type \notin EntryTypes \/ e.size \notin 1 .. NameMax
  <2>1. Refused(Held, 0)
    BY <1>2, <1>6
  <2>2. dir.sound => dir.special
    <3>1. SUFFICES ASSUME dir.sound PROVE dir.special
      OBVIOUS
    <3>2. PICK n \in 1 .. Len(dir.marks) : AtMark(n)
      BY <1>1, <3>1
    <3>3. Special(Marked(dir, n)) /\ n \in 1 .. Len(dir.marks) - 1 /\ Stored(dir)
      BY <1>4, <1>5, <1>6, <3>1, <3>2 DEF Special
    <3> QED BY <3>3 DEF Stored
  <2> QED BY <1>1, <2>1, <2>2, OpenReturnsError DEF Refused
<1>7. CASE HostFails(Held, 0, 0)
  BY <1>1, <1>7, OpenReturnsError DEF HostFails, HostErrors
<1>8. CASE ~NameFits(e) /\ Go("group") /\ UNCHANGED <<cur, group, pending>>
  <2>1. opc' = "group" /\ UNCHANGED <<image, dir, list, capacity, index, answer>> /\ rd' = NoRead
    BY <1>3, <1>8 DEF Go
  <2>2. Want' \in Nat
    BY <2>1 DEF Want
  <2>3. CursorOK'
    BY <1>1, <1>8, <2>1, <2>2, CursorStays
  <2>4. ~dir.sound
    BY <1>1, <1>5, <1>8
  <2> QED BY <1>1, <1>8, <2>1, <2>3, <2>4, GoesOn DEF Reader
<1>9. CASE e.type \in EntryTypes /\ Go("name") /\ pending' = e /\ UNCHANGED <<cur, group>>
  <2>1. opc' = "name" /\ UNCHANGED <<image, dir, list, capacity, index, answer>> /\ rd' = NoRead
    BY <1>3, <1>9 DEF Go
  <2>2. Want' \in Nat
    BY <1>4, <1>9, <2>1 DEF Want
  <2>3. CursorOK'
    BY <1>1, <1>9, <2>1, <2>2, CursorStays
  <2>4. ASSUME dir.sound
        PROVE  \E n \in 1 .. Len(dir.marks) : AtMark(n)'
    <3>1. PICK n \in 1 .. Len(dir.marks) : AtMark(n)
      BY <1>1, <2>4
    <3>2. /\ e = Marked(dir, n) /\ At = dir.marks[n].at + 8 /\ dir.marks[n].at \in Nat
          /\ group.count = dir.marks[n].left /\ group.start = dir.marks[n].start
          /\ dir.marks[n].left > 0
      BY <1>5, <2>4, <3>1
    <3>3. Past' = 8
      BY <2>1 DEF Past, EntrySize, NoRead
    <3>4. Reads(dir.marks[n])'
      BY <1>9, <2>1, <3>1, <3>2, <3>3, ReadsFrom DEF AtMark
    <3>5. Groups(dir.marks[n])' /\ Lists(dir.marks[n])'
      BY <1>9, <2>1, <3>1, <3>2 DEF AtMark, Groups, Lists
    <3> QED BY <1>9, <2>1, <3>1, <3>2, <3>4, <3>5 DEF AtMark
  <2> QED BY <1>1, <1>4, <1>9, <2>1, <2>3, <2>4, GoesOn DEF Reader
<1> QED BY <1>2, <1>6, <1>7, <1>8, <1>9

LEMMA NameKeeps ==
    ASSUME IInv, DInv, Open, NameRead
    PROVE  DInv'
<1>1. /\ opc = "name" /\ answer = Nothing /\ Reader /\ CursorOK /\ cur.data
      /\ dir.sound => \E n \in 1 .. Len(dir.marks) : AtMark(n)
  BY WhileOpening DEF NameRead, CursorOK
<1>2. pending \in Item /\ pending.kind = "entry" /\ pending.type \in EntryTypes
      /\ pending.size \in Nat /\ rd.filled = pending.size
  BY <1>1, ItemTypes DEF Reader, NameRead
<1>3. ASSUME NEW n \in 1 .. Len(dir.marks), AtMark(n), dir.sound
      PROVE  /\ pending = Marked(dir, n) /\ IsDirectory(dir) /\ Stored(dir)
             /\ n + 1 \in 1 .. Len(dir.marks)
             /\ At = dir.marks[n].at + 8 + pending.size /\ dir.marks[n].at \in Nat
             /\ group.count = dir.marks[n].left /\ group.start = dir.marks[n].start
             /\ dir.marks[n].left > 0
             /\ dir.marks[n + 1].at = At /\ dir.marks[n + 1].at \in Nat
             /\ dir.marks[n + 1].left = dir.marks[n].left - 1
             /\ dir.marks[n + 1].start = dir.marks[n].start
             /\ Dot(pending) => dir.marks[n + 1].listed = dir.marks[n].listed
  <2>1. dir.marks[n].left > 0 /\ pending = Marked(dir, n)
        /\ group.count = dir.marks[n].left /\ group.start = dir.marks[n].start
        /\ At = dir.marks[n].at + Past
    BY <1>1, <1>3 DEF AtMark, Groups, Reads
  <2>2. Past = 8 + pending.size
    BY <1>1, <1>2 DEF Past, EntrySize
  <2>3. /\ IsDirectory(dir) /\ Stored(dir) /\ n + 1 \in 1 .. Len(dir.marks)
        /\ dir.marks[n].at \in Nat /\ dir.marks[n + 1].at \in Nat
    BY <1>1, <1>3, <2>1, EntryAhead
  <2>4. /\ dir.marks[n + 1].at = dir.marks[n].at + 8 + pending.size
        /\ dir.marks[n + 1].left = dir.marks[n].left - 1
        /\ dir.marks[n + 1].start = dir.marks[n].start
        /\ Dot(pending) => dir.marks[n + 1].listed = dir.marks[n].listed
    BY <1>3, <2>1, <2>3, EntryMark DEF EntrySize
  <2>5. At = dir.marks[n].at + 8 + pending.size
    <3>1. (dir.marks[n].at + 8) + pending.size = dir.marks[n].at + (8 + pending.size)
      BY <1>2, <2>3, Shift
    <3> QED BY <2>1, <2>2, <3>1, Zenon
  <2> QED BY <2>1, <2>3, <2>4, <2>5
<1>4. CASE HostFails(Held, 1, 0)
  BY <1>1, <1>4, OpenReturnsError DEF HostFails, HostErrors
<1>5. CASE Dot(pending) /\ Go("next") /\ EntryDone /\ rd' = NoRead /\ UNCHANGED cur
  <2>1. opc' = "next" /\ UNCHANGED <<image, dir, list, capacity, index, answer>>
    BY <1>5 DEF Go
  <2>2. Want' \in Nat
    BY <2>1 DEF Want
  <2>3. CursorOK'
    BY <1>1, <1>5, <2>1, <2>2, CursorStays
  <2>4. group' = [group EXCEPT !.count = @ - 1]
    BY <1>5 DEF EntryDone
  <2>5. group'.start = group.start /\ DOMAIN group' = {"count", "start"} /\ group.start \in Nat
        /\ group'.count = group.count - 1
    BY <1>1, <2>4 DEF Reader
  <2>6. ASSUME dir.sound
        PROVE  \E n \in 1 .. Len(dir.marks) : AtMark(n)'
    <3>1. PICK n \in 1 .. Len(dir.marks) : AtMark(n)
      BY <1>1, <2>6
    <3> DEFINE next == dir.marks[n + 1]
    <3>2. /\ pending = Marked(dir, n) /\ n + 1 \in 1 .. Len(dir.marks)
          /\ At = next.at /\ next.at \in Nat
          /\ group.count = dir.marks[n].left /\ group.start = dir.marks[n].start
          /\ next.left = dir.marks[n].left - 1 /\ next.start = dir.marks[n].start
          /\ next.listed = dir.marks[n].listed
      BY <1>3, <1>5, <2>6, <3>1
    <3>3. Past' = 0
      BY <2>1 DEF Past
    <3>4. Reads(next)'
      BY <1>5, <2>1, <3>1, <3>2, <3>3, ReadsFrom DEF AtMark
    <3>5. Lists(next)'
      BY <2>1, <3>1, <3>2 DEF AtMark, Lists
    <3>6. ~Special(Marked(dir, n))
      BY <1>2, <3>2 DEF Special
    <3>7. Groups(next)'
      BY <2>1, <2>5, <3>2 DEF Groups
    <3> QED BY <2>1, <3>1, <3>2, <3>4, <3>5, <3>6, <3>7, NextMarkReached
  <2> QED BY <1>1, <1>5, <2>1, <2>3, <2>5, <2>6, GoesOn DEF Reader
<1>6. CASE ~Dot(pending) /\ Go("add") /\ rd' = NoRead /\ UNCHANGED <<cur, group, pending>>
  <2>1. opc' = "add" /\ UNCHANGED <<image, dir, list, capacity, index, answer>>
    BY <1>6 DEF Go
  <2>2. Want' \in Nat
    BY <2>1 DEF Want
  <2>3. CursorOK'
    BY <1>1, <1>6, <2>1, <2>2, CursorStays
  <2>4. ASSUME dir.sound
        PROVE  \E n \in 1 .. Len(dir.marks) : AtMark(n)'
    <3>1. PICK n \in 1 .. Len(dir.marks) : AtMark(n)
      BY <1>1, <2>4
    <3>2. /\ pending = Marked(dir, n)
          /\ At = dir.marks[n].at + 8 + pending.size /\ dir.marks[n].at \in Nat
          /\ group.count = dir.marks[n].left /\ group.start = dir.marks[n].start
          /\ dir.marks[n].left > 0
      BY <1>3, <2>4, <3>1
    <3>3. Past' = 8 + pending.size
      BY <1>6, <2>1 DEF Past, EntrySize
    <3>4. Reads(dir.marks[n])'
      <4>1. At = dir.marks[n].at + Past'
        BY <1>2, <3>2, <3>3
      <4> QED BY <1>6, <2>1, <3>1, <4>1, ReadsFrom DEF AtMark
    <3>5. Groups(dir.marks[n])' /\ Lists(dir.marks[n])'
      BY <1>6, <2>1, <3>1, <3>2 DEF AtMark, Groups, Lists
    <3> QED BY <1>6, <2>1, <3>1, <3>2, <3>4, <3>5 DEF AtMark
  <2> QED BY <1>1, <1>2, <1>6, <2>1, <2>3, <2>4, GoesOn DEF Reader, Dot
<1>7. \/ HostFails(Held, 1, 0)
      \/ Dot(pending) /\ Go("next") /\ EntryDone /\ rd' = NoRead /\ UNCHANGED cur
      \/ ~Dot(pending) /\ Go("add") /\ rd' = NoRead /\ UNCHANGED <<cur, group, pending>>
  BY DEF NameRead, Dot
<1> QED BY <1>4, <1>5, <1>6, <1>7

-----------------------------------------------------------------------------
LEMMA AppendedTo ==
    ASSUME NEW S, NEW s \in Seq(S), NEW e \in S
    PROVE  /\ Append(s, e) \in Seq(S) /\ Len(s) \in Nat /\ Len(Append(s, e)) = Len(s) + 1
           /\ \A m \in 1 .. Len(s) : Append(s, e)[m] = s[m]
           /\ Append(s, e)[Len(s) + 1] = e
OBVIOUS

LEMMA SameSequence ==
    ASSUME NEW S, NEW s \in Seq(S), NEW t \in Seq(S), Len(s) = Len(t),
           \A m \in 1 .. Len(s) : s[m] = t[m]
    PROVE  s = t
OBVIOUS

LEMMA AddKeeps ==
    ASSUME IInv, DInv, Open, AddEntry
    PROVE  DInv'
<1>1. /\ opc = "add" /\ answer = Nothing /\ Reader /\ CursorOK /\ cur.data /\ rd = NoRead
      /\ dir.sound => \E n \in 1 .. Len(dir.marks) : AtMark(n)
  BY WhileOpening DEF AddEntry, CursorOK
<1>2. CASE HostFails(Held, 1, 1)
  BY <1>1, <1>2, OpenReturnsError DEF HostFails, HostErrors
<1> DEFINE e == [name |-> pending.name, ref |-> <<group.start, pending.offset>>]
<1>3. CASE /\ opc' = "next" /\ list' = Append(list, e)
           /\ capacity' = IF Len(list) >= capacity THEN Grown ELSE capacity
           /\ EntryDone
           /\ UNCHANGED <<image, dir, cur, rd, index, answer>>
  <2>1. /\ pending \in Item /\ pending.kind = "entry" /\ pending.type \in EntryTypes /\ ~Dot(pending)
        /\ pending.size \in Nat /\ pending.offset \in Nat /\ pending.name \in STRING
        /\ group.start \in Nat /\ DOMAIN group = {"count", "start"}
    BY <1>1, ItemTypes DEF Reader
  <2>2. e \in Entry
    <3>1. <<group.start, pending.offset>> \in Seq(Nat)
      BY <2>1
    <3> QED BY <2>1, <3>1 DEF Entry
  <2>3. list \in Seq(Entry) /\ Len(list) <= capacity
    BY <1>1 DEF Reader
  <2> HIDE DEF e
  <2>4. /\ list' \in Seq(Entry) /\ Len(list) \in Nat /\ Len(list') = Len(list) + 1
        /\ \A m \in 1 .. Len(list) : list'[m] = list[m]
        /\ list'[Len(list) + 1] = e
    BY <1>3, <2>2, <2>3, AppendedTo
  <2>5. Len(list') <= capacity'
    <3>1. capacity \in Nat
      BY DEF IInv, Typed
    <3>2. CASE Len(list) >= capacity
      <4>1. capacity' = Grown /\ Len(list) = capacity
        BY <1>3, <2>3, <2>4, <3>1, <3>2
      <4>2. Grown \in Nat /\ Grown >= capacity + 1
        BY <3>1, DirectoryAssumption DEF Grown
      <4> QED BY <2>4, <3>1, <4>1, <4>2
    <3>3. CASE ~(Len(list) >= capacity)
      <4>1. capacity' = capacity
        BY <1>3, <3>3
      <4> QED BY <2>4, <3>1, <3>3, <4>1
    <3> QED BY <3>2, <3>3
  <2>6. /\ group'.start = group.start /\ DOMAIN group' = {"count", "start"}
        /\ group'.count = group.count - 1
    BY <1>3, <2>1 DEF EntryDone
  <2>7. Want' \in Nat
    BY <1>3 DEF Want
  <2>8. CursorOK'
    BY <1>1, <1>3, <2>7, CursorStays
  <2>9. ASSUME dir.sound
        PROVE  \E n \in 1 .. Len(dir.marks) : AtMark(n)'
    <3>1. PICK n \in 1 .. Len(dir.marks) : AtMark(n)
      BY <1>1, <2>9
    <3> DEFINE next == dir.marks[n + 1]
               mark == dir.marks[n]
    <3>2. /\ mark.left > 0 /\ pending = Marked(dir, n) /\ group.count = mark.left
          /\ group.start = mark.start /\ At = mark.at + Past
          /\ Len(list) = mark.listed /\ \A m \in 1 .. mark.listed : list[m] = dir.listing[m]
      BY <1>1, <3>1 DEF AtMark, Groups, Reads, Lists
    <3>3. /\ IsDirectory(dir) /\ Stored(dir) /\ n + 1 \in 1 .. Len(dir.marks)
          /\ mark.at \in Nat /\ next.at \in Nat
      BY <1>1, <2>9, <3>1, <3>2, EntryAhead
    <3>4. /\ next.at = mark.at + 8 + pending.size
          /\ next.left = mark.left - 1 /\ next.start = mark.start
          /\ next.listed = mark.listed + 1 /\ dir.listing[mark.listed + 1] = e
      BY <2>1, <3>1, <3>2, <3>3, EntryMark DEF EntrySize, e
    <3>5. Past = 8 + pending.size /\ Past' = 0
      BY <1>1, <1>3 DEF Past, EntrySize
    <3>6. At = next.at
      <4>1. mark.at \in Int /\ pending.size \in Int /\ 8 \in Int
        BY <2>1, <3>3
      <4> HIDE DEF mark, next
      <4>2. (mark.at + 8) + pending.size = mark.at + (8 + pending.size)
        BY <4>1, Shift
      <4> QED BY <3>2, <3>4, <3>5, <4>2, Zenon
    <3>7. Reads(next)'
      <4>1. At = next.at + Past'
        BY <3>3, <3>5, <3>6
      <4> QED BY <1>1, <1>3, <3>1, <4>1, ReadsFrom DEF AtMark
    <3>8. Groups(next)'
      BY <1>3, <2>6, <3>2, <3>4 DEF Groups
    <3>9. Lists(next)'
      <4>1. next.listed = Len(list) + 1
        BY <3>2, <3>4
      <4>2. list'[Len(list) + 1] = dir.listing[Len(list) + 1]
        BY <2>4, <3>2, <3>4
      <4>3. \A m \in 1 .. Len(list) : list'[m] = dir.listing[m]
        BY <2>4, <3>2
      <4>4. \A m \in 1 .. next.listed : list'[m] = dir.listing[m]
        BY <2>4, <4>1, <4>2, <4>3
      <4> QED BY <1>3, <2>4, <4>1, <4>4 DEF Lists
    <3>10. ~Special(Marked(dir, n))
      BY <2>1, <3>2 DEF Special
    <3> QED BY <1>3, <3>1, <3>3, <3>7, <3>8, <3>9, <3>10, NextMarkReached
  <2> QED BY <1>1, <1>3, <2>1, <2>4, <2>5, <2>6, <2>8, <2>9, GoesOn
<1> QED BY <1>2, <1>3 DEF AddEntry

LEMMA FinishKeeps ==
    ASSUME IInv, DInv, Open, Finish
    PROVE  DInv'
<1>1. /\ opc = "finish" /\ lpc = "opening" /\ answer = Nothing /\ Reader /\ CursorOK
      /\ dir.sound => \E n \in 1 .. Len(dir.marks) : AtMark(n)
      /\ lpc' = lpc
  BY WhileOpening DEF Finish, Open, lookupVars
<1>2. CASE HostFails(Held, 0, 0)
  BY <1>1, <1>2, OpenReturnsError DEF HostFails, HostErrors
<1>3. CASE /\ opc' = "open" /\ ret' = "OK" /\ cur' = NoCursor /\ group' = NoGroup
           /\ UNCHANGED <<image, dir, rd, pending, list, capacity, index, answer>>
  <2>1. Reader'
    <3>1. DOMAIN group' = {"count", "start"} /\ group'.start \in Nat
      BY <1>3 DEF NoGroup
    <3> QED BY <1>1, <1>3, <3>1 DEF Reader
  <2>2. Returned'
    BY <1>1, <1>3 DEF Returned
  <2>3. ASSUME dir.sound
        PROVE  list = dir.listing /\ ~dir.special
    <3>1. PICK n \in 1 .. Len(dir.marks) : AtMark(n)
      BY <1>1, <2>3
    <3>2. n = Len(dir.marks) /\ Lists(dir.marks[n]) /\ \A m \in 1 .. n - 1 : ~Special(Marked(dir, m))
      BY <1>1, <3>1 DEF AtMark
    <3>3. Stored(dir)
      BY <1>1, <2>3, Directories
    <3>4. ~dir.special
      BY <3>2, <3>3 DEF Stored
    <3>5. dir.listing \in Seq(Entry) /\ Len(list) = Len(dir.listing)
          /\ \A m \in 1 .. Len(list) : list[m] = dir.listing[m]
      BY <3>2, <3>3 DEF Stored, Lists
    <3> QED BY <1>1, <3>4, <3>5, SameSequence DEF Reader
  <2>4. ParsesSoundly'
    BY <1>3, <2>3 DEF ParsesSoundly, SoundDirectoryOpens
  <2> QED BY <2>1, <2>2, <2>4 DEF DInv
<1> QED BY <1>2, <1>3 DEF Finish

LEMMA OpenKeeps ==
    ASSUME IInv, DInv, Open
    PROVE  DInv'
<1>1. CASE ReadLoads
  <2>1. Reading /\ NeedsBlock /\ LoadBlock(opc, 0, TRUE)
    BY <1>1 DEF ReadLoads
  <2> QED BY <2>1, Loads
<1> QED BY <1>1, GroupKeeps, CopyKeeps, HeaderKeeps, NextKeeps, EntryKeeps, NameKeeps, AddKeeps,
           FinishKeeps DEF Open, Opening

-----------------------------------------------------------------------------
\* Around squash_opendir.
LEMMA CallOpenKeeps ==
    ASSUME IInv, DInv, CallOpen, ref \in DOMAIN image.dirs
    PROVE  DInv'
<1>1. /\ opc = "closed" /\ lpc' = "opening" /\ dir' = image.dirs[ref] /\ image' = image
      /\ cur = NoCursor /\ rd = NoRead /\ answer = Nothing /\ index = 0 /\ list = <<>> /\ capacity = 0
      /\ UNCHANGED <<rd, group, pending, list, capacity, index, answer>>
  BY DEF CallOpen, OpenDir, IInv, Related, DInv, Reader
<1>2. IsDirectory(dir') /\ (dir'.sound => Stored(dir')) /\ \E x \in DOMAIN image.dirs : dir' = image.dirs[x]
  BY <1>1, ImagesAssumption, DirectoriesStored DEF DInv, Reader
<1>3. /\ image \in Images /\ DOMAIN group = {"count", "start"} /\ group.start \in Nat
      /\ list \in Seq(Entry) /\ Len(list) <= capacity /\ index \in 0 .. Len(list)
  BY DEF DInv, Reader
<1>4. CASE dir'.outside /\ ret' = "INVALID_FILE" /\ UNCHANGED <<opc, cur>>
  <2>1. ~dir'.sound
    BY <1>2, <1>4 DEF Stored
  <2>2. Reader'
    BY <1>1, <1>2, <1>3, <1>4 DEF Reader
  <2>3. Returned'
    BY <1>1, <1>4 DEF Returned
  <2>4. ParsesSoundly'
    BY <2>1 DEF ParsesSoundly
  <2> QED BY <2>2, <2>3, <2>4 DEF DInv
<1>5. CASE opc' = "group" /\ cur' = [NoCursor EXCEPT !.pos = dir'.offset, !.left = dir'.file_size]
  <2>1. /\ cur'.next = 0 /\ cur'.pos = dir'.offset /\ cur'.data = FALSE /\ cur'.first = TRUE
        /\ cur'.left = dir'.file_size
    BY <1>5 DEF NoCursor
  <2>2. /\ dir'.offset \in Nat /\ dir'.file_size \in Nat /\ Len(dir'.blocks) \in Nat
    <3> DEFINE B == [begin : Nat, size : Nat]
    <3>1. dir'.blocks \in Seq(B) /\ dir'.offset \in Nat /\ dir'.file_size \in Nat
      BY <1>2 DEF IsDirectory
    <3> HIDE DEF B
    <3> QED BY <3>1
  <2>3. CursorOK'
    <3>1. /\ DOMAIN rd' = {"filled", "from", "loaded"} /\ rd'.filled = 0 /\ rd'.loaded = FALSE
      BY <1>1 DEF NoRead
    <3>2. Want' = 0
      BY <1>5 DEF Want
    <3>3. /\ cur'.next \in 0 .. Len(dir'.blocks) /\ cur'.left \in 0 .. dir'.file_size
          /\ cur'.pos \in Nat /\ ~(cur'.next > 0)
      BY <2>1, <2>2
    <3>4. rd'.filled \in Nat /\ rd'.filled <= Want'
      BY <3>1, <3>2
    <3>5. cur'.data \in BOOLEAN /\ ~cur'.data /\ cur'.first /\ rd'.loaded \in BOOLEAN /\ ~rd'.loaded
      BY <2>1, <3>1, Zenon
    <3> QED BY <1>5, <2>1, <3>1, <3>3, <3>4, <3>5 DEF CursorOK
  <2>4. Reader'
    BY <1>1, <1>2, <1>3, <1>5, <2>3 DEF Reader
  <2>5. Returned'
    BY <1>1, <1>5 DEF Returned
  <2>6. ASSUME dir'.sound
        PROVE  AtMark(1)' /\ 1 \in 1 .. Len(dir'.marks)
    <3>1. /\ Stored(dir') /\ Len(dir'.marks) \in 1 .. Len(dir'.marks)
      BY <1>2, <2>6, HasMarks
    <3>2. dir'.marks[1] = [at |-> dir'.offset, left |-> 0, start |-> 0, listed |-> 0]
      BY <3>1 DEF Stored
    <3> DEFINE mark == dir'.marks[1]
    <3>3. mark.at = dir'.offset /\ mark.left = 0 /\ mark.listed = 0
      BY <3>2
    <3>4. At' = dir'.offset /\ Past' = 0
      BY <1>5, <2>1 DEF At, Past
    <3>5. Reads(dir.marks[1])'
      BY <1>5, <2>1, <2>2, <3>3, <3>4 DEF Reads
    <3>6. Groups(dir.marks[1])'
      BY <1>5, <3>3 DEF Groups
    <3>7. Lists(dir.marks[1])'
      BY <1>1, <3>3 DEF Lists
    <3> QED BY <1>5, <3>1, <3>5, <3>6, <3>7 DEF AtMark
  <2>7. ParsesSoundly'
    BY <1>5, <2>6 DEF ParsesSoundly, SoundDirectoryOpens
  <2> QED BY <2>4, <2>5, <2>7 DEF DInv
<1> QED BY <1>1, <1>4, <1>5 DEF CallOpen, OpenDir

LEMMA ScanKeeps ==
    ASSUME IInv, DInv, Scan
    PROVE  DInv'
<1>1. opc = "open" /\ lpc = "scan" /\ lpc' = "compare" /\ UNCHANGED Reads1 /\ answer = Nothing
  BY DEF Scan, ReadDir, Iterator, Reads1, IInv, Related
<1>2. index \in 0 .. Len(list) /\ Len(list) \in Nat
  BY DEF DInv, Reader
<1>3. CASE index < Len(list) /\ answer' = list[index + 1] /\ index' = Advanced /\ ret' = "OK"
  <2>1. index' \in 0 .. Len(list) /\ index' > 0 /\ answer' = list'[index']
    BY <1>1, <1>2, <1>3 DEF Advanced, Reads1
  <2>2. answer' # Nothing
    <3>1. PICK S : Nothing \notin S /\ list \in Seq(S)
      BY DEF IInv, Typed
    <3>2. index + 1 \in 1 .. Len(list)
      BY <1>2, <1>3
    <3> QED BY <1>3, <3>1, <3>2
  <2>3. Returned'
    BY <1>1, <1>3, <2>1, <2>2 DEF Returned, Reads1
  <2> QED BY <1>1, <2>1, <2>3, StaysReading
<1>4. CASE answer' = Nothing /\ index' = index /\ ret' = "MEMORY"
  <2>1. Returned'
    BY <1>1, <1>4 DEF Returned, Reads1
  <2> QED BY <1>1, <1>2, <1>4, <2>1, StaysReading
<1>5. CASE AtEnd /\ answer' = Nothing /\ index' = index /\ ret' = "OK"
  <2>1. index = Len(list)
    BY <1>2, <1>5 DEF AtEnd
  <2>2. Returned'
    BY <1>1, <1>5, <2>1 DEF Returned, Reads1
  <2> QED BY <1>1, <1>2, <1>5, <2>2, StaysReading
<1> QED BY <1>3, <1>4, <1>5 DEF Scan, ReadDir

LEMMA CloseKeeps ==
    ASSUME IInv, DInv, Close
    PROVE  DInv'
<1>1. /\ opc = "open" /\ opc' = "closed" /\ lpc' \in {"component", "idle"}
      /\ list' = <<>> /\ capacity' = 0 /\ index' = 0 /\ ret' = ret
      /\ UNCHANGED <<image, dir, cur, rd, group, pending, answer>>
  BY DEF Close, CloseDir
<1>2. Reader'
  <2>1. list' \in Seq(Entry) /\ Len(list') = 0
    BY <1>1
  <2> QED BY <1>1, <2>1 DEF DInv, Reader
<1>3. Returned'
  BY <1>1 DEF Returned
<1>4. ParsesSoundly'
  BY <1>1 DEF ParsesSoundly, SoundDirectoryOpens, DInv, Returned
<1> QED BY <1>2, <1>3, <1>4 DEF DInv

-----------------------------------------------------------------------------
\* The lookup's own steps leave the reader of directories alone.
LEMMA LooksOnKeeps ==
    ASSUME IInv, DInv,
           \/ \E p, w : Call(p, w)
           \/ InitVisited \/ Component \/ Resolved \/ ReadInode \/ TestType
           \/ Opened \/ NoEntry \/ NextName \/ Revisit \/ Found
    PROVE  DInv'
<1>1. UNCHANGED Reads1 /\ index' = index
  BY DEF Call, InitVisited, Component, Resolved, ReadInode, TestType, Opened, NoEntry, NextName, Revisit, Found,
         Stay, Unchanged, dirVars, Reads1
<1>2. ret' = ret
  BY DEF Call, InitVisited, Component, Resolved, ReadInode, TestType, Opened, NoEntry, NextName, Revisit, Found,
         Stay, Unchanged
<1>3. index \in 0 .. Len(list)
  BY DEF DInv, Reader
<1>4. CASE (\E p, w : Call(p, w)) \/ InitVisited \/ Component \/ Resolved \/ ReadInode \/ TestType
  <2>1. /\ lpc \notin {"opening", "scan", "compare", "close"}
        /\ lpc' \notin {"opening", "scan", "compare", "close"}
    BY <1>4 DEF Call, InitVisited, Component, Resolved, ReadInode, TestType, Return
  <2>2. index' = 0 /\ opc' = "closed"
    BY <1>1, <2>1 DEF Reads1, DInv, Reader, IInv, Related
  <2>3. Returned'
    BY <2>1, <2>2 DEF Returned
  <2> QED BY <1>1, <1>2, <1>3, <2>1, <2>2, <2>3, StaysReading
<1>5. CASE Opened
  <2>1. lpc = "opening" /\ index = 0
    BY <1>5 DEF Opened, DInv, Reader
  <2>2. \/ opc' = "open" /\ lpc' = "scan"
        \/ opc' = "closed" /\ lpc' = "idle"
    BY <1>1, <1>5 DEF Opened, Return, Reads1
  <2>3. Returned'
    BY <1>1, <1>2, <2>2 DEF Returned, DInv, Reads1
  <2> QED BY <1>1, <1>2, <1>3, <2>1, <2>3, StaysReading
<1>6. CASE NoEntry \/ NextName \/ Revisit \/ Found
  <2>1. lpc = "compare" /\ lpc' \in {"scan", "close"} /\ opc = "open"
    BY <1>6 DEF NoEntry, NextName, Revisit, Found, Compared, EndScan, IInv, Related
  <2>2. Returned'
    BY <1>1, <1>2, <2>1 DEF Returned, DInv, Reads1
  <2> QED BY <1>1, <1>2, <1>3, <2>1, <2>2, StaysReading
<1> QED BY <1>4, <1>5, <1>6

LEMMA ReaderKeeps ==
    ASSUME IInv, DInv, Paced, [Next]_vars
    PROVE  DInv'
<1>1. CASE UNCHANGED vars
  <2>1. UNCHANGED Reads1 /\ UNCHANGED <<index, lpc, ret, answer, faulted>>
    BY <1>1 DEF vars, dirVars, lookupVars, Reads1
  <2>2. Returned'
    BY <2>1 DEF DInv, Returned, Reads1
  <2> QED BY <2>1, <2>2, StaysReading DEF DInv, Reader
<1>2. CASE CallOpen
  <2>1. ref \in DOMAIN image.dirs
    BY <1>2 DEF CallOpen, Paced, Scanning
  <2> QED BY <1>2, <2>1, CallOpenKeeps
<1> QED BY <1>1, <1>2, LooksOnKeeps, OpenKeeps, ScanKeeps, CloseKeeps DEF Next, Step

-----------------------------------------------------------------------------
\* Where the lookup is along its path.
LEMMA PathTypes ==
    ASSUME NEW p \in Paths
    PROVE  Len(p.names) \in Nat /\ (p.bare => Len(p.names) = 0)
<1> DEFINE S == STRING
<1>1. p.names \in Seq(S) /\ (p.bare => p.names = <<>>)
  BY PathsAssumption
<1> HIDE DEF S
<1> QED BY <1>1

LEMMA PacedCalls ==
    ASSUME Paced, NEW p \in Paths, NEW w, Call(p, w)
    PROVE  Paced'
<1>1. /\ lpc' \in {"resolved", "visited"} /\ path' = p /\ resolved' = FALSE /\ k' = 0 /\ err' = "OK"
  BY DEF Call
<1>2. Len(p.names) \in Nat
  BY PathTypes
<1> QED BY <1>1, <1>2 DEF Paced, AtComponent, Scanning

LEMMA PacedStays ==
    ASSUME IInv, DInv, Paced, UNCHANGED <<image, path, wants>>,
           \/ UNCHANGED <<k, resolved>>
           \/ ~resolved /\ lpc = "compare" /\ k' = k + 1 /\ UNCHANGED resolved
           \/ wants = "listing" /\ k' = k,
           lpc # "idle" /\ err' # "none",
           AtComponent' => k' < Len(path.names) /\ Name' \notin LongNames,
           lpc' \in Scanning => ref' \in DOMAIN image.dirs,
           lpc' \in Scanning \ {"directory"} => dir' = image.dirs[ref'],
           lpc' = "close" /\ resolved' /\ ~cut' => index' = Len(list')
    PROVE  Paced'
<1>1. path' \in Paths
  BY DEF Paced
<1>2. k' \in 0 .. Len(path'.names)
  <2>1. CASE k' = k
    BY <2>1 DEF Paced
  <2>2. CASE ~resolved /\ lpc = "compare" /\ k' = k + 1
    <3>1. k < Len(path.names) /\ k \in 0 .. Len(path.names) /\ Len(path.names) \in Nat
      BY <1>1, <2>2, PathTypes DEF Paced, AtComponent, Scanning
    <3> QED BY <2>2, <3>1
  <2> QED BY <2>1, <2>2
<1> QED BY <1>1, <1>2 DEF Paced

LEMMA PacedResolves ==
    ASSUME IInv, DInv, Paced, InitVisited \/ Component \/ Resolved \/ ReadInode \/ TestType
    PROVE  Paced'
<1>1. CASE InitVisited
  <2>1. /\ lpc = "visited" /\ lpc' \in {"component", "idle"} /\ err' # "none"
        /\ UNCHANGED <<image, path, wants, k, resolved>>
    BY <1>1 DEF InitVisited, Return, Stay, Paced
  <2> QED BY <2>1, PacedStays DEF AtComponent, Scanning
<1>2. CASE Component
  <2>1. /\ lpc = "component" /\ lpc' \in {"resolved", "inode", "idle"} /\ err' # "none"
        /\ lpc' = "inode" => k < Len(path.names) /\ Name \notin LongNames
        /\ UNCHANGED <<image, path, wants, k, resolved>>
    BY <1>2 DEF Component, Return, Same, Stay, Paced
  <2>2. Name' = Name
    BY <2>1 DEF Name
  <2> QED BY <2>1, <2>2, PacedStays DEF AtComponent, Scanning
<1>3. CASE Resolved
  <2>1. /\ lpc = "resolved" /\ lpc' \in {"idle", "inode"} /\ err' # "none"
        /\ UNCHANGED <<image, path, wants, k>>
        /\ resolved' = resolved \/ wants = "listing"
        /\ lpc' = "inode" => resolved'
    BY <1>3 DEF Resolved, Return, Stay, Paced
  <2> QED BY <2>1, PacedStays DEF AtComponent, Scanning
<1>4. CASE ReadInode \/ TestType
  <2>1. /\ lpc \in {"inode", "type"} /\ lpc' \in {"type", "directory", "idle"} /\ err' # "none"
        /\ lpc' = "directory" => ref' \in DOMAIN image.dirs
        /\ UNCHANGED <<image, path, wants, k, resolved>>
    BY <1>4 DEF ReadInode, TestType, Return, Same, Stay, Paced
  <2>2. Name' = Name
    BY <2>1 DEF Name
  <2>3. AtComponent' => k' < Len(path.names) /\ Name' \notin LongNames
    BY <2>1, <2>2 DEF AtComponent, Scanning, Paced
  <2> QED BY <2>1, <2>3, PacedStays DEF Scanning
<1> QED BY <1>1, <1>2, <1>3, <1>4

LEMMA PacedScans ==
    ASSUME IInv, DInv, Paced,
           CallOpen \/ Open \/ Opened \/ Scan \/ NextName
    PROVE  Paced'
<1>1. /\ lpc \in {"directory", "opening", "scan", "compare"} /\ lpc' \in {"opening", "scan", "compare", "idle"}
      /\ image' = image /\ err' # "none"
      /\ UNCHANGED <<path, wants, k, resolved, ref>>
  <2>1. CASE CallOpen
    BY <2>1 DEF CallOpen, OpenDir, Same, Paced
  <2>2. CASE Open
    <3>1. image' = image
      BY <2>2 DEF Open, Opening, Group, ReadLoads, ReadCopies, ParseHeader, NextEntry, ParseEntry,
                  NameRead, AddEntry, Finish, LoadBlock, Refused, HostFails, OpenFails, Go
    <3> QED BY <2>2, <3>1 DEF Open, lookupVars, Paced
  <2>3. CASE Opened
    BY <2>3 DEF Opened, Return, Same, Stay, Paced, DInv, Returned, HostErrors
  <2>4. CASE Scan
    BY <2>4 DEF Scan, ReadDir, Iterator, Same, Paced
  <2>5. CASE NextName
    BY <2>5 DEF NextName, Compared, Unchanged, Same, Paced
  <2> QED BY <2>1, <2>2, <2>3, <2>4, <2>5
<1>2. lpc' # "idle" => dir' = image.dirs[ref]
  <2>1. CASE CallOpen
    BY <2>1 DEF CallOpen, OpenDir
  <2>2. CASE ~CallOpen
    <3>1. lpc # "directory"
      BY <2>2 DEF Open, Opened, Scan, NextName, Compared
    <3>2. dir' = dir
      BY <2>2 DEF Open, Opening, Group, ReadLoads, ReadCopies, ParseHeader, NextEntry, ParseEntry,
                  NameRead, AddEntry, Finish, LoadBlock, Refused, HostFails, OpenFails, Go,
                  Opened, Stay, dirVars, Scan, ReadDir, Iterator, NextName, Unchanged
    <3> QED BY <1>1, <3>1, <3>2 DEF Paced, Scanning
  <2> QED BY <2>1, <2>2
<1>3. Name' = Name
  BY <1>1 DEF Name
<1>4. AtComponent' => k' < Len(path.names) /\ Name' \notin LongNames
  BY <1>1, <1>3 DEF AtComponent, Scanning, Paced
<1>5. ref' \in DOMAIN image.dirs
  BY <1>1 DEF Paced, Scanning
<1> QED BY <1>1, <1>2, <1>4, <1>5, PacedStays DEF Scanning

LEMMA PacedEnds ==
    ASSUME IInv, DInv, Paced, NoEntry \/ Revisit \/ Found \/ Close
    PROVE  Paced'
<1>1. CASE NoEntry
  <2>1. /\ lpc = "compare" /\ lpc' = "close" /\ err' # "none" /\ answer = Nothing
        /\ UNCHANGED <<image, path, wants, k, resolved, index, list>>
        /\ cut' = (cut \/ ret # "OK")
    BY <1>1 DEF NoEntry, EndScan, dirVars
  <2>2. ~cut' => index' = Len(list')
    BY <2>1 DEF DInv, Returned
  <2> QED BY <2>1, <2>2, PacedStays DEF AtComponent, Scanning
<1>2. CASE Revisit \/ Found
  <2>1. /\ lpc = "compare" /\ lpc' = "close" /\ err' # "none" /\ ~resolved /\ resolved' = resolved
        /\ UNCHANGED <<image, path, wants>> /\ k' \in {k, k + 1}
    BY <1>2 DEF Revisit, Found, Compared, Matches, EndScan, Unchanged
  <2> QED BY <2>1, PacedStays DEF AtComponent, Scanning
<1>3. CASE Close
  <2>1. /\ lpc = "close" /\ lpc' \in {"component", "idle"} /\ err' = err
        /\ UNCHANGED <<image, path, wants, k, resolved>>
    BY <1>3 DEF Close, CloseDir, Same
  <2>2. err # "none"
    BY <2>1 DEF Paced
  <2> QED BY <2>1, <2>2, PacedStays DEF AtComponent, Scanning
<1> QED BY <1>1, <1>2, <1>3

LEMMA PacedKeeps ==
    ASSUME IInv, DInv, Paced, [Next]_vars
    PROVE  Paced'
<1>1. CASE UNCHANGED vars
  <2>1. UNCHANGED <<image, dir, list, index, lpc, wants, resolved, path, k, ref, err, cut>>
    BY <1>1 DEF vars, dirVars, lookupVars
  <2>2. AtComponent' = AtComponent /\ Name' = Name
    BY <2>1 DEF AtComponent, Name
  <2> QED BY <2>1, <2>2 DEF Paced
<1> QED BY <1>1, PacedCalls, PacedResolves, PacedScans, PacedEnds DEF Next, Step

-----------------------------------------------------------------------------
(***************************************************************************)
(* The walks of a path through an image.                                   *)
(***************************************************************************)
Inodes == DOMAIN image.dirs \cup image.others

LEMMA WalksStay ==
    ASSUME image' = image, path' = path
    PROVE  Walks' = Walks /\ \A refs : WalkEnd(refs)' = WalkEnd(refs)
<1>1. \A refs : WalkEnd(refs)' = WalkEnd(refs)
  BY DEF WalkEnd, Listing, EntryIn
<1>2. \A r, name : EntryIn(r, name)' = EntryIn(r, name)
  BY DEF Listing, EntryIn
<1>3. Walks' = Walks
  BY <1>1, <1>2 DEF Walks
<1> QED BY <1>1, <1>3

LEMMA WalkTypes ==
    ASSUME NEW refs \in Walks
    PROVE  /\ refs \in Seq(Inodes) /\ Len(refs) \in Nat /\ Len(refs) > 0
           /\ DOMAIN refs = 1 .. Len(refs)
<1> DEFINE I == Inodes
<1>1. PICK n \in 1 .. Len(path.names) + 1 : refs \in [1 .. n -> I]
  BY DEF Walks, Inodes
<1> HIDE DEF I
<1>2. refs \in Seq(I) /\ Len(refs) = n
  BY <1>1
<1> QED BY <1>1, <1>2 DEF I

LEMMA EndHere ==
    ASSUME k \in Nat, Len(path.names) \in Nat, NEW refs \in Walks, WalkedTo(refs)
    PROVE  /\ ref \in Inodes /\ Last(refs) = ref
           /\ WalkEnd(refs) =
                 IF k = Len(path.names) THEN "OK"
                 ELSE IF Name \in LongNames THEN "NAME_TOO_LONG"
                 ELSE IF ref \notin DOMAIN image.dirs THEN "NOT_DIRECTORY"
                 ELSE IF image.dirs[ref].special THEN "INVALID_FILE"
                 ELSE IF Name \notin {e.name : e \in Listing(ref)} THEN "NOT_FOUND"
                 ELSE IF EntryIn(ref, Name).ref \in ToSet(refs) THEN "CYCLE_DETECTED"
                 ELSE "more"
<1>1. /\ Len(refs) = k + 1 /\ refs[Len(refs)] = ref /\ path.names[Len(refs)] = Name
  BY DEF WalkedTo, Name
<1>2. ref \in Inodes
  <2> DEFINE I == Inodes
  <2>1. refs \in Seq(I) /\ Len(refs) \in Nat /\ Len(refs) > 0
    BY WalkTypes
  <2> HIDE DEF I
  <2>2. refs[Len(refs)] \in I
    BY <2>1
  <2> QED BY <1>1, <2>2 DEF I
<1>3. k = Len(path.names) <=> Len(refs) = Len(path.names) + 1
  BY <1>1
<1>4. Last(refs) = ref
  BY <1>1 DEF Last
<1>5. WalkEnd(refs) =
         IF Len(refs) = Len(path.names) + 1 THEN "OK"
         ELSE IF Name \in LongNames THEN "NAME_TOO_LONG"
         ELSE IF ref \notin DOMAIN image.dirs THEN "NOT_DIRECTORY"
         ELSE IF image.dirs[ref].special THEN "INVALID_FILE"
         ELSE IF Name \notin {e.name : e \in Listing(ref)} THEN "NOT_FOUND"
         ELSE IF EntryIn(ref, Name).ref \in ToSet(refs) THEN "CYCLE_DETECTED"
         ELSE "more"
  BY <1>1 DEF WalkEnd
<1> QED BY <1>2, <1>3, <1>4, <1>5

LEMMA WalkBegins ==
    ASSUME image' \in Images, Len(path'.names) \in Nat
    PROVE  \E refs \in Walks' : Len(refs) = 1 /\ refs[1] = image'.root
<1> DEFINE refs == <<image'.root>>
           I == DOMAIN image'.dirs \cup image'.others
<1>1. image'.root \in I
  BY ImagesAssumption
<1>2. Len(refs) = 1 /\ refs[1] = image'.root /\ refs \in [1 .. 1 -> I]
  BY <1>1
<1>3. 1 \in 1 .. Len(path'.names) + 1
  OBVIOUS
<1> HIDE DEF refs, I
<1>4. \A n \in 1 .. Len(refs) - 1 : FALSE
  BY <1>2
<1>5. refs \in Walks'
  BY <1>2, <1>3, <1>4 DEF Walks, I
<1> QED BY <1>2, <1>5

LEMMA Beginnings ==
    ASSUME NEW S, NEW s \in Seq(S), NEW e \in S
    PROVE  /\ SubSeq(s, 1, Len(s)) = s
           /\ \A n \in 1 .. Len(s) : SubSeq(Append(s, e), 1, n) = SubSeq(s, 1, n)
<1>1. SubSeq(s, 1, Len(s)) = s
  OBVIOUS
<1>2. ASSUME NEW n \in 1 .. Len(s)
      PROVE  SubSeq(Append(s, e), 1, n) = SubSeq(s, 1, n)
  <2>1. /\ Append(s, e) \in Seq(S) /\ Len(s) \in Nat /\ Len(Append(s, e)) = Len(s) + 1
        /\ \A m \in 1 .. Len(s) : Append(s, e)[m] = s[m]
    BY AppendedTo
  <2> DEFINE t == Append(s, e)
  <2> HIDE DEF t
  <2>2. t \in Seq(S) /\ Len(t) = Len(s) + 1 /\ \A m \in 1 .. Len(s) : t[m] = s[m]
    BY <2>1 DEF t
  <2>3. SubSeq(t, 1, n) = [m \in 1 .. n |-> t[m]]
    BY <2>1, <2>2
  <2>4. SubSeq(s, 1, n) = [m \in 1 .. n |-> s[m]]
    BY <2>1
  <2>5. \A m \in 1 .. n : t[m] = s[m]
    BY <2>1, <2>2
  <2> QED BY <2>3, <2>4, <2>5 DEF t
<1> QED BY <1>1, <1>2

LEMMA WalkGoesOn ==
    ASSUME Len(path.names) \in Nat, NEW refs \in Walks, Len(refs) <= Len(path.names),
           WalkEnd(refs) = "more", NEW r \in Inodes,
           r = EntryIn(refs[Len(refs)], path.names[Len(refs)]).ref
    PROVE  /\ Append(refs, r) \in Walks /\ Len(Append(refs, r)) = Len(refs) + 1
           /\ Append(refs, r)[Len(refs) + 1] = r
           /\ ToSet(Append(refs, r)) = ToSet(refs) \cup {r}
<1> DEFINE I == Inodes
           l == Len(refs)
           t == Append(refs, r)
<1>1. refs \in Seq(I) /\ r \in I /\ l \in Nat /\ l > 0
  BY WalkTypes
<1>2. /\ refs[1] = image.root
      /\ \A n \in 1 .. l - 1 :
            WalkEnd(SubSeq(refs, 1, n)) = "more" /\ refs[n + 1] = EntryIn(refs[n], path.names[n]).ref
  BY DEF Walks
<1> HIDE DEF I
<1>3. /\ t \in Seq(I) /\ Len(t) = l + 1 /\ (\A m \in 1 .. l : t[m] = refs[m]) /\ t[l + 1] = r
  BY <1>1, AppendedTo
<1> HIDE DEF t, l
<1>4. SubSeq(refs, 1, l) = refs /\ \A n \in 1 .. l : SubSeq(t, 1, n) = SubSeq(refs, 1, n)
  <2>1. /\ SubSeq(refs, 1, Len(refs)) = refs
        /\ \A n \in 1 .. Len(refs) : SubSeq(Append(refs, r), 1, n) = SubSeq(refs, 1, n)
    BY <1>1, Beginnings
  <2> QED BY <2>1, Zenon DEF t, l
<1>5. t \in [1 .. l + 1 -> I] /\ l + 1 \in 1 .. Len(path.names) + 1
  <2>1. l <= Len(path.names)
    BY DEF l
  <2>2. DOMAIN t = 1 .. l + 1 /\ t \in [1 .. Len(t) -> I]
    BY <1>1, <1>3
  <2> QED BY <1>1, <1>3, <2>1, <2>2
<1>6. t[1] = image.root
  BY <1>1, <1>2, <1>3
<1>7. ASSUME NEW n \in 1 .. Len(t) - 1
      PROVE  WalkEnd(SubSeq(t, 1, n)) = "more" /\ t[n + 1] = EntryIn(t[n], path.names[n]).ref
  <2>1. n \in 1 .. l /\ t[n] = refs[n] /\ SubSeq(t, 1, n) = SubSeq(refs, 1, n)
    BY <1>1, <1>3, <1>4, <1>7
  <2>2. CASE n = l
    <3>1. SubSeq(t, 1, n) = refs /\ t[n + 1] = r /\ t[n] = refs[l]
      BY <1>3, <1>4, <2>1, <2>2
    <3> QED BY <2>2, <3>1 DEF l
  <2>3. CASE n # l
    <3>1. n \in 1 .. l - 1 /\ n + 1 \in 1 .. l
      BY <1>1, <2>1, <2>3
    <3>2. t[n + 1] = refs[n + 1]
      BY <1>3, <3>1
    <3> QED BY <1>2, <2>1, <3>1, <3>2
  <2> QED BY <2>2, <2>3
<1>8. t \in Walks
  BY <1>5, <1>6, <1>7 DEF Walks, I, Inodes
<1>9. ToSet(t) = ToSet(refs) \cup {r}
  <2>1. DOMAIN t = 1 .. l + 1 /\ DOMAIN refs = 1 .. l
    BY <1>1, <1>3 DEF l
  <2> QED BY <1>1, <1>3, <2>1 DEF ToSet
<1> QED BY <1>3, <1>8, <1>9 DEF t, l

\* A name stands for one entry of a sound directory.
LEMMA OnlyEntry ==
    ASSUME image \in Images, image.sound, NEW x \in DOMAIN image.dirs,
           NEW e \in Listing(x)
    PROVE  EntryIn(x, e.name) = e /\ e.ref \in Inodes
<1>1. /\ e.ref \in Inodes
      /\ \A f \in Listing(x) : f.name = e.name => f = e
  BY SoundImages DEF Listing, Inodes
<1>2. EntryIn(x, e.name) \in Listing(x) /\ EntryIn(x, e.name).name = e.name
  BY Zenon DEF EntryIn
<1> QED BY <1>1, <1>2

\* The entries of the directory at hand, once it is open.
LEMMA Entries ==
    ASSUME IInv, DInv, Paced, image.sound, lpc \in {"scan", "compare"}
    PROVE  /\ ref \in DOMAIN image.dirs /\ ~image.dirs[ref].special
           /\ Listing(ref) = {list[m] : m \in 1 .. Len(list)}
<1>1. opc = "open" /\ image \in Images /\ ref \in DOMAIN image.dirs /\ dir = image.dirs[ref]
  BY DEF IInv, Related, DInv, Reader, Paced, Scanning
<1>2. dir.sound
  BY <1>1, SoundImages
<1>3. list = dir.listing /\ ~dir.special
  BY <1>1, <1>2 DEF DInv, ParsesSoundly
<1>4. DOMAIN list = 1 .. Len(list)
  <2> DEFINE S == Entry
  <2>1. list \in Seq(S)
    BY DEF DInv, Reader
  <2> HIDE DEF S
  <2> QED BY <2>1
<1> QED BY <1>1, <1>3, <1>4 DEF Listing, ToSet

LEMMA WalkingBy ==
    ASSUME image' = image, path' = path,
           image.sound =>
              /\ OnTheWay' => \E refs \in Walks :
                    Len(refs) = k' + 1 /\ refs[k' + 1] = ref' /\ visited' = ToSet(refs)
              /\ ~resolved' /\ lpc' \in {"visited", "resolved"} =>
                    \E refs \in Walks : Len(refs) = k' + 1 /\ refs[k' + 1] = ref'
              /\ ~resolved' /\ lpc' = "visited" => k' = 0
              /\ ~resolved' /\ lpc' = "resolved" => k' = Len(path.names)
              /\ Over' =>
                    \/ \E refs \in Walks : err' = WalkEnd(refs) /\ (err' = "OK" => ref' = Last(refs))
                    \/ faulted' /\ err' \in HostErrors
                    \/ cut' /\ err' = "NOT_FOUND"
              /\ Unmatched'
    PROVE  Walking'
<1>1. Walks' = Walks /\ \A refs : WalkEnd(refs)' = WalkEnd(refs)
  BY WalksStay
<1>2. (\E refs \in Walks : Len(refs) = k' + 1 /\ refs[k' + 1] = ref' /\ visited' = ToSet(refs))
        => Trail'
  BY <1>1 DEF Trail, WalkedTo
<1>3. (\E refs \in Walks : Len(refs) = k' + 1 /\ refs[k' + 1] = ref')
        => (\E refs \in Walks : WalkedTo(refs))'
  BY <1>1 DEF WalkedTo
<1>4. (\/ \E refs \in Walks : err' = WalkEnd(refs) /\ (err' = "OK" => ref' = Last(refs))
       \/ faulted' /\ err' \in HostErrors
       \/ cut' /\ err' = "NOT_FOUND") => Ended'
  BY <1>1 DEF Ended
<1> QED BY <1>2, <1>3, <1>4 DEF Walking

-----------------------------------------------------------------------------
(***************************************************************************)
(* Walking, action by action.                                              *)
(***************************************************************************)
LEMMA WalkingCalls ==
    ASSUME IInv, DInv, NEW p \in Paths, NEW w, Call(p, w)
    PROVE  Walking'
<1>1. /\ lpc' = (IF p.bare THEN "resolved" ELSE "visited") /\ resolved' = FALSE
      /\ k' = 0 /\ ref' = image'.root /\ path' = p /\ err' = "OK" /\ image' \in Images
  BY DEF Call, DInv, Reader
<1>2. Len(p.names) \in Nat /\ (p.bare => Len(p.names) = 0)
  BY PathTypes
<1>3. \E refs \in Walks' : Len(refs) = 1 /\ refs[1] = image'.root
  BY <1>1, <1>2, WalkBegins
<1>4. (\E refs \in Walks : WalkedTo(refs))'
  BY <1>1, <1>3 DEF WalkedTo
<1>5. ~OnTheWay' /\ ~Over' /\ Unmatched'
  BY <1>1 DEF OnTheWay, AtComponent, Scanning, Over, Unmatched
<1>6. lpc' = "resolved" => k' = Len(path'.names)
  BY <1>1, <1>2
<1> QED BY <1>1, <1>4, <1>5, <1>6 DEF Walking

LEMMA Here ==
    ASSUME Paced
    PROVE  k \in Nat /\ Len(path.names) \in Nat /\ k <= Len(path.names)
BY DEF Paced

LEMMA WalkingVisited ==
    ASSUME IInv, DInv, LInv, InitVisited
    PROVE  Walking'
<1>1. /\ lpc = "visited" /\ ~resolved /\ image' = image /\ path' = path
      /\ UNCHANGED <<resolved, k, ref, wants>>
  BY DEF InitVisited, Stay, Return, IInv, Related
<1>2. CASE lpc' = "component" /\ visited' = {ref} /\ err' = err
  <2>1. ASSUME image.sound
        PROVE  \E refs \in Walks : Len(refs) = k' + 1 /\ refs[k' + 1] = ref' /\ visited' = ToSet(refs)
    <3>1. PICK refs \in Walks : WalkedTo(refs)
      BY <1>1, <2>1 DEF LInv, Walking
    <3>2. k = 0 /\ Len(refs) = 1 /\ refs[1] = ref
      BY <1>1, <2>1, <3>1 DEF LInv, Walking, WalkedTo
    <3>3. DOMAIN refs = 1 .. 1
      BY <3>2, WalkTypes
    <3>4. ToSet(refs) = {ref}
      BY <3>2, <3>3 DEF ToSet
    <3> QED BY <1>1, <1>2, <3>2, <3>4
  <2>2. ~Over' /\ Unmatched'
    BY <1>2 DEF Over, Unmatched
  <2> QED BY <1>1, <1>2, <2>1, <2>2, WalkingBy
<1>3. CASE lpc' = "idle" /\ err' = "MEMORY" /\ faulted'
  BY <1>1, <1>3, WalkingBy DEF OnTheWay, AtComponent, Scanning, Unmatched, HostErrors
<1> QED BY <1>2, <1>3 DEF InitVisited, Return

LEMMA WalkingComponent ==
    ASSUME IInv, DInv, LInv, Component
    PROVE  Walking'
<1>1. /\ lpc = "component" /\ ~resolved /\ image' = image /\ path' = path
      /\ UNCHANGED <<resolved, k, ref, wants>>
  BY DEF Component, Stay, Return, Same, IInv, Related
<1>2. k \in Nat /\ Len(path.names) \in Nat
  BY Here DEF LInv
<1>3. Unmatched' /\ Scanning' = Scanning
  BY DEF Component, Return, Unmatched, Scanning
<1>4. ASSUME image.sound
      PROVE  \E refs \in Walks : /\ WalkedTo(refs) /\ visited = ToSet(refs)
                                 /\ Len(refs) = k' + 1 /\ refs[k' + 1] = ref'
  BY <1>1, <1>4 DEF LInv, Walking, OnTheWay, Trail, WalkedTo
<1>5. CASE k = Len(path.names) /\ lpc' = "resolved"
  BY <1>1, <1>3, <1>4, <1>5, WalkingBy DEF OnTheWay, AtComponent, Scanning, Over
<1>6. CASE k < Len(path.names) /\ Name \in LongNames /\ lpc' = "idle" /\ err' = "NAME_TOO_LONG"
  <2>1. ASSUME image.sound
        PROVE  \E refs \in Walks : err' = WalkEnd(refs)
    BY <1>2, <1>4, <1>6, <2>1, EndHere
  <2> QED BY <1>1, <1>3, <1>6, <2>1, WalkingBy DEF OnTheWay, AtComponent, Scanning
<1>7. CASE lpc' = "inode" /\ visited' = visited
  BY <1>1, <1>3, <1>4, <1>7, WalkingBy DEF Over
<1> QED BY <1>5, <1>6, <1>7 DEF Component, Return, Same

LEMMA WalkingResolved ==
    ASSUME IInv, DInv, LInv, Resolved
    PROVE  Walking'
<1>1. /\ lpc = "resolved" /\ image' = image /\ path' = path
      /\ UNCHANGED <<k, ref, wants>>
  BY DEF Resolved, Stay, Return
<1>2. k \in Nat /\ Len(path.names) \in Nat
  BY Here DEF LInv
<1>3. CASE lpc' = "inode" /\ resolved'
  BY <1>1, <1>3, WalkingBy DEF OnTheWay, Unmatched, Over
<1>4. CASE wants = "reference" /\ lpc' = "idle" /\ err' = "OK"
  <2>1. ~resolved
    BY <1>4 DEF LInv, Paced
  <2>2. ASSUME image.sound
        PROVE  \E refs \in Walks : err' = WalkEnd(refs) /\ (err' = "OK" => ref' = Last(refs))
    <3>1. PICK refs \in Walks : WalkedTo(refs)
      BY <1>1, <2>1, <2>2 DEF LInv, Walking
    <3>2. k = Len(path.names)
      BY <1>1, <2>1, <2>2 DEF LInv, Walking
    <3> QED BY <1>1, <1>2, <1>4, <3>1, <3>2, EndHere
  <2> QED BY <1>1, <1>4, <2>2, WalkingBy DEF OnTheWay, AtComponent, Scanning, Unmatched
<1> QED BY <1>3, <1>4 DEF Resolved, Return

LEMMA WalkingInode ==
    ASSUME IInv, DInv, LInv, ReadInode \/ TestType
    PROVE  Walking'
<1>1. /\ lpc \in {"inode", "type"} /\ image' = image /\ path' = path
      /\ UNCHANGED <<resolved, k, ref, wants>>
  BY DEF ReadInode, TestType, Stay, Return, Same
<1>2. k \in Nat /\ Len(path.names) \in Nat
  BY Here DEF LInv
<1>3. Unmatched'
  BY DEF ReadInode, TestType, Return, Unmatched
<1>4. ASSUME image.sound, ~resolved
      PROVE  /\ k < Len(path.names) /\ Name \notin LongNames
             /\ \E refs \in Walks : /\ WalkedTo(refs) /\ visited = ToSet(refs)
                                    /\ Len(refs) = k' + 1 /\ refs[k' + 1] = ref'
  BY <1>1, <1>4 DEF LInv, Walking, Paced, OnTheWay, AtComponent, Trail, WalkedTo
<1>5. CASE lpc' \in {"type", "directory"} /\ visited' = visited
  BY <1>1, <1>3, <1>4, <1>5, WalkingBy DEF Over, OnTheWay
<1>6. CASE /\ lpc' = "idle"
           /\ \/ ref \notin DOMAIN image.dirs /\ err' = "NOT_DIRECTORY"
              \/ ref \notin Inodes
              \/ faulted' /\ err' \in HostErrors
  <2>1. ASSUME image.sound, wants = "reference", ~(faulted' /\ err' \in HostErrors)
        PROVE  \E refs \in Walks : err' = WalkEnd(refs) /\ err' # "OK"
    <3>1. ~resolved
      BY <2>1 DEF LInv, Paced
    <3>2. PICK refs \in Walks : WalkedTo(refs)
      BY <1>4, <2>1, <3>1
    <3>3. k < Len(path.names) /\ Name \notin LongNames
      BY <1>4, <2>1, <3>1
    <3>4. ref \in Inodes
      BY <1>2, <3>2, EndHere
    <3>5. ref \notin DOMAIN image.dirs /\ err' = "NOT_DIRECTORY"
      BY <1>6, <2>1, <3>4
    <3>6. k # Len(path.names)
      BY <1>2, <3>3
    <3> QED BY <1>2, <3>2, <3>3, <3>5, <3>6, EndHere
  <2> QED BY <1>1, <1>3, <1>6, <2>1, WalkingBy DEF Over, OnTheWay, AtComponent, Scanning
<1> QED BY <1>5, <1>6 DEF ReadInode, TestType, Return, Same, Inodes, HostErrors

\* What a scan leaves as it was: the way, and what is known of the names read.
LEMMA WalkingOn ==
    ASSUME IInv, DInv, LInv, lpc \in Scanning, lpc' \in Scanning,
           UNCHANGED <<image, path, wants, resolved, k, ref, visited, err, cut>>, Unmatched'
    PROVE  Walking'
<1>1. ASSUME image.sound, ~resolved
      PROVE  \E refs \in Walks : Len(refs) = k' + 1 /\ refs[k' + 1] = ref' /\ visited' = ToSet(refs)
  BY <1>1 DEF LInv, Walking, OnTheWay, AtComponent, Trail, WalkedTo
<1> QED BY <1>1, WalkingBy DEF Over, Scanning, OnTheWay

LEMMA WalkingOpens ==
    ASSUME IInv, DInv, LInv, CallOpen \/ Open
    PROVE  Walking'
<1>1. /\ lpc \in {"directory", "opening"} /\ lpc' = "opening"
      /\ UNCHANGED <<image, path, wants, resolved, k, ref, visited, err, cut>>
  <2>1. CASE CallOpen
    BY <2>1 DEF CallOpen, OpenDir, Same
  <2>2. CASE Open
    <3>1. image' = image
      BY <2>2 DEF Open, Opening, Group, ReadLoads, ReadCopies, ParseHeader, NextEntry, ParseEntry,
                  NameRead, AddEntry, Finish, LoadBlock, Refused, HostFails, OpenFails, Go
    <3> QED BY <2>2, <3>1 DEF Open, lookupVars
  <2> QED BY <2>1, <2>2
<1> QED BY <1>1, WalkingOn DEF Scanning, Unmatched

LEMMA WalkingOpened ==
    ASSUME IInv, DInv, LInv, Opened
    PROVE  Walking'
<1>1. /\ lpc = "opening" /\ index = 0 /\ ref \in DOMAIN image.dirs /\ dir = image.dirs[ref]
      /\ image \in Images /\ k \in Nat /\ Len(path.names) \in Nat
      /\ UNCHANGED <<image, path, wants, resolved, k, ref, cut, index, faulted>>
  BY Here DEF Opened, Stay, dirVars, Return, Same, DInv, Reader, LInv, Paced, Scanning
<1>2. CASE lpc' = "scan" /\ UNCHANGED <<visited, err>>
  <2>1. Unmatched'
    BY <1>1, <1>2 DEF Unmatched
  <2> QED BY <1>1, <1>2, <2>1, WalkingOn DEF Scanning
<1>3. CASE opc = "closed" /\ lpc' = "idle" /\ err' = ret
  <2>1. ASSUME image.sound, wants = "reference", ~(faulted' /\ err' \in HostErrors)
        PROVE  \E refs \in Walks : err' = WalkEnd(refs) /\ err' # "OK"
    <3>1. ~resolved
      BY <2>1 DEF LInv, Paced
    <3>2. ret = "INVALID_FILE"
      BY <1>1, <1>3, <2>1 DEF DInv, Returned
    <3>3. dir.special
      BY <1>1, <1>3, <2>1, <3>2, SoundImages DEF DInv, ParsesSoundly, SoundDirectoryOpens
    <3>4. PICK refs \in Walks : WalkedTo(refs)
      BY <1>1, <2>1, <3>1 DEF LInv, Walking, OnTheWay, AtComponent, Scanning, Trail
    <3>5. k < Len(path.names) /\ Name \notin LongNames
      BY <1>1, <3>1 DEF LInv, Paced, AtComponent, Scanning
    <3>6. k # Len(path.names)
      BY <1>1, <3>5
    <3> QED BY <1>1, <1>3, <3>2, <3>3, <3>4, <3>5, <3>6, EndHere
  <2>2. Unmatched'
    BY <1>3 DEF Unmatched
  <2> QED BY <1>1, <1>3, <2>1, <2>2, WalkingBy DEF Over, OnTheWay, AtComponent, Scanning
<1> QED BY <1>2, <1>3 DEF Opened, Return, Same

\* An entry that is read and not taken does not have the name looked for.
LEMMA WalkingScans ==
    ASSUME IInv, DInv, LInv, Scan \/ NextName
    PROVE  Walking'
<1>1. /\ lpc \in {"scan", "compare"} /\ lpc' \in {"scan", "compare"}
      /\ UNCHANGED <<image, path, wants, resolved, k, ref, visited, err, cut, list>>
  BY DEF Scan, ReadDir, Iterator, NextName, Compared, Unchanged, Same
<1>2. Name' = Name
  BY <1>1 DEF Name
<1>3. image.sound => Unmatched
  BY DEF LInv, Walking
<1>4. index \in Nat
  BY DEF IInv, Typed
<1>5. image.sound => Unmatched'
  <2>1. CASE NextName
    <3>1. /\ lpc = "compare" /\ lpc' = "scan" /\ answer # Nothing /\ ~Matches /\ index' = index
          /\ answer = list[index]
      BY <2>1 DEF NextName, Compared, Unchanged, DInv, Returned
    <3> QED BY <1>1, <1>2, <1>3, <1>4, <3>1 DEF Unmatched, Matches
  <2>2. CASE Scan
    <3>1. /\ lpc = "scan" /\ lpc' = "compare"
          /\ \/ index < Len(list) /\ index' = index + 1 /\ answer' = list[index + 1]
             \/ index' = index
      BY <2>2 DEF Scan, ReadDir, Advanced
    <3>2. image.sound /\ ~resolved => \A m \in 1 .. index : list[m].name # Name
      BY <1>3, <1>4, <3>1 DEF Unmatched
    <3>3. CASE index' = index
      BY <1>1, <1>2, <3>1, <3>2, <3>3 DEF Unmatched
    <3>4. CASE index < Len(list) /\ index' = index + 1 /\ answer' = list[index + 1]
      <4>1. answer' # Nothing
        <5>1. PICK S : Nothing \notin S /\ list \in Seq(S)
          BY DEF IInv, Typed
        <5>2. index + 1 \in 1 .. Len(list)
          BY <1>4, <3>4, <5>1
        <5> QED BY <3>4, <5>1, <5>2, Element
      <4>2. \A m \in 1 .. index + 1 : m \in 1 .. index \/ m = index + 1
        BY <1>4
      <4> QED BY <1>1, <1>2, <3>1, <3>2, <3>4, <4>1, <4>2 DEF Unmatched
    <3> QED BY <3>1, <3>3, <3>4
  <2> QED BY <2>1, <2>2
<1>6. ASSUME image.sound
      PROVE  Unmatched'
  BY <1>5, <1>6
<1>7. CASE image.sound
  BY <1>1, <1>6, <1>7, WalkingOn DEF Scanning
<1>8. CASE ~image.sound
  BY <1>1, <1>8, WalkingBy
<1> QED BY <1>7, <1>8

\* Where a scan for a name stands, in a sound image.
LEMMA Comparing ==
    ASSUME IInv, DInv, LInv, image.sound, lpc = "compare", ~resolved
    PROVE  /\ k \in Nat /\ Len(path.names) \in Nat /\ k < Len(path.names)
           /\ Name \notin LongNames /\ ref \in DOMAIN image.dirs /\ ~image.dirs[ref].special
           /\ \E refs \in Walks : WalkedTo(refs) /\ visited = ToSet(refs)
<1>1. /\ k \in Nat /\ Len(path.names) \in Nat /\ ref \in DOMAIN image.dirs /\ ~image.dirs[ref].special
  BY Here, Entries DEF LInv
<1>2. k < Len(path.names) /\ Name \notin LongNames
  BY DEF LInv, Paced, AtComponent, Scanning
<1>3. \E refs \in Walks : WalkedTo(refs) /\ visited = ToSet(refs)
  BY DEF LInv, Walking, OnTheWay, AtComponent, Scanning, Trail
<1> QED BY <1>1, <1>2, <1>3

LEMMA WalkingNoEntry ==
    ASSUME IInv, DInv, LInv, NoEntry
    PROVE  Walking'
<1>1. /\ lpc = "compare" /\ lpc' = "close" /\ answer = Nothing
      /\ err' = (IF resolved THEN "OK" ELSE "NOT_FOUND") /\ cut' = (cut \/ ret # "OK")
      /\ UNCHANGED <<image, path, wants, resolved, k, ref, visited>>
  BY DEF NoEntry, EndScan
<1>2. ASSUME image.sound, ~resolved, ~(cut' /\ err' = "NOT_FOUND")
      PROVE  \E refs \in Walks : err' = WalkEnd(refs) /\ err' # "OK"
  <2>1. PICK refs \in Walks : WalkedTo(refs)
    BY <1>1, <1>2, Comparing
  <2>2. \A m \in 1 .. Len(list) : list[m].name # Name
    <3>1. index = Len(list)
      BY <1>1, <1>2 DEF DInv, Returned
    <3> QED BY <1>1, <1>2, <3>1 DEF LInv, Walking, Unmatched
  <2>3. Name \notin {e.name : e \in Listing(ref)}
    BY <1>1, <1>2, <2>2, Entries DEF LInv
  <2>4. k # Len(path.names) /\ ~image.dirs[ref].special /\ ref \in DOMAIN image.dirs
        /\ Name \notin LongNames
    BY <1>1, <1>2, Comparing
  <2>5. WalkEnd(refs) = "NOT_FOUND"
    BY <1>1, <1>2, <2>1, <2>3, <2>4, Comparing, EndHere
  <2> QED BY <1>1, <1>2, <2>5
<1> QED BY <1>1, <1>2, WalkingBy DEF Over, OnTheWay, AtComponent, Scanning, Unmatched

\* The entry that has the name.
LEMMA Matching ==
    ASSUME IInv, DInv, LInv, image.sound, Compared, Matches
    PROVE  /\ lpc = "compare" /\ ~resolved /\ answer.ref \in Inodes
           /\ Name \in {e.name : e \in Listing(ref)} /\ EntryIn(ref, Name) = answer
<1>1. lpc = "compare" /\ ~resolved /\ answer # Nothing /\ answer.name = Name
  BY DEF Compared, Matches
<1>2. index \in 1 .. Len(list) /\ answer = list[index]
  BY <1>1 DEF DInv, Returned, Reader
<1>3. answer \in Listing(ref) /\ ref \in DOMAIN image.dirs
  BY <1>1, <1>2, Entries DEF LInv
<1>4. EntryIn(ref, answer.name) = answer /\ answer.ref \in Inodes
  BY <1>3, OnlyEntry DEF DInv, Reader
<1> QED BY <1>1, <1>3, <1>4

LEMMA WalkingRevisits ==
    ASSUME IInv, DInv, LInv, Revisit
    PROVE  Walking'
<1>1. /\ Compared /\ Matches /\ answer.ref \in visited /\ lpc' = "close" /\ err' = "CYCLE_DETECTED"
      /\ UNCHANGED <<image, path, wants, resolved, k, ref>>
  BY DEF Revisit, EndScan, Unchanged
<1>2. ASSUME image.sound
      PROVE  \E refs \in Walks : err' = WalkEnd(refs) /\ err' # "OK"
  <2>1. /\ lpc = "compare" /\ ~resolved /\ Name \in {e.name : e \in Listing(ref)}
        /\ EntryIn(ref, Name) = answer
    BY <1>1, <1>2, Matching
  <2>2. PICK refs \in Walks : WalkedTo(refs) /\ visited = ToSet(refs)
    BY <1>2, <2>1, Comparing
  <2>3. k # Len(path.names) /\ ~image.dirs[ref].special /\ ref \in DOMAIN image.dirs
        /\ Name \notin LongNames
    BY <1>2, <2>1, Comparing
  <2>4. WalkEnd(refs) = "CYCLE_DETECTED"
    BY <1>1, <1>2, <2>1, <2>2, <2>3, Comparing, EndHere
  <2> QED BY <1>1, <2>4
<1> QED BY <1>1, <1>2, WalkingBy DEF OnTheWay, AtComponent, Scanning, Unmatched

LEMMA WalkingFinds ==
    ASSUME IInv, DInv, LInv, Found
    PROVE  Walking'
<1>1. /\ Compared /\ Matches /\ answer.ref \notin visited /\ lpc' = "close" /\ ref' = answer.ref
      /\ UNCHANGED <<image, path, wants, resolved>>
  BY DEF Found, EndScan, Unchanged
<1>2. CASE err' = "OK" /\ k' = k + 1 /\ visited' = visited \cup {ref'}
  <2>1. ASSUME image.sound
        PROVE  \E refs \in Walks : Len(refs) = k' + 1 /\ refs[k' + 1] = ref' /\ visited' = ToSet(refs)
    <3>1. /\ lpc = "compare" /\ ~resolved /\ Name \in {e.name : e \in Listing(ref)}
          /\ EntryIn(ref, Name) = answer /\ answer.ref \in Inodes
      BY <1>1, <2>1, Matching
    <3>2. PICK refs \in Walks : WalkedTo(refs) /\ visited = ToSet(refs)
      BY <2>1, <3>1, Comparing
    <3>3. /\ k \in Nat /\ Len(path.names) \in Nat /\ k < Len(path.names)
          /\ Name \notin LongNames /\ ref \in DOMAIN image.dirs /\ ~image.dirs[ref].special
      BY <2>1, <3>1, Comparing
    <3>4. k # Len(path.names)
      BY <3>3
    <3>5. WalkEnd(refs) = "more"
      BY <1>1, <3>1, <3>2, <3>3, <3>4, EndHere
    <3>6. Len(refs) = k + 1 /\ refs[Len(refs)] = ref /\ path.names[Len(refs)] = Name
      BY <3>2 DEF WalkedTo, Name
    <3>7. Len(refs) <= Len(path.names) /\ answer.ref = EntryIn(refs[Len(refs)], path.names[Len(refs)]).ref
      BY <3>1, <3>3, <3>6
    <3> DEFINE longer == Append(refs, answer.ref)
    <3>8. /\ longer \in Walks /\ Len(longer) = Len(refs) + 1 /\ longer[Len(refs) + 1] = answer.ref
          /\ ToSet(longer) = ToSet(refs) \cup {answer.ref}
      BY <3>1, <3>3, <3>5, <3>7, WalkGoesOn
    <3> HIDE DEF longer
    <3> QED BY <1>1, <1>2, <3>2, <3>6, <3>8
  <2> QED BY <1>1, <1>2, <2>1, WalkingBy DEF Over, Unmatched
<1>3. CASE err' = "MEMORY" /\ faulted'
  BY <1>1, <1>3, WalkingBy DEF OnTheWay, AtComponent, Scanning, Unmatched, HostErrors
<1> QED BY <1>2, <1>3 DEF Found, EndScan

LEMMA WalkingCloses ==
    ASSUME IInv, DInv, LInv, Close
    PROVE  Walking'
<1>1. /\ lpc = "close"
      /\ UNCHANGED <<image, path, wants, resolved, k, ref, err, cut, faulted>>
  BY DEF Close, CloseDir, Same
<1>2. CASE err = "OK" /\ ~resolved /\ lpc' = "component" /\ visited' = visited
  <2>1. ASSUME image.sound
        PROVE  \E refs \in Walks : Len(refs) = k' + 1 /\ refs[k' + 1] = ref' /\ visited' = ToSet(refs)
    BY <1>1, <1>2, <2>1 DEF LInv, Walking, OnTheWay, Trail, WalkedTo
  <2> QED BY <1>1, <1>2, <2>1, WalkingBy DEF Over, Unmatched
<1>3. CASE (err = "OK" => resolved) /\ lpc' = "idle"
  <2>1. ASSUME image.sound, wants = "reference"
        PROVE  Ended
    BY <1>1, <1>3, <2>1 DEF LInv, Paced, Walking, Over
  <2> QED BY <1>1, <1>3, <2>1, WalkingBy DEF Over, OnTheWay, AtComponent, Scanning, Unmatched, Ended
<1> QED BY <1>2, <1>3 DEF Close, Same

LEMMA WalkingKeeps ==
    ASSUME IInv, DInv, LInv, [Next]_vars
    PROVE  Walking'
<1>1. CASE UNCHANGED vars
  <2>1. UNCHANGED <<image, list, index, answer, faulted, lpc, wants, resolved, path, k, ref, visited,
                    err, cut>>
    BY <1>1 DEF vars, dirVars, lookupVars
  <2>2. Walks' = Walks /\ \A refs : WalkEnd(refs)' = WalkEnd(refs)
    BY <2>1, WalksStay
  <2>3. OnTheWay' = OnTheWay /\ Over' = Over /\ Unmatched' = Unmatched
    BY <2>1 DEF OnTheWay, AtComponent, Over, Unmatched, Name
  <2>4. Trail' = Trail /\ (\E refs \in Walks : WalkedTo(refs))' = \E refs \in Walks : WalkedTo(refs)
    BY <2>1, <2>2 DEF Trail, WalkedTo
  <2>5. Ended' = Ended
    BY <2>1, <2>2 DEF Ended
  <2> QED BY <2>1, <2>3, <2>4, <2>5 DEF LInv, Walking
<1> QED BY <1>1, WalkingCalls, WalkingVisited, WalkingComponent, WalkingResolved, WalkingInode,
        WalkingOpens, WalkingOpened, WalkingScans, WalkingNoEntry, WalkingRevisits, WalkingFinds,
        WalkingCloses DEF Next, Step

-----------------------------------------------------------------------------
LEMMA LInvHolds == Spec => [](IInv /\ DInv /\ LInv)
<1>1. Init => DInv /\ LInv
  <2> SUFFICES ASSUME Init PROVE DInv /\ LInv
    OBVIOUS
  <2>1. /\ image \in Images /\ dir = image.dirs[image.root] /\ opc = "closed" /\ cur = NoCursor
        /\ group = NoGroup /\ list = <<>> /\ capacity = 0 /\ index = 0 /\ answer = Nothing
        /\ ret = "OK" /\ lpc = "idle" /\ resolved = FALSE /\ k = 0 /\ err = "none"
        /\ path = [bare |-> TRUE, names |-> <<>>]
    BY DEF Init, DirInit
  <2>2. Reader
    <3>1. \E x \in DOMAIN image.dirs : dir = image.dirs[x]
      BY <2>1, ImagesAssumption
    <3>2. DOMAIN group = {"count", "start"} /\ group.start \in Nat
      BY <2>1 DEF NoGroup
    <3>3. list \in Seq(Entry) /\ Len(list) = 0
      BY <2>1
    <3> QED BY <2>1, <3>1, <3>2, <3>3 DEF Reader
  <2>3. Returned /\ ParsesSoundly
    BY <2>1 DEF Returned, ParsesSoundly, SoundDirectoryOpens
  <2>4. Paced
    <3>1. Len(path.names) = 0
      BY <2>1
    <3> QED BY <2>1, <3>1 DEF Paced, AtComponent, Scanning
  <2>5. Walking
    BY <2>1 DEF Walking, OnTheWay, AtComponent, Scanning, Over, Unmatched
  <2> QED BY <2>2, <2>3, <2>4, <2>5 DEF DInv, LInv
<1>2. IInv /\ DInv /\ LInv /\ [Next]_vars => DInv' /\ LInv'
  <2> SUFFICES ASSUME IInv, DInv, LInv, [Next]_vars PROVE DInv' /\ LInv'
    OBVIOUS
  <2>1. DInv' /\ Paced'
    BY ReaderKeeps, PacedKeeps DEF LInv
  <2> QED BY <2>1, WalkingKeeps DEF LInv
<1> QED BY <1>1, <1>2, IInvHolds, PTL DEF Spec

(***************************************************************************)
(* The reader stays within the directory it reads, and every count of      *)
(* allocations is a natural number.                                        *)
(***************************************************************************)
THEOREM LookupTypes == Spec => []TypeOK
<1>1. IInv /\ DInv /\ LInv => TypeOK
  <2> SUFFICES ASSUME IInv, DInv, LInv PROVE TypeOK
    OBVIOUS
  <2>1. /\ cur.next \in 0 .. Len(dir.blocks) /\ cur.left \in 0 .. dir.file_size
        /\ cur.data => cur.next > 0
    <3>1. CASE opc \in {"closed", "open"}
      <4>1. IsDirectory(dir)
        BY Directories DEF DInv
      <4>2. Len(dir.blocks) \in Nat /\ dir.file_size \in Nat
        <5> DEFINE B == [begin : Nat, size : Nat]
        <5>1. dir.blocks \in Seq(B) /\ dir.file_size \in Nat
          BY <4>1 DEF IsDirectory
        <5> HIDE DEF B
        <5> QED BY <5>1
      <4>3. cur = NoCursor
        BY <3>1 DEF DInv, Reader
      <4> QED BY <4>2, <4>3 DEF NoCursor
    <3>2. CASE opc \notin {"closed", "open"}
      BY <3>2 DEF DInv, Reader, CursorOK
    <3> QED BY <3>1, <3>2
  <2>2. live \in [Resources -> Nat]
    <3>1. Len(list) \in Nat
      BY Collected DEF IInv
    <3>2. \A r \in Resources : live[r] \in Nat
      BY <3>1, Ones DEF IInv, Balanced, Resources, Held
    <3> QED BY <3>2 DEF IInv, Typed
  <2>3. Len(list) <= capacity /\ index \in 0 .. Len(list)
    BY DEF DInv, Reader
  <2>4. k \in 0 .. Len(path.names)
    BY DEF LInv, Paced
  <2>5. opc \in DirPlaces /\ lpc \in LookupPlaces
        /\ (opc # "closed" => lpc \in {"opening", "scan", "compare", "close"})
    BY DEF IInv, Typed, Related
  <2> QED BY <2>1, <2>2, <2>3, <2>4, <2>5
          DEF TypeOK, DirTypeOK, DirPlaces, LookupPlaces, WithInode, WithoutVisited
<1> QED BY <1>1, LInvHolds, PTL

(***************************************************************************)
(* squash_opendir refuses no sound directory but for a FIFO or a socket,   *)
(* however its blocks cut it.                                              *)
(***************************************************************************)
THEOREM SoundDirectoriesOpen == Spec => []SoundDirectoryOpens
<1>1. DInv => SoundDirectoryOpens
  BY DEF DInv, ParsesSoundly, SoundDirectoryOpens
<1> QED BY <1>1, LInvHolds, PTL

(***************************************************************************)
(* squash_lookup_path answers as the tree of a sound image says, at the    *)
(* first component that deserves it, unless the host fails.                *)
(***************************************************************************)
THEOREM LookupAnswers == Spec => []LookupIsExact
<1>1. LInv => LookupIsExact
  BY DEF LInv, Walking, Over, Ended, HostErrors, LookupIsExact, Answered
<1> QED BY <1>1, LInvHolds, PTL

(***************************************************************************)
(* squash_list_directory goes through every entry, unless squash_readdir   *)
(* failed on one.                                                          *)
(***************************************************************************)
THEOREM ListingIsComplete == Spec => []ListedUnlessCut
<1>1. LInv => ListedUnlessCut
  BY DEF LInv, Paced, ListedUnlessCut
<1> QED BY <1>1, LInvHolds, PTL

-----------------------------------------------------------------------------
(***************************************************************************)
(* The stream.  A step of squash_opendir is none of it, but its last.      *)
(***************************************************************************)
LEMMA OpeningStreams ==
    ASSUME IInv, DInv, DInv', Open
    PROVE  Stream!Open \/ UNCHANGED Stream!streamVars
<1>1. /\ lpc = "opening" /\ dir' = dir /\ index' = index /\ answer' = answer
      /\ opc \notin {"closed", "open"}
  <2>1. opc \notin {"closed", "open"}
    <3>1. ~Reading \/ opc \in {"header", "entry", "name"}
      BY ReadingPlaces
    <3> QED BY <3>1 DEF Open, Opening, Group, ReadLoads, ReadCopies, ParseHeader, NextEntry,
                        ParseEntry, NameRead, AddEntry, Finish
  <2> QED BY <2>1 DEF Open, Opening, Group, ReadLoads, ReadCopies, ParseHeader, NextEntry, ParseEntry,
                  NameRead, AddEntry, Finish, LoadBlock, Refused, HostFails, OpenFails, Go
<1>2. CASE opc' = "open"
  <2>1. list' \in Seq(Entry) /\ (dir.sound => list' = dir.listing)
    BY <1>1, <1>2 DEF DInv, Reader, ParsesSoundly
  <2> QED BY <1>1, <1>2, <2>1 DEF Stream!Open
<1>3. CASE opc' # "open"
  BY <1>1, <1>3 DEF Stream!streamVars
<1> QED BY <1>2, <1>3

LEMMA LookingStreams ==
    ASSUME IInv, DInv, Paced, [Next]_vars, ~Open
    PROVE  Stream!Next \/ UNCHANGED Stream!streamVars
<1>1. CASE UNCHANGED dirVars
  BY <1>1 DEF Stream!streamVars, dirVars
<1>2. CASE CallOpen
  <2>1. /\ opc = "closed" /\ opc' \in {"closed", "group"} /\ dir' = image.dirs[ref]
        /\ ref \in DOMAIN image.dirs /\ image \in Images
        /\ UNCHANGED <<list, index, answer>>
    BY <1>2 DEF CallOpen, OpenDir, Paced, Scanning, DInv, Reader
  <2>2. dir' \in UNION {{i.dirs[x] : x \in DOMAIN i.dirs} : i \in Images}
    BY <2>1
  <2> QED BY <2>1, <2>2 DEF Stream!Next, Stream!Ask
<1>3. CASE Scan
  <2>1. /\ opc = "open" /\ opc' = opc /\ dir' = dir /\ list' = list
        /\ \/ index < Len(list) /\ answer' = list[index + 1] /\ index' = index + 1
           \/ answer' = Nothing /\ index' = index
    BY <1>3 DEF Scan, ReadDir, Iterator, Advanced
  <2> QED BY <2>1 DEF Stream!Next, Stream!Read, Stream!Keep
<1>4. CASE NextName \/ Revisit \/ Found
  <2>1. opc = "open" /\ opc' = opc /\ dir' = dir /\ list' = list /\ index' = index /\ answer' = Nothing
    BY <1>4 DEF NextName, Revisit, Found, Compared, FreeCopy, Unchanged, IInv, Related
  <2> QED BY <2>1 DEF Stream!Next, Stream!Keep
<1>5. CASE Close
  <2>1. opc = "open" /\ opc' = "closed" /\ dir' = dir /\ list' = <<>> /\ index' = 0 /\ answer' = Nothing
    BY <1>5 DEF Close, CloseDir, IInv, Related
  <2> QED BY <2>1 DEF Stream!Next, Stream!Close, Stream!Fresh
<1>6. CASE (\E p \in Paths, w \in {"reference", "listing"} : Call(p, w)) \/ InitVisited \/ Component
           \/ Resolved \/ ReadInode \/ TestType \/ Opened \/ NoEntry \/ UNCHANGED vars
  BY <1>1, <1>6 DEF Call, InitVisited, Component, Resolved, ReadInode, TestType, Opened, NoEntry, Stay, dirVars, vars
<1> QED BY <1>2, <1>3, <1>4, <1>5, <1>6 DEF Next, Step

(***************************************************************************)
(* The reader of directories implements DirectoryStream: what is given is  *)
(* each entry of the directory once, in order, and a failing read loses    *)
(* nothing.                                                                *)
(***************************************************************************)
THEOREM ReaderImplementsStream == Spec => ImplementsStream
<1>1. Init => Stream!Init
  <2> SUFFICES ASSUME Init PROVE Stream!Init
    OBVIOUS
  <2>1. /\ image \in Images /\ image.root \in DOMAIN image.dirs /\ dir = image.dirs[image.root]
        /\ opc = "closed" /\ index = 0 /\ answer = Nothing
    BY ImagesAssumption DEF Init, DirInit
  <2>2. dir \in UNION {{i.dirs[x] : x \in DOMAIN i.dirs} : i \in Images}
    BY <2>1
  <2> QED BY <2>1, <2>2 DEF Stream!Init, Stream!Fresh
<1>2. (IInv /\ DInv /\ LInv) /\ (IInv /\ DInv /\ LInv)' /\ [Next]_vars => [Stream!Next]_(Stream!streamVars)
  <2> SUFFICES ASSUME IInv, DInv, LInv, DInv', [Next]_vars
               PROVE  Stream!Next \/ UNCHANGED Stream!streamVars
    OBVIOUS
  <2>1. CASE Open
    BY <2>1, OpeningStreams DEF Stream!Next
  <2>2. CASE ~Open
    BY <2>2, LookingStreams DEF LInv
  <2> QED BY <2>1, <2>2
<1> QED BY <1>1, <1>2, LInvHolds, PTL DEF Spec, ImplementsStream, Stream!Spec
=============================================================================
