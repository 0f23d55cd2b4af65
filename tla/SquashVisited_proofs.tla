------------------------ MODULE SquashVisited_proofs ------------------------
(***************************************************************************)
(* Proofs about the visited-inode array, for every set of references,      *)
(* every positive initial capacity and every number of adds.               *)
(***************************************************************************)
EXTENDS SquashVisited, TLAPS

(***************************************************************************)
(* The growth check leaves room for the write that follows it.             *)
(***************************************************************************)
(* The slots of a range of positions: none of an empty array, one more for *)
(* one more element.                                                       *)
(***************************************************************************)
LEMMA SlotsFacts ==
    /\ Slots(0) = {}
    /\ \A n \in Nat : Slots(n + 1) = Slots(n) \cup {n}
    /\ \A n \in Nat, m \in Nat : n <= m => Slots(n) \subseteq Slots(m)
    /\ \A n \in Nat, m \in Nat : n < m => n \in Slots(m) /\ n \notin Slots(n)
BY DEF Slots

(***************************************************************************)
(* A fresh allocation has the slots asked for and nothing in them.         *)
(***************************************************************************)
LEMMA FreshArray ==
    \A n \in Nat : [i \in Slots(n) |-> Garbage] \in [Slots(n) -> Refs \cup {Garbage}]
OBVIOUS

(***************************************************************************)
LEMMA GrowthMakesRoom ==
    ASSUME TypeOK, open
    PROVE  /\ NewCapacity \in Nat
           /\ NewCapacity >= capacity
           /\ count < NewCapacity
BY CapacityAssumption DEF TypeOK, NewCapacity

(***************************************************************************)
(* A successful add keeps the first count slots and fills the next one.    *)
(***************************************************************************)
LEMMA AddFillsNextSlot ==
    ASSUME TypeOK, open, NEW ref \in Refs,
           inodes' = [Grown(NewCapacity) EXCEPT ![count] = ref]
    PROVE  /\ inodes' \in [Slots(NewCapacity) -> Refs \cup {Garbage}]
           /\ \A i \in Slots(count) : inodes'[i] = inodes[i]
           /\ inodes'[count] = ref
<1>1. NewCapacity \in Nat /\ NewCapacity >= capacity /\ count < NewCapacity
  BY GrowthMakesRoom
<1>2. Grown(NewCapacity) \in [Slots(NewCapacity) -> Refs \cup {Garbage}]
  BY DEF Grown, TypeOK
<1>3. count \in Slots(NewCapacity)
  BY <1>1 DEF TypeOK, Slots
<1>4. ASSUME NEW i \in Slots(count)
      PROVE  inodes'[i] = inodes[i]
  <2>1. i \in Slots(capacity) /\ i \in Slots(NewCapacity) /\ i # count
    BY <1>1 DEF TypeOK, Slots
  <2> QED
    BY <2>1 DEF Grown
<1> QED
  BY <1>2, <1>3, <1>4

(***************************************************************************)
(* The array is never read or written outside its allocation, and a slot   *)
(* nobody wrote is never compared with a reference.                        *)
(***************************************************************************)
THEOREM TypeCorrect == Spec => []TypeOK
<1>1. Init => TypeOK
  <2> SUFFICES ASSUME Init PROVE TypeOK
    OBVIOUS
  <2>1. count = 0 /\ capacity = 0
    BY DEF Init
  <2>2. inodes \in [Slots(0) -> Refs \cup {Garbage}]
    BY FreshArray DEF Init
  <2>3. inodes \in [Slots(capacity) -> Refs \cup {Garbage}]
    BY <2>1, <2>2
  <2>4. \A i \in Slots(count) : inodes[i] \in Refs
    BY <2>1, SlotsFacts
  <2>5. open = FALSE
    BY DEF Init
  <2>6. open \in BOOLEAN /\ IF open THEN capacity >= InitialCapacity ELSE capacity = 0
    BY <2>1, <2>5
  <2> QED
    BY <2>1, <2>3, <2>4, <2>6 DEF TypeOK
<1>2. TypeOK /\ [Next]_vars => TypeOK'
  <2> SUFFICES ASSUME TypeOK, [Next]_vars
               PROVE  TypeOK'
    OBVIOUS
  <2>1. CASE Create
    <3>1. CASE UNCHANGED <<open, inodes, count, capacity>>
      BY <3>1 DEF TypeOK
    <3>2. CASE /\ open' = TRUE /\ count' = 0 /\ capacity' = InitialCapacity
               /\ inodes' = [i \in Slots(InitialCapacity) |-> Garbage]
      BY <3>2, CapacityAssumption, SlotsFacts, FreshArray DEF TypeOK
    <3> QED
      BY <2>1, <3>1, <3>2 DEF Create
  <2>2. CASE Release
    <3>1. open' = FALSE /\ count' = 0 /\ capacity' = 0
      BY <2>2 DEF Release
    <3>2. inodes' \in [Slots(0) -> Refs \cup {Garbage}]
      BY <2>2, FreshArray DEF Release
    <3>3. inodes' \in [Slots(capacity') -> Refs \cup {Garbage}]
      BY <3>1, <3>2
    <3>4. \A i \in Slots(count') : inodes'[i] \in Refs
      BY <3>1, SlotsFacts
    <3>5. open' \in BOOLEAN /\ IF open' THEN capacity' >= InitialCapacity ELSE capacity' = 0
      BY <3>1
    <3> QED
      BY <3>1, <3>3, <3>4, <3>5 DEF TypeOK
  <2>3. ASSUME NEW ref \in Refs, Add(ref)
        PROVE  TypeOK'
    <3>1. CASE UNCHANGED <<inodes, count, capacity>>
      BY <2>3, <3>1 DEF Add, TypeOK
    <3>2. CASE /\ inodes' = [Grown(NewCapacity) EXCEPT ![count] = ref]
               /\ capacity' = NewCapacity
               /\ count' = count + 1
      <4>1. open /\ open' = open
        BY <2>3 DEF Add
      <4>2. NewCapacity \in Nat /\ NewCapacity >= capacity /\ count < NewCapacity
        BY <4>1, GrowthMakesRoom
      <4>3. /\ inodes' \in [Slots(NewCapacity) -> Refs \cup {Garbage}]
            /\ \A i \in Slots(count) : inodes'[i] = inodes[i]
            /\ inodes'[count] = ref
        BY <3>2, <4>1, AddFillsNextSlot
      <4>4. \A i \in Slots(count') : inodes'[i] \in Refs
        BY <3>2, <4>3, SlotsFacts DEF TypeOK
      <4>5. capacity' >= InitialCapacity
        BY <3>2, <4>1, <4>2, CapacityAssumption DEF TypeOK
      <4>6. count' \in Nat /\ count' <= capacity' /\ capacity' \in Nat
        BY <3>2, <4>2 DEF TypeOK
      <4> QED
        BY <3>2, <4>1, <4>3, <4>4, <4>5, <4>6 DEF TypeOK
    <3> QED
      BY <2>3, <3>1, <3>2 DEF Add
  <2>4. ASSUME NEW ref \in Refs, Contains(ref)
        PROVE  TypeOK'
    BY <2>4 DEF Contains, TypeOK
  <2>5. CASE UNCHANGED vars
    BY <2>5 DEF vars, TypeOK
  <2> QED
    BY <2>1, <2>2, <2>3, <2>4, <2>5 DEF Next
<1> QED
  BY <1>1, <1>2, PTL DEF Spec

(***************************************************************************)
(* The array implements the set: doubling, failed growth and search by     *)
(* position are invisible to the code that detects cycles.                 *)
(***************************************************************************)
THEOREM ArrayImplementsSet == Spec => ImplementsSet
<1>1. Init => Set!Init
  BY SlotsFacts DEF Init, Set!Init, Members, Reply, Set!Reply
<1>2. TypeOK /\ [Next]_vars => [Set!Next]_(Set!vars)
  <2> SUFFICES ASSUME TypeOK, [Next]_vars
               PROVE  Set!Next \/ UNCHANGED Set!vars
    BY DEF Set!vars
  <2>1. CASE Create
    <3>1. Members' = {}
      <4>1. count' = 0
        BY <2>1 DEF Create, TypeOK
      <4> QED
        BY <4>1, SlotsFacts DEF Members
    <3>2. Set!Create
      BY <2>1, <3>1 DEF Create, Set!Create, Reply, Set!Reply
    <3> QED
      BY <3>2 DEF Set!Next
  <2>2. CASE Release
    <3>1. Members' = {}
      BY <2>2, SlotsFacts DEF Release, Members
    <3>2. Set!Release
      BY <2>2, <3>1 DEF Release, Set!Release, Reply, Set!Reply
    <3> QED
      BY <3>2 DEF Set!Next
  <2>3. ASSUME NEW ref \in Refs, Add(ref)
        PROVE  Set!Add(ref)
    <3>1. CASE UNCHANGED <<inodes, count, capacity>> /\ reply' = Reply("add", ref, "MEMORY")
      <4>1. Members' = Members
        BY <3>1 DEF Members
      <4> QED
        BY <2>3, <3>1, <4>1 DEF Add, Set!Add, Reply, Set!Reply
    <3>2. CASE /\ inodes' = [Grown(NewCapacity) EXCEPT ![count] = ref]
               /\ count' = count + 1
               /\ reply' = Reply("add", ref, "OK")
      <4>1. /\ \A i \in Slots(count) : inodes'[i] = inodes[i]
            /\ inodes'[count] = ref
        BY <2>3, <3>2, AddFillsNextSlot DEF Add
      <4>2. Slots(count') = Slots(count) \cup {count}
        BY <3>2, SlotsFacts DEF TypeOK
      <4>3. Members' = Members \cup {ref}
        BY <4>1, <4>2 DEF Members
      <4> QED
        BY <2>3, <3>2, <4>3 DEF Add, Set!Add, Reply, Set!Reply
    <3> QED
      BY <2>3, <3>1, <3>2 DEF Add
  <2>4. ASSUME NEW ref \in Refs, Contains(ref)
        PROVE  Set!Contains(ref)
    <3>1. Members' = Members
      BY <2>4 DEF Contains, Members
    <3>2. Found(ref) <=> ref \in Members
      BY DEF Found, Members
    <3> QED
      BY <2>4, <3>1, <3>2 DEF Contains, Set!Contains, Reply, Set!Reply, Answer, Set!Answer
  <2>5. CASE UNCHANGED vars
    BY <2>5 DEF vars, Set!vars, Members
  <2> QED
    BY <2>1, <2>2, <2>3, <2>4, <2>5 DEF Next, Set!Next
<1> QED
  BY <1>1, <1>2, TypeCorrect, PTL DEF Spec, ImplementsSet, Set!Spec
=============================================================================
