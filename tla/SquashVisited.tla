--------------------------- MODULE SquashVisited ---------------------------
(***************************************************************************)
(* The growable array of src/src/squash_visited.c, slot by slot: malloc of *)
(* the initial capacity, doubling by realloc when full, linear search.     *)
(* Slots at or above `count' hold whatever malloc or realloc left there    *)
(* (Garbage).  The array implements the set of module VisitedSet.          *)
(***************************************************************************)
EXTENDS Integers

CONSTANTS Refs,            \* inode references
          Garbage,         \* the content of a slot nobody wrote
          InitialCapacity, \* 16 at every call site
          MaxCount         \* bound of the model: the most references added

ASSUME CapacityAssumption == InitialCapacity \in Nat \ {0}
ASSUME GarbageAssumption == Garbage \notin Refs
ASSUME BoundAssumption == MaxCount \in Nat

VARIABLES open,      \* inodes # NULL
          inodes,    \* the slots, a function on 0 .. capacity - 1
          count,
          capacity,
          reply      \* the last call and what it returned

vars == <<open, inodes, count, capacity, reply>>

Reply(op, ref, result) == [op |-> op, ref |-> ref, result |-> result]

Answer(yes) == IF yes THEN "true" ELSE "false"

Slots(n) == 0 .. n - 1

(***************************************************************************)
(* Every slot that squash_visited_inodes_contains reads, below `count',    *)
(* lies inside the allocation and was written by an add; so does the slot  *)
(* the next add writes after its growth check.                             *)
(***************************************************************************)
TypeOK ==
    /\ open \in BOOLEAN
    /\ capacity \in Nat /\ count \in Nat
    /\ count <= capacity
    /\ IF open THEN capacity >= InitialCapacity ELSE capacity = 0
    /\ inodes \in [Slots(capacity) -> Refs \cup {Garbage}]
    /\ \A i \in Slots(count) : inodes[i] \in Refs

Init ==
    /\ open = FALSE
    /\ inodes = [i \in Slots(0) |-> Garbage]
    /\ count = 0
    /\ capacity = 0
    /\ reply = Reply("none", "none", "none")

\* squash_visited_inodes_init, the malloc granted or refused.
Create ==
    /\ ~open
    /\ \/ /\ open' = TRUE
          /\ inodes' = [i \in Slots(InitialCapacity) |-> Garbage]
          /\ count' = 0
          /\ capacity' = InitialCapacity
          /\ reply' = Reply("init", "none", "OK")
       \/ /\ reply' = Reply("init", "none", "MEMORY")
          /\ UNCHANGED <<open, inodes, count, capacity>>

\* realloc to n slots keeps the old ones and leaves the new ones as they are.
Grown(n) ==
    [i \in Slots(n) |-> IF i \in Slots(capacity) THEN inodes[i] ELSE Garbage]

\* Mutant of NewCapacity: grows one add too late.
GrowsLate == IF count > capacity THEN capacity * 2 ELSE capacity

NewCapacity == IF count >= capacity THEN capacity * 2 ELSE capacity

\* squash_visited_inodes_add; only a growing add can fail.
Add(ref) ==
    /\ open
    /\ count < MaxCount
    /\ \/ /\ inodes' = [Grown(NewCapacity) EXCEPT ![count] = ref]
          /\ capacity' = NewCapacity
          /\ count' = count + 1
          /\ reply' = Reply("add", ref, "OK")
       \/ /\ count >= capacity
          /\ reply' = Reply("add", ref, "MEMORY")
          /\ UNCHANGED <<inodes, count, capacity>>
    /\ UNCHANGED open

\* Mutant of Found: the loop starts at slot 1.
FoundSkipsFirst(ref) == \E i \in 1 .. count - 1 : inodes[i] = ref

\* squash_visited_inodes_contains: the loop over the first count slots.
Found(ref) == \E i \in Slots(count) : inodes[i] = ref

Contains(ref) ==
    /\ open
    /\ reply' = Reply("contains", ref, Answer(Found(ref)))
    /\ UNCHANGED <<open, inodes, count, capacity>>

\* squash_visited_inodes_free
Release ==
    /\ open
    /\ open' = FALSE
    /\ inodes' = [i \in Slots(0) |-> Garbage]
    /\ count' = 0
    /\ capacity' = 0
    /\ reply' = Reply("free", "none", "none")

Next ==
    \/ Create
    \/ Release
    \/ \E ref \in Refs : Add(ref) \/ Contains(ref)

Spec == Init /\ [][Next]_vars

-----------------------------------------------------------------------------
Members == {inodes[i] : i \in Slots(count)}

Set == INSTANCE VisitedSet WITH members <- Members

(***************************************************************************)
(* The array behaves as the set: no add is lost by a realloc, a failed     *)
(* growth forgets nothing, and contains answers for exactly the references *)
(* added (squash_visited.c 25-44).                                         *)
(***************************************************************************)
ImplementsSet == Set!Spec

=============================================================================
