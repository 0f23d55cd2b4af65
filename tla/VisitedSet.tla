----------------------------- MODULE VisitedSet -----------------------------
(***************************************************************************)
(* What src/src/squash_visited.c promises its callers: a set of inode      *)
(* references that only grows between init and free, and an exact answer   *)
(* to "was this reference added?".  Adding may fail for want of memory,    *)
(* and then the set is what it was.  Callers: squash_lookup_path,          *)
(* squash_extract_directory and examples/squash_ls.c.                      *)
(***************************************************************************)
CONSTANTS Refs      \* the inode references (squash_off_t) of an image

VARIABLES open,     \* between squash_visited_inodes_init and _free
          members,  \* the references added so far
          reply     \* the last call and what it returned

vars == <<open, members, reply>>

Reply(op, ref, result) == [op |-> op, ref |-> ref, result |-> result]

Answer(yes) == IF yes THEN "true" ELSE "false"

TypeOK ==
    /\ open \in BOOLEAN
    /\ members \subseteq Refs

Init ==
    /\ open = FALSE
    /\ members = {}
    /\ reply = Reply("none", "none", "none")

Create ==
    /\ ~open
    /\ \/ open' = TRUE  /\ reply' = Reply("init", "none", "OK")
       \/ open' = FALSE /\ reply' = Reply("init", "none", "MEMORY")
    /\ members' = {}

Add(ref) ==
    /\ open
    /\ \/ members' = members \cup {ref} /\ reply' = Reply("add", ref, "OK")
       \/ members' = members            /\ reply' = Reply("add", ref, "MEMORY")
    /\ UNCHANGED open

Contains(ref) ==
    /\ open
    /\ reply' = Reply("contains", ref, Answer(ref \in members))
    /\ UNCHANGED <<open, members>>

Release ==
    /\ open
    /\ open' = FALSE
    /\ members' = {}
    /\ reply' = Reply("free", "none", "none")

Next ==
    \/ Create
    \/ Release
    \/ \E ref \in Refs : Add(ref) \/ Contains(ref)

Spec == Init /\ [][Next]_vars
=============================================================================
