----------------------------- MODULE MCExtract -----------------------------
(***************************************************************************)
(* Images with two directories below or beside the root and any subset of  *)
(* entries between them, of which one directory may name itself: trees,    *)
(* aliases, self-loops, cycles through the root, one file with many names. *)
(***************************************************************************)
EXTENDS SquashExtract

Root == "r"
Listing(S) == SelectSeq(<<"f", "d", "e", "r">>, LAMBDA x : x \in S)
EntriesFor(S) == [k \in DOMAIN Listing(S) |-> [name |-> Listing(S)[k], ref |-> Listing(S)[k]]]
Members == {"r", "d", "e", "f"}

Image(kind, entries) ==
    [kind |-> kind, entries |-> entries, start |-> Root,
     blocks |-> [x \in Members |-> IF kind[x] = "file" THEN 1 ELSE 0]]

Plain == [r |-> "dir", d |-> "dir", e |-> "dir", f |-> "file"]
MCGraphs ==
    {Image(Plain, [x \in Members |-> EntriesFor(IF x = "r" THEN R
                                       ELSE IF x = "d" THEN D
                                       ELSE IF x = "e" THEN E ELSE {})]) :
        R \in SUBSET {"d", "e", "f"}, D \in SUBSET {"r", "d", "e", "f"},
        E \in SUBSET {"r", "d", "f"}}

\* The root holds every other reference; these are of every kind.
MCKinds ==
    {Image([r |-> "dir", d |-> dk, e |-> ek, f |-> "file"],
           [x \in Members |-> EntriesFor(IF x = "r" THEN {"f", "d", "e"}
                              ELSE IF x = "d" /\ dk = "dir" THEN {"e", "f"} ELSE {})]) :
        dk \in {"dir", "sealed", "other"}, ek \in {"file", "sealed", "other", "bad"}}

\* What the lookup finds is not a directory.
MCStarts ==
    {Image([r |-> rk, d |-> "dir", e |-> "dir", f |-> "file"], [x \in Members |-> <<>>]) :
        rk \in {"file", "sealed", "other", "bad"}}

Cwd == [p \in {<<>>} |-> Dir]
CwdWith(node) == [p \in {<<>>, <<"out">>} |-> IF p = <<>> THEN Dir ELSE node]

MCImages == MCGraphs \cup MCKinds \cup MCStarts
MCTargets == {<<"out">>}
UsersFile == Content("user", 1)
OutHolding(name) ==
    [p \in {<<>>, <<"out">>, <<"out", name>>} |-> IF Len(p) = 2 THEN UsersFile ELSE Dir]
MCHostTrees == {Cwd, CwdWith(Dir), CwdWith(UsersFile), OutHolding("d")}

ASSUME MCNamesDiffer == NamesDiffer
=============================================================================
