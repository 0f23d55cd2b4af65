--------------------------- MODULE MCExtractFile ---------------------------
(***************************************************************************)
(* One image with an empty and a two-block file, a directory, a device and *)
(* an unreadable inode, extracted again and again into a host directory    *)
(* where "a" is absent, a directory or a file of the user's.               *)
(***************************************************************************)
EXTENDS SquashExtractFile

MCImages ==
    {[kind    |-> [empty |-> "file", two |-> "file", d |-> "dir", s |-> "other", b |-> "bad"],
      blocks  |-> [empty |-> 0, two |-> 2, d |-> 0, s |-> 0, b |-> 0],
      entries |-> [empty |-> <<>>, two |-> <<>>, d |-> <<>>, s |-> <<>>, b |-> <<>>],
      start   |-> "two"]}

Users == Content("user", 1)
Cwd == [p \in {<<>>} |-> Dir]
CwdWith(node) == [p \in {<<>>, <<"a">>} |-> IF p = <<>> THEN Dir ELSE node]

MCHostTrees == {Cwd, CwdWith(Dir), CwdWith(Users)}
MCTargets == {<<"a">>, <<"a", "b">>, <<"c", "d", "e">>}
=============================================================================
