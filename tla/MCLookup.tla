------------------------------ MODULE MCLookup ------------------------------
(***************************************************************************)
(* Listings laid out over blocks so small that headers, entries and names  *)
(* begin, end and continue at their ends; images whose directories contain *)
(* each other; and listings damaged one way each: place, sizes, counts,    *)
(* types, names, missing and empty blocks.                                 *)
(***************************************************************************)
EXTENDS SquashLookup

MCFirstCapacity == 1
MCNameMax == 3
MCWord == 64
MCVisitedCapacity == 1

Header(count, start) == [kind |-> "header", count |-> count, start |-> start]
File(offset, type, name, size) ==
    [kind |-> "entry", offset |-> offset, type |-> type, size |-> size, name |-> name]
MCGarbageItems == {Header(0, 9), Header(2, 9), File(5, 0, "g", 1), File(5, 2, "g", 1)}

\* A group is [start, entries]; its header counts one less than it holds.
Items(groups) ==
    FoldLeft(LAMBDA s, g : s \o <<Header(Len(g.entries) - 1, g.start)>> \o g.entries, <<>>, groups)

Width(item) == IF item.kind = "header" THEN HeaderSize ELSE EntrySize + item.size
Bytes(items) == FoldLeft(LAMBDA sum, x : sum + Width(x), 0, items)
Begins(items, n) == Bytes(SubSeq(items, 1, n - 1))
Laid(items, offset) ==
    [at \in {offset + Begins(items, n) : n \in DOMAIN items} |->
        items[CHOOSE n \in DOMAIN items : offset + Begins(items, n) = at]]
Sizes(total, size) ==
    [n \in 1 .. (total + size - 1) \div size |-> Min({size, total - (n - 1) * size})]
Blocks(sizes) ==
    [n \in DOMAIN sizes |->
        [begin |-> FoldLeft(LAMBDA sum, x : sum + x, 0, SubSeq(sizes, 1, n - 1)), size |-> sizes[n]]]

\* The marks before the items and at the end, and what they list.
Mark(mark, item) ==
    IF item.kind = "header"
    THEN [mark EXCEPT !.at = @ + Width(item), !.left = item.count + 1, !.start = item.start]
    ELSE [mark EXCEPT !.at = @ + Width(item), !.left = @ - 1, !.listed = @ + One(~Dot(item))]
Marks(items, offset) ==
    FoldLeft(LAMBDA marks, item : Append(marks, Mark(Last(marks), item)),
             <<[at |-> offset, left |-> 0, start |-> 0, listed |-> 0]>>, items)
Listed(items, marks) ==
    LET Plain(n) == items[n].kind = "entry" /\ ~Dot(items[n]) IN
    FoldLeft(LAMBDA s, n : IF Plain(n)
                           THEN Append(s, [name |-> items[n].name, ref |-> <<marks[n].start, items[n].offset>>])
                           ELSE s,
             <<>>, [n \in DOMAIN items |-> n])

Directory(groups, offset, size) ==
    LET items == Items(groups)
        marks == Marks(items, offset)
    IN  [outside |-> FALSE, offset |-> offset, file_size |-> Bytes(items) + 3,
         blocks |-> Blocks(Sizes(offset + Bytes(items), size)), items |-> Laid(items, offset),
         marks |-> marks, listing |-> Listed(items, marks),
         sound |-> TRUE, special |-> \E n \in DOMAIN items : Special(items[n])]

R == <<0, 0>>
D == <<0, 1>>
E == <<1, 0>>
F == <<1, 1>>

Group1(start, entries) == [start |-> start, entries |-> entries]
RootGroups == <<Group1(0, <<File(0, 1, ".", 1), File(1, 1, "d", 1)>>),
                Group1(1, <<File(1, 2, "ff", 2), File(0, 1, "e", 1)>>)>>
LoopGroups == <<Group1(0, <<File(0, 1, "..", 2), File(1, 1, "d", 1), File(0, 1, "r", 1)>>),
                Group1(1, <<File(0, 1, "e", 1)>>)>>

Image(root, d, e, sound) ==
    [root |-> R, dirs |-> (R :> root) @@ (D :> d) @@ (E :> e), others |-> {F}, sound |-> sound]
Empty == Directory(<<>>, 0, 64)
Pipe == Directory(<<Group1(1, <<File(1, 6, "p", 1)>>)>>, 0, 64)

MCSound ==
    {Image(Directory(RootGroups, offset, size), Directory(LoopGroups, 0, size), e, TRUE) :
        offset \in {0, 3}, size \in {5, 12, 13, 64}, e \in {Empty, Pipe}}

\* The root damaged, the rest empty.
Base == <<Group1(0, <<File(1, 1, "d", 1), File(7, 2, "zz", 2)>>)>>
Plain(size) == Directory(Base, 0, size)
With(items) == [Plain(64) EXCEPT !.items = Laid(items, 0), !.sound = FALSE]
Changed(n, item) == With([Items(Base) EXCEPT ![n] = item])
Damaged(x) == [x EXCEPT !.sound = FALSE]
MCDamagedRoots ==
    {Damaged([Plain(64) EXCEPT !.outside = TRUE]),
     Damaged([Plain(64) EXCEPT !.blocks = <<>>]),
     Damaged([Plain(64) EXCEPT !.file_size = @ + 40])}
    \cup {Damaged([Plain(12) EXCEPT !.offset = offset]) : offset \in {12, 30}}
    \cup {Damaged([Plain(64) EXCEPT !.file_size = size]) : size \in {11, 13, 21, 31, 32}}
    \cup {Damaged([Plain(12) EXCEPT !.blocks = Blocks(sizes)]) :
             sizes \in {<<12>>, <<0, 12, 12>>, <<12, 0, 12>>, <<12, 5, 0>>}}
    \cup {Changed(1, Header(count, 0)) : count \in {0, 9, MCWord - 1}}
    \cup {Changed(2, File(1, type, "d", 1)) : type \in {0, 7}}
    \cup {Changed(3, File(1, 2, "d", size)) : size \in {0, 3, 4}}

MCImages == MCSound \cup {Image(root, Empty, Empty, FALSE) : root \in MCDamagedRoots}

MCPaths ==
    {[bare |-> TRUE, names |-> <<>>]} \cup
    {[bare |-> FALSE, names |-> names] :
        names \in {<<>>, <<"d">>, <<"x">>, <<"long">>, <<"ff", "d">>, <<"d", "d">>, <<"d", "r">>,
                   <<"d", "e">>, <<"d", "long">>, <<"e", "p">>, <<"d", "e", "x">>, <<"zz", "x">>}}
MCLongNames == {"long"}
=============================================================================
