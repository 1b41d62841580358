---------------------------- MODULE MCExportScript ----------------------------
(***************************************************************************)
(* Two trees in a heap of depth two: one a fixed stump, the other every    *)
(* tree of six shapes, a leaf up to one that is too deep, with each kind   *)
(* of threshold there is.                                                  *)
(***************************************************************************)
EXTENDS ExportScript, Sequences

Leaf(c) == << [left |-> -1, right |-> -1, feature |-> -2, threshold |-> -2, class |-> c] >>

\* A node above two trees, numbered in depth-first order.
Split(f, v, l, r) ==
    LET Moved(tree, by) ==
            [n \in 1 .. Len(tree) |->
                IF tree[n].left = -1 THEN tree[n]
                ELSE [tree[n] EXCEPT !.left = @ + by, !.right = @ + by]]
    IN  << [left |-> 1, right |-> Len(l) + 1, feature |-> f, threshold |-> v, class |-> 0] >>
            \o Moved(l, 1) \o Moved(r, Len(l) + 1)

Arrays(tree) ==
    LET nodes == 0 .. Len(tree) - 1
    IN  [children_left  |-> [n \in nodes |-> tree[n + 1].left],
         children_right |-> [n \in nodes |-> tree[n + 1].right],
         feature        |-> [n \in nodes |-> tree[n + 1].feature],
         threshold      |-> [n \in nodes |-> tree[n + 1].threshold],
         class          |-> [n \in nodes |-> tree[n + 1].class]]

\* Units of a quarter: exact, close from below and from above to an even and
\* to an odd number, half-way between two numbers, negative, too large.
Thresholds == {-4, 3, 4, 6, 7, 8, 9, 12, 24}

Stump(f, v) == Split(f, v, Leaf(0), Leaf(1))
Low  == Split(1, 4, Leaf(1), Leaf(2))
High == Split(0, 12, Leaf(2), Leaf(0))

Pool == {Leaf(0), Leaf(2), Leaf(3)}
            \cup UNION { { Stump(f, v), Split(f, v, Low, Leaf(0)), Split(f, v, Leaf(1), High),
                           Split(f, v, Low, High), Split(f, v, Split(1, 8, Leaf(0), Low), Leaf(2)) }
                            : f \in Slot, v \in Thresholds }

MCSourceForests ==
    { [t \in Trees |-> IF t = 0 THEN Arrays(tree) ELSE Arrays(Stump(1, 4))] : tree \in Pool }

MCOldForests == { [t \in Trees |-> Arrays(Stump(0, 4))] }

AllSamples == [Slot -> 0 .. 2]

MCTestSets ==
    { [x \in AllSamples |-> x], << [i \in Slot |-> -1] >>, << [i \in Slot |-> 3] >> }

===============================================================================
