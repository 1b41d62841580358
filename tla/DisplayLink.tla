------------------------------ MODULE DisplayLink ------------------------------
(***************************************************************************)
(* What a display driver promises: the panel takes every item of a store,  *)
(* in order and once, before the next store, and nothing else.             *)
(***************************************************************************)
EXTENDS Sequences

CONSTANT Items              \* what a store may give to the panel: sequences

VARIABLES pending,          \* items of the last store the panel has yet to take
          shown             \* the last item it took

linkVars == <<pending, shown>>

Init == pending = <<>>

Store ==
    /\ pending = <<>>
    /\ pending' \in Items
    /\ UNCHANGED shown

Take ==
    /\ pending # <<>>
    /\ shown' = Head(pending)
    /\ pending' = Tail(pending)

Next ==
    \/ Store
    \/ Take

Spec == Init /\ [][Next]_linkVars

===============================================================================
