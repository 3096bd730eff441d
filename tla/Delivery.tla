------------------------------ MODULE Delivery ------------------------------
(***************************************************************************)
(* What a stage of the demuxer promises the one above it: the items its    *)
(* input holds intact are handed on in their order, once each, nothing     *)
(* that is not one of them is, and all of them are in the end.  Items are  *)
(* numbered by their place in the input.                                   *)
(***************************************************************************)
EXTENDS Naturals, Sequences, FiniteSetsExt, Functions

VARIABLES
    owed,          \* the items to be handed on
    delivered      \* those that were, in order

Left == owed \ Range(delivered)

Init == owed \subseteq Nat /\ delivered = << >>

Deliver ==
    /\ Left # {}
    /\ delivered' = Append(delivered, Min(Left))
    /\ UNCHANGED owed

Spec == Init /\ [][Deliver]_<<owed, delivered>> /\ WF_<<owed, delivered>>(Deliver)
=============================================================================
