------------------------------ MODULE Snapshots ------------------------------
(***************************************************************************)
(* What the fact store promises its readers: at every moment it holds the  *)
(* facts a from-scratch index of some source tree has, and each            *)
(* publication carries the next generation.  How a refresh gets from one   *)
(* tree to the next, and how much of it is parsed again, is left open.     *)
(***************************************************************************)
EXTENDS Naturals

CONSTANTS
    Tree,    \* the source trees an index may be of
    Cold(_)  \* Cold(t): the facts of a from-scratch index of tree t

VARIABLES tree, facts, generation

Init ==
    /\ tree \in Tree
    /\ facts = Cold(tree)
    /\ generation \in Nat

Publish ==
    /\ tree' \in Tree
    /\ facts' = Cold(tree')
    /\ generation' = generation + 1

Spec == Init /\ [][Publish]_<<tree, facts, generation>>

=============================================================================
