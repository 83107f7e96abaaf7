---------------------------- MODULE MC_DFTTiling ----------------------------
(***************************************************************************)
(* Model-checking instance of DFTTiling: rank-3 DFT ops [N, L, 2] (the     *)
(* last axis holds the real and imaginary parts), every order of the two  *)
(* non-complex axes as axes_attr, signal sizes that keep, shrink or grow  *)
(* an axis, and budgets under which a tile fits whole, must be split once *)
(* or twice, or cannot fit at all.                                        *)
(***************************************************************************)
EXTENDS DFTTiling

Shape3(a, b, c) == (0 :> a) @@ (1 :> b) @@ (2 :> c)

MCInShapes == { Shape3(a, b, 2) : a \in {1, 3, 4}, b \in {2, 4} }

MCAxesAttrs == { <<0>>, <<1>>, <<0, 1>>, <<1, 0>> }

MCSignalSizes == { -1, 3 }

MCBudgets == { 12, 20, 40 }

\* signal_size one entry shorter than axes, or as long.
MCSignalShortOrExact == { -1, 0 }
=============================================================================
