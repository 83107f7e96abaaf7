------------------------- MODULE CastChainAbstract -------------------------
(***************************************************************************)
(* What canonicalizing VPUIP.QuantizeCast ops may do to a function: the   *)
(* casts are views (getViewSource is the input), so each consumer of a    *)
(* cast chain reads the buffer that starts the chain, reinterpreted as    *)
(* the type of the value it uses.  Rewrites may remove, fold and fuse      *)
(* casts, but the type every consumer reads the buffer as never changes.  *)
(***************************************************************************)
CONSTANTS
    Sinks,     \* the consumers (non-cast uses) of the chain
    Views      \* the types a consumer may read the buffer as

VARIABLE view  \* view[s]: the type consumer s reads the buffer as

Init == view \in [Sinks -> Views]

Next == FALSE

Spec == Init /\ [][Next]_view
=============================================================================
