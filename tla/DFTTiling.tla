----------------------------- MODULE DFTTiling -----------------------------
(***************************************************************************)
(* The tiling of one VPU::DFTOp (src/src/vpux_compiler/src/dialect/VPU/    *)
(* ops/dft.cpp) by the tiling pass:                                        *)
(*   1. inferReturnTypes computes the output shape from the input shape   *)
(*      and the axes / signal_size attributes;                             *)
(*   2. getTilingStrategy excludes the DFT axes and the last (complex)    *)
(*      axis and calls getSWLayerTilingStrategyWithAxesExclusion, which   *)
(*      bisects the output along the largest splittable axis until every  *)
(*      tile's working set fits the budget (that helper is not in src/;   *)
(*      it is modelled from spec.md 4.2);                                  *)
(*   3. for every output tile the pass calls backInferTileInfo, which     *)
(*      widens the DFT axes of the tile to the full input extent, and     *)
(*      adjustAttrs, which does nothing for DFT.                          *)
(* The recursion of the bisection is modelled as a set of pending tiles   *)
(* processed in any order.                                                *)
(***************************************************************************)
EXTENDS Integers, FiniteSets, Sequences, FiniteSetsExt, Functions, TLC

CONSTANTS
    Rank,              \* rank of the DFT input and output
    InShapes,          \* candidate input shapes, functions 0..Rank-1 -> Nat
    AxesAttrs,         \* candidate values of axes_attr (sequences of axes)
    SignalSizes,       \* candidate entries of signal_size_attr (-1 = keep)
    Budgets,           \* candidate memory budgets, in elements
    SignalLengthDiffs, \* Len(signal_size) - Len(axes) of the candidate ops
    NoAttr,            \* an absent optional attribute
    NoShape            \* output shape not inferred yet

ASSUME Rank \in Nat \ {0}

Dims == 0 .. Rank - 1
LastDim == Rank - 1

VARIABLES
    op,        \* the DFT operation: input shape, attributes, budget
    outShape,  \* the inferred output shape
    phase,     \* infer, tile, backinfer, done, failed, undefined
    pending,   \* tiles the strategy has still to examine
    tiles,     \* the OutputTiling accepted so far
    inTiles    \* output tile -> input tile from backInferTileInfo

vars == <<op, outShape, phase, pending, tiles, inTiles>>

Volume(shape) == FoldFunction(LAMBDA x, y : x * y, 1, shape)

SignalSeqs(axes) ==
    UNION { [1 .. Len(axes) + k -> SignalSizes] : k \in {k \in SignalLengthDiffs : Len(axes) + k >= 0} }

Ops ==
    UNION { { [input |-> s, axes |-> a, signal |-> g, budget |-> b] :
                 s \in InShapes, g \in SignalSeqs(a), b \in Budgets } : a \in AxesAttrs }
    \cup
    { [input |-> s, axes |-> a, signal |-> NoAttr, budget |-> b] :
        s \in InShapes, a \in AxesAttrs \cup {NoAttr}, b \in Budgets }

HasAttrs == op.axes # NoAttr /\ op.signal # NoAttr

\* The loop of inferReturnTypes reads signal_size[i] for every i < axes.size()
\* (line 53); nothing checks that signal_size is as long as axes.
SignalCoversAxes == Len(op.signal) >= Len(op.axes)

AxisSet == Range(op.axes)

(***************************************************************************)
(* inferReturnTypes: outShape[axes[i]] = signal_size[i] unless it is -1;  *)
(* a later entry for the same axis overwrites an earlier one.             *)
(***************************************************************************)
DFTOutShape(in, axes, signal) ==
    [d \in Dims |->
        LET J == {i \in 1 .. Len(axes) : axes[i] = d /\ signal[i] # -1}
        IN  IF J = {} THEN in[d] ELSE signal[Max(J)]]

\* Mutant of getTilingStrategy: the DFT axes left out of the exclusion list.
ExcludedWithoutDFTAxes == {LastDim}

(***************************************************************************)
(* getTilingStrategy: the DFT axes plus the last axis, which holds the    *)
(* real and imaginary parts, are excluded from splitting.                 *)
(***************************************************************************)
Excluded == AxisSet \cup {LastDim}

\* Mutant of backInferTileInfo: the output tile returned as the input tile.
BackInferKeepsTile(o, t) == t

(***************************************************************************)
(* backInferTileInfo: the DFT axes of the output tile get the full input  *)
(* extent; the offsets are copied from the output tile unchanged.         *)
(***************************************************************************)
BackInferOf(o, t) ==
    [t EXCEPT !.shape = [d \in Dims |-> IF d \in Range(o.axes) THEN o.input[d]
                                                              ELSE t.shape[d]]]

BackInfer(t) == BackInferOf(op, t)

FullTile(shape) == [offset |-> [d \in Dims |-> 0], shape |-> shape]

(***************************************************************************)
(* getSWLayerTilingStrategyWithAxesExclusion (spec.md 4.2): a tile's      *)
(* working set is its input tile plus its output tile; a tile that does   *)
(* not fit is bisected along its largest splittable axis, the outermost   *)
(* one on a tie; the strategy fails when a tile that does not fit has no  *)
(* splittable axis left.                                                   *)
(***************************************************************************)
FootprintOf(o, t) == Volume(BackInferOf(o, t).shape) + Volume(t.shape)

Footprint(t) == FootprintOf(op, t)

Eligible(t) == {d \in Dims \ Excluded : t.shape[d] > 1}

SplitAxis(t) ==
    CHOOSE d \in Eligible(t) :
        \A e \in Eligible(t) : t.shape[e] < t.shape[d] \/ (t.shape[e] = t.shape[d] /\ d <= e)

\* Mutant of the bisection: the second half one element short.
BisectShortSecondHalf(t, d) ==
    LET h == (t.shape[d] + 1) \div 2
    IN  { [t EXCEPT !.shape[d] = h],
          [t EXCEPT !.offset[d] = @ + h, !.shape[d] = @ - h - 1] }

Bisect(t, d) ==
    LET h == (t.shape[d] + 1) \div 2
    IN  { [t EXCEPT !.shape[d] = h],
          [t EXCEPT !.offset[d] = @ + h, !.shape[d] = @ - h] }

-----------------------------------------------------------------------------

Init ==
    /\ op \in Ops
    /\ outShape = NoShape
    /\ phase = "infer"
    /\ pending = {}
    /\ tiles = {}
    /\ inTiles = <<>>

InferReturnTypes ==
    /\ phase = "infer"
    /\ HasAttrs
    /\ SignalCoversAxes
    /\ outShape' = DFTOutShape(op.input, op.axes, op.signal)
    /\ pending' = {FullTile(outShape')}
    /\ phase' = "tile"
    /\ UNCHANGED <<op, tiles, inTiles>>

\* extractData returns failure() when an attribute is absent and
\* inferReturnTypes calls getValue() on it without checking: an assertion
\* in a debug build, garbage axes in a release build.  A signal_size
\* shorter than axes is read past its end at line 53: the same outcome.
InferWithoutAttrs ==
    /\ phase = "infer"
    /\ ~(HasAttrs /\ SignalCoversAxes)
    /\ phase' = "undefined"
    /\ UNCHANGED <<op, outShape, pending, tiles, inTiles>>

SplitTile ==
    /\ phase = "tile"
    /\ \E t \in pending :
        /\ Footprint(t) > op.budget
        /\ Eligible(t) # {}
        /\ pending' = (pending \ {t}) \cup Bisect(t, SplitAxis(t))
    /\ UNCHANGED <<op, outShape, phase, tiles, inTiles>>

AcceptTile ==
    /\ phase = "tile"
    /\ \E t \in pending :
        /\ Footprint(t) <= op.budget
        /\ pending' = pending \ {t}
        /\ tiles' = tiles \cup {t}
    /\ UNCHANGED <<op, outShape, phase, inTiles>>

FailTiling ==
    /\ phase = "tile"
    /\ \E t \in pending : Footprint(t) > op.budget /\ Eligible(t) = {}
    /\ phase' = "failed"
    /\ UNCHANGED <<op, outShape, pending, tiles, inTiles>>

FinishStrategy ==
    /\ phase = "tile"
    /\ pending = {}
    /\ phase' = "backinfer"
    /\ UNCHANGED <<op, outShape, pending, tiles, inTiles>>

\* backInferTileInfo followed by adjustAttrs, which is empty for DFT.
BackInferTile ==
    /\ phase = "backinfer"
    /\ \E t \in tiles \ DOMAIN inTiles :
        inTiles' = inTiles @@ (t :> BackInfer(t))
    /\ UNCHANGED <<op, outShape, phase, pending, tiles>>

FinishTiling ==
    /\ phase = "backinfer"
    /\ DOMAIN inTiles = tiles
    /\ phase' = "done"
    /\ UNCHANGED <<op, outShape, pending, tiles, inTiles>>

\* serialize, called by the EMU blob writer on a tiled op, always throws
\* "DFT is not implemented in UPA Tasks."
Serialize ==
    /\ phase = "done"
    /\ phase' = "serializeError"
    /\ UNCHANGED <<op, outShape, pending, tiles, inTiles>>

Next ==
    \/ InferReturnTypes
    \/ InferWithoutAttrs
    \/ SplitTile
    \/ AcceptTile
    \/ FailTiling
    \/ FinishStrategy
    \/ BackInferTile
    \/ FinishTiling
    \/ Serialize

Spec == Init /\ [][Next]_vars

-----------------------------------------------------------------------------

\* A tile: an offset and a non-empty extent on every axis.
TileType == [offset : [Dims -> Nat], shape : [Dims -> Nat \ {0}]]

TypeOK ==
    /\ op \in Ops
    /\ outShape \in [Dims -> Nat] \cup {NoShape}
    /\ phase \in {"infer", "tile", "backinfer", "done", "failed", "undefined",
                  "serializeError"}
    /\ pending \subseteq TileType
    /\ tiles \subseteq TileType
    /\ DOMAIN inTiles \subseteq tiles

\* The getTilingStrategy / back-inference pair: every input tile that
\* backInferTileInfo derives from a strategy tile lies inside the input
\* (spec.md 4.1: a tile out of its parent is a fatal error).  It breaks
\* if the strategy splits an axis that backInferTileInfo widens, since
\* the widened tile keeps the split offset.
InputTilesInBounds ==
    \A t \in DOMAIN inTiles :
        \A d \in Dims : /\ inTiles[t].offset[d] >= 0
                        /\ inTiles[t].offset[d] + inTiles[t].shape[d] <= op.input[d]

\* Recombining the input tiles of all output tiles gives back exactly the
\* input (spec.md 8, round trip of back-inference): they are pairwise
\* disjoint and their volumes add up to the input's volume.
InputTilingReconstructsInput ==
    phase \in {"done", "serializeError"} =>
        /\ \A t, u \in tiles :
              t # u => \E d \in Dims :
                  \/ inTiles[t].offset[d] + inTiles[t].shape[d] <= inTiles[u].offset[d]
                  \/ inTiles[u].offset[d] + inTiles[u].shape[d] <= inTiles[t].offset[d]
        /\ MapThenSumSet(LAMBDA t : Volume(inTiles[t].shape), tiles) = Volume(op.input)

\* spec.md 4.2 / 7: an op whose attributes needed for shape inference are
\* missing makes inferReturnTypes report failure to the pass, which emits
\* a diagnostic; it never reaches undefined behaviour.
InferenceFailureIsReported == phase # "undefined"
=============================================================================
