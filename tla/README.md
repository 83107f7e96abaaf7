# TLA+ models of the VPUX plugin

This directory holds TLA+ models of parts of the VPUX plugin sources under `src/`.
TLC checks the models with the configurations here. `PROJECT.json` lists:
- every component, modelled or not;
- every TLC run and the properties it checks;
- the mutants that show each property can fail;
- the map from each TLA+ definition to the source lines it translates;
- the findings and the hazards.

## 1. The system and its parts

The repository snapshot has two halves.

**Compiler (`src/src/vpux_compiler`).** This is an MLIR compiler that lowers a
network to the VPU. The files present are:

| Part | File | State and operations |
|---|---|---|
| DFT op | `VPU/ops/dft.cpp` | Shape inference (`inferReturnTypes`, via `extractData`). The `TilingBuilderOpInterface`: `getTilingStrategy` excludes the DFT axes and the last (complex) axis, then `backInferTileInfo` and `adjustAttrs`. `serialize` always throws. |
| QuantizeCast op | `VPUIP/ops/quantize_cast.cpp` | `fold` (an identity cast folds away). `FuseQuantizeCastOps` canonicalization (a cast of a cast becomes one cast of the original input). `verify`: the distribution mode must match unless both sides are OVERLAPPED, no float element type when distributed, equal strides, equal shape. |
| NCEClusterTiling op | `VPUIP/ops/nce_cluster_tiling.cpp` | `build` creates the body block. Its argument types are the operand types with distributed and sparse buffers compacted. `verify`, `print`/`parse`, `getInnerTaskOp`, `getExecutor`. |
| NCE yield | `VPU/ops/nce_yield.cpp` | `verify`: the yield has at least one operand. |
| VPU30XX pipeline | `VPU30XX/pipeline_strategy.cpp` | `buildPipeline`: the pass sequence chosen by the compilation mode and the options. |
| DMA utils | `include/.../utils/dma.hpp` | Declarations only. |

**Runtime kernels and their tests (`src/sw_runtime_kernels`).**
- `singleShaveInterpolate.cpp` is the Interpolate kernel: nearest and linear resampling, coordinate transforms and rounding modes.
- `hswish_fp16.cpp` is the HSwish kernel, a vectorised loop over the elements.
- The parameter headers (`param_*.h`) and the JTAG test application shell.
- The custom-layer tests carry the host reference implementations that kernel outputs are compared with: TopK, MVN, dummy, ceil and log.

**Functional test instantiations (`src/tests/functional`).** `roll.cpp` and `cancellation.cpp` are parameter lists for shared test templates.

**How the parts interact.** The tiling pass drives an op's `TilingBuilderOpInterface`:
1. It calls `getTilingStrategy`, which returns output tiles.
2. For every tile it calls `backInferTileInfo`, which gives the input tiles, and `adjustAttrs`.
3. Clustering then wraps tasks in `NCEClusterTiling`, whose body block sees per-cluster (compacted) types.
4. Canonicalization fuses and folds `QuantizeCast` chains between such tasks. The verifiers run after every pass.

The kernels run on the device. The test references compute on the host what the kernels are compared with.

**Hard behaviours (hazards).** Each is listed in PROJECT.json at its source line.
- **Tiling and back-inference.** The strategy and back-inference must agree on which axes may be split. Back-inference keeps the tile offset while widening the extent.
- **Shape inference with a missing attribute.** It dereferences an empty optional instead of failing.
- **Canonicalization of cast chains.** Fusing two casts into one creates a cast whose input and output were never checked against each other by `verify`.
- **Type compaction in NCEClusterTiling.** The data, the sparsity map and the storage-element table of a sparse buffer are handled separately.
- **Index arithmetic of the kernels.** Rounding toward negative infinity can give an index of -1. The height and width parameters must not be swapped. Vector loads and stores run past the end of a row, a stack buffer or the input.
- **TopK's reference sort.** It is only defined if its comparator is a strict weak ordering.

## 2. Plan of the project

The modules come in order of importance: the compiler's tiling and
canonicalization first, then the wrapper op, then the kernels' index
arithmetic, then the test references.

1. **DFTTiling** models a DFT op through inference, tiling, back-inference and serialization. `MC_DFTTiling` instantiates it.
2. **QuantizeCastCanon** models a chain of QuantizeCast ops under the greedy rewrite driver: the fuse pattern, the fold and the verifier. An abstract "cast of the original value" spec is what the chain must keep meaning.
3. **ClusterTiling** models `NCEClusterTiling::build` type compaction, `verify`, and the `print`/`parse` round trip.
4. **Interpolate** (with **InterpolateArith**) models every path of `singleShaveInterpolate` as a state machine over the output rows. It checks each path against a reference definition of the coordinate transform: indices in range, the height and width parameters kept apart, and exactly the right weights in every output element.
5. The host test references (TopK, MVN) and HSwish are not modelled (section 5 says why).

## 3. Modules, runs and what they show

### DFTTiling

DFTTiling models one `VPU::DFTOp` (`dft.cpp`).

**State.**
- `op` is the operation: its input shape, `axes_attr`, `signal_size_attr` and budget. Either attribute may be absent.
- `outShape` is the inferred shape.
- `phase` is one of infer, tile, backinfer, done, failed, undefined, serializeError.
- `pending` holds the tiles the strategy has still to examine.
- `tiles` is the OutputTiling.
- `inTiles` maps each output tile to its `backInferTileInfo` result.

**Actions.**
- `InferReturnTypes` (lines 34-61): the last `signal_size` entry for an axis wins, and -1 keeps the input extent.
- `InferWithoutAttrs` is the same function when `extractData` fails, or when `signal_size` is shorter than `axes`. The first reaches the unchecked `getValue()`. The second reads `signal_size[i]` past its end at line 53.
- `Serialize` (lines 71-73) is the EMU blob writer's call on a tiled op. It always throws "DFT is not implemented in UPA Tasks."
- The strategy is `getSWLayerTilingStrategyWithAxesExclusion`, called with the axes `getTilingStrategy` builds at lines 95-99. That helper is not under `src/`, so it is modelled from spec.md 4.2 and marked spec_modelled:
  - `SplitTile` bisects a tile that does not fit along its largest eligible axis, the outermost one on a tie.
  - `AcceptTile` keeps a tile that fits.
  - `FailTiling` fails when a tile that does not fit has no eligible axis.
- A tile's working set is its back-inferred input tile plus the output tile.
- `BackInferTile` is `backInferTileInfo` plus `adjustAttrs` (an empty function). The DFT axes get the full input extent, and the offset is copied.

**Run `dft_tiling`** (`MC_DFTTiling.cfg`).
- **Bounds.**
  - Rank is 3.
  - Input shapes are `a x b x 2`, with `a` in {1,3,4} and `b` in {2,4}.
  - Axes are `<<0>>`, `<<1>>`, `<<0,1>>` and `<<1,0>>`.
  - Signal sizes are -1 and 3. Size 3 shrinks or grows an axis, so output and input tiles differ.
  - `signal_size` is exactly as long as `axes` (`SignalLengthDiffs = {0}`).
  - Budgets are 12, 20 and 40. With these the strategy sometimes accepts the whole tensor, sometimes splits it once or twice, and sometimes fails.
- **Result.** 1875 distinct states, and every action fires.
- **Properties checked.**
  - `TypeOK`: tiles are never empty.
  - `InputTilesInBounds`: every back-inferred input tile lies inside the input. This breaks if the strategy may split a DFT axis.
  - `InputTilingReconstructsInput`: at the end, the input tiles are pairwise disjoint and their volumes sum to the input volume. This is the back-inference round trip of spec.md 8.

**Run `dft_missing_attrs`** (expected violation). It checks `InferenceFailureIsReported` over the same model, but its domain also holds a `signal_size` one entry shorter than `axes`. Both cases reach `undefined`. TLC finds an op without `signal_size_attr` reaching the unchecked `getValue()` at lines 45-46. spec.md 4.2 and 7 say missing attributes must make inference report failure. This is a finding.

### QuantizeCastCanon and CastChainAbstract

QuantizeCastCanon models canonicalization of `VPUIP.QuantizeCast` chains (`quantize_cast.cpp`) under MLIR's greedy rewrite driver.

**State.**
- `def[v]` is the input of the cast that defines value `v`. Value 0 is the function argument.
- `ty[v]` is the buffer type of `v`: distribution mode (a set of flags), per-cluster layout, element type and geometry.
- `use[s]` is the value consumer `s` reads.
- `live` holds the casts still in the function, and `worklist` is the driver's worklist.

`Init` enumerates every tree of N casts whose ops all pass `QuantizeCastOp::verify`.

**Actions.** The driver takes any op off its worklist, which models every order the driver may use:
- `EraseDeadOp`: the op is trivially dead.
- `FoldOp`: `fold` returns the input because the types are equal.
- `FuseOp`: `FuseQuantizeCastOps` makes the op read its producer's input.
- `SkipOp`: nothing applies.

Each action puts back on the worklist what the driver puts back: the users of a replaced result and the producer of a dropped operand. The driver and `isCompatibleForDistributedInputOutput` are not under `src/`; they are modelled from spec.md 4.4 and marked spec_modelled.

**CastChainAbstract** is what canonicalization promises: the type every consumer reads the argument buffer as never changes. QuantizeCastCanon refines it with the mapping `view[s] = ty[use[s]]`.

**Run `quantize_cast_canon`** (`MC_QuantizeCastCanon.cfg`).
- **Bounds.** Three casts, two consumers, and the distributed types of three modes (SEGMENTED, OVERLAPPED, OVERLAPPED|DUPLICATED) times two layouts. That is enough for a fold, a fuse, a dead op and a cast of a cast of a cast.
- **Result.** 122796 distinct states.
- **Properties checked.**
  - `AllOpsVerify`: every op left still verifies.
  - `Termination`: the driver runs on one thread until its worklist is empty, so weak fairness of `Next` is justified.
  - `RefinesCastChainAbstract`.

**Run `quantize_cast_fuse_plain`** (expected violation). It adds a plain memref type and a distributed float type. TLC finds a fusion that produces a distributed-to-distributed cast which `verify` rejects, although both original casts verified. This is a finding.

### ClusterTiling

ClusterTiling models `VPUIP.NCEClusterTiling` (`nce_cluster_tiling.cpp`) through its life.
- `Build`: the body's block argument types are the compacted operand types, and the inputs/outputs split is recorded.
- `Verify`.
- `PrintWrapper`, then `ParseWrapper` reading the text back. The group printer and parser are not under `src/` and are modelled from spec.md 4.3 and 6.
- `QueryExecutor` (`getExecutor`, through `getInnerTaskOp`).

**Run `cluster_tiling_roundtrip`.**
- **Bounds.** One or two operands of rank 3 or 4, every mix of dense and sparse buffers and of distributed, plain and absent sub-buffers, and three bodies.
- **Result.** 80221 distinct states.
- **Properties checked.**
  - `RoundTrip`: parse(print(op)) gives the op back.
  - `TypeOK`, which includes non-negative segment sizes.

**Run `cluster_tiling_sparse_compaction`** (expected violation). It checks `CompactsSubBuffersIndependently` (spec.md 4.3). `build` compacts a sparse operand only when its data is distributed, and then drops a present sparsity map or storage-element table that is not distributed. This is a finding.

### Interpolate and InterpolateArith

These model the SHAVE kernel `singleShaveInterpolate.cpp`.

**InterpolateArith** holds the scalar functions: `alphaCoordinateTransform`, `coordinateTransform`, the rounding functions (`round_positive`, `round_prefer_floor`, `round_floor`, `round_ceil`, `roundf`) and `static_cast<int>`.
- Values are exact rationals.
- The kernel's fp16 rounding of weights and products is left out. So is the float rounding of the quotients IH/OH. With these shapes every other value the kernel forms is exact in float.

**Interpolate: state.**
- `desc` is the runtime's tensor descriptor: dims and strides in bits in memory order, and the modes.
- `p` is the parameter block `singleShaveInterpolate` builds from it.
- `phase` is the path taken.
- `y` is the output row.
- `ind` and `lambda` are interpCHW's column taps, and `owLast` is `ow_last_interpolate`.
- `out` is the output tensor.
- `oob` records every out-of-bounds load or store, and every store past a stack array.

A cell of `out` holds its value as a function from input addresses to weights, so a wrong tap or a wrong weight is a different value. A load outside the input gives `Garbage`, which spreads through every blend it enters. A cell never stored stays `Unwritten`.

**Interpolate: actions.** One action per step of the kernel:
- `Start` (`singleShaveInterpolate`): set-up and dispatch.
- `PrepareCHW` (interpCHW up to its row loop): `ow_last_interpolate`, then either a fast path or the column taps.
- `NearestRow`: one row of `nnResample`.
- `LinearCHWRow`: one row of interpCHW through `interpolationCHW`.
- `Opt2xRow` and `Opt4xRow`: one row of the fast paths.
- `LinearHWCRow`: one row of interpHWC through `interpolationHWC`.
- `Finish`: the kernel returns.

One row action commits the whole row: every store of the row's loop nest, and the last store wins in program order. So overruns of one row into another land as they do on the hardware.

**Reference.** The reference the outputs are compared with uses:
- the kernel's own `coordinateTransform` along each axis, with that axis's scale;
- the rounding mode, clamped to [0, len - 1], for NEAREST;
- for LINEAR_ONNX, the two-tap weights after clamping the coordinate to [0, len - 1], as interpCHW does for rows.

**Run `interpolate_paths`** (`MC_Interpolate.cfg`).
- **Bounds.** All 5 coordinate transforms × 5 nearest modes × 3 methods × 2 storage orders × 5 shapes:
  - 8→16 (2x, C=2, IW%16 ≠ 0);
  - 16→32 (2x);
  - 4→16 (4x, C=2, one input row, so the second row is always the clamped one);
  - 4→16 × 2→8 (4x, two input rows, so the unclamped row pair is blended);
  - 3→5 (tail columns, C=2);
  - 6→4 × 2→3 (downscale width, upscale height).
- **Result.** 3521 distinct states. Every action fires, and both disjuncts of `PrepareCHW` fire.
- **Properties checked.**
  - `FastPathsMatchReference`: the 2x/4x fast paths, with their lane shuffles, fixed weights and clamped second row, give exactly the bilinear blend.
  - `HWCLinearInBounds`: interpHWC never accesses memory out of bounds, under any transform.
  - `RowLocalWrites` (an action property): on interpHWC, nnResample on HWC and the 2x / 4x fast paths, one step of a row loop changes only the output cells of its own rows (`y`, or `y .. y + 3` for the 4x path). The vector stores of 8, 16 or 32 lanes never spill into a row another iteration writes. interpolationCHW_nearest and interpolationCHW are left out: they break this through the tail-stride and row-overrun bugs (lines 203, 224).
  - `NearestNeverReadsPastEnd`: everything a NEAREST row loads outside the input lies before its start. CEIL and ROUND_PREFER_CEIL on an upscale round past the last row or column, and only the `min(.., IW - 1)` / `min(.., IH - 1)` clamps (lines 137, 180-187, 200, 470) prevent that. The negative reads are the separate finding below.
  - `TypeOK`, including that `ow_last_interpolate` lies in -1 .. OW - 1.

**Expected-violation runs.** Each checks one property on the narrowest configuration that shows one bug (PROJECT.json, findings).

| Run | Property | What TLC shows |
|---|---|---|
| `interpolate_nearest_negative_index` | `NoOutOfBoundsRead` | FLOOR/SIMPLE rounding with a half-pixel transform reads input row -1 (line 470). |
| `interpolate_nearest_tail_stride` | `OutputMatchesReference` | The tail columns of channel c ≥ 1 use stride c·OW / c·IW (line 203). |
| `interpolate_linear_row_overrun` | `OutputMatchesReference` | The 8-wide horizontal store (line 224) writes past OW into the next channel's first row. |
| `interpolate_opt2x_stack_overflow` | `NoOutOfBoundsWrite` | `row_buf[IW]` is written 16 at a time (lines 346-361). |
| `interpolate_nearest_alpha_swap` | `OutputMatchesReference` | The row offset uses the width scale and the column offset the height scale (lines 466, 475). |

Running `OutputMatchesReference` over the whole domain also shows two more bugs. No run is kept for either:
- the LINEAR_ONNX width coordinate is not clamped at 0 (lines 718, 511);
- `ow_last_interpolate` is wrong for the non-asymmetric transforms (line 679).

Both are listed as hazards.

The bounds are enough for these cases:
- Each bug needs only one of: two channels, an output width that is not a multiple of 8 or 16, or unequal scales.
- Every shape has at least 2 rows or 4 output rows, so the clamped last row is reached.
- IW ≥ 2 everywhere. With ALIGN_CORNERS, IW = 1 and OW > 1, the kernel computes `ceil(NaN)`, which is undefined. That case is a hazard, not a model input.

## 4. Fairness

Weak fairness of the whole next-state relation is assumed in
QuantizeCastCanon, and nowhere else. The greedy rewrite driver is a
single-threaded loop with no waits, so a step that is enabled is eventually
taken. DFTTiling, ClusterTiling and Interpolate check only safety: the end of
the DFT tiling search depends only on the strategy helper, which is not in
the repository, so no liveness property is stated about it. The
Interpolate kernel is a sequential loop on one SHAVE, so its runs stop at
`phase = "done"` (CHECK_DEADLOCK FALSE).

## 5. Not modelled, and why

- `dma.hpp` holds declarations only.
- The parameter headers and the JTAG application shell are layout, constants and printf: they hold no operation that changes state.
- The functional test instantiations hand parameter lists to templates outside the repository.
- `DFTOp::inferLayoutInfo` fills the default layout. No property depends on it.
- In Interpolate:
  - fp16 rounding is not modelled (see above).
  - `interpolationCHW_1x1` is never called.
  - NEAREST with antialias does nothing ("not enabled"). The model takes that path, but no property asks about it.
  - The LINEAR (non-ONNX) method runs in `interpolate_paths`, but no reference is given for it.
- The HSwish kernel and the host test references (TopK, MVN, dummy, ceil, log) are not modelled. The test references are host-side loops the kernel tests compare against; MVN, dummy, ceil and log have no control beyond their loops. HSwish is one elementwise loop with no control beyond its vector/remainder split. Its TODO about overflowing the int32 element count (line 35) cannot bite: 2^31 fp16 elements fill the whole 32-bit address space the kernel's data addresses live in.
- TopK's `compareIndices` returns true for equal indices, so it is not the strict weak ordering `std::sort` requires. The reference's outcome then depends on the standard library's sort internals, which are not in this repository.
- The Interpolate row loops load whole vectors past the end of the input row. In the 2x/4x paths the extra lanes never reach the output (`FastPathsMatchReference`). The stack sizes of the kernel's variable-length arrays, and the 16-bit wrap of `ind`, need widths in the thousands, beyond explicit tensors.
