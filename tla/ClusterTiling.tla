--------------------------- MODULE ClusterTiling ---------------------------
(***************************************************************************)
(* The VPUIP.NCEClusterTiling wrapper                                      *)
(* (src/src/vpux_compiler/src/dialect/VPUIP/ops/nce_cluster_tiling.cpp)  *)
(* through its life in the compiler: build derives the body's block      *)
(* argument types by compacting the operand types and records the        *)
(* inputs/outputs split; verify checks the op; print writes it as text   *)
(* and parse reads the text back; getExecutor asks the inner task.       *)
(* A buffer type is a record: sparse or dense, its rank, and the kind of *)
(* its data, sparsity map and storage-element table ("dist" for a        *)
(* DistributedBufferType, "plain" for a memref, "none" when absent).     *)
(* printGroupOfOperands and parseGroupOfOperands are not under src/;     *)
(* they are modelled from spec.md 4.3 and 6.                              *)
(***************************************************************************)
EXTENDS Integers, Sequences, SequencesExt, FiniteSets

CONSTANTS
    Ranks,          \* ranks of the operand buffers
    MaxOperands,    \* bound on the number of operands of one wrapper
    Bodies,         \* candidate bodies: sequences of inner op kinds
    NCETask,        \* VPUIP.NCEClusterTask (an AsyncLayerOp)
    DMATask,        \* a DMA task (an AsyncLayerOp)
    ViewOp,         \* a pure view op, skipped by getInnerTaskOp
    YieldOp,        \* the terminator: neither a view nor an AsyncLayerOp
    NoOp            \* getInnerTaskOp found nothing / no executor

SubKinds == {"dist", "plain", "none"}

BufferTypes ==
    [sparse : {FALSE}, rank : Ranks, data : {"dist", "plain"}, sm : {"none"}, se : {"none"}]
    \cup
    [sparse : {TRUE}, rank : Ranks, data : {"dist", "plain"}, sm : SubKinds, se : SubKinds]

VARIABLES
    phase,      \* idle, built, printed, parsed
    op,         \* the wrapper: operands, results, segments, blockArgs, body
    verdict,    \* the last result of verify: "none", "ok" or "error"
    text,       \* the printed form
    reparsed,   \* the op parse built from text
    executor    \* the last result of getExecutor

vars == <<phase, op, verdict, text, reparsed, executor>>

\* Mutants of build: the counts subtracted the wrong way round; the result
\* count not subtracted from the operand count.
BuildSegmentsSwapped(n, r) == <<r - n, r>>
BuildSegmentsNoSubtract(n, r) == <<n, r>>

\* build: operand_segment_sizes = {operands - results, results}.
BuildSegments(n, r) == <<n - r, r>>

\* build, lines 134-153: a distributed buffer becomes its compact type; a
\* sparse buffer is rebuilt only when its data is distributed, and then a
\* sparsity map or storage-element table is kept (compacted) only when it
\* is distributed too.
CompactType(t) ==
    IF ~t.sparse THEN IF t.data = "dist" THEN [t EXCEPT !.data = "plain"] ELSE t
    ELSE IF t.data = "dist"
         THEN [t EXCEPT !.data = "plain",
                        !.sm = IF t.sm = "dist" THEN "plain" ELSE "none",
                        !.se = IF t.se = "dist" THEN "plain" ELSE "none"]
         ELSE t

\* getInnerTaskOp: the first op of the body that is not a pure view op.
GetInnerTaskOp(body) ==
    LET tasks == {i \in 1 .. Len(body) : body[i] # ViewOp}
    IN  IF tasks = {} THEN NoOp ELSE body[CHOOSE i \in tasks : \A j \in tasks : i <= j]

\* verify: one block (a body is one block by construction here), at least
\* one operand, as many block arguments as operands, at least one result,
\* and rank 4 or 1 for every operand and block argument when the inner
\* task is an NCEClusterTask.
VerifyOp(o) ==
    /\ Len(o.operands) > 0
    /\ Len(o.operands) = Len(o.blockArgs)
    /\ o.results > 0
    /\ GetInnerTaskOp(o.body) = NCETask =>
          \A t \in ToSet(o.operands) \cup ToSet(o.blockArgs) : t.rank \in {1, 4}

\* The operand group that starts after the first lo operands and has k
\* entries, as the ODS accessors inputs() / output_buffs() slice it
\* (clipped to the operands that exist).
Group(o, lo, k) ==
    LET m == IF lo >= Len(o.operands) \/ k <= 0 THEN 0
             ELSE IF lo + k > Len(o.operands) THEN Len(o.operands) - lo ELSE k
    IN  [i \in 1 .. m |-> [operand |-> o.operands[lo + i], arg |-> o.blockArgs[lo + i]]]

\* print: the operands split by operand_segment_sizes into an "inputs" and
\* an "outputs" group, each entry "%operand as %blockArg : <blockArg type>";
\* operand_segment_sizes itself is left out of the attribute dictionary.
PrintOp(o) ==
    [inputs  |-> Group(o, 0, o.segments[1]),
     outputs |-> Group(o, IF o.segments[1] > 0 THEN o.segments[1] ELSE 0, o.segments[2]),
     results |-> o.results,
     body    |-> o.body]

\* parse: the two groups give the operands and block arguments in order,
\* and their lengths give operand_segment_sizes back.
ParseOp(x) ==
    LET entries == x.inputs \o x.outputs
    IN  [operands  |-> [i \in 1 .. Len(entries) |-> entries[i].operand],
         blockArgs |-> [i \in 1 .. Len(entries) |-> entries[i].arg],
         segments  |-> <<Len(x.inputs), Len(x.outputs)>>,
         results   |-> x.results,
         body      |-> x.body]

\* getExecutor: the executor of the inner task, which must be an
\* AsyncLayerOp; VPUX_THROW otherwise.
GetExecutor(o) ==
    IF GetInnerTaskOp(o.body) \in {NCETask, DMATask} THEN GetInnerTaskOp(o.body) ELSE NoOp

-----------------------------------------------------------------------------

Init ==
    /\ phase = "idle"
    /\ op = NoOp
    /\ verdict = "none"
    /\ text = NoOp
    /\ reparsed = NoOp
    /\ executor = "none"

\* build(resultTypes, operands, bodyBuilder): the callers pass the input
\* operands followed by one output buffer per result.
Build ==
    /\ phase = "idle"
    /\ \E n \in 1 .. MaxOperands, r \in 1 .. MaxOperands, body \in Bodies :
        /\ r <= n
        /\ \E operands \in [1 .. n -> BufferTypes] :
              op' = [operands  |-> operands,
                     results   |-> r,
                     segments  |-> BuildSegments(n, r),
                     blockArgs |-> [i \in 1 .. n |-> CompactType(operands[i])],
                     body      |-> body]
    /\ phase' = "built"
    /\ UNCHANGED <<verdict, text, reparsed, executor>>

\* The op the compiler holds: the built one, or the one parsed back.
Current == IF phase = "parsed" THEN reparsed ELSE op

Verify ==
    /\ phase \in {"built", "parsed"}
    /\ verdict' = IF VerifyOp(Current) THEN "ok" ELSE "error"
    /\ UNCHANGED <<phase, op, text, reparsed, executor>>

\* print throws on an empty body or a count mismatch; neither is reachable
\* from build, where both come from the same operand list.
PrintWrapper ==
    /\ phase = "built"
    /\ Len(op.operands) = Len(op.blockArgs)
    /\ text' = PrintOp(op)
    /\ phase' = "printed"
    /\ UNCHANGED <<op, verdict, reparsed, executor>>

ParseWrapper ==
    /\ phase = "printed"
    /\ reparsed' = ParseOp(text)
    /\ phase' = "parsed"
    /\ UNCHANGED <<op, verdict, text, executor>>

QueryExecutor ==
    /\ phase \in {"built", "parsed"}
    /\ verdict = "ok"
    /\ executor' = GetExecutor(Current)
    /\ UNCHANGED <<phase, op, verdict, text, reparsed>>

Next == Build \/ Verify \/ PrintWrapper \/ ParseWrapper \/ QueryExecutor

Spec == Init /\ [][Next]_vars

-----------------------------------------------------------------------------

OpType ==
    [operands : Seq(BufferTypes), results : Nat, segments : Nat \X Nat,
     blockArgs : Seq(BufferTypes), body : Bodies]

TypeOK ==
    /\ phase \in {"idle", "built", "printed", "parsed"}
    /\ op \in OpType \cup {NoOp}
    /\ reparsed \in OpType \cup {NoOp}
    /\ verdict \in {"none", "ok", "error"}
    /\ executor \in {"none", NCETask, DMATask, NoOp}

\* spec.md 4.3 and 8: printing a wrapper and parsing the text back gives
\* the same operands in the same positions, the same block argument types,
\* the same inputs/outputs split and the same results.
RoundTrip == phase = "parsed" => reparsed = op

\* The reading of a sub-buffer kind in the compact (per-cluster) view.
Compacted(k) == IF k = "dist" THEN "plain" ELSE k

\* spec.md 4.3: build compacts data, sparsity map and storage-element table
\* independently and keeps an absent sub-buffer absent, so the block
\* argument of every operand is the operand with each present sub-buffer
\* compacted and none dropped.
CompactsSubBuffersIndependently ==
    op # NoOp =>
        \A i \in DOMAIN op.operands :
            op.blockArgs[i] = [op.operands[i] EXCEPT !.data = Compacted(@),
                                                   !.sm = Compacted(@),
                                                   !.se = Compacted(@)]
=============================================================================
