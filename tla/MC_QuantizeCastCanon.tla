------------------------ MODULE MC_QuantizeCastCanon ------------------------
EXTENDS QuantizeCastCanon

CONSTANTS SEGMENTED, DUPLICATED, L1, L2, q1, f16, g1

\* Distribution modes as sets of flags: SEGMENTED, OVERLAPPED, and the
\* combination OVERLAPPED|DUPLICATED.
MCModes == {{SEGMENTED}, {OVERLAPPED}, {OVERLAPPED, DUPLICATED}}

\* Distributed buffer types: every mode with two per-cluster layouts.
MCDistributedTypes ==
    [mode : MCModes, layout : {L1, L2}, elem : {q1}, geom : {g1}]

\* The same, plus a plain memref and a distributed float buffer.
MCAllTypes ==
    MCDistributedTypes
    \cup [mode : {NotDistributed}, layout : {L1}, elem : {q1}, geom : {g1}]
    \cup [mode : {{OVERLAPPED}}, layout : {L1}, elem : {f16}, geom : {g1}]
=============================================================================
