-------------------------- MODULE MC_ClusterTiling --------------------------
EXTENDS ClusterTiling

\* Bodies a body builder creates: an NCE task, a DMA after a view, and
\* views only, each ended by the terminator.
MCBodies ==
    { <<NCETask, YieldOp>>, <<ViewOp, DMATask, YieldOp>>, <<ViewOp, YieldOp>> }
=============================================================================
