------------------------- MODULE QuantizeCastCanon -------------------------
(***************************************************************************)
(* Canonicalization of VPUIP.QuantizeCast ops                              *)
(* (src/src/vpux_compiler/src/dialect/VPUIP/ops/quantize_cast.cpp) by the *)
(* greedy pattern driver: the function argument 0 feeds a tree of casts   *)
(* 1..N, each cast reading a value defined before it, and consumers       *)
(* (Sinks) read some of the values.  The driver takes an op off its       *)
(* worklist and, in this order, erases it if it is dead, folds it         *)
(* (QuantizeCastOp::fold), or applies FuseQuantizeCastOps; whatever it    *)
(* changes goes back on the worklist.  QuantizeCastOp::verify is the      *)
(* predicate every op of the function must satisfy.  The driver itself    *)
(* and isCompatibleForDistributedInputOutput are not under src/: they are *)
(* modelled from spec.md 4.4 and the documented behaviour of the driver.  *)
(***************************************************************************)
EXTENDS Integers, FiniteSets, Functions, TLC

CONSTANTS
    N,                \* number of QuantizeCast ops in the function
    Sinks,            \* non-cast consumers of values
    Types,            \* buffer types: [mode, layout, elem, geom] records
    NotDistributed,   \* the mode of a plain memref (no distribution)
    OVERLAPPED,       \* the OVERLAPPED flag of a distribution mode
    FloatElems        \* the float element types among the elem fields

Casts == 1 .. N
Vals  == 0 .. N        \* value 0 is the function argument

VARIABLES
    def,       \* def[v]: the input operand of the cast defining v
    ty,        \* ty[v]: the type of value v (fixed by its op)
    use,       \* use[s]: the value consumer s reads
    live,      \* the casts still in the function
    worklist   \* the driver's worklist

vars == <<def, ty, use, live, worklist>>

IsDistributed(t) == t.mode # NotDistributed

\* isCompatibleForDistributedInputOutput (spec.md 4.4): same distribution
\* mode and same per-cluster layout policy.
IsCompatibleForDistributedInputOutput(a, b) ==
    a.mode = b.mode /\ a.layout = b.layout

\* Mutant of isOverlapped: OVERLAPPED on either side is enough.
IsOverlappedEitherSide(a, b) ==
    IsDistributed(a) /\ IsDistributed(b) /\ (OVERLAPPED \in a.mode \/ OVERLAPPED \in b.mode)

\* isOverlapped: both types distributed and both modes contain OVERLAPPED.
IsOverlapped(a, b) ==
    IsDistributed(a) /\ IsDistributed(b) /\ OVERLAPPED \in a.mode /\ OVERLAPPED \in b.mode

\* QuantizeCastOp::verify, for an op from type i to type o.  The strides
\* and shape checks are one: both are carried by the geom field.
Verify(i, o) ==
    /\ IsDistributed(i) /\ IsDistributed(o) =>
          /\ IsCompatibleForDistributedInputOutput(i, o) \/ IsOverlapped(i, o)
          /\ i.elem \notin FloatElems /\ o.elem \notin FloatElems
    /\ i.geom = o.geom

OpVerifies(v) == Verify(ty[def[v]], ty[v])

\* The typings of values 0..v under which every cast up to v verifies.
RECURSIVE Typings(_, _)
Typings(d, v) ==
    IF v = 0 THEN {0 :> t : t \in Types}
    ELSE UNION { { f @@ (v :> t) : t \in {o \in Types : Verify(f[d[v]], o)} } :
                 f \in Typings(d, v - 1) }

\* The live casts that read v.
CastUsers(v) == {u \in live : def[u] = v}

\* The consumers that read v.
SinkUsers(v) == {s \in Sinks : use[s] = v}

\* The driver's isOpTriviallyDead: a view op none of whose results is used.
IsDead(v) == CastUsers(v) = {} /\ SinkUsers(v) = {}

\* Mutant of fold: an op folds when the element types agree.
FoldsWhenElemEqual(v) == ty[def[v]].elem = ty[v].elem

\* QuantizeCastOp::fold: the op folds to its input when the types are equal.
Folds(v) == ty[def[v]] = ty[v]

\* The producer of the input of v, when it is a QuantizeCast
\* (getDefiningOp<QuantizeCastOp>() # nullptr).
HasCastProducer(v) == def[v] \in live

\* Mutant of FuseQuantizeCastOps: the new op takes origOp.input().
FusedInputOwnInput(v) == def[v]

\* FuseQuantizeCastOps: the new op reads producerQuantizeCastOp.input().
FusedInput(v) == def[def[v]]

\* The producer of v's input, which goes back on the worklist when v's
\* operand is dropped.
ProducerOf(v) == {def[v]} \cap live

\* Every use of v becomes a use of w.
ReplaceUses(v, w) ==
    /\ def' = [u \in Casts |-> IF u \in live /\ def[u] = v THEN w ELSE def[u]]
    /\ use' = [s \in Sinks |-> IF use[s] = v THEN w ELSE use[s]]

-----------------------------------------------------------------------------

Init ==
    /\ def \in {d \in [Casts -> Vals] : \A v \in Casts : d[v] < v}
    /\ ty \in Typings(def, N)
    /\ use \in [Sinks -> Vals]
    /\ live = Casts
    /\ worklist = Casts

\* Mutant of the driver: an erased op stays on the worklist.
EraseDeadOpKeepsEntry ==
    \E v \in worklist :
        /\ IsDead(v)
        /\ live' = live \ {v}
        /\ worklist' = worklist \cup ProducerOf(v)
        /\ UNCHANGED <<def, ty, use>>

\* The driver erases a dead op; its operand's producer may now be dead.
EraseDeadOp ==
    \E v \in worklist :
        /\ IsDead(v)
        /\ live' = live \ {v}
        /\ worklist' = (worklist \ {v}) \cup ProducerOf(v)
        /\ UNCHANGED <<def, ty, use>>

\* fold succeeds: the driver replaces the result by the input and erases
\* the op; the users of the result and the input's producer are revisited.
FoldOp ==
    \E v \in worklist :
        /\ ~IsDead(v)
        /\ Folds(v)
        /\ ReplaceUses(v, def[v])
        /\ live' = live \ {v}
        /\ worklist' = ((worklist \ {v}) \cup CastUsers(v)) \cup ProducerOf(v)
        /\ UNCHANGED ty

\* FuseQuantizeCastOps succeeds: replaceOpWithNewOp puts a cast of the
\* producer's input with origOp's type in place of origOp; the new op, its
\* users and the old producer are revisited.
FuseOp ==
    \E v \in worklist :
        /\ ~IsDead(v)
        /\ ~Folds(v)
        /\ HasCastProducer(v)
        /\ def' = [def EXCEPT ![v] = FusedInput(v)]
        /\ worklist' = worklist \cup CastUsers(v) \cup ProducerOf(v)
        /\ UNCHANGED <<ty, use, live>>

\* Neither fold nor the pattern applies: the op leaves the worklist.
SkipOp ==
    \E v \in worklist :
        /\ ~IsDead(v)
        /\ ~Folds(v)
        /\ ~HasCastProducer(v)
        /\ worklist' = worklist \ {v}
        /\ UNCHANGED <<def, ty, use, live>>

Next == EraseDeadOp \/ FoldOp \/ FuseOp \/ SkipOp

\* The driver runs on one thread until its worklist is empty.
Spec == Init /\ [][Next]_vars /\ WF_vars(Next)

-----------------------------------------------------------------------------

TypeOK ==
    /\ def \in [Casts -> Vals]
    /\ ty \in [Vals -> Types]
    /\ use \in [Sinks -> Vals]
    /\ live \subseteq Casts
    /\ worklist \subseteq live

\* Every QuantizeCast left in the function still passes
\* QuantizeCastOp::verify after any sequence of folds and fusions.
AllOpsVerify == \A v \in live : OpVerifies(v)

\* The driver reaches its fixpoint: no sequence of rewrites makes it loop.
Termination == <>(worklist = {})

\* Canonicalization refines CastChainAbstract: every consumer reads the
\* argument as the same type before and after every rewrite.
Chain == INSTANCE CastChainAbstract WITH
    Views <- Types,
    view  <- [s \in Sinks |-> ty[use[s]]]

RefinesCastChainAbstract == Chain!Spec
=============================================================================
