----------------------------- MODULE Interpolate -----------------------------
(***************************************************************************)
(* The Interpolate SHAVE kernel                                            *)
(* (src/sw_runtime_kernels/kernels/src/singleShaveInterpolate.cpp), one   *)
(* call of singleShaveInterpolate: the entry reads the tensor descriptors *)
(* and dispatches to nnResample (NEAREST), interpCHW or interpHWC; each    *)
(* of these loops over output rows, and one step of the model is one      *)
(* iteration of that loop with everything its row function writes.       *)
(*                                                                         *)
(* Memory is modelled by what a cell means, not by fp16 bits: the value   *)
(* of a cell is the exact weighted sum of input cells it was computed     *)
(* from, a function from input addresses to rational weights.  A read of  *)
(* an address outside the input, of an uninitialised stack element or of  *)
(* a lane past a stack array gives Garbage.  The fp16 rounding of the     *)
(* lambdas (mvuConvert_half) and of the products is not modelled: the     *)
(* properties compare weights before rounding.                            *)
(***************************************************************************)
EXTENDS Integers, FiniteSets, InterpolateArith

CONSTANTS
    Shapes,        \* [IW, IH, OW, OH, C] records of tested shapes
    Orders,        \* "CHW" (ND_CHW, ND_NCHW, 0x321, 0x4321) or "HWC"
    Methods,       \* InterpolationMethod values
    Coords,        \* InterpolationCoordTransMode values
    NearestModes   \* InterpolationNearestMode values

VARIABLES
    desc,     \* the layer parameters: dims and strides as the runtime passes them
    p,        \* InterpolateParamsCMX built by the entry
    phase,    \* entry, nearest, chwprep, chw, opt4x, opt2x, hwc, done
    y,        \* the next output row of the current loop
    ind,      \* interpCHW: ind[w], the left input column of output column w
    lambda,   \* interpCHW: lambda[w], the weight of the right column
    owLast,   \* interpCHW: ow_last_interpolate
    out,      \* output cell -> value
    oob       \* accesses outside their buffer

vars == <<desc, p, phase, y, ind, lambda, owLast, out, oob>>

\* A value: input address -> weight.  Addresses -1 and -2 mark an undefined
\* value and a cell the kernel never wrote.
Garbage   == [a \in {-1} |-> One]
Unwritten == [a \in {-2} |-> One]

IntMin(a, b) == IF a < b THEN a ELSE b    \* min (lines 44-46)
IntMax(a, b) == IF a > b THEN a ELSE b    \* max (lines 48-50)

RoundUp(n, k) == ((n + k - 1) \div k) * k

\* A program-order key for the writes of one row call: later loops and
\* later iterations get larger keys.
Key(a, b, c, d) == ((a * 64 + b) * 64 + c) * 64 + d

CHWOrder(o) == o = "CHW"

\* The dims of a tensor in memory order, innermost first, as the runtime
\* passes them in dimsAddr.
MemDims(o, w, h, c) ==
    IF CHWOrder(o) THEN [i \in 0 .. 2 |-> IF i = 0 THEN w ELSE IF i = 1 THEN h ELSE c]
    ELSE [i \in 0 .. 2 |-> IF i = 0 THEN c ELSE IF i = 1 THEN w ELSE h]

\* Dense strides in bits, as the runtime passes them in stridesAddr.
DenseStrides(d) == [i \in 0 .. 2 |-> 16 * (IF i = 0 THEN 1 ELSE IF i = 1 THEN d[0] ELSE d[0] * d[1])]

Descriptors ==
    UNION { { [order |-> o, iDims |-> MemDims(o, s.IW, s.IH, s.C),
               oDims |-> MemDims(o, s.OW, s.OH, s.C),
               iStrides |-> DenseStrides(MemDims(o, s.IW, s.IH, s.C)),
               oStrides |-> DenseStrides(MemDims(o, s.OW, s.OH, s.C)),
               method |-> m, coord |-> co, nearest |-> nm, antialias |-> aa] :
              nm \in IF m = "NEAREST" THEN NearestModes ELSE {"ROUND_PREFER_FLOOR"},
              aa \in IF m = "NEAREST" THEN {0, 1} ELSE {0} } :
            s \in Shapes, o \in Orders, m \in Methods, co \in Coords }

\* singleShaveInterpolate, lines 799-838: the dims and strides picked by
\* the storage order; strides converted from bits to fp16 elements.
Params(d) ==
    LET ix == IF CHWOrder(d.order) THEN [W |-> 0, H |-> 1, C |-> 2]
              ELSE [C |-> 0, W |-> 1, H |-> 2]
    IN  [order |-> d.order, method |-> d.method, coord |-> d.coord,
         nearest |-> d.nearest, antialias |-> d.antialias,
         C |-> d.iDims[ix.C], IH |-> d.iDims[ix.H], IW |-> d.iDims[ix.W],
         iStrideC |-> d.iStrides[ix.C] \div 16, iStrideH |-> d.iStrides[ix.H] \div 16,
         iStrideW |-> d.iStrides[ix.W] \div 16,
         OH |-> d.oDims[ix.H], OW |-> d.oDims[ix.W],
         oStrideC |-> d.oStrides[ix.C] \div 16, oStrideH |-> d.oStrides[ix.H] \div 16,
         oStrideW |-> d.oStrides[ix.W] \div 16]

OutSizeOf(d) == d.oDims[0] * d.oDims[1] * d.oDims[2]

InAddrs  == 0 .. p.C * p.IH * p.IW - 1
OutAddrs == DOMAIN out

\* A read of the input.
InVal(a) == IF a \in InAddrs THEN [x \in {a} |-> One] ELSE Garbage

Weight(v, a) == IF a \in DOMAIN v THEN v[a] ELSE Zero

\* k1 * v1 + k2 * v2; anything computed from Garbage is Garbage.
Lin2(k1, v1, k2, v2) ==
    IF v1 = Garbage \/ v2 = Garbage THEN Garbage
    ELSE LET wt(a) == Add(Mul(k1, Weight(v1, a)), Mul(k2, Weight(v2, a)))
         IN  [a \in {x \in DOMAIN v1 \cup DOMAIN v2 : wt(x) # Zero} |-> wt(a)]

\* The writes of one row call, [t, addr, val] records, take effect in
\* program order; the reads outside the input and the writes outside the
\* output are recorded.
Commit(W, reads, stack) ==
    /\ out' = [a \in OutAddrs |->
                 LET ws == {x \in W : x.addr = a}
                 IN  IF ws = {} THEN out[a]
                     ELSE (CHOOSE x \in ws : \A z \in ws : z.t <= x.t).val]
    /\ oob' = oob \cup {[kind |-> "write", addr |-> x.addr] : x \in {x \in W : x.addr \notin OutAddrs}}
                  \cup {[kind |-> "read", addr |-> a] : a \in reads \ InAddrs}
                  \cup {[kind |-> "stack", addr |-> a] : a \in stack}

-----------------------------------------------------------------------------
(* nnResample (lines 418-479) and its row functions.                      *)

IsTF1(len) == p.coord = "TF_HALF_PIXEL_FOR_NN" /\ len <= 1

\* The source row of output row y: the alpha term is computed from rw.
NearestIH(yy) ==
    LET fh == IF IsTF1(p.OH) THEN Zero
              ELSE Add(Mul(Q(p.IH, p.OH), QI(yy)), AlphaCoordinateTransform(p.coord, Q(p.IW, p.OW)))
    IN  IntMin(RoundingFunc(p.nearest, fh), p.IH - 1)

\* NearestIW without the clamp to the last column.
NearestIWUnclamped(w) ==
    LET fw == IF IsTF1(p.OW) THEN Zero
              ELSE Add(Mul(Q(p.IW, p.OW), QI(w)), AlphaCoordinateTransform(p.coord, Q(p.IH, p.OH)))
    IN  RoundingFunc(p.nearest, fw)

\* The source column of output column w: the alpha passed in is from rh.
NearestIW(w) ==
    LET fw == IF IsTF1(p.OW) THEN Zero
              ELSE Add(Mul(Q(p.IW, p.OW), QI(w)), AlphaCoordinateTransform(p.coord, Q(p.IH, p.OH)))
    IN  IntMin(RoundingFunc(p.nearest, fw), p.IW - 1)

\* interpolationCHW_nearest (lines 156-206): whole blocks of 8 columns
\* with channel stride IH*IW / OH*OW, then the tail columns with channel
\* stride IW / OW.  interpolationHWC_nearest (lines 131-154): every
\* column, channels innermost (the 32-wide copies read the same cells).
NearestCopies(yy) ==
    LET inOff  == NearestIH(yy) * p.iStrideH
        outOff == yy * p.oStrideH
        V      == (p.OW \div 8) * 8
        Ch     == 0 .. p.C - 1
    IN  IF CHWOrder(p.order)
        THEN { [t |-> Key(0, w \div 8, c, w % 8), addr |-> outOff + c * p.OH * p.OW + w,
                src |-> inOff + c * p.IH * p.IW + NearestIW(w)] : c \in Ch, w \in 0 .. V - 1 }
             \cup
             { [t |-> Key(1, w, c, 0), addr |-> outOff + c * p.OW + w,
                src |-> inOff + c * p.IW + NearestIW(w)] : c \in Ch, w \in V .. p.OW - 1 }
        ELSE { [t |-> Key(0, w, c, 0), addr |-> outOff + w * p.C + c,
                src |-> inOff + NearestIW(w) * p.C + c] : c \in Ch, w \in 0 .. p.OW - 1 }

NearestRow ==
    /\ phase = "nearest"
    /\ y < p.OH
    /\ LET cp == NearestCopies(y)
       IN  Commit({[t |-> x.t, addr |-> x.addr, val |-> InVal(x.src)] : x \in cp},
                  {x.src : x \in cp}, {})
    /\ y' = y + 1
    /\ UNCHANGED <<desc, p, phase, ind, lambda, owLast>>

-----------------------------------------------------------------------------
(* interpCHW (lines 643-777), its 2x / 4x fast paths and interpHWC         *)
(* (lines 586-641).                                                        *)

AlignCorners == p.coord = "ALIGN_CORNERS"

\* rh / rw of interpCHW (lines 668-675) and interpHWC (lines 612-613).
ScaleOf(i, o) == IF o > 1 /\ AlignCorners THEN Q(i - 1, o - 1) ELSE Q(i, o)

Coord(x, o, i) ==
    IF IsTF1(o) THEN Zero ELSE CoordinateTransform(p.coord, x, ScaleOf(i, o), o, i)

IsOnnx == p.method = "LINEAR_ONNX"

\* ow_last_interpolate (lines 677-679): ceil((IW - 1) * rw_1 / rw_0) - 1.
\* Mutant of ow_last_interpolate: the "- 1" after ceil dropped.
OwLastOfNoDecrement ==
    LET rwInv == IF p.OW > 1 /\ AlignCorners THEN Q(p.OW - 1, p.IW - 1) ELSE Q(p.OW, p.IW)
    IN  Ceil(Mul(QI(p.IW - 1), rwInv))

OwLastOf ==
    LET rwInv == IF p.OW > 1 /\ AlignCorners THEN Q(p.OW - 1, p.IW - 1) ELSE Q(p.OW, p.IW)
    IN  Ceil(Mul(QI(p.IW - 1), rwInv)) - 1

\* The fast path interpCHW selects (lines 681-698), or "chw".
OptSel ==
    IF IsOnnx /\ p.coord = "ASYMMETRIC" /\ p.OW % 16 = 0 /\ p.IW <= 128
    THEN CASE p.OW = p.IW * 4 /\ p.OH = p.IH * 4 -> "opt4x"
           [] p.OW = p.IW * 2 /\ p.OH = p.IH * 2 -> "opt2x"
           [] OTHER                              -> "chw"
    ELSE "chw"

\* The column taps of interpCHW (lines 710-729): ind[w] (an ushort) and
\* lambda[w]; LINEAR_ONNX clamps the coordinate from above only.
ColumnTap(w) ==
    LET fw  == Coord(w, p.OW, p.IW)
        inx == QMin(fw, QI(p.IW - 1))
        x1  == IntMin(Trunc(inx), p.IW - 1)
        x2  == IntMin(x1 + 1, p.IW - 1)
    IN  IF IsOnnx
        THEN [iw |-> x1 % 65536, wl |-> IF x1 # x2 THEN QAbs(Sub(fw, QI(x1))) ELSE OneHalf]
        ELSE [iw |-> Trunc(fw) % 65536, wl |-> Sub(fw, QI(Trunc(fw)))]

\* The row taps of one output row (interpCHW lines 749-768, the same
\* formulas as interpHWC lines 616-632): the rows ih0 / ih1 come from the
\* unclamped coordinate, the LINEAR_ONNX weights from the clamped one.
RowTaps(yy) ==
    LET fh  == Coord(yy, p.OH, p.IH)
        iny == QMax(Zero, QMin(fh, QI(p.IH - 1)))
        y1  == IntMax(0, IntMin(Trunc(iny), p.IH - 1))
        y2  == IntMin(y1 + 1, p.IH - 1)
        ih0 == Trunc(fh)
        hl0 == IF IsOnnx THEN IF y1 # y2 THEN QAbs(Sub(iny, QI(y1))) ELSE OneHalf
               ELSE Sub(fh, QI(ih0))
    IN  [ih0 |-> ih0, ih1 |-> IF ih0 < p.IH - 1 THEN ih0 + 1 ELSE ih0, hl0 |-> hl0,
         hl1 |-> IF IsOnnx THEN IF y1 # y2 THEN QAbs(Sub(iny, QI(y2))) ELSE OneHalf
                 ELSE Sub(One, hl0)]

At(buf, i) == IF i \in DOMAIN buf THEN buf[i] ELSE Garbage

\* The output columns a horizontal loop "for (w = 0; w <= last; w += step)"
\* stores, step lanes at a time.
\* Mutant of the horizontal loops: "w < last" for "w <= last".
LanesExclusive(last, step) == IF last < 0 THEN {} ELSE 0 .. (last \div step) * step - 1

Lanes(last, step) == IF last < 0 THEN {} ELSE 0 .. (last \div step) * step + step - 1

\* The input elements a vertical loop "for (w = 0; w < IW; w += n)" loads
\* from rows off0 and off1 of every channel.
VerticalReads(off0, off1, n) ==
    {o + c * p.IH * p.IW + x : o \in {off0, off1}, c \in 0 .. p.C - 1, x \in 0 .. RoundUp(p.IW, n) - 1}

\* interpolationCHW (lines 208-243) for each channel: the vertical blend
\* into row_buf in blocks of 8, the horizontal blend in blocks of 8 up to
\* ow_last_interpolate, then row_buf[IW - 1] for the columns after it.
CHWRowWrites(yy) ==
    LET r      == RowTaps(yy)
        off0   == r.ih0 * p.iStrideH
        off1   == r.ih1 * p.iStrideH
        outOff == yy * p.oStrideH
        Row(c) == [x \in 0 .. RoundUp(p.IW, 8) - 1 |->
                     Lin2(r.hl1, InVal(off0 + c * p.IH * p.IW + x), r.hl0, InVal(off1 + c * p.IH * p.IW + x))]
    IN  UNION { LET rb == Row(c) IN
                  { [t |-> Key(c, 0, 0, w), addr |-> outOff + c * p.OH * p.OW + w,
                     val |-> IF w < p.OW
                             THEN Lin2(Sub(One, lambda[w]), At(rb, ind[w]), lambda[w], At(rb, ind[w] + 1))
                             ELSE Garbage] : w \in Lanes(owLast, 8) }
                  \cup
                  { [t |-> Key(c, 1, 0, w), addr |-> outOff + c * p.OH * p.OW + w, val |-> At(rb, p.IW - 1)] :
                      w \in owLast + 1 .. p.OW - 1 }
              : c \in 0 .. p.C - 1 }

\* optKerInterpCHW2x (lines 342-390) for the rows y / 2 and its successor
\* with weights l0 / l1: row_buf holds IW elements but the vertical loop
\* stores 16 at a time; the horizontal loop reads p0..p4 from w / 2.
Opt2xRowWrites(yy, off0, off1, l0, l1) ==
    LET outOff == yy * p.oStrideH
        Row(c) == [x \in 0 .. p.IW - 1 |->
                     Lin2(l1, InVal(off0 + c * p.IW * p.IH + x), l0, InVal(off1 + c * p.IW * p.IH + x))]
        wl0(k) == IF k % 2 = 1 THEN OneHalf ELSE Zero
    IN  UNION { LET rb == Row(c) IN
                  { LET k == w % 8
                        pj(j) == At(rb, (w - k) \div 2 + j)
                    IN  [t |-> Key(c, 0, 0, w), addr |-> outOff + c * p.OW * p.OH + w,
                         val |-> Lin2(Sub(One, wl0(k)), pj(k \div 2), wl0(k), pj(k \div 2 + 1))] :
                    w \in Lanes(owLast, 8) }
                  \cup
                  { [t |-> Key(c, 1, 0, w), addr |-> outOff + c * p.OW * p.OH + w, val |-> At(rb, p.IW - 1)] :
                      w \in owLast + 1 .. p.OW - 1 }
              : c \in 0 .. p.C - 1 }

\* optKerInterpCHW4x (lines 245-319) for the four output rows from yy:
\* row_buf[r] (IW + 16 elements) blends rows y / 4 and its successor with
\* weight r / 4; the horizontal loop writes 16 columns from p0..p4 at w / 4.
Opt4xRowWrites(yy, off0, off1) ==
    LET outOff == yy * p.oStrideH
        Row(c, r) == [x \in 0 .. RoundUp(p.IW, 16) - 1 |->
                        Lin2(Sub(One, Q(r, 4)), InVal(off0 + c * p.IW * p.IH + x),
                             Q(r, 4), InVal(off1 + c * p.IW * p.IH + x))]
    IN  UNION { UNION { LET rb == Row(c, r) IN
                  { LET k == w % 16
                        pj(j) == At(rb, (w - k) \div 4 + j)
                    IN  [t |-> Key(c, 0, r, w), addr |-> outOff + r * p.OW + c * p.OW * p.OH + w,
                         val |-> Lin2(Sub(One, Q(k % 4, 4)), pj(k \div 4), Q(k % 4, 4), pj(k \div 4 + 1))] :
                    w \in Lanes(owLast, 16) }
                  \cup
                  { [t |-> Key(c, 1, w, r), addr |-> outOff + c * p.OW * p.OH + r * p.OW + w,
                     val |-> At(rb, p.IW - 1)] : w \in owLast + 1 .. p.OW - 1 }
              : r \in 0 .. 3 } : c \in 0 .. p.C - 1 }

\* The column taps of interpolationHWC (lines 503-520): the columns iw0 /
\* iw1 from the unclamped coordinate, the LINEAR_ONNX weights from the
\* coordinate clamped from above, in_x2 the truncated MIN(fw + 1, IW - 1).
\* Mutant of interpolationHWC: iw1 = iw0 + 1 without the IW - 1 check.
HWCColumnUnclampedIw1(w) ==
    LET fw  == Coord(w, p.OW, p.IW)
        iw0 == Trunc(fw)
        fwc == QMin(fw, QI(p.IW - 1))
        x1  == IntMin(Trunc(fwc), p.IW - 1)
        x2  == Trunc(QMin(Add(fwc, One), QI(p.IW - 1)))
        wl0 == IF IsOnnx THEN IF x1 = x2 THEN OneHalf ELSE QAbs(Sub(fwc, QI(x1)))
               ELSE Sub(fw, QI(iw0))
    IN  [iw0 |-> iw0, iw1 |-> iw0 + 1, wl0 |-> wl0,
         wl1 |-> IF IsOnnx THEN IF x1 = x2 THEN OneHalf ELSE QAbs(Sub(fwc, QI(x2)))
                 ELSE Sub(One, wl0)]

HWCColumn(w) ==
    LET fw  == Coord(w, p.OW, p.IW)
        iw0 == Trunc(fw)
        fwc == QMin(fw, QI(p.IW - 1))
        x1  == IntMin(Trunc(fwc), p.IW - 1)
        x2  == Trunc(QMin(Add(fwc, One), QI(p.IW - 1)))
        wl0 == IF IsOnnx THEN IF x1 = x2 THEN OneHalf ELSE QAbs(Sub(fwc, QI(x1)))
               ELSE Sub(fw, QI(iw0))
    IN  [iw0 |-> iw0, iw1 |-> IF iw0 < p.IW - 1 THEN iw0 + 1 ELSE iw0, wl0 |-> wl0,
         wl1 |-> IF IsOnnx THEN IF x1 = x2 THEN OneHalf ELSE QAbs(Sub(fwc, QI(x2)))
                 ELSE Sub(One, wl0)]

\* Mutant of interpHWC: the output row offset y * OW without out_stride.
HWCRowWritesNoStride(yy, r, off0, off1) ==
    { LET k == HWCColumn(w)
          tap(off, x) == InVal(off + x * p.C + c)
      IN  [t |-> Key(0, 0, w, c), addr |-> yy * p.OW + w * p.C + c,
           val |-> Lin2(r.hl1, Lin2(k.wl1, tap(off0, k.iw0), k.wl0, tap(off0, k.iw1)),
                        r.hl0, Lin2(k.wl1, tap(off1, k.iw0), k.wl0, tap(off1, k.iw1)))] :
      w \in 0 .. p.OW - 1, c \in 0 .. p.C - 1 }

\* interpolationHWC (lines 521-582): every column and channel blends the
\* four taps (the 32-, 8- and 1-wide channel loops compute the same sum).
HWCRowWrites(yy, r, off0, off1) ==
    { LET k == HWCColumn(w)
          tap(off, x) == InVal(off + x * p.C + c)
      IN  [t |-> Key(0, 0, w, c), addr |-> yy * p.OW * p.oStrideW + w * p.C + c,
           val |-> Lin2(r.hl1, Lin2(k.wl1, tap(off0, k.iw0), k.wl0, tap(off0, k.iw1)),
                        r.hl0, Lin2(k.wl1, tap(off1, k.iw0), k.wl0, tap(off1, k.iw1)))] :
      w \in 0 .. p.OW - 1, c \in 0 .. p.C - 1 }

HWCRowReads(off0, off1) ==
    { o + x * p.C + c : o \in {off0, off1}, c \in 0 .. p.C - 1,
                        x \in UNION {{HWCColumn(w).iw0, HWCColumn(w).iw1} : w \in 0 .. p.OW - 1} }

-----------------------------------------------------------------------------

Init ==
    /\ desc \in Descriptors
    /\ p = "none"
    /\ phase = "entry"
    /\ y = 0
    /\ ind = <<>>
    /\ lambda = <<>>
    /\ owLast = 0
    /\ out = [a \in 0 .. OutSizeOf(desc) - 1 |-> Unwritten]
    /\ oob = {}

\* singleShaveInterpolate (lines 785-853): build the parameters and pick
\* the path; NEAREST with antialias does nothing.
Start ==
    /\ phase = "entry"
    /\ p' = Params(desc)
    /\ phase' = CASE desc.method = "NEAREST" /\ desc.antialias = 0 -> "nearest"
                  [] desc.method = "NEAREST"                      -> "done"
                  [] CHWOrder(desc.order)                         -> "chwprep"
                  [] OTHER                                        -> "hwc"
    /\ UNCHANGED <<desc, y, ind, lambda, owLast, out, oob>>

\* interpCHW up to its row loop (lines 643-747): ow_last_interpolate, then
\* either a fast path or the column taps.
PrepareCHW ==
    /\ phase = "chwprep"
    /\ owLast' = OwLastOf
    /\ \/ /\ OptSel # "chw"
          /\ phase' = OptSel
          /\ UNCHANGED <<ind, lambda>>
       \/ /\ OptSel = "chw"
          /\ phase' = "chw"
          /\ ind' = [w \in 0 .. p.OW - 1 |-> ColumnTap(w).iw]
          /\ lambda' = [w \in 0 .. p.OW - 1 |-> ColumnTap(w).wl]
    /\ UNCHANGED <<desc, p, y, out, oob>>

\* One iteration of interpCHW's row loop (lines 749-776).
LinearCHWRow ==
    /\ phase = "chw"
    /\ y < p.OH
    /\ LET r == RowTaps(y)
       IN  Commit(CHWRowWrites(y), VerticalReads(r.ih0 * p.iStrideH, r.ih1 * p.iStrideH, 8), {})
    /\ y' = y + 1
    /\ UNCHANGED <<desc, p, phase, ind, lambda, owLast>>

\* One iteration of optInterpCHW2x's row loop (lines 402-415).
Opt2xRow ==
    /\ phase = "opt2x"
    /\ y < p.OH
    /\ LET iy0 == y \div 2
           iy1 == IF iy0 < p.IH - 1 THEN iy0 + 1 ELSE iy0
           l0  == IF y % 2 = 0 THEN Zero ELSE OneHalf
       IN  Commit(Opt2xRowWrites(y, iy0 * p.iStrideH, iy1 * p.iStrideH, l0, Sub(One, l0)),
                  VerticalReads(iy0 * p.iStrideH, iy1 * p.iStrideH, 16),
                  p.IW .. RoundUp(p.IW, 16) - 1)
    /\ y' = y + 1
    /\ UNCHANGED <<desc, p, phase, ind, lambda, owLast>>

\* One iteration of optInterpCHW4x's row loop (lines 331-339).
Opt4xRow ==
    /\ phase = "opt4x"
    /\ y < p.OH
    /\ LET iy0 == y \div 4
           iy1 == IF iy0 < p.IH - 1 THEN iy0 + 1 ELSE iy0
       IN  Commit(Opt4xRowWrites(y, iy0 * p.iStrideH, iy1 * p.iStrideH),
                  VerticalReads(iy0 * p.iStrideH, iy1 * p.iStrideH, 16), {})
    /\ y' = y + 4
    /\ UNCHANGED <<desc, p, phase, ind, lambda, owLast>>

\* One iteration of interpHWC's row loop (lines 615-640).
LinearHWCRow ==
    /\ phase = "hwc"
    /\ y < p.OH
    /\ LET r    == RowTaps(y)
           off0 == r.ih0 * p.IW * p.iStrideW
           off1 == r.ih1 * p.IW * p.iStrideW
       IN  Commit(HWCRowWrites(y, r, off0, off1), HWCRowReads(off0, off1), {})
    /\ y' = y + 1
    /\ UNCHANGED <<desc, p, phase, ind, lambda, owLast>>

\* The row loop ends and the kernel returns.
Finish ==
    /\ phase \in {"nearest", "chw", "opt2x", "opt4x", "hwc"}
    /\ y >= p.OH
    /\ phase' = "done"
    /\ UNCHANGED <<desc, p, y, ind, lambda, owLast, out, oob>>

Next ==
    \/ Start \/ PrepareCHW \/ NearestRow \/ LinearCHWRow \/ Opt2xRow \/ Opt4xRow
    \/ LinearHWCRow \/ Finish

Spec == Init /\ [][Next]_vars

-----------------------------------------------------------------------------

TypeOK ==
    /\ phase \in {"entry", "nearest", "chwprep", "chw", "opt2x", "opt4x", "hwc", "done"}
    /\ desc \in Descriptors
    /\ p = IF phase = "entry" THEN "none" ELSE Params(desc)
    /\ y \in Nat
    /\ phase \in {"chw", "opt2x", "opt4x"} => owLast \in -1 .. p.OW - 1
    /\ DOMAIN out = 0 .. OutSizeOf(desc) - 1
    /\ oob \subseteq [kind : {"read", "write", "stack"}, addr : Int]

InCell(c, h, w)  == c * p.iStrideC + h * p.iStrideH + w * p.iStrideW
OutCell(c, h, w) == c * p.oStrideC + h * p.oStrideH + w * p.oStrideW

\* The reference: the kernel's own coordinateTransform along each axis
\* with that axis's scale, its rounding function for NEAREST, and for
\* LINEAR_ONNX the clamped two-tap weights interpCHW applies to rows.
RefCoord(x, lr, lo) ==
    IF p.coord = "TF_HALF_PIXEL_FOR_NN" /\ lr <= 1 THEN Zero
    ELSE CoordinateTransform(p.coord, x, Q(lo, lr), lr, lo)

RefNearest(x, lr, lo) == IntMax(0, IntMin(RoundingFunc(p.nearest, RefCoord(x, lr, lo)), lo - 1))

RefTaps(x, lr, lo) ==
    LET f  == QMax(Zero, QMin(RefCoord(x, lr, lo), QI(lo - 1)))
        x1 == Floor(f)
        x2 == IntMin(x1 + 1, lo - 1)
    IN  IF x1 = x2 THEN {<<x1, One>>} ELSE {<<x1, Sub(QI(x2), f)>>, <<x2, Sub(f, QI(x1))>>}

RefValue(c, h, w) ==
    IF p.method = "NEAREST"
    THEN [a \in {InCell(c, RefNearest(h, p.OH, p.IH), RefNearest(w, p.OW, p.IW))} |-> One]
    ELSE LET S == {<<InCell(c, i[1], j[1]), Mul(i[2], j[2])>> :
                      i \in RefTaps(h, p.OH, p.IH), j \in RefTaps(w, p.OW, p.IW)}
             T == {s \in S : s[2] # Zero}
         IN  [a \in {s[1] : s \in T} |-> (CHOOSE s \in T : s[1] = a)[2]]

\* When the kernel returns, every output element of a NEAREST or
\* LINEAR_ONNX resize holds exactly the input elements, with exactly the
\* weights, that coordinateTransform and the rounding mode select for its
\* row and column: no element was left unwritten, overwritten by another
\* row's or channel's store, or computed from garbage.
OutputMatchesReference ==
    phase = "done" /\ p.method \in {"NEAREST", "LINEAR_ONNX"} /\ p.antialias = 0 =>
        \A c \in 0 .. p.C - 1, h \in 0 .. p.OH - 1, w \in 0 .. p.OW - 1 :
            out[OutCell(c, h, w)] = RefValue(c, h, w)

\* The kernel took optInterpCHW2x or optInterpCHW4x.
UsedFastPath ==
    phase = "done" /\ p.method = "LINEAR_ONNX" /\ CHWOrder(p.order) /\ OptSel # "chw"

\* The 2x and 4x fast paths of interpCHW, with their lane shuffles of
\* p0..p4, their fixed weights, their clamped second row and their
\* ow_last_interpolate split, compute for every output element exactly the
\* bilinear blend LINEAR_ONNX defines.
FastPathsMatchReference ==
    UsedFastPath =>
        \A c \in 0 .. p.C - 1, h \in 0 .. p.OH - 1, w \in 0 .. p.OW - 1 :
            out[OutCell(c, h, w)] = RefValue(c, h, w)

\* interpHWC, for every coordinate mode and shape, never loads outside the
\* input (its iw1 / ih1 stop at the last column / row) and never stores
\* outside the output.
HWCLinearInBounds ==
    phase # "entry" /\ p.method # "NEAREST" /\ ~CHWOrder(p.order) => oob = {}

\* nnResample clamps the source row and column to IH - 1 and IW - 1
\* (lines 470, 137, 200) after rounding, for every rounding mode and
\* every scale, so a NEAREST row never loads past the end of the input:
\* whatever it loads outside the input lies before its start.
NearestNeverReadsPastEnd ==
    phase # "entry" /\ p.method = "NEAREST" =>
        \A x \in oob : x.kind = "read" => x.addr < 0

\* The output row a cell of the output tensor belongs to.
OutRowOf(a) == IF CHWOrder(p.order) THEN (a % p.oStrideC) \div p.oStrideH ELSE a \div p.oStrideH

\* The row loops of nnResample on HWC, interpHWC and the 2x / 4x fast
\* paths iterate over [y0, y1) and hand each call the output pointer of
\* its own rows (pdst + outOffset, lines 473, 636, 337, 413): one step
\* of a loop changes only cells of the rows it is for (y for a step of 1,
\* y .. y + 3 for optInterpCHW4x), whatever its vector stores round up to.
\* interpolationCHW_nearest and interpolationCHW are left out: their
\* tail stride (line 203) and row overrun (line 224) are the findings.
RowLocalWrites ==
    [][ (phase \in {"hwc", "opt2x", "opt4x"} \/ (phase = "nearest" /\ ~CHWOrder(p.order))) =>
          \A a \in OutAddrs : out'[a] # out[a] => OutRowOf(a) \in y .. y' - 1 ]_vars

\* No row of any path loads an element outside the input tensor.
NoOutOfBoundsRead == \A x \in oob : x.kind # "read"

\* No row of any path stores outside the output tensor or a stack array.
NoOutOfBoundsWrite == \A x \in oob : x.kind = "read"

=============================================================================
