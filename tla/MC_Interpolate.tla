--------------------------- MODULE MC_Interpolate ---------------------------
EXTENDS Interpolate

\* A 2x upscale whose input width is not a multiple of 16 and one whose
\* width is (both take optInterpCHW2x), two 4x upscales (optInterpCHW4x, one
\* of them with a second input row, so its unclamped row pair is used), an
\* odd upscale with tail columns, and a downscale.
MCShapes ==
    { [IW |-> 8, IH |-> 2, OW |-> 16, OH |-> 4, C |-> 2],
      [IW |-> 16, IH |-> 1, OW |-> 32, OH |-> 2, C |-> 1],
      [IW |-> 4, IH |-> 2, OW |-> 16, OH |-> 8, C |-> 1],
      [IW |-> 4, IH |-> 1, OW |-> 16, OH |-> 4, C |-> 2],
      [IW |-> 3, IH |-> 3, OW |-> 5, OH |-> 2, C |-> 2],
      [IW |-> 6, IH |-> 2, OW |-> 4, OH |-> 3, C |-> 1] }

\* One shape for each violation run.
MCShape2x   == {[IW |-> 8, IH |-> 2, OW |-> 16, OH |-> 4, C |-> 2]}
MCShapeOdd  == {[IW |-> 3, IH |-> 3, OW |-> 5, OH |-> 2, C |-> 2]}
MCShapeDown == {[IW |-> 6, IH |-> 2, OW |-> 4, OH |-> 3, C |-> 1]}

MCOrders == {"CHW", "HWC"}
MCMethods == {"NEAREST", "LINEAR_ONNX", "LINEAR"}
MCCoords == {"HALF_PIXEL", "PYTORCH_HALF_PIXEL", "ASYMMETRIC", "TF_HALF_PIXEL_FOR_NN", "ALIGN_CORNERS"}
MCNearestModes == {"ROUND_PREFER_FLOOR", "ROUND_PREFER_CEIL", "FLOOR", "CEIL", "SIMPLE"}
=============================================================================
