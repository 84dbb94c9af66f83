SPECIFICATION PadSpec
INVARIANTS GestureOnce NoLeak MaskExpires
