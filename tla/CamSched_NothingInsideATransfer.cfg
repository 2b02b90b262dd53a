CONSTANT Cams = {"c1", "c2"}
SPECIFICATION Spec
INVARIANT NothingInsideATransfer
