\* The finish page after the forward sequence of pages.
SPECIFICATION Spec
INVARIANT FinishCompletes
