SPECIFICATION Spec
INVARIANT FreeAtFront
PROPERTY RefinesFifo
CONSTANTS SIZE = 4
