\* The object is constructed and destroyed once: the behaviour ends.
SPECIFICATION Spec
CHECK_DEADLOCK FALSE
CONSTANT Bits = 8
INVARIANT MaskIsModulo
