SPECIFICATION Spec
CONSTANT Inputs <- AllInputs
INVARIANT LinesKept MaskedTwice MaskIsLexical
CHECK_DEADLOCK FALSE
