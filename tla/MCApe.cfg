SPECIFICATION ASpec
CONSTANT Programs <- MCPrograms
INVARIANTS Lifetimes Collected
PROPERTY Returns
CHECK_DEADLOCK FALSE
