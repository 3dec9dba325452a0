SPECIFICATION Spec
CONSTANT MaxChars = 14
INVARIANTS StackIsPath BackIsNewest TreeKeepsWords
CHECK_DEADLOCK FALSE
