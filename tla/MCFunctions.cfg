\* Fields of up to three options out of twelve, names of up to five tokens.
CONSTANTS
    MaxOptions = 3
    MaxTokens = 5
SPECIFICATION Spec
INVARIANTS NeverWidens KeepsValues OffersEveryLiteral NameIsFileName FitNameIsKept
CHECK_DEADLOCK FALSE
