SPECIFICATION Spec
CONSTANTS
    Dollar = "$"
    Backslash = "bs"
    Letters = {"P", "1", "X", "a", "b", "bs"}
    Names <- MCNames
    Environments <- MCEnvironments
    Texts <- MCTexts
    Values = {"a", "b"}
    TextLetters = {"P", "1", "bs"}
    MaxEntries = 3
    MaxTokens = 3
INVARIANTS
    UseIsItsValue
CHECK_DEADLOCK FALSE
