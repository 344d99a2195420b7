CONSTANTS
    Chars <- MCChars
    Size = 4
    Zero = "0"
    Newline = "n"
    Rubout = "r"
    Blank = Blank
SPECIFICATION Spec
INVARIANTS TypeOK ScreenMatches
PROPERTY ImplementsEditor
CHECK_DEADLOCK FALSE
