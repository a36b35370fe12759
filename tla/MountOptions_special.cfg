CONSTANTS
    Chars <- MCAllChars
    MaxLen = 1
    MaxObjdirs = 1
SPECIFICATION Spec
INVARIANT OptionsRoundTrip
