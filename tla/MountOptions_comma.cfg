CONSTANTS
    Chars <- MCCommaChars
    MaxLen = 2
    MaxObjdirs = 2
SPECIFICATION Spec
INVARIANT TypeOK
INVARIANT BuffersFit
INVARIANT OptionsRoundTrip
