SPECIFICATION Spec
CONSTANTS
    Letters = {"b"}
    NameChars = {"b", "1"}
    Whitespace = {" "}
    Texts <- ShortTexts
INVARIANT
    ScanExact
CHECK_DEADLOCK FALSE
