SPECIFICATION Spec
CONSTANTS
    Configs <- ProtectAll
    Requests <- NamelessRequests
    Words = {"c", "k"}
    CookieNames = {"c", "k"}
    Chars <- SomeChars
    Lower <- TwoLetters
    Digits = {"1"}
    Absent = Absent
    OtherType = OtherType
    Dropped = Dropped
INVARIANT SinglePassEqualsGetCookie
