SPECIFICATION Spec
CONSTANTS
    Configs <- Lists
    Requests <- SomeRequests
    Words = {"c", "k"}
    CookieNames = {"c", "k"}
    Chars <- SomeChars
    Lower <- TwoLetters
    Digits = {"1"}
    Absent = Absent
    OtherType = OtherType
    Dropped = Dropped
INVARIANTS GatedAsMeant CookiesRead SinglePassEqualsGetCookie PageReadsTheSame
