SPECIFICATION Spec
CONSTANTS
    NoVerdict = NoVerdict
    Databases <- SomeDatabases
    Addresses <- SomeAddresses
    Sources = {"openasn", "list", "cloud", "bad-asn-list"}
    Categories <- AllCategories
    Gates <- SomeGates
    Corrupt = Corrupt
    Unnamed = Unnamed
    NoQuery = NoQuery
    Pending = Pending
INVARIANTS IPIntelDBTypeOK LookupComplete OneVerdict GateMeansBest
