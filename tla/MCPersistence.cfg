SPECIFICATION Spec
CONSTANTS
    ByteBits = 4
    IntBits = 7
    VersionBits = 3
    MaxBinaryDepth = 2
    MaxFieldBytes = 3
    MaxListCount = 2
    MaxJsonDepth = 4
    NotUtf8 = 7
    Hash <- TheHash
    Shapes <- TheShapes
    State <- Spot
    Self = 4
    Mails <- TheMails
    Doors <- TheDoors
    Claims <- TheClaims
    Bodies <- TheBodies
    Documents <- TheDocuments
    Descriptions <- TheDescriptions
    TextSorts = {"structure", "nesting", "number", "literal", "string", "keys"}
    Texts <- TheTexts
    ByteStrings <- TheByteStrings
    CharStrings <- TheCharStrings
INVARIANTS
    ReportsAgree
    AdmitsExactlyWhatConforms
    RoundTrip
    EncodingsAreCanonical
    
    ParsesExactlyJson
    StringsSurvive
    HandlersReadWhatWasGated
    
CHECK_DEADLOCK FALSE
