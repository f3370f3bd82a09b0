\* A buffer of 7 and copies of at most 5, as 62464 and 61440 are to each other.
CONSTANTS
    Characters <- Chars
    Bracket = "]"
    BraceOpen = "{"
    BraceClose = "}"
    Undecodable = "bad"
    TopicName <- Name
    Texts <- WholeTexts
    Beyond <- Memory
    NoText = NoText
    PublishDataSize = 7
    RsizeMax = 5
SPECIFICATION PayloadSpec
INVARIANTS MessageWhole MessageExact
