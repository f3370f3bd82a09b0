\* One text with a list, and nothing behind a string in memory.
CONSTANTS
    Characters <- Chars
    Bracket = "]"
    BraceOpen = "{"
    BraceClose = "}"
    Undecodable = "bad"
    TopicName <- Name
    Texts <- ListText
    Beyond <- NoMemory
    NoText = NoText
    PublishDataSize = 7
    RsizeMax = 5
SPECIFICATION PayloadSpec
INVARIANT ReceivedIsPublished
