SPECIFICATION Spec
CONSTANTS
    Sessions = {s1}
    Ports = {p1}
    Clients = {c1}
    None = None
    Depth <- MCDepth
    Tools <- MCTools
    Lines <- MCLines
    Signatures <- MCSignatures
    Inputs <- MCInputs
    Replies <- MCReplies
    Height <- MCHeight
    Numeral <- MCNumeral
    MaxNesting = 6
    Described <- MCDescribed
    Toolsets <- MCToolsets
    HostLines <- MCHostLines
    Returned <- MCReturned
    Needing <- MCNeeding
    ToolResults <- MCToolResults
INVARIANT TextSaysTheSame
CHECK_DEADLOCK FALSE
