SPECIFICATION Spec
CONSTANTS
    Sessions = {s1, s2, s3}
    Ports = {p1, p2, p3}
    Clients = {c1}
    None = None
    Depth <- MCDepth
    Tools <- MCTools
    Lines <- MCLines
    Signatures <- MCSignatures
    Inputs <- MCInputs
    Replies <- MCReplies
    Height <- MCHeight
    Numeral <- MCNumeral
    MaxNesting = 6
    Described <- MCDescribed
    Toolsets <- MCToolsets
    HostLines <- MCHostLines
    Returned <- MCReturned
    Needing <- MCNeeding
    ToolResults <- MCToolResults
SYMMETRY Symmetry
INVARIANTS
    ListedUnlessOvertaken
    ListedSessionAnswers
    OnlyTheGoneAreRefused
    CallsAreFaithful
    HelpIsTrue
    HostsAgree
    SameAsScript
CHECK_DEADLOCK FALSE
