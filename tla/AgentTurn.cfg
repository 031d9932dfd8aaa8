CONSTANTS
    small = small
    medium = medium
    large = large
    Endpoint = {small, medium, large}
    Profile <- MCProfile
    Holds <- MCHolds
    OutputCap <- MCOutputCap
    Conversations <- MCConversations
    Schemas <- MCSchemas
    Replies <- MCReplies
    Envelopes = {"parameters", "arguments", "input"}
    TailTurns = 6
    MaxTotal = 4
    MaxSame = 3
    MaxWaits = 1
    MaxMishaps = 1
SPECIFICATION Spec
INVARIANTS
    SizeRefusalsBounded
    NamedLimitHonoured
    ClampKept
    OldestDroppedFirst
    RootVerbatim
    
    DeadOnlyIfGone
    DeliveredConforms
