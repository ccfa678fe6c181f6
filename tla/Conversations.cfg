SPECIFICATION Spec
CONSTANTS
    book = book
    email = email
    day = day
    MaxPrompts = 2
    MaxActions = 2
    ActionName = {book}
    Info = {email, day}
    Required <- MCRequired
    MaxCallCrashes = 1
    MaxSockets = 2
    MaxTabs = 1
    MaxMessages = 2
    MAX_LOOKUPS_PER_MESSAGE = 1
    Kind <- MCKind
    MaxChatCrashes = 1
    Update = {u1, u2}
    MaxStarted = 2
    MaxTelegramCrashes = 1
INVARIANTS
    TurnsAreSound
    InformationKept
    SessionIsSound
    ConversationIsSound
PROPERTIES
    ConversationsEnd
CHECK_DEADLOCK FALSE
