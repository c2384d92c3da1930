SPECIFICATION FairSpec
CONSTANTS
    hero = hero
    chat = chat
    s1 = s1
    s2 = s2
    c1 = c1
    none = none
    Agents <- MCAgents
    Chats <- MCChats
    Sids <- MCSids
    NoSid <- none
    AgentOf <- MCAgentOf
    Overlap = {}
INVARIANTS
    TypeOK
    ShownFollowsSlot
    NoLiveOrphan
    RegistryMatches
PROPERTIES
    KeepsPromise
    KilledIsForgotten
    EndedStaysEnded
