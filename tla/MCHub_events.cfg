CONSTANTS
    u1 = u1
    u2 = u2
    c1 = c1
    c2 = c2
    c3 = c3
    r1 = r1
    None = None
    Media = media
    Users = {u1, u2}
    Conns = {c1}
    UserOf <- OnlyC1
    Rooms = {r1}
    OwnerOf <- OwnedByU2
    Handlers = {h}
    SendCap = 1
    MaxSends = 1
    Inputs = {"room.join", "room.leave", "chat.send", "heartbeat"}
    Requests = {"join", "leave", "kick", "delete", "adminDelete", "notify"}
    VoiceEnabled = FALSE
    WGEnabled = FALSE
SPECIFICATION FairSpec
INVARIANTS ChatDurable
PROPERTIES RequestsFinish BroadcastsAreTaken DisconnectIsNoticed
CHECK_DEADLOCK FALSE
