CONSTANTS
    u1 = u1
    u2 = u2
    c1 = c1
    c2 = c2
    c3 = c3
    r1 = r1
    None = None
    Media = media
    Users = {u1, u2}
    Conns = {c1, c3}
    UserOf <- OneEach
    Rooms = {r1}
    OwnerOf <- OwnedByU2
    Handlers = {}
    SendCap = 1
    MaxSends = 0
    Inputs = {"room.join", "rtc.offer", "rtc.leave", "rtc.speaking", "voice.mute", "room.leave"}
    Requests = {}
    VoiceEnabled = TRUE
    WGEnabled = FALSE
SPECIFICATION Spec
INVARIANTS PanicCause
