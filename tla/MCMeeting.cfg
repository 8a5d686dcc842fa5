SPECIFICATION MeetingSpec
CONSTANTS
    i1 = i1
    i2 = i2
    a = a
    b = b
    mia = mia
    c = c
    any = any
    ann = ann
    bob = bob
    r1 = r1
    r2 = r2
    main = main
    g1 = g1
    g2 = g2
    g3 = g3
    link = link
    Invites = {i1, i2}
    Emails = {a, b, mia}
    Members = {mia}
    Known = {mia, b}
    Channels = {c}
    Offers <- TwoOffers
    Anyone = any
    Slots = {1, 2}
    Attendees = {ann, bob}
    Breakout = {r1, r2}
    Main = main
    Desks = {1, 2}
    Links = {link}
    MeetingGuests = {g1, g2, g3}
    LinkMax = 1
    SeatCap = 1
    AtOnce = 2
INVARIANTS
    UsesAreGrants
    ClosedRoomIsLeft
    LinkUses
    SeatsBounded
PROPERTIES
    AccessNeedsActiveInvite
SYMMETRY Alike
CHECK_DEADLOCK FALSE
