SPECIFICATION Spec
CONSTANTS
  host = host
  ann = ann
  r1 = r1
  r2 = r2
  Users = {host, ann}
  Creator = host
  Requests = {r1, r2}
  Ops = {"join", "leave", "end", "admit", "admitAll", "reject", "remove", "role", "settings", "media", "mute", "offer"}
  Webinar = TRUE
  StartSettings <- OpenOrLobby
  Patches <- OnePatchEach
  MediaUsers = {ann}
  Cap = 2
  ShareLimit = 1
  MaxRequests = 3
  MaxFaults = 1
SYMMETRY Slots
INVARIANTS
    CreatorHosts
    OutboxTellsStatus
    NoLockCycle
PROPERTIES
    EndIsFinalForNewRequests
CHECK_DEADLOCK FALSE
