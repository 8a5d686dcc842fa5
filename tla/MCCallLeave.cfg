SPECIFICATION Spec
CONSTANTS
  host = host
  ann = ann
  r1 = r1
  r2 = r2
  Users = {host, ann}
  Creator = host
  Requests = {r1, r2}
  Ops = {"join", "leave"}
  Webinar = FALSE
  StartSettings <- OnlyOpen
  Patches <- OnePatchEach
  MediaUsers = {}
  Cap = 0
  ShareLimit = 1
  MaxRequests = 3
  MaxFaults = 0
INVARIANT LastLeaveEndsCall
SYMMETRY Slots
CHECK_DEADLOCK FALSE
