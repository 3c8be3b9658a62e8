SPECIFICATION MCSpec
CONSTANTS
  Bookings = {b1}
  Users = {ana, kreator}
  Creators = {c1}
  Owner <- MCOwner
  Dates = {d1}
  Prices = {100}
  Keys = {k1}
  WebhookIds = {}
  MaxDeliverables = 1
  NoTerms = NoTerms
  NoKey = NoKey
  ana = ana
  kreator = kreator
  ThisBooking = b1
  photo = photo
  Files = {photo, fake, huge}
  Valid = {photo, fake}
  Genuine = {photo, huge}
  MaxUploads = 2
  MaxRows = 2

INVARIANTS
  WorkspaceInv
  PanelInv

PROPERTIES
  DoneIsShown

\* A booking of the instance may have concluded.
CHECK_DEADLOCK FALSE
