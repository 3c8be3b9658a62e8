SPECIFICATION MCSpec
CONSTANTS
  Bookings = {b1, b2}
  Users = {ana, kreator}
  Creators = {c1}
  Owner <- MCOwner
  Dates = {d1}
  Prices = {0, 100}
  Keys = {k1}
  WebhookIds = {w1}
  MaxDeliverables = 1
  NoTerms = NoTerms
  NoKey = NoKey
  NoBooking = NoBooking
  NoView = NoView
  ana = ana
  kreator = kreator
  w1 = w1
  ThisBooking = b1
  VisitKey = k1

INVARIANTS
  PagesInv

PROPERTIES
  DoneStaysDone

CHECK_DEADLOCK FALSE
