SPECIFICATION MCSpec
CONSTANTS
  Bookings = {b1, b2}
  Users = {ana, kreator}
  Creators = {c1}
  Owner <- MCOwner
  Dates = {d1, d2}
  Prices = {100}
  Keys = {k1, k2}
  WebhookIds <- MCWebhookIds
  MaxDeliverables = 1
  NoTerms = NoTerms
  NoKey = NoKey
  kreator = kreator
  w1 = w1
  Requests = {r1, r2}
  Ops <- AllOps
  MaxFaults = 1
  NoBooking = NoBooking
  NoArg = NoArg
SYMMETRY Symmetry

INVARIANTS
  TxInv
  SettlementsAreAsked

PROPERTIES
  ImplementsLifecycle
