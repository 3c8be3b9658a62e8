SPECIFICATION MCSpec
CONSTANTS
  Bookings = {b1}
  Users = {ana, kreator}
  c1 = c1
  Creators = {c1}
  Owner <- MCOwner
  Dates = {d1}
  Prices = {100}
  Keys = {k1}
  WebhookIds <- MCWebhookIds
  MaxDeliverables = 1
  NoTerms = NoTerms
  NoKey = NoKey
  kreator = kreator
  w1 = w1
  Requests = {r1, r2}
  Ops <- AllOps
  MaxFaults = 0
  NoBooking = NoBooking
  NoArg = NoArg
  Reviewers = {q1, q2, q3}

PROPERTIES
  RequestsFinish
  RequestsEnd
