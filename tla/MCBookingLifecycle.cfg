SPECIFICATION Spec
CONSTANTS
  Bookings = {b1, b2}
  Users = {ana, kreator}
  Creators = {c1}
  Owner <- MCOwner
  Dates = {d1, d2}
  Prices = {0, 100}
  Keys = {k1, k2}
  WebhookIds <- MCWebhookIds
  MaxDeliverables = 1
  NoTerms = NoTerms
  NoKey = NoKey
  kreator = kreator
  w1 = w1

INVARIANTS
  EscrowAgrees
  EventsExplainPayment
  OneLiveBookingPerDate
  DisputeDecidesEscrow
  PaidWorkExists
  KeysIdentifyPayments
  NoticesTellTheTruth
  HeldMoneyCanMove

PROPERTIES
  TerminalStaysTerminal
  RefundAfterStartNeedsDispute
  ImplementsPromise

\* Every booking of the instance may have concluded.
CHECK_DEADLOCK FALSE
