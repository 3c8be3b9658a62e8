SPECIFICATION MCSpec
CONSTANTS
  Bookings = {1, 2, 3, 4}
  c1 = c1
  c2 = c2
  Creators = {c1, c2}
  CreatorOf <- MCCreatorOf
  Ratings = {2, 5}
  Reviewers = {r1, r2, r3}
  NoBooking = NoBooking
  ThisCreator = c1
  Limit = 1
  MaxClock = 1
  Profiles = {p1, p2}
  Columns = {portfolio, price}
  Required = {portfolio}
  Values = {Blank, A}
  Blank = Blank
  OwnerRequests = {o1}
  AdminRequests = {s1, s2, a1}
  PageRequests = {s1, s2}
  NoCreator = NoCreator
  NoContent = NoContent
  Disputes = {d1, d2}
  None = None
SYMMETRY Symmetry

INVARIANTS
  AggregateMatchesReviews
  ListInv
  SubmissionsAreComplete
  ApplicationsInv
  DisputesInv

PROPERTIES
  FrozenUntilRejected
  DecisionsNeedSubmission
  ListFollowsAnswers
