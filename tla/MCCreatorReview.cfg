\* Two requests of the owner at a time: two tabs, or a retried submission.
CONSTANTS
  Profiles = {c1}
  Columns = {name, price}
  Required = {name}
  Values = {Blank, A}
  Blank = Blank
  OwnerRequests = {o1, o2}
  AdminRequests = {a1}
  NoCreator = NoCreator
  NoContent = NoContent

SPECIFICATION ProfileSpec

PROPERTIES
  FrozenUntilRejected
