CONSTANTS
  Users = {ana, budi}
  Names = {n1, n2}
  Nobody = Nobody
  NoName = NoName
  NoView = NoView

SPECIFICATION AccountSpec
INVARIANT ListIsTheUsers
