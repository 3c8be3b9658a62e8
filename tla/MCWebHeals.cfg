SPECIFICATION MCSpec
CONSTANTS
  Users = {ana}
  Names = {n1, n2}
  Nobody = Nobody
  NoName = NoName
  NoView = NoView
  Messages = {1, 2}
  Sockets = {s1}

PROPERTIES
  AccountHeals
  OnItsWayArrives
  HubTasksEnd

\* A feed whose bounds are used up stops, and so does a hub that was shut down.
CHECK_DEADLOCK FALSE
