SPECIFICATION Spec
CONSTANTS
  BUF = 1
  MaxHost = 0
  Boards = {"10.0.0.1", "10.0.0.2"}
  Pieces = 2
  Pictures = 5
  CAP = 3
  DEPTH = 2
  Switches = 2
  Frames = 4
  Reach = 4
  LAG = 2
  WINDOW = 2
  Consoles = {"10.0.0.1:7202", "10.0.0.2:7202"}
  Questions = {"get", "stats"}
  Orders = {"hop"}
  Workers = {"w1", "w2"}
  IQ_CAP = 1
  PRE_CAP = 1
  STASH_CAP = 1
  VALVE = 2
  Items <- MCItems
  MaxDeaths = 1
PROPERTY Reconnects
CHECK_DEADLOCK FALSE
