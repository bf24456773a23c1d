\* The loop over the poll table with every kind of connection, and the filter.
CONSTANTS
  SectionsMax = 125
  KeysMax = 25
  Absent = Absent
  LevelMax = 100
  InjectionMax = 50
  Star = Star
  Conf <- Confs
  MaxFd = 8
  Levels = {10, 60, 101}
SPECIFICATION Spec
INVARIANTS PollTableOk LevelIsEnforced FilterIsSound
PROPERTY EventsServed
\* The daemon may end.
CHECK_DEADLOCK FALSE
