SPECIFICATION CalendarSpec
CONSTANTS
  o1 = o1  o2 = o2
  Weekdays = {1, 2}
  Periods = {1, 2}
  Timetables <- MCTimetables
  Bodies <- MCBodies
  Kinds = {"cancelled", "start"}
  Operators = {o1, o2}
  ChangeIds = {1, 2}
  NoChange = NoChange
  Nobody = Nobody
  h1 = h1  h2 = h2
  Starts = {2, 4}
  Offsets = {1}
  Lead = 1
  Wait = 1
  Holidays = {h1, h2}
  Unset = Unset
  LastMinute = 4
  MaxEdits = 2
  ClassMixes <- MCClassMixes
INVARIANTS OneChangePerMeeting RemindersFollowClasses HeldStartWakes
CHECK_DEADLOCK FALSE
