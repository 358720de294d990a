SPECIFICATION Spec
CONSTANT Days = 157200
INVARIANT CivilIsCalendar
CHECK_DEADLOCK FALSE
