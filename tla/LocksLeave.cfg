SPECIFICATION Spec
CONSTANTS
  Tasks = {t1, t2}
  Calls = {"leave_meeting", "admit_agent"}
INVARIANTS
  NoSelfDeadlock
CHECK_DEADLOCK FALSE
