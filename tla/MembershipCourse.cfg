SPECIFICATION Spec
CONSTANTS
  Grace = 2
  MaxWarnings = 2
  WarningInterval = 2
  Links = {1, 2}
  MaxDay = 9
INVARIANTS
  CourseInv
  FullCourse
  Capped
  InvitedIffLinked
