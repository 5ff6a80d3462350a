CONSTANTS
  Names = {a, b, c}
  MaxDeps = 2
  Lists <- AllLists
  Checked = {a}
  Absent = Absent
  NoName = NoName
  MaxChanges = 2
SPECIFICATION Spec
INVARIANTS WalkExact
PROPERTIES WalkAnswers
CHECK_DEADLOCK FALSE
