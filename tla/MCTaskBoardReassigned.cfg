CONSTANTS
  Leaders = {10}
  Members = {20, 21}
  TypedIds = {0}
  Descriptions = {"a"}
  MaxTasks = 3
SPECIFICATION Spec
CONSTRAINT CounterWindow
PROPERTIES BusyMemberNotReassigned
CHECK_DEADLOCK FALSE
