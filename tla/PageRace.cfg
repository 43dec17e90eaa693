SPECIFICATION Spec
CONSTANTS
  NRows = 2
  PageStatuses = {"open"}
  ShownStatuses = {"open"}
  Stamps = {0}
  MaxPending = 2
  MaxChanges = 0
PROPERTY ApprovesWhatIsShown
