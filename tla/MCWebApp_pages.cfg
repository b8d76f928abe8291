CONSTANTS
  Rooms = {"a", "b", "c", "old"}
  ValidRooms = {"a", "b", "c"}
  Sizes = {2, 3}
  None = None
  MaxEvents = 5
  MaxRecent = 2
  MaxSaved = 2
  Stored <- Origins
SPECIFICATION Spec
INVARIANTS MarksTrue RecentsAreLatest PreviewReleased
CHECK_DEADLOCK FALSE
