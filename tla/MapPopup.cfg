\* Two places: the answer of an aborted look-up arrives after another place was selected.
SPECIFICATION MapSpec
CONSTANTS
  Spots = {p, q}
  GeoCalls = {x, y}
INVARIANTS PopupOfSelection
CHECK_DEADLOCK FALSE
