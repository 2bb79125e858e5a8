SPECIFICATION PanelSpec
CONSTANTS
  Requests = {p1, p2, r1}
  Keys = {"sidepanel"}
  ContentSections <- MCContentSections
  Lists = {}
  Items = {i1}
  Bodies <- MCBodies
  ZeroValue = {}
  Unreadable = {unreadable}
  Mixed = {mixed}
  Lost = {lost}
  None = none
  TTL = 0
  Panels = {p1, p2}
  Page = "sidepanel"
  Edited = "sidepanel"
SYMMETRY MCSymmetry
INVARIANT PanelTypeOK
PROPERTY UndoneOnlyIfExcused
