SPECIFICATION PanelSpec
CONSTANTS
  Requests = {p1, r1}
  Keys = {"sidepanel"}
  ContentSections <- MCContentSections
  Lists = {}
  Items = {i1}
  Bodies <- MCBodies
  ZeroValue = {}
  Unreadable = {unreadable}
  Mixed = {mixed}
  Lost = {lost}
  None = none
  TTL = 0
  Panels = {p1}
  Page = "sidepanel"
  Edited = "sidepanel"


PROPERTY SavedStays
