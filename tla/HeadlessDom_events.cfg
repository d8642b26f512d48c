SPECIFICATION Spec
CONSTANTS
  None = None
  Window = Window
  Document = Document
  Body = Body
  Root = Root
  Canvas = Canvas
  Other = {}
  Fragment = {f}
  Text = {t}
  c1 = c1
  c2 = c2
  Callback = {c1}
  Listening <- InBothPhases
  MaxEdits = 2
  Moves = FALSE
CHECK_DEADLOCK FALSE
INVARIANTS TreeIsSound EventsFollowThePath ListenersHearEvents
