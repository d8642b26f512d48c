SPECIFICATION Spec
CONSTANTS
  None = None
  MaxNames = 5
  i1 = i1
  i2 = i2
  p1 = p1
  p2 = p2
  Image = {i1, i2}
  Palette = {p1, p2}
  Atlas <- Atlases
  Apps <- OneEffect
  Dynamics <- Sources
  DynamicName = {"rect"}
  Texts <- TwoTexts
  Boxes <- SomeBoxes
  MaxContexts = 1
  LineFeed = "/"
  Spaces = {" "}
  Glyphs <- Glyph
  Kerning <- Kern
  SpaceAdvance <- Space1
CHECK_DEADLOCK FALSE
INVARIANT SamplesOnlyItsCall
