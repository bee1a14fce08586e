\* Two files and two runs: the second may decode what the first has encoded, or
\* what is left of it, back to where it came from.
SPECIFICATION Spec
CONSTANTS
  whole = whole
  ragged = ragged
  Image <- Images
  WholeImage <- WholeImages
  Nothing = Nothing
  NoImage = NoImage
  Anything = Anything
  NoRequest = NoRequest
  Path = {"a", "b"}
  MaxRuns = 2
PROPERTY ImplementsConversion
