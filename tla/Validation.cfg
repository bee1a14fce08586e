\* A folder of three entries, read in any order; two of them may hold the same.
SPECIFICATION Spec
CONSTANTS
  whole = whole
  ragged = ragged
  Image <- Images
  WholeImage <- WholeImages
  Nothing = Nothing
  NoImage = NoImage
  Anything = Anything
  Name = {1, 2, 3}
PROPERTY ReportIsTrue
