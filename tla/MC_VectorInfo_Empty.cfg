CONSTANTS
  SizeX = 3
  SizeY = 3
  SizeK = 3
  NaN = NaN
  Image <- MCImage
  Timestamp <- MCTimestamp
  Exposure <- MCExposure
  SlopeNums <- MCSlopeNums
  SlopeDen = 2
  Scale = 3000
SPECIFICATION Spec
INVARIANT
  EmptyYieldsZero
