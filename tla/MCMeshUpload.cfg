\* Four input files, two of the same stem; every resolution up to three by three.
CONSTANTS
  Inputs <- Directory
  Byte = 2
  Resolutions <- UpToThree
SPECIFICATION UploadSpec
INVARIANTS
  RoundTrip
  OverreadOnlyWhenTorn
  DrawnInRange
  Watertight
