SPECIFICATION FairSpec
CONSTANTS
  Chars = {"*", "_"}
  Lines <- MCLines
  MaxMarkers = 16
INVARIANTS TypeOK MateIsOnStack WellNested MarkersKept NoneOverlooked
PROPERTY Terminates
CHECK_DEADLOCK FALSE
