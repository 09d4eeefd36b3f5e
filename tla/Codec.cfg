SPECIFICATION Spec
CONSTANTS
  MAX_LSTR = 130
  Samples <- AllSamples
INVARIANTS
  CutValueWaits
  ValuesArrive
  CurvesSayTheSample
CHECK_DEADLOCK FALSE
