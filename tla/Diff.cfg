SPECIFICATION Spec
CONSTANTS
  Keys <- MCKeys
  Types <- MCTypes
  TableRow = "tr"
  Norms <- MCNorms
  Vals <- MCVals
  Marks <- MCMarks
  Schemes <- MCSchemes
  Levels <- MCLevels
  Ignored = {6}
  IgnoredTypes = {"li"}
  Redact <- MCRedact
  Strip <- MCStrip
  TextSim <- MCTextSim
  Signature <- MCSignature
  Inputs <- MCInputs
  EmptyNorm = "empty"
  Window = 1
  MaxBucket = 3
  MoveMin = 2
  MaxChildren = 1
INVARIANTS
  TypeOK EachBlockOnce SilentMeansSame SpineIsLongest NoBlockingPair OneUnitPerSlot StructCountsBalance AgreesWithObservation
CHECK_DEADLOCK FALSE
