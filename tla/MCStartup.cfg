SPECIFICATION Spec
CONSTANTS
  NoValue = NoValue
  IntMax = 8191
  Json <- MCJson
  Inputs <- MCInputs
  Leading <- MCLeading
INVARIANTS
  TypeOK
  OptionsAreMeant
  OnlyMeantIsRemoved
  LoadedSaysWhatFilesSay
  RoundTrip
  PatternsAreArmed
