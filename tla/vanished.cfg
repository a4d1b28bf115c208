SPECIFICATION Spec
CONSTANTS
  Methods = {m1, m2}
  MinMethods <- MCMinMethods
  Focuses <- MCAliasFocuses
  Vocabulary <- MCVocabulary
  ImplLists <- MCImplLists
  NoRecord = NoRecord
INVARIANTS
  RiskIsSubmitted
