SPECIFICATION Spec
CONSTANTS
  Methods = {m1, m2, m3}
  MinMethods <- MCMinMethods
  Focuses <- MCFocuses
  Vocabulary <- MCVocabulary
  ImplLists <- MCImplLists
  NoRecord = NoRecord
INVARIANTS
  TypeOK
  AnswersAreSubmitted
  EnoughMethodsWork
  ScannerIsStricter
  HigherClassIsStricter
SYMMETRY MCSymmetry
