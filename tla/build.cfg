\* One change of a source or of a generated file, and one stop, at any moment.
SPECIFICATION Spec
CONSTANTS
  MaxVersion = 1
  MaxEdits = 1
  MaxStops = 1
  Editable = {"dataset", "profile", "register", "records", "maps", "day"}
  Tampered = {"profileB"}
  ClassIn <- MCClassIn
  Rejected <- MCRejected
INVARIANTS
  TypeOK
  OnePassSettles
  ManifestSeesEverySource
  NoFalseAlarm
PROPERTY EventuallySettled
CHECK_DEADLOCK FALSE
