SPECIFICATION Spec
CONSTANTS
  Offers <- MCOffers
  SubClasses <- MCSubClasses
  Values <- MCValues
INVARIANTS
  VerdictIsCallability
  AdmittedValuesFit
