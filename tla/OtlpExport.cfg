SPECIFICATION Spec
CONSTANTS
  Requests <- MCRequests
  NonFinite <- MCNonFinite
  Styles <- MCStyles
INVARIANT InItsPlace
INVARIANT SameRecords
