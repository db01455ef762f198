SPECIFICATION Spec
CONSTANTS
  Requests <- MCRequests
  MaxRequests = 2
  MaxUnread = 2
INVARIANT TypeIsCurrent
