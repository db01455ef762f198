SPECIFICATION Spec
CONSTANTS
  Requests <- MCRequests
  MaxRequests = 1
  MaxUnread = 2
PROPERTY PlayStreams
