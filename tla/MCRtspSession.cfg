SPECIFICATION Spec
CONSTANTS
  Requests <- MCRequests
  MaxRequests = 3
  MaxUnread = 2
INVARIANTS TypeOK AnswersInOrder AnswersLastCommand OthersAreAnswered
           StreamsToLastSetup StreamsOnlyAfterPlay
PROPERTIES RequestsAreRead PlayStreamsUnlessBlocked
