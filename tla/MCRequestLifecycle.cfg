\* Two requests for any routes, two addresses, two windows.
CONSTANTS
  r1 = r1
  r2 = r2
  Requests = {r1, r2}
  Addresses = {"A", "B"}
  Windows = {"old", "new"}
SPECIFICATION FairSpec
INVARIANTS TypeOK AnsweredOnce ViewsAnswerTheirRequest
PROPERTIES AnsweredUnlessForgotten
CHECK_DEADLOCK FALSE
