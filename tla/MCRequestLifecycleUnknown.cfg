\* A path no router has.
CONSTANTS
  r1 = r1
  r2 = r2
  Requests = {r1}
  Addresses = {"A"}
  Windows = {"old"}
SPECIFICATION FairSpec
PROPERTIES UnknownPathIsAnswered
CHECK_DEADLOCK FALSE
