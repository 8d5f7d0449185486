SPECIFICATION FairSpec
CONSTANTS
  call = call
  probe = probe
  Requests <- CallAndProbe
  Allowed = 1
  MaxRejected = 4
PROPERTIES OverloadReported
