SPECIFICATION Spec
CONSTANTS
  Handlers = {h1, h2}
  MaxRequests = 4
  MaxOutages = 1
  MaxRestarts = 1
INVARIANT AtMostOneLateOrder
PROPERTY KillOutlastsResume
