\* Two lookups: does the throttle keep requests apart that got no answer?
SPECIFICATION MapSpec
CONSTANTS
  MapCalls = {m1, m2}
  MinInterval = 2
  MapTimeout = 3
PROPERTY
  RequestsAreSpaced
