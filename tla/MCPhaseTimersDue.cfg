\* Two pollers and nothing else.
CONSTANTS
  Pollers = {a, b}
  Hosts = {}
  MaxDeadline = 3
  MaxCommands = 0
  MaxFailedCalls = 0
  MaxCrashes = 0
SPECIFICATION Spec
PROPERTY AutomaticTransitionIsDue
