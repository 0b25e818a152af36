CONSTANTS
    MaxFaults = 0
SPECIFICATION Spec
INVARIANT
    DocumentedTopicsServed
