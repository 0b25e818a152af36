\* The whole table, both sides.
CONSTANTS
    Switches <- AllSwitches
    Addressable <- AllAddressable
    Table <- AllRoutes
    MEMS_ROUTER_MAX_ACTIVE_ROUTES = 6
SPECIFICATION Spec
INVARIANTS
    DistinctInputs
    ActiveBound
PROPERTY
    SidesIndependent
