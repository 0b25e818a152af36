\* One side of the instrument: four switches, eight routes; the sides share no
\* switch.
CONSTANTS
    Switches <- YjSwitches
    Addressable <- YjAddressable
    Table <- YjRoutes
    MEMS_ROUTER_MAX_ROUTES = 18
    MEMS_ROUTER_MAX_ROUTE_PATH = 5
    MaxFaults = 2
SPECIFICATION Spec
INVARIANTS
    TypeOK
    CoilsReleased
    RecordedIsLatched
    RouteHonoured
    ReportsTrue
PROPERTY
    ImplementsSwitchboard
