\* One attenuator, whose DAC has half as many steps as there are voltages; one
\* quantity for each divider, and the status word.
CONSTANTS
    MaxFaults = 2
    Names <- TwoNames
    Channels = {1}
    MAX_VOLTAGE = 4
    DAC_MAX_CODE = 2
    Calibrations <- ThreeCalibrations
    Voltages = {2, 3, 6}
    Quantities = {"TEC_TEMPERATURE_MEASURED", "CURRENT_MEASURED", "FREQUENCY",
                  "STATE_OF_DEVICE_COMMAND"}
    Words <- BoundaryWords
SPECIFICATION InstrumentSpec
INVARIANTS
    InstrumentTypeOK
    PowerAsAsked
    LasersAwaited
    ReportIsOutput
    FailureTold
PROPERTY
    AttenuationKept
