SPECIFICATION MmpSpec
CONSTANTS
    Wires = {"ik"}
    DwellMax = 1
    ByteBase = 2
    WordMod = 4
    LongMod = 8
    MaxCtr = 3
    MaxFlight = 2
    MaxReports = 2
    MaxClock = 3
PROPERTY
    ReportReadAsBuilt
CHECK_DEADLOCK FALSE
