\* The session of the host and the sidecar: confirmations, expiries, cancels, a crash and a stop.
CONSTANTS
    NCalls = 1
    MaxRev = 3
    CmdCap = 2
    Troubles = {{"crash","stop","deny"}, {"slow","stop","deny"}, {"lapse","deny"}, {"timeout"}}
    MaxTurns = 2
    MaxCancels = 1
SPECIFICATION SessionSpec
PROPERTIES
    SessionSound
CHECK_DEADLOCK FALSE
