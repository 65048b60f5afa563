\* The constants of ipm_types.h, with the default of -w.
CONSTANTS
    IPM_UDP_HEARTBEAT_IDLE = 15
    IPM_UDP_REG_RETRY = 2
    IPM_UDP_REG_TRIES = 3
    IPM_UDP_HEARTBEAT_TRIES = 5
    IPM_UDP_AGENT_TIMEOUT = 60
    client_reconn_time = 15
SPECIFICATION Spec
PROPERTIES
    UndisturbedAgentStays
