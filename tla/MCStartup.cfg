\* Environments at the edges; ids of up to four characters.
CONSTANTS
    RawIPs <- MCIPs
    RawPorts <- MCPorts
    RawTTLs <- MCTTLs
    RawDurations <- MCDurations
    RawModes <- MCModes
    MaxName = 3
    MaxId = 4
SPECIFICATION Spec
INVARIANTS
    StartsAsConfigured
    ProbeFileRemoved
    NameSafe
