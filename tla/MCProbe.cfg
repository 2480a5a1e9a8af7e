\* One run of the probe client.
SPECIFICATION Spec
INVARIANTS
    TypeOK
    LeavesNothing
    ReportTrue
PROPERTY ProbeExits
