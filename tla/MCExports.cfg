\* Two exports race for one name.
SPECIFICATION Spec
CONSTANTS
    j1 = j1
    j2 = j2
    s1 = s1
    s2 = s2
    n1 = n1
    Nobody = Nobody
    Foreign = Foreign
    Jobs <- TwoJobs
    Story <- TwoStories
    Name <- SameName
    Limit = 2
    MaxChanges = 1
    MaxFaults = 1
    MaxDeaths = 1
INVARIANTS
    ExportReportIsTrue
    WorkspaceIsRecorded
    PlanIsKept
PROPERTIES
    DestinationIsKept
    ExportEnds
CHECK_DEADLOCK FALSE
