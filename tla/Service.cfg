SPECIFICATION Spec
CONSTANTS
    Entry = {e1, e2}
    End = End
    None = None
    Calls = {"STAT", "GET", "SET", "LIST"}
    MaxCommands = 3
    MaxRecords = 1
    MaxFaults = 1
INVARIANTS TypeOK AnswersMatch PayloadMatches SchemaMatches TelemetryConserved CliTellsTruth
CHECK_DEADLOCK FALSE
