SPECIFICATION Spec
CONSTANTS
    Key = {k1, k2}
    Value = {v0, v1, v2}
    Factory = v0
    AutoTag = {a1}
    Actions = {"SAVE", "RESET"}
    MaxResults = 2
INVARIANTS LastValueSurvives
