SPECIFICATION FairSpec
CONSTANTS
    Key = {k1}
    Value = {v0, v1, v2}
    Factory = v0
    AutoTag = {a1, a2}
    Actions = {"SAVE", "RESET"}
    MaxResults = 1
INVARIANTS TypeOK NoResultLost IdleMeansAnswered
    OnlyResetOvertakes SaveStoresNoOlder
PROPERTIES EveryTagAnswered
