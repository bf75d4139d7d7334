SPECIFICATION FairProvisioning
CONSTANTS
    Ids = {"g1", "g2"}
    Times = {"hub"}
    Users = {"u"}
    Passwords = {"s", "S"}
    Cas = {"c1", "c2"}
    Requests <- MCRequests
    Posted <- MCPosted
    Dumped <- MCDumped
    RecordCap = 4
    MaxSeq = 2
INVARIANT AcknowledgedIsWhole
PROPERTIES SavedRecordIsSound SavedIsApplied
