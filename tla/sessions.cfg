CONSTANTS
    Users = {"viewer", "operator", "admin"}
    Asked = {"records", "audits", "create"}
    Calls = {c1, c2}
    Mounts = 2
SPECIFICATION FairSpec
INVARIANTS
    OfferedIsGranted
PROPERTIES
    StoredIsShown
    WorkbenchAppears
