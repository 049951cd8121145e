SPECIFICATION AclSpec
CONSTANTS
    Segments <- MCText
    AuthorityId = "auth"
    Hosts = {"h1", "h2"}
    Agents = {"a1", "a2"}
    HostAuthorityIds <- MCHostAuthorityIds
    Requested <- MCRequested
INVARIANTS
    SdkNeedsTheId
    NobodyPoses
CHECK_DEADLOCK FALSE
