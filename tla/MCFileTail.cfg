CONSTANTS
    Archives <- MCArchives
    Requests <- MCRequests
    Word <- MCWord
SPECIFICATION Spec
INVARIANT OkMeansTheBytesAsked
CHECK_DEADLOCK FALSE
