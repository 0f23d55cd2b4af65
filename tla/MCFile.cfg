CONSTANTS
    Archives <- MCArchives
    Requests <- MCRequests
    Word <- MCWord
SPECIFICATION Spec
INVARIANTS TypeOK NoShortRead CopiesTheFile SoundArchiveIsReadable
CHECK_DEADLOCK FALSE
