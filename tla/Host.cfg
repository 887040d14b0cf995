SPECIFICATION Spec
CONSTANTS
    Pids = {1, 2}
    Inodes = {1, 2, 3}
    Tools = {t1, t2, t3}
    Nodes <- MCNodes
    Argvs <- MCArgvs
    ASPRINTF_LEN = 3
    GETCWD_SIZE = 2
    Uninitialised = Uninitialised
    Texts <- MCTexts
    Dirs <- MCDirs
INVARIANTS
    TypeOK
    Exclusive
    PrivateFollows
    Paired
    WorkingDirectory
    Detached
PROPERTIES
    KeysStable
CHECK_DEADLOCK FALSE
