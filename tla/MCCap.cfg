SPECIFICATION Spec
CONSTANTS
    CAP_TABLE_SIZE = 3
    IdSpace = 6
    MaxLaps = 0
    MaxRef = 3
    Rights = {MANAGE, GRANT}
    MANAGE = MANAGE
    GRANT = GRANT
    Objects = {o1}
    NULL = NULL
    Tasks = {t1}
INVARIANTS RefCountExact NoAuthorityFromRevoked RecursionsAgree
PROPERTIES StaleTokensStayDead
CHECK_DEADLOCK FALSE
