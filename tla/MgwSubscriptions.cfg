SPECIFICATION Spec
CONSTANT MaxConnections = 3
INVARIANTS
    TypeOK
    CommandsHeard
    RefreshHeard
PROPERTY ConnectionsNotified
