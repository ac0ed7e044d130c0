SPECIFICATION Spec
CONSTANTS
  Senders = {z1, z2}
  MaxClients = 2
  MaxConn = 2
  Size = 2
  Limit = 3
  MaxMessages = 2
INVARIANT TypeOK
INVARIANT StreamIntact
INVARIANT NoMessageMissed
PROPERTY LeaversAreClosed
