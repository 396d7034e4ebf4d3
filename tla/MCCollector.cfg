\* An IP and an Ethernet interface of one name, a third one not exported;
\* counters that wrap after two units.
SPECIFICATION Spec
CONSTANTS
    Interface = {"uplink", "port", "tunnel"}
    Type <- MCType
    Name <- MCName
    Unsafe = "unsafe"
    Width = 3
    MaxCarried = 2
INVARIANTS
    TypeOK
    NeverOverstated
    NothingLost
