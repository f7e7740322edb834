SPECIFICATION BootSpec
CONSTANTS
    Unset = Unset
    Undecodable = Undecodable
    Blank = Blank
    Host = Host
    Malformed = Malformed
    Loopback = Loopback
    Environments <- MCEnvironments
    MinTokenLength = 2
    MaxPort = 4
    DefaultPort = 2
    MaxRate = 3
    MaxBurst = 3
    DefaultRate = 2
    DefaultBurst = 2
INVARIANTS
    ServesAsAsked
    FailsClosed
