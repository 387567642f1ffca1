CONSTANTS
    phone = phone
    laptop = laptop
    bob = bob
    alice = alice
    robert = robert
    Device = {phone, laptop, bob}
    Identity = {alice, robert}
    Owner <- OwnerIs
    Admin = {laptop}
    First <- FirstPL
    NoDevice = NoDevice
    MaxManifest = 2
    MaxEpoch = 2
    MaxStops = 1
SPECIFICATION Spec
INVARIANTS ForkOnlyAfterRevocation RemovedWasRevoked
CHECK_DEADLOCK FALSE
