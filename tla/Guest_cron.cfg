SPECIFICATION GuestSpec
CONSTANTS
    LastFile = 1
    MaxGuests = 2
    MaxTroubles = 0
INVARIANTS OneJobPerName
CHECK_DEADLOCK FALSE
