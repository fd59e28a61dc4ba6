SPECIFICATION Spec
CONSTANTS
    MaxReceipts = 3
    MaxFaults = 3
    MaxAttempts = 2
    Refused = {1}
    Nobody = Nobody
PROPERTIES
    DeliveredOnce
    DrainDelivers
CHECK_DEADLOCK FALSE
