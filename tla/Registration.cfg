SPECIFICATION LiveRegistration
CONSTANTS
    rider = rider
    Users = {rider, u1}
    Groups = {"wallet_service", "driver_service"}
    RegistrationFaults = {"users", "kafka", "store", "session", "process"}
    Role <- MCRole
INVARIANTS
    ProvisionedAreRegistered
    CommittedIsHandled
PROPERTIES
    EveryEventIsHandled
CHECK_DEADLOCK FALSE
