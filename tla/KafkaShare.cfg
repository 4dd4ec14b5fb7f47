\* Share consumers against a broker that counts deliveries; see MCKafkaShare.
SPECIFICATION FairSpec
CONSTANTS
    c1 = c1
    c2 = c2
    r1 = r1
    r2 = r2
    r3 = r3
    r4 = r4
    Clients = {c1, c2}
    Records = {r1, r2, r3, r4}
    MaxConsumers = 2
    MaxDeliveryAttempts = 2
    DeliveryLimit = 3
    DefaultConsumers = 4
    Scenarios <- MCScenarios
INVARIANTS SettledIsDone LossNeedsFaults
PROPERTIES EverySettled
CHECK_DEADLOCK FALSE
