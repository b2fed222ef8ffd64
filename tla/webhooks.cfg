CONSTANTS
    d1 = d1
    d2 = d2
    d3 = d3
    Tasks = {t1}
    Deliveries = {d1, d2, d3}
    Event <- MCEvent
    Kind <- MCKind
    Requests = {r1, r2}
    Confirms = TRUE
    NoDelivery = NoDelivery
    MaxSends = 2
    MaxWrites = 2
    MaxOtherWrites = 3
SPECIFICATION WebhooksSpec
SYMMETRY Symmetry
INVARIANTS OncePerTask CommittedOnce
PROPERTIES FactStands WebhookObserves
CHECK_DEADLOCK FALSE
