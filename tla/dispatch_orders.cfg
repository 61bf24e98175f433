SPECIFICATION Spec
CONSTANTS
    Orders = {o1, o2}
    Riders = {r1, r2}
    NoRider = NoRider
    Pollers = {p1}
    Distance <- SameDistance
    Conditions = {"READY", "OFFLINE"}
    MaxLost = 0
CONSTRAINT TripsEndAtAssignment
SYMMETRY BothSymmetries
INVARIANTS
    CarrierConsistent
    NoOfferOutlivesAssignment
    OneAcceptedTrip
