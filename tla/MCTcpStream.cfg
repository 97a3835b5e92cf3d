\* The promise of one direction, on its own: three items of two values.
CONSTANTS
    Item = {"byte", "fin"}
    Offers <- MCOffers
    LIMIT = 3

SPECIFICATION Spec

INVARIANTS
    Delivered
    CountsOrdered
    IInv
