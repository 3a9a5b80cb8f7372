\* Four appends racing with the extracting thread.
CONSTANTS
    Handles = {h1, h2, h3, h4}
    Dummy = Dummy
    Null = Null
SYMMETRY Symmetry
SPECIFICATION Spec
INVARIANTS TypeOK DequeuesInOrder
\* Everything may be appended and the extracting thread may spin for good.
CHECK_DEADLOCK FALSE
