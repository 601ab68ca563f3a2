SPECIFICATION Spec
CONSTANTS
    Address = {1, 2}
INVARIANTS
    CurrentIsListed
