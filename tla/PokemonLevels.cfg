SPECIFICATION Spec
CONSTANT MaxXp = 8340
INVARIANTS ReturnsGreatestLevel
PROPERTY Terminates
