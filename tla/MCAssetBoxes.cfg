SPECIFICATION Spec
CONSTANTS
    Amounts = {1, 2, 3}
    BoxLists <- OneOrTwoBoxes
    Words <- FirstWords
    MaxCards = 6
INVARIANTS OneBoxPerAmount DrawIsEven
PROPERTIES KeepsCardMap
CHECK_DEADLOCK FALSE
