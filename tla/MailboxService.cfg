SPECIFICATION SmallLegacy
CONSTANTS
    User = {u1, u2, u3}
    Worker = {w1, w2}
    Main = main
    None = none
    MaxMailboxCount = 1
SYMMETRY Symmetry
INVARIANTS AnswersAreDurable PromisedAreServed
