\* What the README says of the stack pointer, when tcs loads it.
SPECIFICATION Spec
CONSTANTS
    High = 2
    Low = 1
    Banks = {0, 1}
    PageSize = 7
    Pages = 3
    Targets = {0}
    Vectors <- SomeVectors
    Settable = {"C"}
    Masks <- SomeMasks
    Stacks = {2}
    MaxDepth = 6
    MaxOwn = 1
INVARIANTS
    StackPageFixed
