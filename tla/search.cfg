SPECIFICATION Spec
CONSTANTS
    Addresses = {A1, A2, A3}
    Names = {Atmotube, Other}
    Null = Null
    MaxSearches = 2
    MaxAborted = 2
INVARIANTS TypeOK FoundExactly ListIsPrefix AdaptersAccounted
