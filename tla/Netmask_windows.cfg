SPECIFICATION Spec
CONSTANTS
    V4Width = 32
    V6Width = 64
    V4Addresses <- MCV4Addresses
    V6Addresses <- MCV6Addresses
    V4Masks <- MCV4Masks
    V6Masks <- MCV6Masks
    PrivateRanges <- MCPrivateRanges
INVARIANTS
    WindowsPrefixLengthKept
