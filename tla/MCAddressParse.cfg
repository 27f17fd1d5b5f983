CONSTANTS
    AddressLength <- MCAddressLength
    MaxBody <- MCMaxBody
SPECIFICATION Spec
INVARIANTS TypeOK ParsesToNumber DisplayRoundTrip AltBadHexPointsAtInput
