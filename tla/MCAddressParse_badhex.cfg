CONSTANTS
    AddressLength <- MCAddressLength
    MaxBody <- MCMaxBody
SPECIFICATION Spec
INVARIANT RpcBadHexPointsAtInput
