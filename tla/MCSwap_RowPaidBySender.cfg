SPECIFICATION Spec
CONSTANTS
    alice = alice
    bob = bob
    ram = ram
    ghost = ghost
    contract = contract
    Name <- MCName
    Account <- MCAccount
    Self = contract
    Ignored = {ram}
    Coded = {}
    Reactions <- NoReactions
    Transactions <- MCTransactions
    MaxInlineDepth = 4
    EosBalance <- MCEosBalance
    OtherKinds = {}
    NoPayer = NoPayer
PROPERTIES
    RowPaidBySender
