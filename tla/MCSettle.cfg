SPECIFICATION Spec
CONSTANTS
    alice = alice
    bob = bob
    ram = ram
    contract = contract
    Name <- MCName
    Account <- MCName
    Self = contract
    Ignored = {ram}
    Coded = {}
    Reactions <- NoReactions
    Transactions <- MCTransactions
    MaxInlineDepth = 4
    EosBalance <- MCEosBalance
    OtherKinds = {}
    NoPayer = NoPayer
PROPERTIES
    SwapsSettle
