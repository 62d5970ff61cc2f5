SPECIFICATION Spec
CONSTANTS
    alice = alice
    carol = carol
    ram = ram
    contract = contract
    Name <- MCName
    Account <- MCName
    Self = contract
    Ignored = {ram}
    Coded = {carol}
    Reactions <- MCReactions
    Transactions <- MCTransactions
    MaxInlineDepth = 4
    EosBalance <- MCEosBalance
    OtherKinds = {}
    NoPayer = NoPayer
INVARIANTS
    Backed
    SwapsPay
    Conserved
    BlockedAsBefore
PROPERTIES
    OnlySignersPay
