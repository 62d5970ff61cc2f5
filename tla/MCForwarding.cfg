SPECIFICATION ForwardingSpec
CONSTANTS
    bob = bob
    carol = carol
    contract = contract
    eosio = eosio
    ramfee = ramfee
    Name <- MCName
    Account <- MCName
    Self = contract
    Ignored = {}
    Coded = {carol}
    Reactions <- MCReactions
    Transactions <- MCTransactions
    MaxInlineDepth = 4
    EosBalance <- MCEosBalance
    OtherKinds <- MCOtherKinds
    NoPayer = NoPayer
    System = eosio
    RamFee = ramfee
    OneEos = 1
    ByteRange = 4
    Garbage = {0, 1}
    Rewards = {0, 1}
    NoRow = NoRow
INVARIANTS
    Backed
    TrackersAgree
PROPERTIES
    ForwardingKeepsEos
    BuyrambytesKeepsEos
