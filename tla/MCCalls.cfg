SPECIFICATION ForwardingSpec
CONSTANTS
    alice = alice
    bob = bob
    contract = contract
    eosio = eosio
    ramfee = ramfee
    Name <- MCName
    Account <- MCName
    Self = contract
    Ignored = {}
    Coded = {}
    Reactions <- NoReactions
    Transactions <- ForServices
    MaxInlineDepth = 4
    EosBalance <- EosioRich
    OtherKinds <- MCOtherKinds
    NoPayer = NoPayer
    System = eosio
    RamFee = ramfee
    OneEos = 1
    ByteRange = 4
    Garbage = {0, 1}
    Rewards = {0, 1}
    NoRow = NoRow
INVARIANTS
    ForwardedWithConsent
PROPERTIES
    CallsAreAtomic
    CallsSettle
