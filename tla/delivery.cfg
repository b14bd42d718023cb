SPECIFICATION DeliverySpec
CONSTANT Chains <- AllChains
INVARIANTS
  ContractHolds
  NeverTakenBack
  NothingMadeUp
