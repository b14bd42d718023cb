SPECIFICATION DeliverySpec
CONSTANT Chains <- ShortChains
PROPERTIES
  Recovers
  Served
