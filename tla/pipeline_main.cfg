\* Every chain of at most four different stages, every request.
CONSTANTS
  Chains <- AllChains
  Allowed <- AdminsAndSellers
  Codes = {200, 401, 500}
  MaxChain = 4
SPECIFICATION MeshSpec
INVARIANTS
  HandlerGuarded
  OneAnswer
  CountedAsAnswered
  Correlated
  CallHonest
