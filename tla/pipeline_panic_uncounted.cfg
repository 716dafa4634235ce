\* The order pkg/README.md shows: Recovery outside of Logger.
CONSTANTS
  Chains <- ReadmeOrder
  Allowed <- AdminsAndSellers
  Codes = {200, 401, 500}
  MaxChain = 2
SPECIFICATION MeshSpec
INVARIANT
  EveryRequestCounted
