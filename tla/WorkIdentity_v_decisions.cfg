\* One listing, two works and the user's decision to keep it apart from one of them.
SPECIFICATION IdentitySpec
CONSTANTS
  Null = Null
  MaxWorks = 3
  Listings = {l1}
  MaxId = 2
  MaxMappings = 1
  MaxRestores = 2
CHECK_DEADLOCK FALSE
PROPERTIES DecisionsWin
