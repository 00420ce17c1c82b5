SPECIFICATION Spec
CONSTANTS
  Absent = Absent
  StoreMax = 8
  LegacyTier = 2
  AtomMax = 60
  OfficialProvider <- MCOfficial
  Accounts <- MCAccounts
  Listing <- MCListing
  Models <- MCModels
  Document <- MCDocument
  Menu <- MCHollowMenu
  MaxRequest = 3
  Usages <- MCUsages
CHECK_DEADLOCK FALSE
INVARIANT InstalledPrices
