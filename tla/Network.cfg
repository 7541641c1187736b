CONSTANTS
  b1 = b1
  b2 = b2
  root = root
  a1 = a1
  p1 = p1
  p2 = p2
  g1 = g1
  g2 = g2
  u1 = u1
  bronze = bronze
  silver = silver
  nothing = nothing
  k0 = k0
  k1 = k1
  k2 = k2
  Procs = {p1, p2}
  MaxFaults = 1
  BrandIds = {b1, b2}
  Admins = {root, a1}
  SystemAdmin = root
  AdminOf <- MCAdminOf
  DocumentTypes = {"license", "menu"}
  RequiredTypes = {"license"}
  MaxDocuments = 2
  MaxCafes = 1
  MaxPictures = 2
  GuestIds = {g1, g2}
  Tiers = {bronze, silver}
  DefaultTier = bronze
  Phones = {"phone", "other"}
  WrittenPhones = {"phone", "8phone", "other"}
  normalizeGuestPhone <- MCNormalized
  Cards = {"card"}
  Clients = {u1}
  ClientPhone <- MCClientPhone
  Nothing = nothing
  MaxCodes = 2
  Categories = {"drinks", "food"}
  Items = {"tea"}
  Prices = {1, 2}
  MenuNames = {"", "name"}
  MenuDocuments <- MCDocuments
  KeycloakIds = {k0, k1, k2}
  Emails = {"root@", "x@", "y@"}
  CafeBrand <- MCCafeBrand
  Root = k0
  MaxRows = 3
SPECIFICATION NetworkSpec
INVARIANTS
  NetworkTypeOK
  NetworkIsVerified
  FilesMatchRows
  GuestTierIsActive
  ExportRestoresTheMenu
  AccountsAgree
PROPERTIES
  RefusalSticks
CHECK_DEADLOCK FALSE
