SPECIFICATION Spec
CONSTANTS
  None = None
  Garbage = Garbage
  Clients = {c1, c2}
  Payloads <- SomePayloads
  Configurations <- SomeConfigurations
  AllowRequestProviders = TRUE
  LegacyCursors <- OldCursors
  RawPages <- SomePages
  Canonical <- Identities
  HostMatches <- Covers
  MaxPage = 3
  CursorTTL = 1
  MaxItems = 1
  MaxTime = 1
  MaxSearching = 1
SYMMETRY Alike
INVARIANTS SessionIsOneSearch CursorsAreRedeemable PagesHonourFilters
