SPECIFICATION FairSpec
CONSTANTS
  be1 = be1
  be2 = be2
  grant1 = grant1
  grant2 = grant2
  tenant1 = tenant1
  Codes <- TwoCodes
  SsoCodes <- TwoGrants
  Tenants = {tenant1}
  Handlers = {h1, h2}
  MaxAuthorize = 2
  Null = Null
INVARIANTS
  TypeOK
  RowHasGrant
  UniqueTenants
  AnsweredIsBound
  VerifiedWasApproved
  IInv
PROPERTIES
  ImplementsPromise
  Reconnects
CHECK_DEADLOCK FALSE
