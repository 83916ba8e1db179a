SPECIFICATION FairSpec
CONSTANTS
  be1 = be1
  be2 = be2
  grant1 = grant1
  grant2 = grant2
  tenant1 = tenant1
  Codes <- OneCode
  SsoCodes <- OneGrant
  Tenants = {tenant1}
  Handlers = {h1, h2}
  MaxAuthorize = 1
  Null = Null
PROPERTIES
  VerifiedInTheEnd
CHECK_DEADLOCK FALSE
