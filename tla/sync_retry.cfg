SPECIFICATION FairSpec
CONSTANTS
  kioskA = kioskA
  kioskB = kioskB
  s1 = s1
  s2 = s2
  pay1 = pay1
  pay2 = pay2
  vch1 = vch1
  vch2 = vch2
  code1 = code1
  code2 = code2
  inv1 = inv1
  frame1 = frame1
  frmLocal = frmLocal
  booth1 = booth1
  r1 = r1
  r2 = r2
  Null = Null
  Devices = {kioskA}
  LocalIds = {s1, s2}
  PaymentIds = {pay1}
  VoucherCodes = {vch1, vch2}
  SessionCodes = {code1, code2}
  ProviderRefs = {inv1}
  Frames = {frame1}
  KioskFrames = {frmLocal}
  Booths = {booth1}
  Amounts = {1, 2}
  CameraLinked = {kioskA}
  Requests = {r1, r2}
  Payloads <- RetryPayloads
  InitialSessions <- NoSessions
  InitialVouchers <- FreeVouchers
  MAX_BULK_ITEMS = 3
  MaxPushes = 3
  MaxEdits = 0
PROPERTIES
  RetryChangesNothing
  PushAnswered
CHECK_DEADLOCK FALSE
