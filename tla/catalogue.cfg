SPECIFICATION Spec
CONSTANTS
  asg1 = asg1
  asg2 = asg2
  booth1 = booth1
  booth2 = booth2
  camp1 = camp1
  camp2 = camp2
  frame1 = frame1
  frame2 = frame2
  vch1 = vch1
  Assignments <- TwoAssignments
  Booths <- TwoBooths
  Campaigns <- TwoCampaigns
  Frames <- TwoFrames
  Vouchers <- OneVoucher
  Times = {1, 2}
  Windows <- MCWindows
  Catalogues <- MCCatalogues
  MaxEdits = 2
  Null = Null
INVARIANTS
  TypeOK
  QuietAnswerRight
  OvertakenOnce
  IInv
CHECK_DEADLOCK FALSE
