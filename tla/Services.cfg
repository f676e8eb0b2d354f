\* Seven parts of the server, one at a time, with two requests and a crash.
CONSTANTS
  r1 = r1
  r2 = r2
  newCo = newCo
  oldCo = oldCo
  h1 = h1
  s1 = s1
  i1 = i1
  founder = founder
  staff = staff
  temp = temp
  admin = admin
  k1 = k1
  k2 = k2
  tn1 = tn1
  tn2 = tn2
  None = None
  Requests <- MCTwoRequests
  MaxCrashes = 1
  Policies <- MCPolicies
  Services <- MCServicesUsed
  Countries <- MCCountries
  VerifiedCountries <- MCVerified
  Companies <- MCCompanies
  CountryOf <- MCCountryOf
  StageOf <- MCStageOf
  Histories <- MCHistories
  Sources <- MCSources
  PayrollInputs <- MCInputs
  Staff <- MCStaff
  Founder = founder
  ClientAdmins <- MCAdmins
  OfferedRoles <- MCOfferedRoles
  AskedRoles <- MCAskedRoles
  Invitations <- MCInvitations
  MaxStaff = 2
  Keys <- MCKeys
  Limit = 1
  Window = 2
  MaxKeys = 1
  MaxTime = 4
  MaxCalls = 2
  Tenants <- MCTenants
  Rotations <- MCRotations
  MaxTokens = 3
  Organisations <- MCTenants
  Contents <- MCContents
  MaxForgets = 1
  BankIds <- MCBankIds
  LedgerIds <- MCLedgerIds
  Lines <- MCLines
SPECIFICATION FairSpec
INVARIANTS
  StepsAreEarned
  FirmStaysWithinItsMandate
  ConnectionKeepsWorking
  MatchingIsOrderFree
  StaffFitsThePlan
  LimitsAreKept
  PostsAreOnRecord
PROPERTIES
  ReviewsAreFinal
  ReviewsAreApplied
CHECK_DEADLOCK FALSE
