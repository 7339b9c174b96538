SPECIFICATION Spec
CONSTANTS
  gunKey = gunKey
  sharedKey = sharedKey
  someUser = someUser
  User = {gunKey, sharedKey, someUser}
  dkvsServiceNameMap <- ServiceNames
  Short <- Names
  Key <- Keys
  Name <- TheName
  Sharing = "shared"
  Value <- Values
  Fee = {0, 1}
  Offer <- Offers
  Payment <- Payments
  Grant <- Grants
  None = None
  MaxSeq = 3
  MaxCert = 1
  MaxNow = 1
INVARIANTS CheckedIsAccepted SubIsOfName ApprovedAsGiven
PROPERTIES PassesByAgreement
CHECK_DEADLOCK FALSE
