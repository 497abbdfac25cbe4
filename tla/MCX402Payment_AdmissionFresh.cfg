CONSTANTS
  Requests = {r1, r2}
  Nonces = {n1, n2}
  Wallets = {w1}
  Amounts <- MCAmounts
  Price <- MCPrice
  MaxTime = 2
  PrivateKeyIsHex32 = TRUE
  RecipientEnvSet = FALSE
  SignatureExpiry = 1
  ClockSkew = 0
  NoHeader = NoHeader
  NotANumber = NotANumber
  Malformed = Malformed
  Garbage = Garbage
SPECIFICATION Spec
INVARIANT AdmissionFresh
SYMMETRY MCSymmetry
