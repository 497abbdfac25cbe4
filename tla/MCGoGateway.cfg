CONSTANTS
  Handlers = {h1, h2}
  Nonces = {n1, n2}
  NoHeader = NoHeader
  ValidSig = ValidSig
  Malformed = Malformed
  MaxServed = 2
SPECIFICATION Spec
INVARIANT ReplayRejected
