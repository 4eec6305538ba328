CONSTANTS
  e0 = e0  e1 = e1  kc = kc  ks = ks  ko = ko  c1 = c1  c2 = c2  r1 = r1  r2 = r2  f1 = f1  f2 = f2
  Epochs = {e0, e1}
  Keys = {kc, ks, ko}
  Certs = {c1, c2}
  Revisions = {r1, r2}
  Contents = {f1, f2}
  NoEpoch = NoEpoch
  Zero = e0
  ServerKey = ks
  KeyOf <- MCKeyOf
  CertOn <- MCCertOn
  Names <- MCNames
  Configs <- AllConfigs
  MaxRead = 2
  MaxFaults = 1
  MaxForeign = 2
SPECIFICATION Spec
INVARIANTS
  DatabaseClosed
  NoProtocolError
  GoodbyeMeansDone
  PostState
PROPERTIES
  EpochsFirst
  Ends
