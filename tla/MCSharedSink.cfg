CONSTANTS
  f1 = f1  f2 = f2  m1 = m1  m2 = m2  r1 = r1  r2 = r2  c1 = c1  c2 = c2  k1 = k1
  Files <- MCFiles
  Manifests <- MCManifests
  Revisions <- MCRevisions
  Certs <- MCCerts
  Keys <- MCKeys
  RevisionText <- MCRevisionText
  CertOn <- MCCertOn
  Packets <- MCPackets
  Slots = {s1, s2, s3}
  NoPacket = NoPacket
  MaxQueue = 2
  TakeKeys = TRUE
  MaxForeign = 1
  InitDb = {}
SPECIFICATION Spec
INVARIANT
  SinkSuperset
