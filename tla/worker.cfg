\* One plain slot and one TLS slot; time passes anywhere.
SPECIFICATION FairSpec
CONSTANTS
  HttpClients = 1
  HttpsClients = 1
  Conns = {c1, c2}
  NoConn = NoConn
  IdleTimeout = 1
  MaxPass = 2
  MaxSends = 1
  MaxWrites = 1
  Failures = {"accept", "thread", "select"}
INVARIANTS
  TypeOK
  AcceptNeverWaits
PROPERTIES
  SlotsSpec
  FaultsHaveCause
  TimeoutMeansIdle
  ReportedIsServed
  Admitted
