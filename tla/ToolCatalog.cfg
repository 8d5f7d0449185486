SPECIFICATION FairSpec
CONSTANTS
  alice = alice
  bob = bob
  loop = loop
  query = query
  app = app
  Clients <- TwoClients
  EventLoop = loop
  Ops <- OneOp
  Rejected <- NoOps
  AppTools <- OneAppTool
  MaxSchema = 2
INVARIANTS CallsKeepTheirOperation EveryChangeAnnounced
PROPERTIES SchemaNeverGoesBack AtomicSpec OperationsApply RequestsAnswered
