SPECIFICATION FairSpec
CONSTANTS
  session = session
  subscriber = subscriber
  slowSubscriber = slowSubscriber
  Clients <- OneSlow
  Legacy <- OneSession
  Fast <- FastClients
INVARIANTS NoLostInvalidation
PROPERTIES FastClientsRefetch DeliveryEnds
