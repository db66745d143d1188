SPECIFICATION FairSpec
CONSTANTS
  Kind <- TwoPeers
  From <- Senders
  Users = {"ann", "bob"}
  Nobody = "nobody"
  MaxProcessed = 2
  MaxBatch = 2
  MaxTrouble = 2
INVARIANTS
  AnsweredOnce
  NothingSkipped
  RepliesPrivate
  LoopInv
PROPERTIES
  StopEnds
