SPECIFICATION StoreHangsSpec
CONSTANTS
  Client = {}
  ChannelCap = 1
  SubCap = 1
  MaxEvents = 3
  QueueCap = 2
  BatchSize = 2
  SnapshotEvery = 2
INVARIANTS PipelineTypeOK Accounted FlushCoversStream
PROPERTIES RecordingNeverBlocks FlushReturns
CHECK_DEADLOCK FALSE
