SPECIFICATION LiveSpec
CONSTANTS
  Kinds = {"tcp-client", "tcp-server", "stdin", "exec", "serial", "http-server", "file", "dir",
           "ws-client", "mqtt", "rest-poll", "pcap-replay", "udp", "dds"}
  MaxFrame = 1
  StreamSizes = {1, 2}
  ChannelFrames = 1
  MaxConns = 2
  FramesOn <- MCFramesOn
  MaxEnds = 1
  Hooks = {"h1", "h2"}
  HookShapes <- MCHookShapes
  HookConns = {"c1", "c2"}
  HookChannel = 1
  HookToken = TRUE
  HookMaxFrame = 2
  MaxLosses = 1
  FileMaxFrame = 2
  ReadChunk = 2
  FileSizes = {1, 2, 3}
  FileFrames = 2
  MaxRotations = 1
  Names = {"n1", "n2"}
  MaxSeen = 1
  MaxDrops <- MCDrops
  MaxLines = 2
  FeedMaxFrame = 1
  FeedSizes = {1, 2}
  RetryMax = 4
  MaxMessages = 2
  MaxOutages = 2
  MqttChannel = 6
  MaxPollErrors = 3
  Packets <- MCPackets
  MaxGap = 3
  MaxReplays = 4
  Published <- MCPublished
  DatagramMax = 5
  ReceiveBuffer = 2
  MaxPublished = 2
  MaxStrays = 1
CHECK_DEADLOCK FALSE
INVARIANTS  DeliveredInOrder RequestBoundary AnswerIsTrue
 
