CONSTANTS
  c1 = c1  c2 = c2  news = news  any = any
  Conns = {c1, c2}
  Channels = {news}
  Patterns = {any}
  Matches <- MatchAll
  BufferSize = 1
  MaxCommands = 4
  MaxMessages = 2
SPECIFICATION FairSpec
INVARIANTS AckBeforeMessages BrokerAgrees
PROPERTIES MessagesForwarded ForwarderStops
