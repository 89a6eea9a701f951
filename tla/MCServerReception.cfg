SPECIFICATION FairSpec
CONSTANTS
  Capacity = 2
  Datagram = {d1, d2, short}
  ShortCoordinates = {short}
  NoDataLimit = 2
  Null = Null
INVARIANTS
  MutexProtectsBuffer
  ReadFindsDatagram
PROPERTIES
  ImplementsFifo
  BufferedIsHandled
  DownloadComesBack
CHECK_DEADLOCK FALSE
