\* Two requests against the stream.  A driver may really stop: a second
\* /stream/stop leaves the mutex locked.
CHECK_DEADLOCK FALSE
SPECIFICATION WorkingSpec
CONSTANTS
  Handlers = {h1, h2}
  Streamer = Streamer
  Fds = {3, 4}
  NoFd = NoFd
  Lost = Lost
  Camera = Camera
  Configs = {k1}
INVARIANTS
  DeviceReleased
  FramesMapped
PROPERTIES
  ControlSpec
  StopReturns
  Streams
