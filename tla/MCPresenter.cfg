\* Two frames with latency one: the second waits for the first, and may meet a
\* swap chain that has to be replaced; an event count of two lets the application
\* run one Present ahead.
SPECIFICATION FairSpec
CONSTANTS
  MaxFrames = 2
  Latency = 1
  Events = 2
  Failures = {"DEVICE_LOST", "OUT_OF_DATE", "SUBOPTIMAL", "NOT_READY"}
INVARIANTS
  TypeOK
  NoEarlyFrame
  SwapchainSafe
  EventBalance
PROPERTIES
  FramesInOrder
  CallsReturn
\* The application may stop after a release, and a lost device leaves threads
\* asleep on m_surfaceCond or on the frame latency signal.
CHECK_DEADLOCK FALSE
