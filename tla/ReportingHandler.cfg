CONSTANTS
  Threads = {t1, t2, t3}
  Callbacks = {c1, c2}
  NoCallback = NoCallback
  Nobody = Nobody
SPECIFICATION HandlerSpec
INVARIANTS
  OneCallAtATime
  ReplacedCallbackIsOver
PROPERTIES
  SomeoneGetsIn
