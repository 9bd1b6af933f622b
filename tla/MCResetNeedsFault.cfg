SPECIFICATION CallableStreamSpec
CONSTANT MaxStreams = 1
INVARIANT ResetNeedsFault
