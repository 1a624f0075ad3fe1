\* The main thread and the audio thread.
SPECIFICATION Spec
CONSTANTS
  main = main  audio = audio
  Threads = {main, audio}
INVARIANT CrashesAreCaught
CHECK_DEADLOCK FALSE
