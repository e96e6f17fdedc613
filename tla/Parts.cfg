SPECIFICATION PartsSpec
CONSTANTS
  Apps = {a1, a2}
  AppListeners = {l1}
  NULL = null
  LogLevels = {0, 2, 5}
  Calls <- MCCalls
  MaxSaid = 2
  MaxScopes = 2
  WideBits = 10
  NarrowBits = 8
  Symbols = {"1", "true", " ", ","}
  Delimiters <- MCDelimiters
  MaxLength = 4
  HeaderNames = {"Host", "Content-Type", "Content-Length", "content-length"}
  MaxHeaders = 2
  MaxBody = 5
  LengthBits = 2
SYMMETRY PartsSymmetry
INVARIANTS
  CalledIsRegistered PushDelivered StartedBeforeCalled
  OnceEach LineLevel AssertKept ScopesPaired
  ListsComplete WhileAdds
  ItoaExact FitsCache ReadsBack
  NothingSkipped MergeInverse
  LengthHonest
CHECK_DEADLOCK FALSE
