SPECIFICATION Spec
CONSTANTS
  Actions = {"pause", "end", "notify"}
  EndHooks = {"works", "raises", "none"}
  FreezeOutcomes = {"lands", "fails", "lands_raising"}
  Others = {"operator", "supervisor"}
  Corruption = TRUE
  MaxCrossings = 3
  MaxOverrides = 3
  MaxStarts = 2
INVARIANT OneResponsePerEpisode
PROPERTIES OverrideNotUndone ResponsePauses OverrideRearms
