SPECIFICATION Spec
CONSTANTS
  Wishes <- Windows
  Clients <- All
  Ram <- ThirtyTwo
  Gammas = {"uncorrected", "mac"}
  builtinGamma <- Tables
  Colours = {"red"}
  Entries = {1, 200}
  Heights = {1, 2}
  Places <- Tops
  HostRefuses = TRUE
  HookTorn = FALSE
INVARIANT FrontFits
