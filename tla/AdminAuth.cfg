SPECIFICATION Spec
CONSTANTS
  Browsers = {b1, b2}
  Passwords = {w1, w2}
  TooLong = toolong
  Nothing = nothing
  Lifetime = 3
  Stall = 1
INVARIANTS
  TypeOK
  OldTokensEnd
  EffectsJustified
