\* One processor and one crawler behind a proxy with two addresses; one weapon, whose
\* damage type and slot have the weapon's own hash.
SPECIFICATION FairSpec
CONSTANTS
  gun = gun
  Client = {p1, c1}
  Writer = {p1}
  N = 2
  Burst = 1
  Weapon = {gun}
  Key = {gun, zero}
  ZeroKey = zero
  DamageOf <- MCDamageOf
  SlotOf <- MCSlotOf
  Exists <- MCExists
  None = None
INVARIANTS
  RowsTruthful
  BalancedPerDomain
PROPERTY WeaponWritesEnd
