\* Buffs, effects and their timer while ids change, mobs come and go, lists and
\* single records arrive.
SPECIFICATION Spec
CONSTANTS
  root = root
  ward = ward
  Spells = {root, ward}
  SelfOnly = {ward}
  Lasts <- RootLasts
  Ids = {1, 2}
  Chars = {"me"}
  MaxTicks = 1
  MaxPackets = 5
INVARIANTS PanelOK OneEffect
PROPERTIES OwnCastsStay ListIsPanel BuffsRunOut
CHECK_DEADLOCK FALSE
