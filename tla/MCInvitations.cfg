SPECIFICATION MCSpec
CONSTANTS
  Guests = {g1, g2}
  Cards = {a}
  Hosted = {h}
  HostUses = 1
  Packages = {p1, p2}
  None = None
  MaxAge = 2
  MaxFaults = 1
INVARIANTS AdmittedTruthful IntroducedOnce SpentOnce ConnectedWithClaimant
SYMMETRY Interchanged
