SPECIFICATION Spec
CONSTANTS
  Entities = {idea, plan}
  TypeOf <- Types
  Sources = {note, diary}
  LevelOf <- Evidence
  Kinds = {"decision_for"}
  Callers = {c1, c2}
  TopLevel = 1
  MaxSessions = 2
  idea = idea
  plan = plan
  note = note
  diary = diary
  c1 = c1
  c2 = c2
SYMMETRY TwoCallers
CHECK_DEADLOCK FALSE
INVARIANT PalaceIsSound
PROPERTY RulesAreKept
