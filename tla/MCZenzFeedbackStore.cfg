SPECIFICATION Spec
CONSTANTS
  key = key
  v = v
  Keys = {key}
  Values = {v}
  Classes = {"empty", "japanese_only", "sensitive_like"}
  Reasons = {"space_revert_zenz_to_mozc", "conversion_command_after_zenz", "hard_reject"}
  Thresholds = {0, 1, 2}
  InitialFiles <- Files
  MaxRecords = 4
  MaxWrites = 3
INVARIANT LookupsAgree
PROPERTY RewriteKeepsRecords
