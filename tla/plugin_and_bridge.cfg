SPECIFICATION FairSpec
CONSTANTS
  Subjects = {"cache_sensors", "sensors_linters", "codec_numbers", "codec_tokens",
              "tsconfig_lookup", "wildcard_analyses", "lcov_hits", "lcov_branches",
              "bridge_analysis", "linter_rules", "linter_messages", "measures_script",
              "measures_symbols", "measures_markup", "embedded_html",
              "embedded_yaml", "aws_functions"}
  Absent = Absent
  None = None
  Torn = Torn
  Null = Null
INVARIANTS
  ExecutionsKeepApart
  
  
  
  

  
CHECK_DEADLOCK FALSE
