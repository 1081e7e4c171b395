SPECIFICATION LibraryAndTextSpec
CONSTANTS
  Subjects = {"cdk_options", "cdk_names", "cdk_storage", "cdk_domain",
              "cdk_instance", "cdk_interfaces", "cdk_bucket", "cdk_exposure",
              "cdk_tls", "cdk_listeners", "cdk_balancers",
              "network_rules", "iam_policies", "options_library", "options_values", "options_uses",
              "scan_forms", "scan_queries", "scan_uploads", "scan_imports",
              "scan_calls", "express_apps", "express_routes", "message_listeners", "assert_certain",
              "assert_compare",
              "rules_anchors", "rules_groups", "rules_reluctant", "rules_concise",
              "rules_unicode", "rules_location", "regex_groups", "regex_access", "regex_references",
              "regex_state", "complexity_visit", "complexity_parts",
              "complexity_sources", "character_class", "commented_groups",
              "commented_texts", "layout_rules", "unused_names", "unused_imports",
              "imports_kept", "imports_parse"}
INVARIANTS
  CallsAreJudgedByTheirValues
  
  
  
