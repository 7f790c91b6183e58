SPECIFICATION MCSpec
CHECK_DEADLOCK FALSE
INVARIANTS
 RoutedAsDeclared
 PacketsWhole
 RequestsWhole
 HeadersAgree
 PlanAsIndented
 CommandsAgree
