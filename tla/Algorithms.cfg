SPECIFICATION Spec
INVARIANTS NumbersExact TextsUnambiguous ProfileExact
CHECK_DEADLOCK FALSE
