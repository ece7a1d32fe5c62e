SPECIFICATION Spec
INVARIANTS ConditionRight RowsOnce RowsAsked StoredOrder EachRowOnce ColumnsRight
CHECK_DEADLOCK FALSE
