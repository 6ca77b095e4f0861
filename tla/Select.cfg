SPECIFICATION Spec
CONSTANTS
    Null = Null
    Column = {"g", "v"}
    Query <- MCQuery
    Input <- MCInput
    Avoided = {"IS-NULL-in-HAVING", "NULL-as-a-bound-of-BETWEEN", "NULL-among-members", "NULL-in-no-members", "groups-of-DISTINCT-ordered-by-what-it-drops", "ordinal-beyond-the-columns", "literal-beside-aggregates-of-nothing"}
INVARIANTS ConditionsAreKleene AnswerHasTheRows PageIsRanked
CHECK_DEADLOCK FALSE
