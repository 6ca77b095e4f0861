SPECIFICATION Spec
CONSTANTS
    N = 3
    Null = Null
    Bad = Bad
    NoPredicate = NoPredicate
    Row <- MCRow
    Query <- AllQueries
    Content <- MCContent
    Avoided = {"ON-about-the-joined-table-alone", "ON-about-the-first-table-no-WHERE", "name-of-an-earlier-table-pushed-on"}
INVARIANTS PlanIsEquivalent NothingIsMadeUp
CHECK_DEADLOCK FALSE
