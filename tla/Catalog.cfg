SPECIFICATION Spec
CONSTANTS
    r1 = r1
    r2 = r2
    Requests = {r1, r2}
    Ops = {"create_category", "update_category", "delete_category", "create_course", "bulk_create_courses", "update_course", "delete_course", "bulk_update_course_categories", "create_lesson", "update_lesson", "delete_lesson", "update_instructor", "update_enrollment", "get_course_detailed", "get_instructor_dashboard"}
    Names = {0, 1, 2}
    Values = {0, 1}
    Seeds <- OneOrOther
SYMMETRY Interchangeable
INVARIANTS TypeOK OwnOrOvertaken ErrorLeavesNoRow DetailsAgree DashboardAgrees
PROPERTIES FieldsOfOthersKept CategoryLostForCause ErrorForCause KeepsContract
