SPECIFICATION FairSpec
CONSTANTS
    r1 = r1
    r2 = r2
    Requests = {r1, r2}
    Ids = {1}
    Addresses = {1, 2}
    Reads = {"get_courses", "get_course", "get_categories", "get_category", "get_lessons_by_course", "get_lesson", "get_instructors", "get_instructor", "get_user_enrollments", "get_course_enrollments", "get_users", "get_user_profile"}
    Mutations = {"create_course", "update_course", "delete_course", "bulk_update_course_categories", "bulk_create_courses", "create_category", "update_category", "delete_category", "create_lesson", "update_lesson", "delete_lesson", "create_instructor", "update_instructor", "enroll_in_course", "concurrent_enroll", "transfer_enrollment", "unenroll", "update_enrollment", "create_user", "deactivate_user", "update_user_profile", "upload_avatar"}
    Seed <- OneOfEach
    RedisFails = {"get", "set", "clear"}
    Crashes = TRUE
PROPERTIES StaleEntriesExpire
