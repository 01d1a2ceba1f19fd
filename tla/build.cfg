SPECIFICATION AloneSpec
CONSTANTS
    s1 = s1
    s2 = s2
    s3 = s3
    a = a
    b = b
    Submits = {s1, s2, s3}
    Dirs = {a, b}
    DirOf <- TwiceAndOther
    MaxActive = 3
    None = None
INVARIANTS
    TypeOK
    BinaryOfItsScript
    AloneFindsItsBuild
PROPERTIES
    AloneBuildsOwn
CHECK_DEADLOCK FALSE
