\* Two devices and two deletions of one name, which may be registered anew, and
\* a second name. Who is online: two names, one of them with two tabs and no
\* request, or each with one tab and one request at a time.
CONSTANTS
    Users = {u1, u2}
    Threads = {t1, t2}
    Deleters = {d1, d2}
    MaxAccount = 3
    MaxToken = 3
    NoUser = NoUser
    Names = {"a", "b"}
    Nobody = "nobody"
    Conns = {1, 2, 3}
    NameOf <- MCNameOf
    Requests = {0}
SYMMETRY Interchangeable
CHECK_DEADLOCK FALSE
SPECIFICATION MCSpec
INVARIANTS TypeOK OrphansAreLate DotsTell
