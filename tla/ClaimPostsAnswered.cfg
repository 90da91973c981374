\* Two posts of one gallery, and the connection the program gives its worker.
SPECIFICATION ForumFairSpec
CONSTANTS
    Posts = {1, 2}
    MaxBodies = 2
    Modes = {"whole"}
    Policies = {"skip_alert"}
    OwnConnection = FALSE
PROPERTY
    PostsAnswered
\* Every post may have been answered.
CHECK_DEADLOCK FALSE
