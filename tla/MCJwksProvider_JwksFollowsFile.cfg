\* Two valid file versions and an unreadable one
CONSTANTS
    v1 = v1
    v2 = v2
    NULL = NULL
    Versions <- MCVersions
SPECIFICATION Spec
PROPERTY JwksFollowsFile
\* After Close every goroutine ends and the component may stop
CHECK_DEADLOCK FALSE
