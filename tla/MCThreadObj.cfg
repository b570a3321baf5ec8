SPECIFICATION Spec
CONSTANTS
    Owner = owner
    Watchers = {watcher}
    Builds = {"c11", "pthread"}
    Functions = {"given", "null"}
    Failures = {"create", "join"}
INVARIANTS
    TypeOK
    JoinedOnce
    RetValSound
    JoinSynchronises
