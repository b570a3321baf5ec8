SPECIFICATION Spec
CONSTANTS
    Owner = owner
    Watchers = {watcher}
    Builds = {"c11"}
    Functions = {"given"}
    Failures = {}
INVARIANT JoinMeansDone
