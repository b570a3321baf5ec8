SPECIFICATION Spec
CONSTANTS
    Hosts = {"h1", "h2"}
    MaxFds = 2
    Topics = {{"serviceAddress", "ipv4", "ipv6"}, {"skip_syslog", "term_echo", "log_level"}, {"domainNumber", "oneStep", "serviceAddress"}, {"oneStepRx", "oneStepTx", "ifName"}}
    MaxArgs = 4
    MaxLines = 3
CHECK_DEADLOCK FALSE
INVARIANTS
    TypeOK
    CommandLineWins
    LogFollowsOptions
    NothingLeaks
    FamiliesAgree
