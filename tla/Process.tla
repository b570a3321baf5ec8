------------------------------ MODULE Process ------------------------------
(***************************************************************************)
(* The life of a csptp program, client or service, from main to its exit   *)
(* (src/src/cmdl.c, cmdl_client.c, cmdl_service.c, log.c, main_client.c,   *)
(* main_service.c): it reads its command line, maybe a configuration file, *)
(* sets the log, allocates the objects it works with and runs until        *)
(* SIGINT. Any allocation and any system call on the way may fail.         *)
(*                                                                         *)
(* The command line and the file are chosen as they are read: each item    *)
(* that getopt gives and each line is a step.                              *)
(***************************************************************************)
EXTENDS Options, Sock

CONSTANTS
    Topics,    \* bound of the model: the sets of options one execution mentions
    MaxArgs,   \* bound of the model: options on a command line
    MaxLines   \* bound of the model: lines of a configuration file

ASSUME ProcessAssumption ==
    /\ Topics # {}
    /\ MaxArgs \in Nat
    /\ MaxLines \in Nat

VARIABLES
    prog,     \* "client" or "service"
    topic,    \* keys of the options that this execution mentions
    phase,    \* what main is doing
    read,     \* options, then lines, read so far
    opt,      \* struct opt_t
    given,    \* history: of each option the first text of either source, as a value
    log,      \* log_level, useEcho, useSysLog, and whether syslog is open
    opts,     \* struct client_opt or service_opt
    type,     \* client_state_t.type
    st,       \* the objects of the state structure that are not NULL
    addr,     \* its address
    rxAddr,   \* its RxAddress; the service has none
    sock,     \* its socket
    fds,      \* open file descriptors
    heap      \* of each block, how often it is allocated

optVars == <<opt, given, read>>
stVars  == <<type, st, addr, rxAddr, sock>>
vars    == <<prog, topic, phase, optVars, log, opts, stVars, fds, heap>>

-----------------------------------------------------------------------------
(* The programs' options.                                                  *)

LevelNames == [i \in 0..7 |-> <<"LOG_EMERG", "LOG_ALERT", "LOG_CRIT", "LOG_ERR",
                                "LOG_WARNING", "LOG_NOTICE", "LOG_INFO", "LOG_DEBUG">>[i + 1]]
LogWarning == 4
LogDebug   == 7

BaseOptions ==
    <<KeyBool("skip_syslog", "y", FALSE),
      KeyBool("term_echo", "e", FALSE),
      KeyStr("ifName", "i", Word("eth0")),
      KeyEnum("log_level", "l", LogWarning, LevelNames, 0, 7),
      KeyStr(NoKey, "f", Empty)>>

ClientOptions ==
    <<KeyBool("oneStep", "t", FALSE),
      KeyBool("reqStatTLV", "s", FALSE),
      KeyBool("reqAltTLV", "a", FALSE),
      KeyStr("serviceAddress", "d", Empty),
      KeyBool("ipv4", "4", FALSE),
      KeyBool("ipv6", "6", FALSE),
      KeyInt("domainNumber", "n", 128, 128, 239)>>

ServiceOptions ==
    <<KeyInt("oneStepRx", "r", 2, 1, 2),
      KeyInt("oneStepTx", "t", 2, 1, 2),
      KeyInt("priority1", NoKey, 128, 0, 255),
      KeyInt("priority2", NoKey, 128, 0, 255),
      KeyInt("clockClass", NoKey, 248, 0, 255),
      KeyInt("clockAccuracy", NoKey, 254, 0, 254),
      KeyInt("offsetScaledLogVariance", NoKey, 65535, 0, 65535),
      KeyBool("ipv6", "6", FALSE)>>

PreOptions == <<":", "h", "v", "?">>

Table(p) == AddRecords(AddRecords(OptAlloc, BaseOptions),
                       IF p = "client" THEN ClientOptions ELSE ServiceOptions)

\* No program has two options of one name (the check that cmdl.c:89 leaves to
\* developers).
ASSUME OptionsDistinct ==
    \A p \in {"client", "service"} : OptDuplicates(Table(p), PreOptions, <<>>)

\* The texts that are tried for an option: right ones and wrong ones.
HostTexts == [form : Protocols \union {"name"}, host : Hosts]
Texts(r) ==
    CASE r.type = "BOOL" -> {Number(0), Number(1), Word("on"), Word("false")}
      [] r.type = "INT"  -> {Number(r.min), Number(r.max + 1)}
      [] r.type = "ENUM" -> {Number(LogDebug), Word("LOG_ERR"), Number(8)}
      [] r.key = "serviceAddress" -> HostTexts \union {Empty}
      [] OTHER -> {Word("text"), Empty}

-----------------------------------------------------------------------------
(* Memory. A block is named for the object it holds, a duplicated string   *)
(* for the option it is the value of.                                      *)

OptBlocks  == {"opt", "baseRecords", "records", "getoptBuff"}
Strings    == {"ifName", "serviceAddress"}
CfgBlocks  == {"cfg", "line"}
AddrBlocks == {"address", "RxAddress"}
OtherBlocks == {"addressStr", "socket", "message", "buffer", "bufferData",
                "tmpTs", "t1", "r1", "t2", "r2", "rxTs"}
Blocks     == OptBlocks \union Strings \union CfgBlocks \union AddrBlocks \union OtherBlocks

Malloc(h, blocks)  == [b \in Blocks |-> IF b \in blocks THEN h[b] + 1 ELSE h[b]]
Release(h, blocks) == [b \in Blocks |-> IF b \in blocks THEN h[b] - 1 ELSE h[b]]

OwnedStrings(o) == {o.recs[i].key : i \in {j \in DOMAIN o.vals : o.vals[j].isAlloc}}

\* opt->free.
FreeOpt(h, o) == Release(h, OptBlocks \union OwnedStrings(o))

-----------------------------------------------------------------------------
(* The command line.                                                       *)

\* cmd_base as far as getopt. Four allocations may fail; then what there is
\* is freed.
CmdBase ==
    /\ phase = "main"
    /\ \/ phase' = "failure" /\ UNCHANGED <<opt, heap>>
       \/ /\ phase' = "args"
          /\ opt' = Table(prog)
          /\ heap' = Malloc(heap, OptBlocks)
    /\ UNCHANGED <<prog, topic, read, given, log, opts, stVars, fds>>

\* The end of main before there are objects; the log stays as it is.
Leave(code) ==
    /\ phase' = code
    /\ heap' = FreeOpt(heap, opt)
    /\ UNCHANGED <<prog, topic, optVars, log, opts, stVars, fds>>

\* -h, -v and -?.
ArgMessage == phase = "args" /\ Leave("success")

\* The options this execution mentions. The file's name is always one.
Mentioned == {r \in ToSet(opt.recs) : r.key \in topic \union {NoKey}}

\* Only the first mention that has a value counts; it has one.
Mention(source, r, values) ==
    IF given[source][r.key] # <<>> \/ values = {} THEN given
    ELSE [given EXCEPT ![source][r.key] = <<CHOOSE x \in values : TRUE>>]

\* An option and its argument, if getopt gives it one.
ArgOption ==
    /\ phase = "args" /\ read < MaxArgs
    /\ \E r \in {x \in Mentioned : IsSkey(opt, x.sKey)} :
       \E s \in IF [o |-> r.sKey, arg |-> TRUE] \in Getopt(opt) THEN Texts(r) ELSE {Null} :
         LET p == ParseSkey(opt, r.sKey, s, {"BOOL_DEF"})
         IN  /\ p.ok
             /\ opt' = p.opt
             /\ given' = Mention("args", r, IF r.type = "BOOL" THEN {~r.def} ELSE Values(r, s))
    /\ read' = read + 1
    /\ UNCHANGED <<prog, topic, phase, log, opts, stVars, fds, heap>>

\* An option that is unknown, has no argument, or has a wrong one.
ArgWrong == phase = "args" /\ Leave("failure")

\* The mutant does not close what it opened.
SetLogOpens(l, o) ==
    LET useSysLog == ~GetValSkey(o, "y")
    IN  [level |-> GetValSkey(o, "l"), echo |-> GetValSkey(o, "e"), sys |-> useSysLog,
         open |-> l.open \/ useSysLog]

\* setLog, from _setLog. Records of type ENUM keep the level in range.
SetLog(l, o) ==
    LET useSysLog == ~GetValSkey(o, "y")
    IN  [level |-> GetValSkey(o, "l"), echo |-> GetValSkey(o, "e"), sys |-> useSysLog,
         open |-> IF useSysLog = l.sys THEN l.open ELSE useSysLog]

ArgsEnd ==
    /\ phase = "args"
    /\ log' = SetLog(log, opt)
    /\ phase' = IF GetValSkey(opt, "f") = Empty THEN "take" ELSE "open"
    /\ UNCHANGED <<prog, topic, optVars, opts, stVars, fds, heap>>

-----------------------------------------------------------------------------
(* The configuration file.                                                 *)

\* cfg_alloc and fopen. The result of cfg_alloc is used unchecked.
OpenFile ==
    /\ phase = "open"
    /\ \/ phase' = "crashed" /\ UNCHANGED <<fds, heap>>
       \/ phase' = "failure" /\ heap' = FreeOpt(heap, opt) /\ UNCHANGED fds
       \/ /\ phase' = "lines"
          /\ heap' = Malloc(heap, CfgBlocks)
          /\ fds' = Open(fds, [kind |-> "file"])
    /\ read' = 0
    /\ UNCHANGED <<prog, topic, opt, given, log, opts, stVars>>

Lines == {Blank, Section, Broken, Pair("unknown", Number(1), FALSE)}
           \union UNION {{Pair(r.key, s, q) : s \in Texts(r) \ {Empty}, q \in BOOLEAN} : r \in Mentioned}

CloseFile == fds' = Close(fds, CHOOSE n \in Fds : fds[n].kind = "file")

\* One line. The first that is wrong is the end.
Line ==
    /\ phase = "lines" /\ read < MaxLines
    /\ \E line \in Lines, dup \in BOOLEAN :
         LET p == ParseLine(opt, line, dup)
             i == IF line.kind = "pair" THEN ByKey(opt, line.key) ELSE 0
         IN  IF p.ok
             THEN /\ opt' = p.opt
                  /\ heap' = Malloc(heap, OwnedStrings(p.opt) \ OwnedStrings(opt))
                  /\ given' = IF i = 0 THEN given
                              ELSE Mention("file", opt.recs[i], Values(opt.recs[i], LineText(opt, line)))
                  /\ UNCHANGED <<phase, fds>>
             ELSE /\ phase' = "failure"
                  /\ heap' = Release(FreeOpt(heap, opt), CfgBlocks)
                  /\ CloseFile
                  /\ UNCHANGED <<opt, given>>
    /\ read' = read + 1
    /\ UNCHANGED <<prog, topic, log, opts, stVars>>

LinesEnd ==
    /\ phase = "lines"
    /\ log' = SetLog(log, opt)
    /\ phase' = "take"
    /\ heap' = Release(heap, CfgBlocks)
    /\ CloseFile
    /\ UNCHANGED <<prog, topic, optVars, opts, stVars>>

-----------------------------------------------------------------------------
(* From the options object to the structure main uses.                     *)

\* A string keeps its place: one that the object owns goes with it.
Taken(o) == [text |-> GetValSkey(opt, o), freed |-> OwnedSkey(opt, o)]

Take(structure) ==
    /\ opts' = structure
    /\ opt' = OptAlloc
    /\ phase' = "alloc"
    /\ heap' = FreeOpt(heap, opt)
    /\ UNCHANGED <<prog, topic, given, read, log, stVars, fds>>

\* The end of cmd_client.
TakeClient ==
    /\ phase = "take" /\ prog = "client"
    /\ LET h4 == GetValSkey(opt, "4")
           h6 == GetValSkey(opt, "6")
       IN  IF h4 /\ h6 THEN Leave("failure")
           ELSE Take([type |-> IF h4 THEN "UDP_IPv4" ELSE IF h6 THEN "UDP_IPv6" ELSE "Invalid_PROTO",
                      ifName |-> Taken("i"),
                      useTwoSteps |-> ~GetValSkey(opt, "t"),
                      useCSPTPstatus |-> GetValSkey(opt, "s"),
                      useAltTimeScale |-> GetValSkey(opt, "a"),
                      ip |-> Taken("d"),
                      domainNumber |-> GetValSkey(opt, "n")])

\* The end of cmd_service.
TakeService ==
    /\ phase = "take" /\ prog = "service"
    /\ Take([type |-> IF GetValSkey(opt, "6") THEN "UDP_IPv6" ELSE "UDP_IPv4",
             ifName |-> Taken("i"),
             useRxTwoSteps |-> GetValSkey(opt, "r") = 2,
             useTxTwoSteps |-> GetValSkey(opt, "t") = 2])

-----------------------------------------------------------------------------
(* The objects, and the end.                                               *)

Stages == IF prog = "client"
          THEN <<"address", "RxAddress", "socket", "message", "buffer", "tmpTs", "t1", "r1", "t2", "r2">>
          ELSE <<"address", "socket", "message", "rxTs", "t2", "buffer">>

\* The object that allocObjs is about to allocate.
NextObject == Stages[Cardinality(st) + 1]

\* The mutant frees a buffer object and not its octets.
HeldWithoutData(objs) == objs \union {b \in {"addressStr"} : "address" \in objs /\ addr.str}

\* The blocks of these objects.
Held(objs) == objs \union {b \in {"addressStr"} : "address" \in objs /\ addr.str}
                   \union {b \in {"bufferData"} : "buffer" \in objs}

\* ALLOC: a NULL ends allocObjs.
AllocFails ==
    /\ phase = "alloc"
    /\ phase' = "clean"
    /\ UNCHANGED <<prog, topic, optVars, log, opts, stVars, fds, heap>>

Allocated ==
    /\ st' = st \union {NextObject}
    /\ phase' = IF Cardinality(st') = Len(Stages) THEN "signal" ELSE "alloc"
    /\ UNCHANGED <<prog, topic, optVars, log, opts>>

\* client_main_create_address. A string that was freed has any contents.
\* The message of level LOG_DEBUG asks for the address's printed form.
AllocAddress ==
    /\ phase = "alloc" /\ prog = "client" /\ NextObject = "address"
    /\ opts.domainNumber \in 128..239
    /\ \E text \in IF opts.ip.freed THEN HostTexts ELSE {opts.ip.text} \ {Null, Empty} :
       \E lookup \in Lookups(opts.type), str \in BOOLEAN :
         LET found == AddressStringToBinary(text, opts.type, lookup)
             a     == SetIP(AddrAlloc(found.type), found.type, found.host).addr
         IN  /\ found.ok
             /\ type' = found.type
             /\ addr' = IF log.level = LogDebug /\ str THEN GetIPStr(a, a.type) ELSE a
             /\ heap' = Malloc(heap, {"address"} \union {b \in {"addressStr"} : addr'.str})
    /\ Allocated
    /\ UNCHANGED <<rxAddr, sock, fds>>

AllocRxAddress ==
    /\ phase = "alloc" /\ NextObject = "RxAddress"
    /\ rxAddr' = AddrAlloc(type)
    /\ heap' = Malloc(heap, {"RxAddress"})
    /\ Allocated
    /\ UNCHANGED <<type, addr, sock, fds>>

AllocServiceAddress ==
    /\ phase = "alloc" /\ prog = "service" /\ NextObject = "address"
    /\ addr' = AddrAlloc(opts.type)
    /\ heap' = Malloc(heap, {"address"})
    /\ Allocated
    /\ UNCHANGED <<type, rxAddr, sock, fds>>

\* client_main_create_socket and service_main_create_socket.
AllocSocket ==
    /\ phase = "alloc" /\ NextObject = "socket"
    /\ \E calls \in 0..3 :
         LET r == IF prog = "client" THEN SockInit(SockAlloc, type, fds, calls)
                  ELSE SockInitSrv(SockAlloc, addr, fds, calls)
         IN  /\ r.ok
             /\ sock' = r.sock
             /\ fds' = r.fds
    /\ heap' = Malloc(heap, {"socket"})
    /\ Allocated
    /\ UNCHANGED <<type, addr, rxAddr>>

AllocObject ==
    /\ phase = "alloc" /\ NextObject \notin {"address", "RxAddress", "socket"}
    /\ heap' = Malloc(heap, {NextObject} \union {b \in {"bufferData"} : NextObject = "buffer"})
    /\ Allocated
    /\ UNCHANGED <<type, addr, rxAddr, sock, fds>>

\* signal.
Capture ==
    /\ phase = "signal"
    /\ phase' \in {"run", "clean"}
    /\ UNCHANGED <<prog, topic, optVars, log, opts, stVars, fds, heap>>

\* What the flows do to this state: s_recv writes the sender's address.
Receive ==
    /\ phase = "run"
    /\ \E host \in Hosts, empty \in BOOLEAN :
         LET from(a) == SockRecv(a, fds[sock.fd].fam, host, PtpUdpPort, empty).addr
         IN  IF prog = "client" THEN rxAddr' = from(rxAddr) /\ UNCHANGED addr
             ELSE addr' = from(addr) /\ UNCHANGED rxAddr
    /\ UNCHANGED <<prog, topic, phase, optVars, log, opts, type, st, sock, fds, heap>>

\* client_main_clean and service_main_clean: the pointers stay.
CleanUp(code) ==
    /\ phase' = code
    /\ heap' = Release(heap, Held(st))
    /\ fds' = IF "socket" \in st THEN SockClose(sock, fds).fds ELSE fds
    /\ log' = [log EXCEPT !.open = IF log.sys THEN FALSE ELSE @]
    /\ UNCHANGED <<prog, topic, optVars, opts, stVars>>

Fail      == phase = "clean" /\ CleanUp("failure")
Interrupt == phase = "run" /\ CleanUp("success")

-----------------------------------------------------------------------------

Init ==
    /\ prog \in {"client", "service"}
    /\ topic \in {{r.key : r \in ToSet(Table(prog).recs)} \intersect t : t \in Topics}
    /\ phase = "main"
    /\ read = 0
    /\ opt = OptAlloc
    /\ given = [source \in {"args", "file"} |-> [key \in topic \union {NoKey} |-> <<>>]]
    /\ log = [level |-> LogDebug, echo |-> TRUE, sys |-> FALSE, open |-> FALSE]
    /\ opts = Null
    /\ type = "none"
    /\ st = {}
    /\ addr = NoAddr
    /\ rxAddr = NoAddr
    /\ sock = NoSock
    /\ fds = [n \in Fds |-> Free]
    /\ heap = [b \in Blocks |-> 0]

Next ==
    \/ CmdBase \/ ArgMessage \/ ArgOption \/ ArgWrong \/ ArgsEnd
    \/ OpenFile \/ Line \/ LinesEnd
    \/ TakeClient \/ TakeService
    \/ AllocFails \/ AllocAddress \/ AllocRxAddress \/ AllocServiceAddress
    \/ AllocSocket \/ AllocObject
    \/ Capture \/ Receive \/ Fail \/ Interrupt

Spec == Init /\ [][Next]_vars

-----------------------------------------------------------------------------
(* Properties.                                                             *)

Ended   == phase \in {"success", "failure", "crashed"}
Working == phase \in {"alloc", "signal", "run", "clean"}

Families == Protocols \union {"none"}

TypeOK ==
    /\ st \subseteq ToSet(Stages)
    /\ type \in Families /\ addr.type \in Families /\ rxAddr.type \in Families
    /\ sock.fd \in Fds \union {-1}
    /\ log.level \in 0..7 /\ log.echo \in BOOLEAN /\ log.sys \in BOOLEAN /\ log.open \in BOOLEAN
    /\ Working => /\ opts.type \in Protocols \union {"Invalid_PROTO"}
                  /\ prog = "client" => opts.domainNumber \in 128..239

\* What the texts given for an option come to.
Default(key)   == Table(prog).recs[ByKey(Table(prog), key)].def
Effective(key) ==
    IF key \notin topic THEN Default(key)
    ELSE IF given["args"][key] # <<>> THEN given["args"][key][1]
    ELSE IF given["file"][key] # <<>> THEN given["file"][key][1]
    ELSE Default(key)

\* The string of the command line, which is argv's, or the default. Nothing is
\* said of a string that only the file gives: it is the options object's, and
\* cmd_client frees it (cmdl_client.c:56) before main uses it (main_client.c:37).
IsString(taken, key) ==
    key \notin topic \/ given["args"][key] # <<>> \/ given["file"][key] = <<>> =>
        taken = [text |-> Effective(key), freed |-> FALSE]

\* "Command line take precedence" (utest/cmdl.cpp:74), in whatever order,
\* number and combination options and lines come: the programs work with what
\* the first mention on the command line says, else the first in the file,
\* else the default. Strings only of the command line or the default: those
\* point to memory that stays, whatever the file says of the same option.
CommandLineWins ==
    /\ Working /\ prog = "client" =>
         /\ opts.useTwoSteps = ~Effective("oneStep")
         /\ opts.useCSPTPstatus = Effective("reqStatTLV")
         /\ opts.useAltTimeScale = Effective("reqAltTLV")
         /\ opts.domainNumber = Effective("domainNumber")
         /\ IsString(opts.ip, "serviceAddress")
         /\ opts.type = CASE Effective("ipv4") -> "UDP_IPv4"
                           [] Effective("ipv6") -> "UDP_IPv6"
                           [] OTHER -> "Invalid_PROTO"
    /\ Working /\ prog = "service" =>
         /\ opts.useRxTwoSteps = (Effective("oneStepRx") = 2)
         /\ opts.useTxTwoSteps = (Effective("oneStepTx") = 2)
         /\ opts.type = IF Effective("ipv6") THEN "UDP_IPv6" ELSE "UDP_IPv4"
    /\ Working => IsString(opts.ifName, "ifName")

\* The log is what command line and file say, also where the file takes back
\* what the command line's first setting did; syslog is open when it is used
\* (log.c:36-42, cmdl.c:139-148).
LogFollowsOptions ==
    /\ Working => /\ log.level = Effective("log_level")
                  /\ log.echo = Effective("term_echo")
                  /\ log.sys = ~Effective("skip_syslog")
    /\ ~Ended => log.open = log.sys

\* However far the program gets and wherever it fails, it frees what it
\* allocated and closes what it opened, each once (cmdl.c:154-159,
\* main_client.c:276-313, main_service.c:259-291).
NothingLeaks ==
    /\ \A b \in Blocks : heap[b] \in 0..1
    /\ phase \in {"success", "failure"} =>
         (\A b \in Blocks : heap[b] = 0) /\ (\A n \in Fds : fds[n] = Free)

\* While the program works, its socket, its addresses and what the kernel
\* writes into them are of one family, the one that -4 or -6 forces; so
\* recv never meets an address of another size (sock.c:585), although the
\* family may come from a name service, or even from a string that was freed.
FamiliesAgree ==
    phase = "run" =>
        /\ \A a \in {addr, rxAddr} \ {NoAddr} : a.type = sock.type /\ a.fam = sock.type
        /\ fds[sock.fd].fam = sock.type
        /\ prog = "client" => type = sock.type
        /\ Effective("ipv6") => sock.type = "UDP_IPv6"
        /\ prog = "client" /\ Effective("ipv4") => sock.type = "UDP_IPv4"
=============================================================================
