-------------------------------- MODULE Launch --------------------------------
(***************************************************************************)
(* How a program comes to be observed: the calls of voyeur.h on a context, *)
(* the environment voyeur_prepare() makes for the child, and how the       *)
(* interposed execve() and posix_spawn() hand it on to every program the   *)
(* child starts.  An instrumented program may be an observer itself.       *)
(*                                                                         *)
(* An environment is a sequence of variables, of which getenv() finds the  *)
(* first one of a name.  The path of a socket is the context whose it is,  *)
(* and a library is the name of the event it reports.                      *)
(***************************************************************************)
EXTENDS Integers, Sequences, FiniteSets

CONSTANTS
    Procs,      \* processes
    Root,       \* the first one, which nobody observes
    Contexts,   \* one for each voyeur_context_create()
    Owner,      \* the process that makes it
    Requests,   \* calls of voyeur_observe_*(): event, opts, and whether with a callback
    Preloads,   \* values a program may give to LD_PRELOAD itself
    CheckRoom,  \* libraries for which voyeur_augment_environment() sees room
    CopyRoom,   \* libraries that fit: the check leaves out the name of the
                \* variable, the colon and the terminating null
    Debug,      \* built with DEBUG
    MaxStarts,  \* bound: images that each process may run one after the other
    None

\* In the order of MAP_EVENTS, which numbers them from 0.
EventSeq == <<"exec", "exit", "open", "close">>
Events == {EventSeq[i] : i \in DOMAIN EventSeq}
Number(e) == (CHOOSE i \in DOMAIN EventSeq : EventSeq[i] = e) - 1

ASSUME LaunchAssumption ==
    /\ Root \in Procs
    /\ Owner \in [Contexts -> Procs]
    /\ Requests \subseteq [event : Events, opts : 0..255, cb : BOOLEAN]
    /\ \A s \in Preloads : s \in Seq(STRING \ Events)
    /\ CheckRoom \in Nat /\ CopyRoom \in 0..CheckRoom
    /\ Debug \in BOOLEAN
    /\ MaxStarts \in [Procs -> Nat]
    /\ None \notin Procs \cup Contexts \cup [DOMAIN EventSeq -> 64..95]

VARIABLES
    env,        \* per process: its environment
    loaded,     \* per process: the libraries that LD_PRELOAD loaded into it
    starts,     \* per process: images it has run; 0 if it was not started
    phase,      \* per context: how far its caller has got
    opts,       \* per context and event: <e>_opts
    cb,         \* per context: the events with a callback
    envp,       \* per context: what voyeur_prepare() returned, then what the
                \* child was started with
    child,      \* per context: the observed child
    held        \* per context: what was acquired and not released

vars == <<env, loaded, starts, phase, opts, cb, envp, child, held>>
contextVars == <<phase, opts, cb, envp, child, held>>

-----------------------------------------------------------------------------
(* Options: five bits of each event's byte, as a printable character. *)

OBSERVE_EXEC_CWD == 1
OBSERVE_EXEC_ENV == 2
OBSERVE_EXEC_PATH == 4
OBSERVE_EXEC_SILENT == 16
OBSERVE_OPEN_CWD == 1
Has(o, bit) == (o \div bit) % 2 = 1

voyeur_encode_options_Unprintable(o) == o % 32
voyeur_encode_options(o) == 64 + (o % 32)

\* None is a variable that is not set.
voyeur_decode_options(s, offset) ==
    IF s = None \/ offset >= Len(s) THEN 0 ELSE s[offset + 1] % 32

-----------------------------------------------------------------------------
(* The fields of an event after its type, which depend on the options the     *)
(* process found in its environment and on those of the context.              *)

Optional(o, bit, fields) == IF Has(o, bit) THEN fields ELSE <<>>
Strings == <<"int", "strings">>

\* By the interposer.  A silent exec() is not written at all.
Written(e, o) ==
    CASE e = "exec"  -> IF Has(o, OBSERVE_EXEC_SILENT) THEN <<>>
                        ELSE <<"string">> \o Strings \o Optional(o, OBSERVE_EXEC_ENV, Strings)
                               \o Optional(o, OBSERVE_EXEC_PATH, <<"string">>)
                               \o Optional(o, OBSERVE_EXEC_CWD, <<"string">>) \o <<"pid", "pid">>
      [] e = "exit"  -> <<"int", "pid", "pid">>
      [] e = "open"  -> <<"string", "int", "int", "int">>
                          \o Optional(o, OBSERVE_OPEN_CWD, <<"string">>) \o <<"pid">>
      [] e = "close" -> <<"int", "int", "pid">>

\* By the handler in the observer.
handle_exec(o) ==
    <<"string">> \o Strings \o Optional(o, OBSERVE_EXEC_ENV, Strings)
      \o Optional(o, OBSERVE_EXEC_PATH, <<"string">>)
      \o Optional(o, OBSERVE_EXEC_CWD, <<"string">>) \o <<"pid", "pid">>
handle_exit  == <<"int", "pid", "pid">>
handle_open(o) ==
    <<"string", "int", "int", "int">> \o Optional(o, OBSERVE_OPEN_CWD, <<"string">>) \o <<"pid">>
handle_close == <<"int", "int", "pid">>

Read(e, o) ==
    CASE e = "exec"  -> handle_exec(o)
      [] e = "exit"  -> handle_exit
      [] e = "open"  -> handle_open(o)
      [] e = "close" -> handle_close

-----------------------------------------------------------------------------
(* Environments. *)

Variable(name, value) == [name |-> name, value |-> value]
Named(e, name) == {i \in DOMAIN e : e[i].name = name}
First(S) == CHOOSE i \in S : \A j \in S : i <= j
Last(S)  == CHOOSE i \in S : \A j \in S : j <= i

Getenv(e, name) == IF Named(e, name) = {} THEN None ELSE e[First(Named(e, name))].value
Preloaded(e) == IF Named(e, "LD_PRELOAD") = {} THEN <<>> ELSE Getenv(e, "LD_PRELOAD")

\* strnstr()
Within(s, t) == \E i \in 0..(Len(t) - Len(s)) : SubSeq(t, i + 1, i + Len(s)) = s

Copied(s) == IF Len(s) <= CopyRoom THEN s ELSE SubSeq(s, 1, CopyRoom)

Extended_Appends(e, libs, new) ==
    LET at  == Named(e, "LD_PRELOAD")
        old == IF at = {} THEN <<>> ELSE e[Last(at)].value
        add == ~Within(libs, old) /\ Len(libs) + Len(old) <= CheckRoom
    IN  e \o new \o <<Variable("LD_PRELOAD", Copied(IF add THEN libs \o old ELSE old))>>

\* What is given to the new program: the variables are appended, older ones of
\* the same name stay; only LD_PRELOAD is replaced.
Extended(e, libs, new) ==
    LET at  == Named(e, "LD_PRELOAD")
        old == IF at = {} THEN <<>> ELSE e[Last(at)].value
        add == ~Within(libs, old) /\ Len(libs) + Len(old) <= CheckRoom
        pre == Variable("LD_PRELOAD", Copied(IF add THEN libs \o old ELSE old))
    IN  IF at = {} THEN e \o new \o <<pre>>
                   ELSE [e EXCEPT ![Last(at)] = pre] \o new

voyeur_augment_environment_OneSocket(e, libs, os, sock) ==
    LET Other(v) == v.name # "LIBVOYEUR_SOCKET"
    IN  Extended(SelectSeq(e, Other), libs,
                 <<Variable("LIBVOYEUR_LIBS", libs),
                   Variable("LIBVOYEUR_OPTS", os),
                   Variable("LIBVOYEUR_SOCKET", sock)>>)

voyeur_augment_environment(e, libs, os, sock) ==
    Extended(e, libs, <<Variable("LIBVOYEUR_LIBS", libs),
                        Variable("LIBVOYEUR_OPTS", os),
                        Variable("LIBVOYEUR_SOCKET", sock)>>)

\* What a program may pass to execve(), posix_spawn() or voyeur_prepare(): its own
\* environment, an empty one, or one of them with an LD_PRELOAD of its own.
setenv(e, v) ==
    LET at == Named(e, v.name)
    IN  IF at = {} THEN e \o <<v>> ELSE [e EXCEPT ![First(at)] = v]

Templates(p) ==
    {env[p], <<>>} \cup {setenv(e, Variable("LD_PRELOAD", s)) : e \in {env[p], <<>>}, s \in Preloads}

-----------------------------------------------------------------------------
(* The calls on a context. *)

Live(c) == phase[c] \notin {"none", "destroyed"}
OwnerRuns(c) == starts[Owner[c]] > 0

Create(c) ==
    /\ OwnerRuns(c)
    /\ phase[c] = "none"
    /\ phase' = [phase EXCEPT ![c] = "created"]
    /\ held' = [held EXCEPT ![c] = {"context"}]
    /\ UNCHANGED <<env, loaded, starts, opts, cb, envp, child>>

Observe(c, r) ==
    /\ phase[c] = "created"
    /\ opts' = [opts EXCEPT ![c][r.event] = r.opts]
    /\ cb' = [cb EXCEPT ![c] = IF r.cb THEN @ \cup {r.event} ELSE @ \ {r.event}]
    /\ UNCHANGED <<env, loaded, starts, phase, envp, child, held>>

\* In the order of MAP_EVENTS.
Libraries(S) ==
    LET Library(e) == IF e \in S THEN <<e>> ELSE <<>>
    IN  Library("exec") \o Library("exit") \o Library("open") \o Library("close")

voyeur_requested_libs_NotForced(c) == Libraries(cb[c])

\* libvoyeur-exec is always there, to instrument what the child starts.
voyeur_requested_libs(c) == Libraries(cb[c] \cup {"exec"})

\* Silent if nobody listens; this changes the context.
ExecOpts(c) == IF "exec" \in cb[c] THEN opts[c]["exec"] ELSE OBSERVE_EXEC_SILENT

voyeur_requested_opts(c) ==
    [i \in DOMAIN EventSeq |->
        voyeur_encode_options(IF EventSeq[i] = "exec" THEN ExecOpts(c)
                              ELSE opts[c][EventSeq[i]])]

Prepare(c, e) ==
    /\ phase[c] = "created"
    /\ phase' = [phase EXCEPT ![c] = "prepared"]
    /\ opts' = [opts EXCEPT ![c]["exec"] = ExecOpts(c)]
    /\ envp' = [envp EXCEPT ![c] =
                  voyeur_augment_environment(e, voyeur_requested_libs(c),
                                             voyeur_requested_opts(c), c)]
    /\ held' = [held EXCEPT ![c] = @ \cup {"state", "env_buf", "listener", "directory",
                                           "libs", "opts"}]
    /\ UNCHANGED <<env, loaded, starts, cb, child>>

\* mkdtemp() is not checked; a socket that bind() or listen() refuses stays open.
PrepareFails(c) ==
    /\ phase[c] = "created"
    /\ phase' = [phase EXCEPT ![c] = "failed"]
    /\ \E left \in SUBSET {"listener", "directory"} :
         held' = [held EXCEPT ![c] = @ \cup {"state"} \cup left]
    /\ UNCHANGED <<env, loaded, starts, opts, cb, envp, child>>

\* An instrumented program's posix_spawn(), execve() and the like.
Given_NotEmpty(p, e) ==
    IF "exec" \in loaded[p] /\ e # <<>>
    THEN voyeur_augment_environment(e, Getenv(env[p], "LIBVOYEUR_LIBS"),
                                       Getenv(env[p], "LIBVOYEUR_OPTS"),
                                       Getenv(env[p], "LIBVOYEUR_SOCKET"))
    ELSE e

Given(p, e) ==
    IF "exec" \in loaded[p]
    THEN voyeur_augment_environment(e, Getenv(env[p], "LIBVOYEUR_LIBS"),
                                       Getenv(env[p], "LIBVOYEUR_OPTS"),
                                       Getenv(env[p], "LIBVOYEUR_SOCKET"))
    ELSE e

\* The dynamic linker ignores LD_PRELOAD in an image that is static or setuid.
Run(q, e, dynamic) ==
    /\ starts' = [starts EXCEPT ![q] = @ + 1]
    /\ env' = [env EXCEPT ![q] = e]
    /\ loaded' = [loaded EXCEPT ![q] =
                    IF dynamic THEN {Preloaded(e)[i] : i \in DOMAIN Preloaded(e)} ELSE {}]

\* In voyeur_exec(), or by the caller of voyeur_prepare() and voyeur_start().
SpawnObserved(c, q, dynamic) ==
    LET e == Given(Owner[c], envp[c]) IN
    /\ phase[c] = "prepared"
    /\ starts[q] = 0
    /\ Run(q, e, dynamic)
    /\ phase' = [phase EXCEPT ![c] = "started"]
    /\ envp' = [envp EXCEPT ![c] = e]
    /\ child' = [child EXCEPT ![c] = q]
    /\ UNCHANGED <<opts, cb, held>>

SpawnFails(c) ==
    /\ phase[c] = "prepared"
    /\ phase' = [phase EXCEPT ![c] = "failed"]
    /\ UNCHANGED <<env, loaded, starts, opts, cb, envp, child, held>>

\* voyeur_start() returns: run_server() has closed the listener, and unlink() and
\* rmdir() are compiled only with DEBUG.
StartReturns(c) ==
    /\ phase[c] = "started"
    /\ phase' = [phase EXCEPT ![c] = "returned"]
    /\ held' = [held EXCEPT ![c] =
                  @ \ ({"listener"} \cup (IF Debug THEN {"directory"} ELSE {}))]
    /\ UNCHANGED <<env, loaded, starts, opts, cb, envp, child>>

Destroy_KeepsEnvironment(c) ==
    /\ phase[c] \in {"created", "prepared", "failed", "returned"}
    /\ phase' = [phase EXCEPT ![c] = "destroyed"]
    /\ held' = [held EXCEPT ![c] = @ \ {"context", "state"}]
    /\ UNCHANGED <<env, loaded, starts, opts, cb, envp, child>>

Destroy(c) ==
    /\ phase[c] \in {"created", "prepared", "failed", "returned"}
    /\ phase' = [phase EXCEPT ![c] = "destroyed"]
    /\ held' = [held EXCEPT ![c] = @ \ {"context", "state", "env_buf"}]
    /\ UNCHANGED <<env, loaded, starts, opts, cb, envp, child>>

-----------------------------------------------------------------------------
(* What programs do, observed or not. *)

Exec(p, e, dynamic) ==
    /\ starts[p] \in 1..(MaxStarts[p] - 1)
    /\ \A c \in Contexts : Owner[c] = p => ~Live(c)
    /\ Run(p, Given(p, e), dynamic)
    /\ UNCHANGED contextVars

Spawn(p, q, e, dynamic) ==
    /\ starts[p] > 0
    /\ starts[q] = 0
    /\ Run(q, Given(p, e), dynamic)
    /\ UNCHANGED contextVars

-----------------------------------------------------------------------------
Init ==
    /\ env = [p \in Procs |-> <<>>]
    /\ loaded = [p \in Procs |-> {}]
    /\ starts = [p \in Procs |-> IF p = Root THEN 1 ELSE 0]
    /\ phase = [c \in Contexts |-> "none"]
    /\ opts = [c \in Contexts |-> [e \in Events |-> 0]]
    /\ cb = [c \in Contexts |-> {}]
    /\ envp = [c \in Contexts |-> None]
    /\ child = [c \in Contexts |-> None]
    /\ held = [c \in Contexts |-> {}]

ContextStep(c) ==
    \/ Create(c)
    \/ \E r \in Requests : Observe(c, r)
    \/ \E e \in Templates(Owner[c]) : Prepare(c, e)
    \/ PrepareFails(c)
    \/ \E q \in Procs, dynamic \in BOOLEAN : SpawnObserved(c, q, dynamic)
    \/ SpawnFails(c)
    \/ StartReturns(c)
    \/ Destroy(c)

ProgramStep(p) ==
    \E e \in Templates(p), dynamic \in BOOLEAN :
        \/ Exec(p, e, dynamic)
        \/ \E q \in Procs : Spawn(p, q, e, dynamic)

Next == \/ \E c \in Contexts : ContextStep(c)
        \/ \E p \in Procs : ProgramStep(p)

Spec == Init /\ [][Next]_vars
=============================================================================
