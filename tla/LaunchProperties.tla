--------------------------- MODULE LaunchProperties ---------------------------
(***************************************************************************)
(* What must hold of the environments of all the programs that an observed *)
(* child leads to, and of what an observer holds.                          *)
(***************************************************************************)
EXTENDS Launch

\* Every variable has its type; the variables that libvoyeur adds hold what it
\* puts there, and a process is instrumented only by them.
TypeOK ==
    /\ loaded \in [Procs -> SUBSET (Events \cup UNION {{s[i] : i \in DOMAIN s} : s \in Preloads})]
    /\ starts \in [Procs -> Nat]
    /\ phase \in [Contexts -> {"none", "created", "prepared", "started", "returned",
                               "failed", "destroyed"}]
    /\ opts \in [Contexts -> [Events -> 0..255]]
    /\ cb \in [Contexts -> SUBSET Events]
    /\ child \in [Contexts -> Procs \cup {None}]
    /\ \A c \in Contexts : held[c] \subseteq {"context", "state", "env_buf", "listener",
                                              "directory", "libs", "opts"}
    /\ \A p \in Procs : loaded[p] \cap Events # {} =>
          /\ Getenv(env[p], "LIBVOYEUR_SOCKET") \in Contexts
          /\ Getenv(env[p], "LIBVOYEUR_LIBS") \in Seq(Events) \ {<<>>}
          /\ Getenv(env[p], "LIBVOYEUR_OPTS") \in [1..4 -> 64..95]

-----------------------------------------------------------------------------
Observer(e) == Getenv(e, "LIBVOYEUR_SOCKET")
Reports(p) == loaded[p] \cap Events # {}

\* What a process sends of an event is, field by field, what the context it
\* reports to will read, however many programs have handed the options and the
\* socket on, and whether or not a second observer has added its own: otherwise
\* the handler takes bytes of one field for another, and the next message for data.
FieldsAgree ==
    \A p \in Procs : Reports(p) =>
        \A e \in loaded[p] \cap Events :
            LET o == voyeur_decode_options(Getenv(env[p], "LIBVOYEUR_OPTS"), Number(e))
            IN  Written(e, o) # <<>> => Written(e, o) = Read(e, opts[Observer(env[p])][e])

Libs(e) == Getenv(e, "LIBVOYEUR_LIBS")
Roomy(e, libs) == Len(Preloaded(e)) + Len(libs) <= CopyRoom

\* A process that reports to a context loads a library for each of its callbacks,
\* and libvoyeur-exec, unless a second observer has added its own variables or
\* there is no room: never only some of them, whatever LD_PRELOAD the programs on
\* the way to it were given.
AllOrNothing ==
    \A p \in Procs :
        /\ Reports(p)
        /\ Cardinality(Named(env[p], "LIBVOYEUR_SOCKET")) = 1
        /\ Len(Preloaded(env[p])) < CopyRoom
        => cb[Observer(env[p])] \cup {"exec"} \subseteq loaded[p]

\* What an instrumented process starts, or becomes, reports where the process
\* itself reports and with the same libraries, also if it is given an empty
\* environment or an LD_PRELOAD of its own, as long as there is room.
StaysObserved ==
    [][\A p, q \in Procs : \A e \in Templates(p) :
         /\ "exec" \in loaded[p]
         /\ Spawn(p, q, e, TRUE) \/ (q = p /\ Exec(p, e, TRUE))
         /\ Roomy(e, Libs(env[p]))
         => /\ Observer(env'[q]) = Observer(env[p])
            /\ {Libs(env[p])[i] : i \in DOMAIN Libs(env[p])} \subseteq loaded'[q]]_vars

\* No program gets two LD_PRELOAD variables, of which the dynamic linker would
\* heed one, through any number of programs and observers.
OnePreload ==
    \A p \in Procs : Cardinality(Named(env[p], "LD_PRELOAD")) <= 1

-----------------------------------------------------------------------------
\* The callbacks of a context are called for the child it started: the child
\* reports to it.
ReportsToItsObserver ==
    \A c \in Contexts : child[c] # None => Observer(envp[c]) = c

\* A context that was destroyed after its child ended has released what it had
\* acquired, in whichever of the calls that should do it, but for the strings of
\* voyeur_requested_libs() and voyeur_requested_opts() and, without DEBUG, the
\* socket file and its directory.
Released ==
    \A c \in Contexts : phase[c] = "destroyed" /\ child[c] # None =>
        held[c] \subseteq {"libs", "opts"} \cup {d \in {"directory"} : ~Debug}
=============================================================================
