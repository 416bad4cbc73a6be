--------------------------- MODULE LaunchInvariants ---------------------------
(***************************************************************************)
(* The inductive invariant behind the properties of LaunchProperties.      *)
(***************************************************************************)
EXTENDS LaunchProperties

ItemsOf(s) == {s[i] : i \in DOMAIN s}

-----------------------------------------------------------------------------
(* Environments. *)

LibNames == Events \cup UNION {ItemsOf(s) : s \in Preloads}
LibSeqs == Seq(Events) \ {<<>>}
OptStrings == [1..4 -> 64..95]

Variables ==
    [name : {"LD_PRELOAD"}, value : Seq(LibNames)]
        \cup [name : {"LIBVOYEUR_LIBS"}, value : LibSeqs]
        \cup [name : {"LIBVOYEUR_OPTS"}, value : OptStrings]
        \cup [name : {"LIBVOYEUR_SOCKET"}, value : Contexts]

\* The three variables that one voyeur_prepare() adds, and those that a program
\* finds in its environment.
Groups == [libs : LibSeqs, os : OptStrings, sock : Contexts]
GroupOf(c) == [libs |-> voyeur_requested_libs(c), os |-> voyeur_requested_opts(c), sock |-> c]
Found(e) == [libs |-> Getenv(e, "LIBVOYEUR_LIBS"), os |-> Getenv(e, "LIBVOYEUR_OPTS"),
             sock |-> Getenv(e, "LIBVOYEUR_SOCKET")]

\* What voyeur_augment_environment() appends, and what it makes of LD_PRELOAD.
Three(g) == <<Variable("LIBVOYEUR_LIBS", g.libs), Variable("LIBVOYEUR_OPTS", g.os),
              Variable("LIBVOYEUR_SOCKET", g.sock)>>
Prefixed(libs, old) ==
    IF ~Within(libs, old) /\ Len(libs) + Len(old) <= CheckRoom THEN libs \o old ELSE old

AtMostOne(S) == \A i, j \in S : i = j
Instruments(e) == ItemsOf(Preloaded(e)) \cap Events # {}

\* The three are found together or not at all, and with some of the libraries in
\* LD_PRELOAD; all of them, as long as only one observer has added to it and
\* nothing was cut.
Sound(e, G) ==
    /\ e \in Seq(Variables)
    /\ AtMostOne(Named(e, "LD_PRELOAD"))
    /\ \A n \in {"LIBVOYEUR_LIBS", "LIBVOYEUR_OPTS"} :
          Named(e, n) = {} <=> Named(e, "LIBVOYEUR_SOCKET") = {}
    /\ Named(e, "LIBVOYEUR_SOCKET") # {} => Found(e) \in G
    /\ Instruments(e) => Named(e, "LIBVOYEUR_SOCKET") # {}
    /\ /\ Instruments(e)
       /\ AtMostOne(Named(e, "LIBVOYEUR_SOCKET"))
       /\ Len(Preloaded(e)) < CopyRoom
       => ItemsOf(Getenv(e, "LIBVOYEUR_LIBS")) \subseteq ItemsOf(Preloaded(e))

-----------------------------------------------------------------------------
(* Contexts. *)

ContextTypes ==
    /\ starts \in [Procs -> Nat]
    /\ phase \in [Contexts -> {"none", "created", "prepared", "started", "returned",
                               "failed", "destroyed"}]
    /\ opts \in [Contexts -> [Events -> 0..255]]
    /\ cb \in [Contexts -> SUBSET Events]
    /\ child \in [Contexts -> Procs \cup {None}]
    /\ held \in [Contexts -> SUBSET {"context", "state", "env_buf", "listener",
                                     "directory", "libs", "opts"}]
    /\ env \in [Procs -> Seq(Variables)]
    /\ loaded \in [Procs -> SUBSET LibNames]
    /\ envp \in [Contexts -> Seq(Variables) \cup {None}]

\* Those whose environment was given to a child.
Started(c) == child[c] # None
Given_by == {c \in Contexts : Started(c)}
Published == {GroupOf(c) : c \in Given_by}

\* Callbacks and options do not change any more once they are in an environment;
\* what is held follows the phase.
ContextInv(c) ==
    /\ Started(c) => phase[c] \in {"started", "returned", "destroyed"}
    /\ phase[c] \in {"started", "returned"} => Started(c)
    /\ Started(c) \/ phase[c] = "prepared" => opts[c]["exec"] = ExecOpts(c)
    /\ phase[c] = "prepared" => Sound(envp[c], Published \cup {GroupOf(c)})
    /\ phase[c] \in {"returned", "destroyed"} /\ Started(c) =>
          "listener" \notin held[c] /\ (Debug => "directory" \notin held[c])
    /\ phase[c] = "destroyed" => held[c] \cap {"context", "state", "env_buf"} = {}

\* A process has loaded what is in the LD_PRELOAD it was started with, or nothing.
ProcInv(p) ==
    /\ Sound(env[p], Published)
    /\ loaded[p] \in {ItemsOf(Preloaded(env[p])), {}}

LaunchInv ==
    /\ ContextTypes
    /\ \A c \in Contexts : ContextInv(c)
    /\ \A p \in Procs : ProcInv(p)
=============================================================================
