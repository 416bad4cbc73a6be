-------------------------------- MODULE MCWire --------------------------------
(***************************************************************************)
(* Values for the constants of Wire in TLC's run.                          *)
(***************************************************************************)
EXTENDS WireInvariants

I(n) == [kind |-> "int", val |-> n]
S(s) == [kind |-> "string", val |-> <<s>>]
A(ss) == [kind |-> "array", val |-> ss]

Event(t, fields) == [type |-> EventTypes[t], fields |-> fields]

\* Text of no, one, as many and more characters than MaxStrLen.
Texts == {<<>>, <<7>>, <<7, 8>>, <<7, 8, 9>>}

AllOptions == {<<"exec", "env">>, <<"exec", "path">>, <<"exec", "cwd">>, <<"open", "cwd">>}

ExecEvent(args, cwd) ==
    Event("exec", <<S(<<7>>), A(args), A(<<>>), S(Null), S(cwd), I(5), I(6)>>)
ExitEvent == Event("exit", <<I(3), I(5), I(6)>>)
OpenEvent(path) == Event("open", <<S(path), I(1), I(0), I(4), S(<<8>>), I(5)>>)
CloseEvent == Event("close", <<I(4), I(-1), I(5)>>)

\* Two events each: what an interposer of open() or of posix_spawn() may send,
\* and an exit.
SomeReports ==
    {<<OpenEvent(s), OpenEvent(t)>> : s, t \in Texts}
      \cup {<<ExecEvent(args, s), ExecEvent(<<>>, <<7>>)>> : args \in {<<>>, <<<<>>, <<7, 8, 9>>>>}, s \in Texts \cup {Null}}
      \cup {<<CloseEvent, CloseEvent>>, <<ExitEvent>>}
===============================================================================
