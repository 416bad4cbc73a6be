------------------------------ MODULE MCServer ------------------------------
(***************************************************************************)
(* Values for the constants of VoyeurServer in TLC's runs.                 *)
(***************************************************************************)
EXTENDS ServerInvariants, TLC

CONSTANTS w1, w2   \* writers: w1 lives in the observed child

NoForks == {}
OneFork == {<<w1, w2>>}

\* Events of each writer; a second one of the process that shares a connection
\* is what makes an order of its own.
One == [w \in Writers |-> 1]
Two == [w \in Writers |-> 2]
OneAndTwo == [w \in Writers |-> IF w = w1 THEN 1 ELSE 2]

\* <<server_sock, pipe output, pipe input>>.  voyeur_prepare() opens the first
\* and voyeur_start() the other two, each with the lowest number then free.
Usual == {<<0, 1, 2>>}
EveryOrder == {<<0, 1, 2>>, <<0, 2, 3>>, <<2, 0, 1>>, <<3, 0, 1>>, <<1, 0, 2>>}

\* exit(0), exit(3), and the death by signal 9.
SomeStatuses == {0, 3 * 256, 9}
OneStatus == {3 * 256}
=============================================================================
