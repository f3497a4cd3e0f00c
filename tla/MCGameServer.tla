---------------------------- MODULE MCGameServer ----------------------------
(***************************************************************************)
(* Small instances of GameServer: chunks of 2 x 2, so that every cell is   *)
(* on a border and every generation crosses chunks, two players and a few  *)
(* requests that collide.                                                  *)
(***************************************************************************)
EXTENDS GameServerRefinement

Cmd(t, p, x, y) == [type |-> t, player |-> p, pos |-> <<x, y>>]

\* A blinker over two chunks, on the negative side as well.
Blinker(p) == <<Cmd("place", p, -1, 0), Cmd("place", p, 0, 0), Cmd("place", p, 1, 0)>>

\* The other player builds beside it and takes on cells it may not touch.
Rival(p) == <<Cmd("toggle", p, 0, 1), Cmd("remove", p, 0, 0)>>

\* Edits of one's own cells; after the blinker, the last is more than a player
\* can pay for, unless income came in between.
Edit(p) == <<Cmd("remove", p, 0, 0), Cmd("toggle", p, 0, 1), Cmd("toggle", p, 0, -1), Cmd("place", p, 1, 1)>>

GameRequests == {Blinker(1), Rival(2), Edit(1)}
=============================================================================
