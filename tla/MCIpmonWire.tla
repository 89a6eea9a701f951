---------------------------- MODULE MCIpmonWire ----------------------------
(***************************************************************************)
(* IpmonWire with two clients.  Both may have an ordinary name; the second *)
(* may also have one that tears at its plus and reads as 1, behind a space *)
(* and a sign, and may use both one after the other.                       *)
(***************************************************************************)
EXTENDS IpmonWire

CONSTANTS a1, a2, c, r, x, space, tiles

Plain == <<x>>
Misleading == <<space, Plus, 1, x>>

Texts == {Plain, Misleading}
Maps == {<<tiles>>, << >>}
StartMapText == <<tiles>>
Start300 == <<300, 150>>
Places == {Start300, <<20, 30>>}
PassText == <<x>>
Typed(letter, name) == <<letter, Colon>> \o name \o <<Colon>> \o PassText
Commands == [a \in Address |->
  IF a = a1 THEN {Typed(c, Plain), Typed(r, Plain)}
            ELSE {Typed(c, Plain), Typed(c, Misleading)}]
Leftovers == {<< >>, <<tiles>>}

=============================================================================
