------------------------------ MODULE Movement ------------------------------
(***************************************************************************)
(* Where the player of a client may go: Clt_ipmon/src/GUI_ipmon.c and      *)
(* map.c.  Positions are pixels, the upper left corner of the player, who  *)
(* is as large as a tile.  A tile is a pair of a column and a row.         *)
(*                                                                         *)
(* A step is shorter than a tile (5 and 25 pixels in GUI_ipmon.h), so the  *)
(* branch of Deplace that halves a longer one is never taken and is left   *)
(* out.                                                                    *)
(***************************************************************************)
EXTENDS Integers

CONSTANTS
  Tile,           \* LARGEUR_TILE and HAUTEUR_TILE, also perso.w and perso.h
  Speed,          \* MOVE_SPEED_PLAYER
  Width, Height,  \* nbtiles_largeur_monde and nbtiles_hauteur_monde
  Window,         \* LARGEUR_FENETRE and HAUTEUR_FENETRE
  Wall, Grass     \* the tiles with collision, and those with combat

ASSUME StepAssumption == {Tile, Speed, Window} \subseteq Nat \ {0} /\ Speed < Tile
ASSUME MapAssumption ==
  /\ Width \in Nat /\ Height \in Nat
  /\ Tile <= Window /\ Window < Width * Tile /\ Window < Height * Tile
  /\ Wall \cap Grass = {}

Position == [x : Int, y : Int]

At(p, dx, dy) == [x |-> p.x + dx, y |-> p.y + dy]

\* Integer division in C rounds towards 0.
Quotient(a, b) == IF a >= 0 THEN a \div b ELSE -((-a) \div b)

-----------------------------------------------------------------------------
(* CollisionDecor.                                                         *)

\* The tiles under a player at p.
Covered(p) ==
  (Quotient(p.x, Tile) .. Quotient(p.x + Tile - 1, Tile))
    \X (Quotient(p.y, Tile) .. Quotient(p.y + Tile - 1, Tile))

\* Deviation: the last column and row are compared with > for >=.
OffMapBeyondEdge(p) ==
  \/ Quotient(p.x - Tile - 1, Tile) < 0
  \/ Quotient(p.y - Tile - 1, Tile) < 0
  \/ Quotient(p.x + Tile - 1, Tile) > Width
  \/ Quotient(p.y + Tile - 1, Tile) > Height
\* xminbord and yminbord keep one pixel more than the player's own size.
OffMap(p) ==
  \/ Quotient(p.x - Tile - 1, Tile) < 0
  \/ Quotient(p.y - Tile - 1, Tile) < 0
  \/ Quotient(p.x + Tile - 1, Tile) >= Width
  \/ Quotient(p.y + Tile - 1, Tile) >= Height

Before(s, t) == s[1] < t[1] \/ (s[1] = t[1] /\ s[2] <= t[2])

\* Deviation: only the tile of the upper left corner is looked at.
SpecialAtCorner(p) ==
  {<<Quotient(p.x, Tile), Quotient(p.y, Tile)>>} \cap (Wall \cup Grass)
Special(p) == Covered(p) \cap (Wall \cup Grass)

(***************************************************************************)
(* 1 for a collision, 2 for grass, 0 otherwise.  The scan, column by       *)
(* column, returns at the first tile that is either.                       *)
(***************************************************************************)
FirstIsWall(p) ==
  \E t \in Special(p) \cap Wall : \A u \in Special(p) : Before(t, u)
CollisionDecor(p) ==
  IF OffMap(p) \/ FirstIsWall(p) THEN 1
  ELSE IF Special(p) # {} THEN 2 ELSE 0

-----------------------------------------------------------------------------
(* Moving.  jeuCombat, called on grass, only draws a random number.        *)

Libre(p) == CollisionDecor(p) # 1

SGN(n) == IF n = 0 THEN 0 ELSE IF n < 0 THEN -1 ELSE 1
ABS2(n) == IF n < 0 THEN -n ELSE n

(***************************************************************************)
(* The loops of Deplace: single pixels in direction dx, dy, n of them or   *)
(* up to the first that is refused.  Deplace and Glisse are the sets of    *)
(* the positions the player may end at, which have one element.            *)
(***************************************************************************)
Glisse(p, dx, dy, n) ==
  {At(p, k * dx, k * dy) : k \in
     {m \in 0..n : /\ \A i \in 1..m : Libre(At(p, i * dx, i * dy))
                   /\ m < n => ~Libre(At(p, (m + 1) * dx, (m + 1) * dy))}}

\* Deviation: a step that does not fit is not taken at all.
DeplaceSansGlisser(p, vx, vy) ==
  IF Libre(At(p, vx, vy)) THEN {At(p, vx, vy)} ELSE {p}
Deplace(p, vx, vy) ==
  IF Libre(At(p, vx, vy))
    THEN {At(p, vx, vy)}
    ELSE UNION {Glisse(q, 0, SGN(vy), ABS2(vy)) :
                  q \in Glisse(p, SGN(vx), 0, ABS2(vx))}

-----------------------------------------------------------------------------
(* The part of the map in the window.                                      *)

\* Deviation: the scroll is not clamped.
ClampScrollNot(scroll, tiles) == scroll
ClampScroll(scroll, tiles) ==
  LET last == tiles * Tile - Window - 1
      low == IF scroll < 0 THEN 0 ELSE scroll
  IN  IF low > last THEN last ELSE low

FocusScrollCenter(p) ==
  [x |-> ClampScroll(p.x + Tile \div 2 - Window \div 2, Width),
   y |-> ClampScroll(p.y + Tile \div 2 - Window \div 2, Height)]

(***************************************************************************)
(* The tiles AfficherMap draws.  Where the map has none the window stays   *)
(* empty.                                                                  *)
(***************************************************************************)
AfficherMap(scroll) ==
  ((Quotient(scroll.x, Tile) .. Quotient(scroll.x + Window, Tile))
     \X (Quotient(scroll.y, Tile) .. Quotient(scroll.y + Window, Tile)))
    \cap ((0..(Width - 1)) \X (0..(Height - 1)))

\* The columns, or rows, of the window that tile number i is drawn on.
Rect_dest(i, scroll) == (i * Tile - scroll) .. (i * Tile - scroll + Tile - 1)

-----------------------------------------------------------------------------

OnWall(p) == Covered(p) \cap Wall # {}
OnGrass(p) == Covered(p) \cap Grass # {}

=============================================================================
