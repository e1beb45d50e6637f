------------------------------ MODULE SpriteSheet ------------------------------
(***************************************************************************)
(* Sprite sheets and atlases of a set's final stage (spritesheet.py,       *)
(* variant_sets/sprites.py): which variants become frames, where each      *)
(* frame goes, and what the pages measure. One step places one frame, as   *)
(* one turn of the loops of _grid and _atlas does. A frame is its size and *)
(* the box of its visible pixels; the pixels themselves are left out.      *)
(***************************************************************************)
EXTENDS Integers, FiniteSets, Sequences, SequencesExt, FiniteSetsExt

CONSTANTS
  Variants,  \* the rows of variants to export: sequences of frames or Absent
  Absent,    \* a variant whose output is not there
  Profiles,  \* the export profiles asked for
  MaxPage,   \* MAX_PAGE
  MaxPages   \* MAX_PAGES

VARIABLES
  variants,  \* the final stage's variants, in the order asked for
  profile,   \* the profile
  at,        \* "asked", "laying", "made", "refused", "invalid"
  missing,   \* the indexes reported as missing
  todo,      \* the frames left to place, in the order they are placed
  placed,    \* the rectangles
  pen,       \* where the next frame of an atlas goes, and its shelf's height
  pages      \* the sizes of the pages

vars == <<variants, profile, at, missing, todo, placed, pen, pages>>

\* The profiles the contract accepts.
Accepted(p) ==
  /\ p.extrude > 0 => p.pad >= 2 * p.extrude
  /\ p.fit = "contain" => p.cell # <<>>

Init ==
  /\ variants \in Variants
  /\ profile \in {p \in Profiles : Accepted(p)}
  /\ at = "asked" /\ missing = {}
  /\ todo = <<>> /\ placed = {} /\ pen = [x |-> 0, y |-> 0, shelf |-> 0] /\ pages = <<>>

Refused ==
  /\ at' = "refused"
  /\ UNCHANGED <<variants, profile, missing, todo, placed, pen, pages>>

-----------------------------------------------------------------------------
(* Preparation *)

\* A frame cut to its visible pixels; an invisible one keeps one pixel.
Trimmed(f) ==
  IF f.seen = <<>> THEN [f EXCEPT !.w = 1, !.h = 1] ELSE [f EXCEPT !.w = f.seen[1], !.h = f.seen[2]]

\* The frames that exist, each under its index in the whole order: a missing
\* one is never closed over.
Frames == {i \in DOMAIN variants : variants[i] # Absent}
Gaps == DOMAIN variants \ Frames

Widths == {variants[i].w : i \in Frames}
Heights == {variants[i].h : i \in Frames}

\* The cell of a grid: the one given, or one large enough for every frame.
Cell == IF profile.cell # <<>> THEN profile.cell ELSE <<Max(Widths), Max(Heights)>>

CeilDiv(a, b) == (a + b - 1) \div b
CeilSqrt(n) == CHOOSE r \in 1..n : r * r >= n /\ (r - 1) * (r - 1) < n
Columns == IF profile.columns # 0 THEN profile.columns ELSE CeilSqrt(Cardinality(Frames))
Rows == CeilDiv(Cardinality(Frames), Columns)

GridSize == <<profile.pad + Columns * (Cell[1] + profile.pad),
              profile.pad + Rows * (Cell[2] + profile.pad)>>

FitsPage(size) == size[1] <= MaxPage /\ size[2] <= MaxPage

\* An atlas places the tallest frames first, then the widest, then by index.
Content(i) ==
  LET f == variants[i]
      c == IF profile.mode = "atlas" /\ profile.trim THEN Trimmed(f) ELSE f
  IN [i |-> i, w |-> c.w, h |-> c.h]

Taller(a, b) ==
  \/ a.h > b.h
  \/ a.h = b.h /\ a.w > b.w
  \/ a.h = b.h /\ a.w = b.w /\ a.i < b.i

Before(a, b) == IF profile.mode = "atlas" THEN Taller(a, b) ELSE a.i < b.i

InOrder == SetToSortSeq({Content(i) : i \in Frames}, Before)

TooLargeForAtlas(c) == c.w + 2 * profile.pad > profile.width \/ c.h + 2 * profile.pad > profile.height

\* What is refused before a frame is placed.
Unfit ==
  \/ Frames = {}
  \/ Gaps # {} /\ ~profile.partial
  \/ /\ profile.mode = "grid"
     /\ \/ profile.fit = "require_match" /\ \E i \in Frames : <<variants[i].w, variants[i].h>> # Cell
        \/ ~FitsPage(GridSize)
  \/ profile.mode = "atlas" /\ \E i \in Frames : TooLargeForAtlas(Content(i))

Prepare ==
  /\ at = "asked"
  /\ IF Unfit THEN Refused
     ELSE /\ at' = "laying"
          /\ missing' = Gaps
          /\ todo' = InOrder
          /\ pen' = [x |-> profile.pad, y |-> profile.pad, shelf |-> 0]
          /\ pages' = IF profile.mode = "grid" THEN <<GridSize>> ELSE << <<0, 0>> >>
          /\ UNCHANGED <<variants, profile, placed>>

-----------------------------------------------------------------------------
(* Placing *)

\* Python's round of a / b: to the nearest, a half to the even one.
Round(a, b) ==
  LET q == a \div b
      r == 2 * (a % b)
  IN IF r > b \/ (r = b /\ q % 2 = 1) THEN q + 1 ELSE q

AtLeastOne(n) == IF n < 1 THEN 1 ELSE n

\* A frame larger than its cell is scaled by the smaller of the two ratios.
Scaled(c) ==
  LET byWidth == Cell[1] * c.h <= Cell[2] * c.w
      over == IF byWidth THEN Cell[1] ELSE Cell[2]
      of == IF byWidth THEN c.w ELSE c.h
  IN IF c.w <= Cell[1] /\ c.h <= Cell[2] THEN c
     ELSE [c EXCEPT !.w = AtLeastOne(Round(c.w * over, of)), !.h = AtLeastOne(Round(c.h * over, of))]

Rectangle(c, page, x, y) == [i |-> c.i, w |-> c.w, h |-> c.h, page |-> page, x |-> x, y |-> y]

\* The next frame of a grid, centred in its cell.
PlaceInGrid ==
  /\ at = "laying" /\ profile.mode = "grid" /\ todo # <<>>
  /\ LET c == Scaled(Head(todo))
         n == Cardinality(placed)
         x == profile.pad + (n % Columns) * (Cell[1] + profile.pad)
         y == profile.pad + (n \div Columns) * (Cell[2] + profile.pad)
     IN IF c # Head(todo) /\ profile.fit # "contain" THEN Refused
        ELSE /\ placed' = placed \union
                  {Rectangle(c, 1, x + (Cell[1] - c.w) \div 2, y + (Cell[2] - c.h) \div 2)}
             /\ todo' = Tail(todo)
             /\ UNCHANGED <<variants, profile, at, missing, pen, pages>>

\* Where the pen goes for a frame: on, to the next shelf, to the next page.
Mutant_Shelf(c) ==
  IF pen.x + c.w + profile.pad > profile.width
    THEN [x |-> profile.pad, y |-> pen.y + pen.shelf, shelf |-> 0]
    ELSE pen

Shelf(c) ==
  IF pen.x + c.w + profile.pad > profile.width
    THEN [x |-> profile.pad, y |-> pen.y + pen.shelf + profile.pad, shelf |-> 0]
    ELSE pen

NewPage(c) == Shelf(c).y + c.h + profile.pad > profile.height

MaxOf(a, b) == IF a >= b THEN a ELSE b

\* The next frame of an atlas.
PlaceInAtlas ==
  /\ at = "laying" /\ profile.mode = "atlas" /\ todo # <<>>
  /\ LET c == Head(todo)
         p == IF NewPage(c) THEN [x |-> profile.pad, y |-> profile.pad, shelf |-> 0] ELSE Shelf(c)
         all == IF NewPage(c) THEN Append(pages, <<0, 0>>) ELSE pages
         page == Len(all)
     IN IF NewPage(c) /\ (~profile.many \/ Len(pages) >= MaxPages) THEN Refused
        ELSE /\ placed' = placed \union {Rectangle(c, page, p.x, p.y)}
             /\ pages' = [all EXCEPT ![page] = <<MaxOf(@[1], p.x + c.w + profile.pad),
                                                 MaxOf(@[2], p.y + c.h + profile.pad)>>]
             /\ pen' = [p EXCEPT !.x = p.x + c.w + profile.pad, !.shelf = MaxOf(@, c.h)]
             /\ todo' = Tail(todo)
             /\ UNCHANGED <<variants, profile, at, missing>>

\* Two spans grown by the extrusion meet.
Meet(a, la, b, lb) == a - profile.extrude < b + lb + profile.extrude
                      /\ b - profile.extrude < a + la + profile.extrude

\* validate: every rectangle inside its page, none over another.
Valid ==
  /\ \A r \in placed : /\ r.x >= 0 /\ r.x + r.w <= pages[r.page][1]
                       /\ r.y >= 0 /\ r.y + r.h <= pages[r.page][2]
  /\ \A r, s \in placed :
       r.i # s.i /\ r.page = s.page => ~(Meet(r.x, r.w, s.x, s.w) /\ Meet(r.y, r.h, s.y, s.h))

Finish ==
  /\ at = "laying" /\ todo = <<>>
  /\ IF \A p \in DOMAIN pages : FitsPage(pages[p])
       THEN /\ at' = IF Valid THEN "made" ELSE "invalid"
            /\ UNCHANGED <<variants, profile, missing, todo, placed, pen, pages>>
       ELSE Refused

Next == Prepare \/ PlaceInGrid \/ PlaceInAtlas \/ Finish

Spec == Init /\ [][Next]_vars

-----------------------------------------------------------------------------
(* What the module's text says of padding *)

\* Two spans with the padding between them.
Clear(a, la, b, lb) == a + la + profile.pad <= b \/ b + lb + profile.pad <= a

TypeOK ==
  /\ at \in {"asked", "laying", "made", "refused", "invalid"}
  /\ \A r \in placed : r.page \in DOMAIN pages

\* However the frames are sized, trimmed, scaled and packed, the rectangles
\* placed so far keep the padding clear between any two of one page and from
\* every edge of the page, the check of the drawn pages never refuses what the
\* layout made, and a sheet that is made shows every variant once under its own index or
\* reports that index as missing (_grid, _atlas and validate in
\* spritesheet.py, _frames in variant_sets/sprites.py).
LayoutSound ==
  /\ at # "invalid"
  /\ \A r \in placed :
       /\ r.x >= profile.pad /\ r.x + r.w + profile.pad <= pages[r.page][1]
       /\ r.y >= profile.pad /\ r.y + r.h + profile.pad <= pages[r.page][2]
  /\ \A r, s \in placed :
       r # s /\ r.page = s.page =>
         \/ Clear(r.x, r.w, s.x, s.w)
         \/ Clear(r.y, r.h, s.y, s.h)
  /\ at = "made" =>
       \A i \in DOMAIN variants :
         IF variants[i] = Absent THEN i \in missing /\ \A r \in placed : r.i # i
         ELSE i \notin missing /\ Cardinality({r \in placed : r.i = i}) = 1
=============================================================================
