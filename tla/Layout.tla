------------------------------- MODULE Layout -------------------------------
(***************************************************************************)
(* The layout of a window (layout.c, layout-set.c and the commands that    *)
(* change it: split-window, join-pane, break-pane -W, kill-pane, swap-pane,*)
(* resize-pane, select-layout and the resize of the window).               *)
(*                                                                         *)
(* A cell is a record: a pane, or a node with the cells it holds in a row  *)
(* or a column, one line of border between two of them.  A floating cell   *)
(* stands in the tree and takes none of its space.  The pointers of the C  *)
(* (parent, entry) are the nesting of the records, and a cell is named by  *)
(* its path: the indices that lead to it from the root.                    *)
(*                                                                         *)
(* Scrollbars and the zoomed window are left out.                          *)
(***************************************************************************)
EXTENDS Integers, Sequences, SequencesExt, FiniteSetsExt

CONSTANTS
  Panes,         \* the names of panes
  NoPane,        \* no pane: a node, or the new cell of join-pane
  Widths,        \* widths a window is resized to
  Heights,       \* heights a window is resized to
  Statuses,      \* values of pane-border-status: "off", "top", "bottom"
  Hints,         \* -1 for half, or the size a split asks for
  Changes,       \* by how much a pane is resized
  FloatSizes,    \* geometries of floating panes
  FloatChanges,  \* by how much a floating pane is resized
  MainSizes,     \* values of main-pane-height and main-pane-width
  MaxSteps       \* bound: how many commands are given

VARIABLES
  layout,        \* window.layout_root
  order,         \* window.panes
  win,           \* window.sx, window.sy
  status,        \* pane-border-status
  fault,         \* "none", "misfit", "divided": what went wrong for good
  steps          \* commands given so far

vars == <<layout, order, win, status, fault, steps>>

Types == {"leftright", "topbottom"}
Minimum == 1                                        \* PANE_MINIMUM

Other(type) == IF type = "leftright" THEN "topbottom" ELSE "leftright"
Along(g, type) == IF type = "leftright" THEN g.sx ELSE g.sy
Geometry(sx, sy, xoff, yoff) == [sx |-> sx, sy |-> sy, xoff |-> xoff, yoff |-> yoff]
Nowhere == Geometry(0, 0, 0, 0)

Pane(p, g, floating) ==
  [type |-> "pane", pane |-> p, floating |-> floating, g |-> g, cells |-> <<>>]
Node(type, g, cells) ==
  [type |-> type, pane |-> NoPane, floating |-> FALSE, g |-> g, cells |-> cells \o <<>>]

\* The cell with other cells in it; the empty sequence makes TLC keep a tuple.
WithCells(c, f) == [c EXCEPT !.cells = f \o <<>>]

\* The cell with its size along a direction set.
Sized(c, type, n) ==
  IF type = "leftright" THEN [c EXCEPT !.g.sx = n] ELSE [c EXCEPT !.g.sy = n]

IsTiled(c) == c.type = "pane" /\ ~c.floating

RECURSIVE HasTiled(_)
HasTiled(c) == \E i \in DOMAIN c.cells : IsTiled(c.cells[i]) \/ HasTiled(c.cells[i])

\* The cells that take space: those a loop over the children does not skip.
Counted(c) == IsTiled(c) \/ HasTiled(c)
CountedIn(c) == {i \in DOMAIN c.cells : Counted(c.cells[i])}

-----------------------------------------------------------------------------
(* Paths.                                                                   *)

RECURSIVE Sub(_, _)
Sub(c, path) == IF path = <<>> THEN c ELSE Sub(c.cells[Head(path)], Tail(path))

RECURSIVE Put(_, _, _)
Put(c, path, new) ==
  IF path = <<>> THEN new
  ELSE [c EXCEPT !.cells[Head(path)] = Put(@, Tail(path), new)]

RECURSIVE Paths(_)
Paths(c) ==
  {<<>>} \cup UNION {{<<i>> \o q : q \in Paths(c.cells[i])} : i \in DOMAIN c.cells}

Leaves(root) == {q \in Paths(root) : Sub(root, q).type = "pane"}
PathOf(root, p) == CHOOSE q \in Leaves(root) : Sub(root, q).pane = p

-----------------------------------------------------------------------------
(* The line for the status of the panes at the top or at the bottom.        *)
(* "edge" says that a cell is at that edge of the window.                   *)

EdgeIn(c, i, edge) ==
  /\ edge
  /\ c.type = "topbottom" =>
       /\ i \in CountedIn(c)
       /\ \A j \in CountedIn(c) : IF status = "top" THEN i <= j ELSE i >= j

RECURSIVE EdgeFrom(_, _, _)
EdgeFrom(c, path, edge) ==
  IF path = <<>> THEN edge
  ELSE EdgeFrom(c.cells[Head(path)], Tail(path), EdgeIn(c, Head(path), edge))

EdgeAt(root, path) == EdgeFrom(root, path, status # "off")

-----------------------------------------------------------------------------
(* How much can be taken from a cell, and the change of its size.           *)

RECURSIVE Room(_, _, _)
Room(c, type, edge) ==
  IF ~Counted(c) THEN 0
  ELSE IF c.type = "pane"
       THEN LET minimum == Minimum + (IF type = "topbottom" /\ edge THEN 1 ELSE 0)
            IN Max({0, Along(c.g, type) - minimum})
  ELSE IF c.type = type
       THEN LET sum[k \in 0 .. Len(c.cells)] ==
                  IF k = 0 THEN 0
                  ELSE sum[k - 1] + Room(c.cells[k], type, EdgeIn(c, k, edge))
            IN sum[Len(c.cells)]
  ELSE Min({Room(c.cells[i], type, EdgeIn(c, i, edge)) : i \in CountedIn(c)})

RECURSIVE Adjust(_, _, _, _), Share(_, _, _, _, _, _)
Adjust(c, type, change, edge) ==
  LET new == Sized(c, type, Along(c.g, type) + change)
  IN IF c.type # type
     THEN WithCells(new, [i \in DOMAIN c.cells |->
            IF i \in CountedIn(c)
            THEN Adjust(c.cells[i], type, change, EdgeIn(c, i, edge))
            ELSE c.cells[i]])
     ELSE IF HasTiled(c) THEN Share(new, type, change, edge, 1, FALSE) ELSE new

\* One line or column at a time to each cell in turn, from cell i on.
Share(c, type, change, edge, i, changed) ==
  IF change = 0 THEN c
  ELSE IF i > Len(c.cells)
       THEN IF changed THEN Share(c, type, change, edge, 1, FALSE) ELSE c
  ELSE LET e    == EdgeIn(c, i, edge)
           unit == IF change > 0 THEN 1 ELSE -1
       IN IF Counted(c.cells[i]) /\ (change > 0 \/ Room(c.cells[i], type, e) > 0)
          THEN Share([c EXCEPT !.cells[i] = Adjust(@, type, unit, e)],
                     type, change - unit, edge, i + 1, TRUE)
          ELSE Share(c, type, change, edge, i + 1, changed)

\* Adjust where the cell stands in the tree.
AdjustAt(root, path, type, change) ==
  Put(root, path, Adjust(Sub(root, path), type, change, EdgeAt(root, path)))
SetSizeAt(root, path, type, n) ==
  AdjustAt(root, path, type, n - Along(Sub(root, path).g, type))

\* Does the cell still fit after the change?  The comment of
\* layout_resize_adjust leaves this to its callers.
RECURSIVE Bears(_, _, _, _)
Bears(c, type, change, edge) ==
  \/ change >= 0
  \/ ~Counted(c)
  \/ c.type = "pane" /\ Along(c.g, type) + change >= Minimum
  \/ c.type = type /\ -change <= Room(c, type, edge)
  \/ /\ c.type = Other(type)
     /\ \A i \in CountedIn(c) : Bears(c.cells[i], type, change, EdgeIn(c, i, edge))

BearsAt(root, path, type, change) ==
  Bears(Sub(root, path), type, change, EdgeAt(root, path))

\* Definitions named X_slip are X as a plausible mistake would have it: here the
\* floating cells move the ones after them.  No other definition uses them.
RECURSIVE FixOffsetsIn_slip(_)
FixOffsetsIn_slip(c) ==
  LET off(i)  == MapThenSumSet(LAMBDA j : Along(c.cells[j].g, c.type) + 1, 1 .. i - 1)
      xoff(i) == c.g.xoff + (IF c.type = "leftright" THEN off(i) ELSE 0)
      yoff(i) == c.g.yoff + (IF c.type = "topbottom" THEN off(i) ELSE 0)
  IN WithCells(c, [i \in DOMAIN c.cells |->
       IF i \in CountedIn(c)
       THEN FixOffsetsIn_slip([c.cells[i] EXCEPT !.g.xoff = xoff(i), !.g.yoff = yoff(i)])
       ELSE c.cells[i]])

RECURSIVE FixOffsetsIn(_)
FixOffsetsIn(c) ==
  LET before(i) == {j \in CountedIn(c) : j < i}
      off(i)    == MapThenSumSet(LAMBDA j : Along(c.cells[j].g, c.type) + 1, before(i))
      xoff(i)   == c.g.xoff + (IF c.type = "leftright" THEN off(i) ELSE 0)
      yoff(i)   == c.g.yoff + (IF c.type = "topbottom" THEN off(i) ELSE 0)
  IN WithCells(c, [i \in DOMAIN c.cells |->
       IF i \in CountedIn(c)
       THEN FixOffsetsIn([c.cells[i] EXCEPT !.g.xoff = xoff(i), !.g.yoff = yoff(i)])
       ELSE c.cells[i]])

FixOffsets(root) ==
  IF root.floating THEN root
  ELSE FixOffsetsIn([root EXCEPT !.g.xoff = 0, !.g.yoff = 0])

-----------------------------------------------------------------------------
(* Neighbours; a cell that leaves the tree or its space.                    *)

\* layout_cell_get_neighbour_dir: 0 if there is none.
NextCounted(c, i) == LET s == {j \in CountedIn(c) : j > i} IN IF s = {} THEN 0 ELSE Min(s)
PrevCounted(c, i) == LET s == {j \in CountedIn(c) : j < i} IN IF s = {} THEN 0 ELSE Max(s)

Neighbour(c, i) ==
  LET next == NextCounted(c, i)
      prev == PrevCounted(c, i)
  IN IF i = Len(c.cells) THEN prev ELSE IF next # 0 THEN next ELSE prev

\* The space of the cell at path goes to its neighbour, or, if it is the last
\* that takes space in its node, the space of the node goes.
RECURSIVE RemoveTile(_, _)
RemoveTile(root, path) ==
  IF path = <<>> THEN root
  ELSE LET up     == Front(path)
           parent == Sub(root, up)
           n      == Neighbour(parent, Last(path))
           cell   == Sub(root, path)
           given  == IF n = 0 THEN RemoveTile(root, up)
                     ELSE AdjustAt(root, Append(up, n), parent.type,
                                   Along(cell.g, parent.type) + 1)
       IN Put(given, path, [Sub(given, path) EXCEPT !.g = Nowhere])

\* A node with one cell left is replaced by that cell; here only below the root.
\* A node with one cell left is replaced by that cell.
Collapse(root, up) ==
  LET parent == Sub(root, up)
  IN IF Len(parent.cells) # 1 THEN root ELSE Put(root, up, parent.cells[1])

DestroyCell(root, path) ==
  LET up     == Front(path)
      parent == Sub(root, up)
      n      == Neighbour(parent, Last(path))
      cell   == Sub(root, path)
      given  == IF ~IsTiled(cell) THEN root
                ELSE IF n = 0 THEN RemoveTile(root, up)
                ELSE AdjustAt(root, Append(up, n), parent.type,
                              Along(cell.g, parent.type) + 1)
      gone   == [Sub(given, up) EXCEPT !.cells = RemoveAt(@, Last(path))]
  IN Collapse(Put(given, up, gone), up)

ClosePane(root, p) == FixOffsets(DestroyCell(root, PathOf(root, p)))

-----------------------------------------------------------------------------
(* Splitting a cell.                                                        *)

HasSpace(root, path, type) ==
  LET edge == EdgeAt(root, path)
  IN Along(Sub(root, path).g, type) >=
       2 * Minimum + 1 + (IF type = "topbottom" /\ edge THEN 1 ELSE 0)

\* The sizes of the first and of the second cell; an unsigned number below
\* zero is above any limit.
SplitSizes(ss, size, before) ==
  LET wanted == IF size < 0 THEN ((ss + 1) \div 2) - 1
                ELSE IF before THEN ss - size - 1 ELSE size
      second == IF wanted >= 0 /\ wanted < Minimum THEN Minimum
                ELSE IF wanted < 0 \/ wanted > ss - 2 THEN ss - 2 ELSE wanted
  IN <<ss - 1 - second, second>>

NewPaneSize(c, previous, type, size, left, sizeLeft, edge) ==
  LET minimum == Max({(Minimum + 1) * (left - 1),
                      Along(c.g, type) - Room(c, type, edge)})
      wanted  == (Along(c.g, type) * size) \div previous
      most    == IF minimum <= sizeLeft THEN sizeLeft - minimum ELSE wanted
  IN IF left = 1 THEN sizeLeft ELSE Max({Minimum, Min({wanted, most})})

\* layout_set_size_check, in the order of the cells; the floating ones are
\* counted.  "divided" when it divides by the size of a node that has none.
AndThen(first, second) == IF first # "yes" THEN first ELSE second

RECURSIVE SizeCheck(_, _, _, _), SizeCheckFrom(_, _, _, _, _, _), SizeCheckRest(_, _, _, _, _, _, _, _)
SizeCheck(c, type, size, edge) ==
  IF c.type = "pane" THEN (IF size >= Minimum THEN "yes" ELSE "no")
  ELSE IF c.type = type
       THEN IF size < 2 * Len(c.cells) - 1 THEN "no"
            ELSE SizeCheckFrom(c, type, size, edge, 1, size)
  ELSE LET answer(i) == IF c.cells[i].type = "pane" THEN "yes"
                        ELSE SizeCheck(c.cells[i], type, size, EdgeIn(c, i, edge))
           failed    == {i \in DOMAIN c.cells : answer(i) # "yes"}
       IN IF failed = {} THEN "yes" ELSE answer(Min(failed))

SizeCheckFrom(c, type, size, edge, i, available) ==
  LET left == Len(c.cells) - i + 1
      e    == EdgeIn(c, i, edge)
      now  == Along(c.g, type)
  IN CASE left = 0 -> "yes"
       [] left > 1 /\ now = 0 -> "divided"
       [] OTHER ->
            SizeCheckRest(c, type, size, edge, i, available,
                          NewPaneSize(c.cells[i], now, type, size, left, available, e), e)

\* The cell gets the size new, the others what is left with the line between.
SizeCheckRest(c, type, size, edge, i, available, new, e) ==
  LET used == IF i = Len(c.cells) THEN new ELSE new + 1
  IN IF used > available THEN "no"
     ELSE AndThen(SizeCheck(c.cells[i], type, new, e),
                  SizeCheckFrom(c, type, size, edge, i + 1, available - used))

\* The cells of a node made to fill it.
RECURSIVE ResizeChildren(_, _), ResizeChildrenFrom(_, _, _, _, _, _)
ResizeChildren(c, edge) ==
  IF CountedIn(c) = {} THEN c
  ELSE LET n    == Cardinality(CountedIn(c))
           prev == MapThenSumSet(LAMBDA i : Along(c.cells[i].g, c.type), CountedIn(c)) + n - 1
       IN ResizeChildrenFrom(c, edge, 1, prev, n, Along(c.g, c.type))

ResizeChildrenFrom(c, edge, i, prev, left, available) ==
  IF i > Len(c.cells) THEN c
  ELSE IF ~Counted(c.cells[i])
       THEN ResizeChildrenFrom(c, edge, i + 1, prev, left, available)
  ELSE LET e     == EdgeIn(c, i, edge)
           new   == NewPaneSize(c.cells[i], prev, c.type, Along(c.g, c.type), left, available, e)
           other == Other(c.type)
           cell  == Sized(Sized(c.cells[i], c.type, new), other, Along(c.g, other))
       IN ResizeChildrenFrom([c EXCEPT !.cells[i] = ResizeChildren(cell, e)],
                             edge, i + 1, prev, left - 1, available - new - 1)

LargeEnough(root, type) ==
  \A q \in Leaves(root) :
    IsTiled(Sub(root, q)) => Along(Sub(root, q).g, type) >= Minimum

\* layout_split_pane: the cell at path, or the root with -f, makes room for a
\* new cell.  With -f the cells are also made to fill the root across, where
\* their sizes have not been checked.
SplitCell(root, path, type, sizes, before, new) ==
  LET lc   == Sub(root, path)
      g1   == Sized(lc, type, sizes[1]).g
      g2   == LET g == Sized(lc, type, sizes[2]).g
              IN IF type = "leftright" THEN [g EXCEPT !.xoff = @ + sizes[1] + 1]
                                       ELSE [g EXCEPT !.yoff = @ + sizes[1] + 1]
      pair == IF before THEN <<Pane(new, g1, FALSE), [lc EXCEPT !.g = g2]>>
                        ELSE <<[lc EXCEPT !.g = g1], Pane(new, g2, FALSE)>>
      up   == Front(path)
      at   == Last(path)
  IN IF path # <<>> /\ Sub(root, up).type = type
     THEN Put(root, up, [Sub(root, up) EXCEPT !.cells =
                           SubSeq(@, 1, at - 1) \o pair \o SubSeq(@, at + 1, Len(@))])
     ELSE Put(root, path, Node(type, lc.g, pair))

SplitRoot(root, type, sizes, before, new) ==
  LET size  == IF before THEN sizes[2] ELSE sizes[1]
      edge  == status # "off"
      added == Pane(new, Sized(root, type, Along(root.g, type) - 1 - size).g, FALSE)
      old   == <<IF before THEN 2 ELSE 1>>
      wider == Sized(ResizeChildren(Sized(root, type, size), edge), type, Along(root.g, type))
      node  == SplitCell(root, <<>>, type, sizes, before, new)
  IN IF root.type = type
     THEN [wider EXCEPT !.cells = IF before THEN <<added>> \o @ ELSE Append(@, added)]
     ELSE Put(node, old, ResizeChildren(Sub(node, old), EdgeAt(node, old)))

SplitDone(answer, sound, tree) ==
  IF answer = "yes" THEN [answer |-> "yes", sound |-> sound, tree |-> tree] ELSE [answer |-> answer]

SplitPane(root, path, type, sizes, before, full, new) ==
  IF ~HasSpace(root, path, type) THEN SplitDone("no", FALSE, root)
  ELSE IF ~full THEN SplitDone("yes", TRUE, SplitCell(root, path, type, sizes, before, new))
  ELSE LET tree == SplitRoot(root, type, sizes, before, new)
       IN SplitDone(SizeCheck(root, type, sizes[IF before THEN 2 ELSE 1], status # "off"),
                    LargeEnough(tree, Other(type)), FixOffsets(tree))

\* layout_floating_pane, next to the cell at path.
FloatingPane(root, path, new, g) ==
  LET cell == Pane(new, g, TRUE)
      up   == Front(path)
  IN IF path = <<>> THEN Node("topbottom", root.g, <<root, cell>>)
     ELSE Put(root, up, [Sub(root, up) EXCEPT !.cells = InsertAt(@, Last(path) + 1, cell)])

\* layout_insert_tile: half of the space of the neighbour, or the space of the
\* node, which must find its own first; that this fails is not noticed.
RECURSIVE InsertTile(_, _)
InsertTile(root, path) ==
  IF path = <<>>
  THEN [ok |-> TRUE, sound |-> TRUE,
        tree |-> [root EXCEPT !.g = Geometry(win.sx, win.sy, 0, 0)]]
  ELSE LET up     == Front(path)
           type   == Sub(root, up).type
           n      == Neighbour(Sub(root, up), Last(path))
           across(tree) == SetSizeAt(tree, path, Other(type), Along(Sub(tree, up).g, Other(type)))
       IN IF n = 0
          THEN LET node == InsertTile(root, up)
               IN [ok    |-> TRUE,
                   sound |-> node.ok /\ node.sound,
                   tree  |-> across(SetSizeAt(node.tree, path, type, Along(Sub(node.tree, up).g, type)))]
          ELSE LET other == Append(up, n)
                   ss    == Along(Sub(root, other).g, type)
                   sizes == SplitSizes(ss, -1, FALSE)
               IN IF ~HasSpace(root, other, type)
                  THEN [ok |-> FALSE, sound |-> TRUE, tree |-> root]
                  ELSE [ok    |-> TRUE,
                        sound |-> BearsAt(root, other, type, sizes[2] - ss),
                        tree  |-> across(SetSizeAt(SetSizeAt(root, path, type, sizes[1]),
                                                   other, type, sizes[2]))]

-----------------------------------------------------------------------------
(* The cells of a node made equal, and the layouts of layout-set.c.         *)

SpreadCell(root, path) ==
  LET parent == Sub(root, path)
      type   == parent.type
      edge   == EdgeAt(root, path)
      number == Cardinality(CountedIn(parent))
      line(e) == IF type = "topbottom" /\ e THEN 1 ELSE 0
      size   == Along(parent.g, type) - line(edge)
      each   == (size - (number - 1)) \div number
      rest   == size - number * (each + 1) + 1
      rank(i) == Cardinality({j \in CountedIn(parent) : j <= i})
      change(i) == each + line(EdgeIn(parent, i, edge)) + (IF rank(i) <= rest THEN 1 ELSE 0)
                     - Along(parent.cells[i].g, type)
      done   == number > 1 /\ size >= number - 1 /\ each # 0
  IN IF ~done THEN [changed |-> FALSE, done |-> FALSE, sound |-> TRUE, tree |-> root]
     ELSE [changed |-> \E i \in CountedIn(parent) : change(i) # 0,
           done    |-> TRUE,
           sound   |-> \A i \in CountedIn(parent) : BearsAt(root, Append(path, i), type, change(i)),
           tree    |-> Put(root, path, WithCells(parent, [i \in DOMAIN parent.cells |->
                         IF i \in CountedIn(parent)
                         THEN Adjust(parent.cells[i], type, change(i), EdgeIn(parent, i, edge))
                         ELSE parent.cells[i]]))]

CellOf(p) == Sub(layout, PathOf(layout, p))
CellsOf(ps) == [i \in DOMAIN ps |-> CellOf(ps[i])]
TiledPanes == SelectSeq(order, LAMBDA p : IsTiled(CellOf(p)))
FloatingPanes == SelectSeq(order, LAMBDA p : ~IsTiled(CellOf(p)))

\* The cells of panes, the tiled ones with a size.
Placed(ps, sx, sy) ==
  [i \in DOMAIN ps |-> IF IsTiled(CellOf(ps[i]))
                       THEN Pane(ps[i], Geometry(sx, sy, 0, 0), FALSE) ELSE CellOf(ps[i])]

\* What n cells need at least in a row.
Needed(n) == n * (Minimum + 1) - 1

EvenLayout(type) ==
  LET n    == Len(TiledPanes)
      sx   == IF type = "leftright" THEN Max({Needed(n), win.sx}) ELSE win.sx
      sy   == IF type = "topbottom" THEN Max({Needed(n), win.sy}) ELSE win.sy
  IN SpreadCell(Node(type, Geometry(sx, sy, 0, 0), Placed(order, win.sx, win.sy)), <<>>)

\* main-horizontal has its main pane above a row of the others
\* (type "topbottom"), main-vertical to the left of a column of them.
MainLayout(type, mirrored, wanted) ==
  LET along   == Along(win, type) - 1
      main    == IF wanted + Minimum >= along
                 THEN IF along <= 2 * Minimum THEN Minimum ELSE along - Minimum
                 ELSE wanted
      other   == IF wanted + Minimum >= along THEN Minimum ELSE along - main
      n       == Len(TiledPanes) - 1
      across  == Max({Needed(n), Along(win, Other(type))})
      g(a, b) == IF type = "leftright" THEN Geometry(a, b, 0, 0) ELSE Geometry(b, a, 0, 0)
      first   == Head(TiledPanes)
      others  == SelectSeq(order, LAMBDA p : p # first)
      pair(c) == IF mirrored THEN <<c, Pane(first, g(main, across), FALSE)>>
                 ELSE <<Pane(first, g(main, across), FALSE), c>>
      root(cells) == Node(type, g(main + other + 1, across), cells)
      row     == Node(Other(type), g(other, across),
                      IF type = "topbottom" THEN Placed(others, Minimum, other)
                                            ELSE Placed(others, other, Minimum))
  IN IF n = 1
     THEN root(pair(Pane(TiledPanes[2], g(other, across), FALSE)) \o CellsOf(FloatingPanes))
     ELSE SpreadCell(root(pair(row)), <<IF mirrored THEN 1 ELSE 2>>).tree

\* As many rows as columns, or one more.
Columns == Min({c \in DOMAIN TiledPanes : c * (c + 1) >= Len(TiledPanes)})
Rows == Min({r \in DOMAIN TiledPanes : r * Columns >= Len(TiledPanes)})

\* The size for the rows is below zero, as an unsigned number far above.
TiledWraps == win.sx < Columns - 1 \/ win.sy < Rows - 1

TiledLayout ==
  LET n       == Len(TiledPanes)
      width   == Max({Minimum, (win.sx - (Columns - 1)) \div Columns})
      height  == Max({Minimum, (win.sy - (Rows - 1)) \div Rows})
      sx      == Max({(width + 1) * Columns - 1, win.sx})
      sy      == Max({(height + 1) * Rows - 1, win.sy})
      tall(j) == IF j = Rows THEN height + Max({0, win.sy - (Rows * height + Rows - 1)}) ELSE height
      inRow(j) == SubSeq(TiledPanes, (j - 1) * Columns + 1, Min({n, j * Columns}))
      wide(j, i) == LET k == Len(inRow(j))
                    IN IF i = k THEN width + Max({0, win.sx - (k * (width + 1) - 1)}) ELSE width
      row(j)  == IF Len(inRow(j)) = 1
                 THEN Pane(inRow(j)[1], Geometry(win.sx, tall(j), 0, 0), FALSE)
                 ELSE Node("leftright", Geometry(win.sx, tall(j), 0, 0),
                           [i \in DOMAIN inRow(j) |->
                              Pane(inRow(j)[i], Geometry(wide(j, i), tall(j), 0, 0), FALSE)])
  IN Node("topbottom", Geometry(sx, sy, 0, 0), [j \in 1 .. Rows |-> row(j)] \o CellsOf(FloatingPanes))

-----------------------------------------------------------------------------
(* Resizing one cell at the cost of others.                                 *)

\* The cell that gives need not have what is taken.
GrowRound_slip(root, up, i, type, needed, opposite) ==
  LET parent   == Sub(root, up)
      gives(j) == Room(parent.cells[j], type, EdgeAt(root, Append(up, j)))
      after    == {j \in CountedIn(parent) : j > i /\ gives(j) > 0}
      before   == {j \in CountedIn(parent) : j < i /\ gives(j) > 0}
      from     == IF after # {} THEN Min(after) ELSE Max(before)
  IN IF after = {} /\ (~opposite \/ before = {}) THEN <<0, root>>
     ELSE <<needed, AdjustAt(AdjustAt(root, Append(up, i), type, needed),
                             Append(up, from), type, -needed)>>

\* One round of layout_resize_pane_grow or of layout_resize_pane_shrink for
\* child i of the node at up: <<how much, the tree>>.
GrowRound(root, up, i, type, needed, opposite) ==
  LET parent   == Sub(root, up)
      gives(j) == Room(parent.cells[j], type, EdgeAt(root, Append(up, j)))
      after    == {j \in CountedIn(parent) : j > i /\ gives(j) > 0}
      before   == {j \in CountedIn(parent) : j < i /\ gives(j) > 0}
      from     == IF after # {} THEN Min(after) ELSE Max(before)
      size     == Min({needed, gives(from)})
  IN IF after = {} /\ (~opposite \/ before = {}) THEN <<0, root>>
     ELSE <<size, AdjustAt(AdjustAt(root, Append(up, i), type, size),
                           Append(up, from), type, -size)>>

ShrinkRound(root, up, i, type, needed) ==
  LET parent   == Sub(root, up)
      gives(j) == Room(parent.cells[j], type, EdgeAt(root, Append(up, j)))
      from     == {j \in CountedIn(parent) : j <= i /\ gives(j) > 0}
      add      == NextCounted(parent, i)
      size     == Min({needed, gives(Max(from))})
  IN IF from = {} \/ add = 0 THEN <<0, root>>
     ELSE <<size, AdjustAt(AdjustAt(root, Append(up, add), type, size),
                           Append(up, Max(from)), type, -size)>>

RECURSIVE ResizeLayout(_, _, _, _, _)
ResizeLayout(root, path, type, change, opposite) ==
  LET up    == Front(path)
      i     == Last(path)
      round == IF change > 0 THEN GrowRound(root, up, i, type, change, opposite)
                             ELSE ShrinkRound(root, up, i, type, -change)
      left  == IF change > 0 THEN change - round[1] ELSE change + round[1]
  IN IF change = 0 \/ round[1] = 0 THEN FixOffsets(root)
     ELSE ResizeLayout(round[2], path, type, left, opposite)

\* The cell around a pane that stands in a node of a type; <<>> if there is none.
Within(path, type) ==
  LET ups == {k \in 0 .. Len(path) - 1 : Sub(layout, SubSeq(path, 1, k)).type = type}
  IN IF ups = {} THEN <<>> ELSE SubSeq(path, 1, Max(ups) + 1)

IsLastTiled(path) == Last(path) = Max(CountedIn(Sub(layout, Front(path))))

\* layout_resize_pane: the border that moves is the one after the cell, or the
\* one before it if it is the last.
ResizePaneBy(p, type, change) ==
  LET path == Within(PathOf(layout, p), type)
      prev == PrevCounted(Sub(layout, Front(path)), Last(path))
  IN IF path = <<>> THEN layout
     ELSE IF ~IsLastTiled(path) THEN ResizeLayout(layout, path, type, change, TRUE)
     ELSE IF prev = 0 THEN layout
     ELSE ResizeLayout(layout, Append(Front(path), prev), type, change, TRUE)

\* layout_search_by_border: the cell before the border at x, y, <<>> if none.
RECURSIVE SearchByBorder(_, _, _, _, _, _)
SearchByBorder(c, path, i, last, x, y) ==
  IF i > Len(c.cells) THEN <<>>
  ELSE LET g == c.cells[i].g
           l == c.cells[last].g
       IN IF x >= g.xoff /\ x < g.xoff + g.sx /\ y >= g.yoff /\ y < g.yoff + g.sy
          THEN SearchByBorder(c.cells[i], Append(path, i), 1, 0, x, y)
          ELSE IF last = 0 THEN SearchByBorder(c, path, i + 1, i, x, y)
          ELSE IF \/ c.type = "leftright" /\ x < g.xoff /\ x >= l.xoff + l.sx
                  \/ c.type = "topbottom" /\ y < g.yoff /\ y >= l.yoff + l.sy
               THEN Append(path, last)
          ELSE SearchByBorder(c, path, i + 1, i, x, y)

-----------------------------------------------------------------------------
(* The window is resized.                                                   *)

\* A floating pane kept inside the window, with its border.
Clamp(g, sx, sy) ==
  LET fit(n, room)    == IF n > Max({room - 2, 0}) THEN Max({room - 2, Minimum}) ELSE n
      off(o, n, room) == IF o + n + 1 <= room THEN o
                         ELSE IF n + 2 >= room THEN 1 ELSE room - n - 1
  IN Geometry(fit(g.sx, sx), fit(g.sy, sy), off(g.xoff, fit(g.sx, sx), sx),
              off(g.yoff, fit(g.sy, sy), sy))

RECURSIVE ClampFloating(_, _, _)
ClampFloating(c, sx, sy) ==
  IF c.floating THEN [c EXCEPT !.g = Clamp(@, sx, sy)]
  ELSE WithCells(c, [i \in DOMAIN c.cells |-> ClampFloating(c.cells[i], sx, sy)])

ResizeRoot(root, type, n) ==
  LET limit  == Room(root, type, EdgeAt(root, <<>>))
      now    == Along(root.g, type)
      change == IF limit = 0 THEN Max({0, n - now}) ELSE Max({n - now, -limit})
  IN AdjustAt(root, <<>>, type, change)

ResizedLayout(sx, sy) ==
  ClampFloating(
    IF layout.floating THEN layout
    ELSE FixOffsets(ResizeRoot(ResizeRoot(layout, "leftright", sx), "topbottom", sy)), sx, sy)

-----------------------------------------------------------------------------
(* The commands.  What follows a fault is not looked at.                    *)

Used == ToSet(order)
\* Commands are given until one leaves a fault.
Step == fault = "none" /\ steps < MaxSteps /\ steps' = steps + 1

Fault(sound) == IF sound THEN "none" ELSE "misfit"

\* A layout of layout-set.c gives the window its size.
Arrange(root, sound) ==
  /\ layout' = root
  /\ win' = [sx |-> root.g.sx, sy |-> root.g.sy]
  /\ fault' = Fault(sound)
  /\ UNCHANGED <<order, status>>

\* A command on one pane.
Change(root, sound) ==
  /\ layout' = root
  /\ fault' = Fault(sound)
  /\ UNCHANGED <<order, win, status>>

Inserted(ps, p, before, full, new) ==
  LET i == SelectInSeq(ps, LAMBDA q : q = p)
  IN IF full THEN IF before THEN <<new>> \o ps ELSE Append(ps, new)
     ELSE InsertAt(ps, IF before THEN i ELSE i + 1, new)

SplitOf(p, type, size, before, full, new) ==
  LET path  == IF full THEN <<>> ELSE PathOf(layout, p)
      sizes == SplitSizes(Along(Sub(layout, path).g, type), size, before)
  IN SplitPane(layout, path, type, sizes, before, full, new)

\* split-window
Split(p, new, type, size, before, full) ==
  /\ Step
  /\ IsTiled(CellOf(p))
  /\ \E split \in {SplitOf(p, type, size, before, full, new)} :
       \/ /\ split.answer = "divided"
          /\ fault' = "divided"
          /\ UNCHANGED <<layout, order>>
       \/ /\ split.answer = "yes"
          /\ fault' = Fault(split.sound)
          /\ layout' = split.tree
          /\ order' = Inserted(order, p, before, full, new)
  /\ UNCHANGED <<win, status>>

\* join-pane, of a pane of the same window: the new cell first, then the cell
\* of the pane goes.
Renamed(root, path, p) == Put(root, path, [Sub(root, path) EXCEPT !.pane = p])

Join(src, dst, type, size, before, full) ==
  /\ Step
  /\ src # dst
  /\ IsTiled(CellOf(dst))
  /\ \E split \in {SplitOf(dst, type, size, before, full, NoPane)} :
       \/ /\ split.answer = "divided"
          /\ fault' = "divided"
          /\ UNCHANGED <<layout, order>>
       \/ /\ split.answer = "yes"
          /\ fault' = Fault(split.sound)
          /\ \E left \in {ClosePane(split.tree, src)} :
               layout' = Renamed(left, PathOf(left, NoPane), src)
          /\ order' = Inserted(SelectSeq(order, LAMBDA q : q # src), dst, before, FALSE, src)
  /\ UNCHANGED <<win, status>>

\* split-window of a floating pane
NewFloat(p, new, g) ==
  /\ Step
  /\ layout' = FloatingPane(layout, PathOf(layout, p), new, g)
  /\ order' = Append(order, new)
  /\ UNCHANGED <<win, status, fault>>

\* kill-pane, or the end of its process; the last pane takes the window along
Close(p) ==
  /\ Step
  /\ Len(order) > 1
  /\ layout' = ClosePane(layout, p)
  /\ order' = SelectSeq(order, LAMBDA q : q # p)
  /\ UNCHANGED <<win, status, fault>>

\* break-pane -W
Float(p, g) ==
  LET path == PathOf(layout, p)
      left == RemoveTile(layout, path)
  IN /\ Step
     /\ IsTiled(CellOf(p))
     /\ Change(FixOffsets(Put(left, path, Pane(p, g, TRUE))), TRUE)

\* join-pane of a floating pane to itself
Tile(p) ==
  LET path  == PathOf(layout, p)
      tiled == InsertTile(layout, path)
  IN /\ Step
     /\ CellOf(p).floating
     /\ tiled.ok
     /\ Change(FixOffsets(Put(tiled.tree, path, [Sub(tiled.tree, path) EXCEPT !.floating = FALSE])),
               tiled.sound)

\* swap-pane
Swap(p, q) ==
  LET swapped(r) == IF r = p THEN q ELSE IF r = q THEN p ELSE r
      first == Put(layout, PathOf(layout, p), [CellOf(p) EXCEPT !.pane = q])
  IN /\ Step
     /\ p # q
     /\ layout' = Put(first, PathOf(layout, q), [CellOf(q) EXCEPT !.pane = p])
     /\ order' = [i \in DOMAIN order |-> swapped(order[i])]
     /\ UNCHANGED <<win, status, fault>>

\* resize-pane -U, -D, -L and -R
ResizePane(p, type, change) ==
  /\ Step
  /\ IsTiled(CellOf(p))
  /\ Change(ResizePaneBy(p, type, change), TRUE)

\* resize-pane -x and -y
ResizePaneTo(p, type, size) ==
  LET path == Within(PathOf(layout, p), type)
      now  == Along(Sub(layout, path).g, type)
  IN /\ Step
     /\ IsTiled(CellOf(p))
     /\ path # <<>>
     /\ Change(ResizePaneBy(p, type, IF IsLastTiled(path) THEN now - size ELSE size - now), TRUE)

\* resize-pane of a floating pane
ResizeFloat(p, type, change, opposite) ==
  LET path == PathOf(layout, p)
      g    == CellOf(p).g
      off(o, t) == IF opposite /\ t = type THEN o - change ELSE o
      new  == Sized(CellOf(p), type, Along(g, type) + change)
  IN /\ Step
     /\ CellOf(p).floating
     /\ Along(g, type) + change >= Minimum
     /\ Change(Put(layout, path, [new EXCEPT !.g.xoff = off(@, "leftright"),
                                             !.g.yoff = off(@, "topbottom")]), TRUE)

\* The cells before the borders at and around a place, each once.
BorderCells(x, y) ==
  LET places == <<<<x, y>>, <<x, y + 1>>, <<x + 1, y>>, <<x, y - 1>>, <<x - 1, y>>>>
      found  == [i \in 1 .. 5 |->
                   SearchByBorder(layout, <<>>, 1, 0, places[i][1], places[i][2])]
      firsts == {i \in 1 .. 5 : found[i] # <<>> /\ \A j \in 1 .. i - 1 : found[j] # found[i]}
  IN [k \in 1 .. Cardinality(firsts) |->
        found[CHOOSE i \in firsts : Cardinality({j \in firsts : j <= i}) = k]]

\* The mouse is on a border of tiled panes: on none of them, and no floating
\* pane or border of one is in front.
OnBorder(x, y) ==
  \A q \in Leaves(layout) :
    LET c == Sub(layout, q)
        e == IF c.floating THEN 1 ELSE 0
    IN ~ (/\ x \in c.g.xoff - e .. c.g.xoff + c.g.sx - 1 + e
          /\ y \in c.g.yoff - e .. c.g.yoff + c.g.sy - 1 + e)

\* The mouse drags a border by one (resize-pane -M).
DragBorder(type, change) ==
  /\ Step
  /\ \E cells \in {BorderCells(x, y) : <<x, y>> \in
                     {xy \in (0 .. win.sx - 1) \X (0 .. win.sy - 1) : OnBorder(xy[1], xy[2])}} :
       LET moved == SelectSeq(cells, LAMBDA q : Sub(layout, Front(q)).type = type)
           after[k \in 0 .. Len(moved)] ==
             IF k = 0 THEN layout ELSE ResizeLayout(after[k - 1], moved[k], type, change, FALSE)
       IN /\ moved # <<>>
          /\ Change(after[Len(moved)],
                    \/ after[Len(moved)] = layout
                    \/ \A k \in DOMAIN moved : Counted(Sub(layout, moved[k])))

\* select-layout -E: the first node around the pane that it changes.
Spread(p) ==
  LET path  == PathOf(layout, p)
      ups   == {k \in 0 .. Len(path) - 1 : SpreadCell(layout, SubSeq(path, 1, k)).changed}
      spread == SpreadCell(layout, SubSeq(path, 1, Max(ups)))
  IN /\ Step
     /\ ups # {}
     /\ Change(FixOffsets(spread.tree), spread.sound)

\* select-layout even-horizontal and even-vertical
Even(type) ==
  LET even == EvenLayout(type)
  IN /\ Step
     /\ Len(TiledPanes) > 1
     /\ Arrange(FixOffsets(even.tree), even.done)

\* select-layout main-horizontal, main-vertical and the mirrored ones
MainPane(type, mirrored, size) ==
  /\ Step
  /\ Len(TiledPanes) > 1
  /\ Arrange(FixOffsets(MainLayout(type, mirrored, size)), TRUE)

\* select-layout tiled: the rows get the width of the window, not that of the root.
Tiled ==
  /\ Step
  /\ Len(TiledPanes) > 1
  /\ IF TiledWraps
     THEN fault' = "misfit" /\ UNCHANGED <<layout, order, win, status>>
     ELSE Arrange(FixOffsets(TiledLayout), TiledLayout.g.sx = win.sx)

\* resize_window: the window is no smaller than its layout
ResizeWindow(sx, sy) ==
  /\ Step
  /\ layout' = ResizedLayout(sx, sy)
  /\ win' = [sx |-> Max({sx, layout'.g.sx}), sy |-> Max({sy, layout'.g.sy})]
  /\ UNCHANGED <<order, status, fault>>

\* set-option pane-border-status
SetStatus(s) ==
  /\ Step
  /\ status' = s
  /\ UNCHANGED <<layout, order, win, fault>>

-----------------------------------------------------------------------------

Init ==
  \E p \in Panes, sx \in Widths, sy \in Heights :
    /\ layout = Pane(p, Geometry(sx, sy, 0, 0), FALSE)
    /\ order = <<p>>
    /\ win = [sx |-> sx, sy |-> sy]
    /\ status = "off"
    /\ fault = "none"
    /\ steps = 0

Next ==
  \/ \E p \in Used, new \in Panes \ Used, t \in Types, n \in Hints, b, f \in BOOLEAN : Split(p, new, t, n, b, f)
  \/ \E p, q \in Used, t \in Types, n \in Hints, b, f \in BOOLEAN : Join(p, q, t, n, b, f)
  \/ \E p \in Used, new \in Panes \ Used, g \in FloatSizes : NewFloat(p, new, g)
  \/ \E p \in Used : Close(p)
  \/ \E p \in Used, g \in FloatSizes : Float(p, g)
  \/ \E p \in Used : Tile(p)
  \/ \E p, q \in Used : Swap(p, q)
  \/ \E p \in Used, t \in Types, n \in Changes : ResizePane(p, t, n)
  \/ \E p \in Used, t \in Types, n \in Widths : ResizePaneTo(p, t, n)
  \/ \E p \in Used, t \in Types, n \in FloatChanges, o \in BOOLEAN : ResizeFloat(p, t, n, o)
  \/ \E t \in Types, n \in Changes : DragBorder(t, n)
  \/ \E p \in Used : Spread(p)
  \/ \E t \in Types : Even(t)
  \/ \E t \in Types, m \in BOOLEAN, n \in MainSizes : MainPane(t, m, n)
  \/ Tiled
  \/ \E sx \in Widths, sy \in Heights : ResizeWindow(sx, sy)
  \/ \E s \in Statuses : SetStatus(s)

Spec == Init /\ [][Next]_vars

-----------------------------------------------------------------------------
(* Properties.                                                              *)

\* Type correctness: nodes hold two cells or more, and every pane of the window
\* has exactly one cell.
TypeOK ==
  /\ IsInjective(order) /\ Used \subseteq Panes /\ order # <<>>
  /\ status \in Statuses \cup {"off"}
  /\ fault \in {"none", "misfit", "divided"}
  /\ \A q \in Paths(layout) : LET c == Sub(layout, q) IN
       c.type = "pane" \/ (c.type \in Types /\ Len(c.cells) >= 2)
  /\ \A p \in Used : Cardinality({q \in Leaves(layout) : Sub(layout, q).pane = p}) = 1
  /\ Cardinality(Leaves(layout)) = Len(order)

\* layout_check of layout-custom.c: the cells of a node fill it exactly.
RECURSIVE Check(_)
Check(c) ==
  \/ c.type = "pane"
  \/ /\ \A i \in CountedIn(c) : /\ Along(c.cells[i].g, Other(c.type)) = Along(c.g, Other(c.type))
                                 /\ Check(c.cells[i])
     /\ \/ CountedIn(c) = {}
        \/ MapThenSumSet(LAMBDA i : Along(c.cells[i].g, c.type) + 1, CountedIn(c)) - 1
              = Along(c.g, c.type)

\* What layout_fix_panes shows of a tiled pane.
Shown(q) ==
  LET g    == Sub(layout, q).g
      line == EdgeAt(layout, q)
  IN Geometry(g.sx, IF line /\ g.sy > 1 THEN g.sy - 1 ELSE g.sy, g.xoff,
              IF line /\ status = "top" THEN g.yoff + 1 ELSE g.yoff)

\* Whatever sequence of splits, joins, floats, tiles, resizes, drags and layouts
\* led to it, the layout is one that layout_check accepts, no tiled pane is below
\* the minimum, and the layout is as large as its window (layout_resize_adjust,
\* layout_destroy_cell, layout_remove_tile, layout_insert_tile).
SizesFit ==
  fault = "none" =>
    /\ Check(layout)
    /\ \A q \in Leaves(layout) : LET c == Sub(layout, q) IN
         c.floating \/ (c.g.sx >= Minimum /\ c.g.sy >= Minimum)
    /\ Counted(layout) => layout.g.sx = win.sx /\ layout.g.sy = win.sy

\* The layout is a tree of all panes of the window whose sizes fit.
LayoutSound == TypeOK /\ SizesFit

\* Two tiled panes on the screen do not overlap and have a column of border
\* between them, or a line that only the status of a pane of one line may take
\* (layout_fix_offsets, layout_fix_panes): an operation that changes sizes and
\* leaves an offset behind would show one pane in another.
PanesApart ==
  fault = "none" =>
    \A q, r \in {l \in Leaves(layout) : IsTiled(Sub(layout, l))} :
      LET a == Shown(q)
          b == Shown(r)
      IN q # r => \/ a.xoff + a.sx < b.xoff \/ b.xoff + b.sx < a.xoff
                 \/ a.yoff + a.sy < b.yoff \/ b.yoff + b.sy < a.yoff
                 \/ (a.sy = 1 /\ a.yoff + 1 = b.yoff /\ EdgeAt(layout, q))
                 \/ (b.sy = 1 /\ b.yoff + 1 = a.yoff /\ EdgeAt(layout, r))
=============================================================================
