----------------------------------- MODULE Pad -----------------------------------
(***************************************************************************)
(* The drawing pad and the timer that classifies what is drawn             *)
(* (PadDraw.java, GUIClassification.java, util.java).  All handlers run on *)
(* the event thread, one at a time; a drag goes on outside the pad.  The   *)
(* pad is as wide as it asks for, and lower by the window's title bar,     *)
(* which counts in the window's 240 pixels.                                *)
(***************************************************************************)
EXTENDS Integers, FiniteSets

CONSTANTS
  CellSize,   \* pixels, 20 in the code
  Cells,      \* cells in a row and in a column, 12 in the code
  Heights,    \* the heights the pad may have, in pixels
  Beyond      \* bound on how far outside the pad the pointer goes

ASSUME SizesAssumption ==
  /\ CellSize \in Nat \ {0} /\ Cells \in Nat \ {0} /\ Beyond \in Nat
  /\ Heights \subseteq 1 .. CellSize * Cells

\* maxX and maxY
maxX == CellSize * Cells
Coordinates == -Beyond .. maxX - 1 + Beyond
Points == Coordinates \X Coordinates

VARIABLES
  height,  \* of the pad
  image,   \* FALSE before the first paint, when there is none to draw on
  held,    \* the button has been pressed on the pad and not released
  old,     \* oldX and oldY
  drawn,   \* the cells that are white
  shown    \* the picture whose probabilities the chart shows

vars == <<height, image, held, old, drawn, shown>>

OnPad(p) == p[1] \in 0 .. maxX - 1 /\ p[2] \in 0 .. height - 1

Init ==
  /\ height \in Heights
  /\ image = FALSE /\ held = FALSE
  /\ old = <<0, 0>>
  /\ drawn = {}
  /\ shown = {}

\* Division of Java, which rounds to 0: a little to the left of the pad is in
\* its first column.
Quotient(x) == IF x < 0 THEN -((-x) \div CellSize) ELSE x \div CellSize

CellAt(p) == <<Quotient(p[1]), Quotient(p[2])>>

\* A cell lies on the image, if only the upper part of it.
OnImage(c) == c[1] \in 0 .. Cells - 1 /\ c[2] >= 0 /\ c[2] * CellSize < height

\* fillRect leaves out what is outside the image.
fillRect(p) == drawn' = drawn \cup {c \in {CellAt(p)} : OnImage(c)}

\* drawImage scales the image to one pixel for each cell: the pixel in row r
\* takes the color at the middle of the r-th part of the height.
Sampled(q) == <<q[1], (((2 * q[2] + 1) * height) \div (2 * Cells)) \div CellSize>>

\* The pixels of the picture classified, as <<column, row>>.
Pixels == (0 .. Cells - 1) \X (0 .. Cells - 1)

\* getImage(12, 12) and img2intarray: the pixels that are not black; before there
\* is an image, none.
Picture == {q \in Pixels : Sampled(q) \in drawn}

InBounds(p) == p[1] < maxX /\ p[2] < maxX

paintComponent ==
  /\ ~ image
  /\ image' = TRUE
  /\ drawn' = {}
  /\ UNCHANGED <<height, held, old, shown>>

\* With no image yet the handler ends in an exception, behind the assignments.
mousePressed(p, clicks) ==
  /\ OnPad(p) /\ ~ held
  /\ held' = TRUE
  /\ old' = p
  /\ \/ ~ image /\ UNCHANGED drawn
     \/ image /\ clicks >= 2 /\ drawn' = {}
     \/ image /\ clicks < 2 /\ fillRect(p)
  /\ UNCHANGED <<height, image, shown>>

\* Mutant: the row is that of this event, the column that of the one before.
mouseDraggedCorner(p) ==
  /\ held
  /\ IF image /\ InBounds(p) THEN fillRect(<<old[1], p[2]>>) ELSE UNCHANGED drawn
  /\ old' = p
  /\ UNCHANGED <<height, image, held, shown>>

\* The cell of the event before is drawn, if this event is in bounds.
mouseDragged(p) ==
  /\ held
  /\ IF image /\ InBounds(p) THEN fillRect(old) ELSE UNCHANGED drawn
  /\ old' = p
  /\ UNCHANGED <<height, image, held, shown>>

\* No handler sees the release of the button.
Released == held /\ held' = FALSE /\ UNCHANGED <<height, image, old, drawn, shown>>

\* Mutant: the chart is set once, as long as it shows nothing.
actionPerformedOnce ==
  /\ shown' = IF shown = {} THEN Picture ELSE shown
  /\ UNCHANGED <<height, image, held, old, drawn>>

\* The timer's listener: the picture of the moment is classified.
actionPerformed ==
  /\ shown' = Picture
  /\ UNCHANGED <<height, image, held, old, drawn>>

Mouse ==
  \/ \E p \in Points : mouseDragged(p) \/ \E clicks \in {1, 2} : mousePressed(p, clicks)
  \/ Released

Next == paintComponent \/ Mouse \/ actionPerformed

\* The event thread delivers the first paint, and the timer fires again and
\* again; nobody has to use the mouse.
Spec == Init /\ [][Next]_vars /\ WF_vars(paintComponent) /\ WF_vars(actionPerformed)

-------------------------------------------------------------------------------
\* The cell of a coordinate, or the first or the last one beside the pad.
Nearest(x) == IF x < 0 THEN 0 ELSE IF x >= maxX THEN Cells - 1 ELSE x \div CellSize

\* Ink comes only from where the pointer is or was one event ago, at most a
\* cell beside the pad, and the pad is never cleared in part
\* (PadDraw.java 26-55, 83-88).
InkFromPointer ==
  [][/\ \A c \in drawn' \ drawn : \E p \in {old, old'} :
          c = <<Nearest(p[1]), Nearest(p[2])>> /\ p[1] > -CellSize /\ p[2] > -CellSize
     /\ drawn \subseteq drawn' \/ drawn' = {}]_vars

\* When the drawing is left alone the chart shows it at last, whatever was
\* drawn while an older picture was on the chart: of every cell that is whole on
\* the pad it shows whether it is white, however low the window's title bar
\* leaves the pad and however the image is scaled (GUIClassification 32-61).
WholeCells == {c \in Pixels : (c[2] + 1) * CellSize <= height}

ChartCatchesUp ==
  <>[][FALSE]_drawn =>
    <>[](\A c \in WholeCells : c \in drawn <=> \E q \in shown : Sampled(q) = c)
==================================================================================
