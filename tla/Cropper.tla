------------------------------ MODULE Cropper ------------------------------
(* The dialog of the client in which a user cuts an avatar out of a         *)
(* picture (ImageCropperQLabel): the picture is scaled into the label, and  *)
(* a square selection over it is dragged about with the mouse.  The shape   *)
(* is always CIRCLE, a square selection: the dialog ignores the one asked   *)
(* for.  A rectangle has the four edges of QRect, the right one being       *)
(* left + width - 1.                                                        *)
EXTENDS Integers

CONSTANTS
  LabelWidth, LabelHeight,   \* the size of the label
  SquareLength,              \* m_selectionSquareLength, 8 in the code
  Pictures                   \* the sizes <<w, h>> of the pictures

ASSUME LabelAssumption == LabelWidth \in Nat \ {0} /\ LabelHeight \in Nat \ {0}
ASSUME SquareAssumption == SquareLength \in Nat \ {0}
ASSUME PicturesAssumption == Pictures \subseteq (Nat \ {0}) \X (Nat \ {0})

VARIABLES
  open,       \* the dialog is on the screen
  image,      \* m_imageRect
  selection,  \* m_croppedRect
  pressed,    \* isLbuttonPressed
  mouse,      \* m_pressedPos
  output      \* the part of the scaled picture handed out, NoRect for all of it

cropVars == <<open, image, selection, pressed, mouse, output>>

Rect(l, t, r, b) == [left |-> l, top |-> t, right |-> r, bottom |-> b]
SetRect(l, t, w, h) == Rect(l, t, l + w - 1, t + h - 1)
Points == (0 .. LabelWidth - 1) \X (0 .. LabelHeight - 1)
Covers(rect, p) == /\ rect.left =< p[1] /\ p[1] =< rect.right
                   /\ rect.top =< p[2] /\ p[2] =< rect.bottom
CoversStrictly(rect, p) == /\ rect.left < p[1] /\ p[1] < rect.right
                           /\ rect.top < p[2] /\ p[2] < rect.bottom
CropMinimum == 2 * SquareLength
Smaller(a, b) == IF a > b THEN b ELSE a

-----------------------------------------------------------------------------
\* setOriginalPixmap: the picture fills the height or the width of the label
\* and is centred in the other direction.  The ratio is a float, so a product
\* may fall short of an integer, or reach one that it should not.
Scaled(n, d, limit) == {(n + e) \div d : e \in -1 .. 1} \cap 1 .. limit
HeightLimits(p) == LabelHeight * p[1] < p[2] * LabelWidth
CalibratedWidth(p) ==
  IF HeightLimits(p) THEN Scaled(LabelHeight * p[1], p[2], LabelWidth) ELSE {LabelWidth}
CalibratedHeight(p) ==
  IF HeightLimits(p) THEN {LabelHeight} ELSE Scaled(LabelWidth * p[2], p[1], LabelHeight)
SetOriginalPixmap(w, h) == SetRect((LabelWidth - w) \div 2, (LabelHeight - h) \div 2, w, h)

\* resetCropper: a square of three quarters of the smaller side, in the middle.
ResetCropper(rect) ==
  LET length == (3 * Smaller(rect.right - rect.left + 1, rect.bottom - rect.top + 1)) \div 4 IN
  SetRect((LabelWidth - length) \div 2, (LabelHeight - length) \div 2, length, length)

\* isMouseInsideSelectionSquare.
Near(p, x, y) ==
  /\ 2 * (p[1] - x) =< SquareLength /\ 2 * (x - p[1]) =< SquareLength
  /\ 2 * (p[2] - y) =< SquareLength /\ 2 * (y - p[2]) =< SquareLength

\* getPositionInCropperRect: the handles in the middle of the edges come
\* first, and do nothing.
GetPositionInCropperRect(s, p) ==
  LET x == (s.left + s.right) \div 2
      y == (s.top + s.bottom) \div 2 IN
  IF \/ Near(p, s.right, y) \/ Near(p, s.left, y)
     \/ Near(p, x, s.bottom) \/ Near(p, x, s.top)  THEN "MID"
  ELSE IF Near(p, s.left, s.bottom)                THEN "LEFT_BUTTOM"
  ELSE IF Near(p, s.right, s.bottom)               THEN "RIGHT_BUTTOM"
  ELSE IF Near(p, s.left, s.top)                   THEN "LEFT_TOP"
  ELSE IF Near(p, s.right, s.top)                  THEN "RIGHT_TOP"
  ELSE IF CoversStrictly(s, p)                   THEN "INSIDE_RECT"
  ELSE "OUTSIDE_RECT"

-----------------------------------------------------------------------------
(* moveSelectionFrame with the mouse at p, for each place it may be.  A     *)
(* distance that is too small is ignored; compared with a size_t, a         *)
(* negative one is not small.                                               *)
Small(d) == 0 =< d /\ d < CropMinimum

\* Variant of the code that the properties below reject: RIGHT_BUTTOM without
\* the test of the lower edge.
RightButtom_Unchecked(s, p) ==
  LET dx == p[1] - s.left
      dy == p[2] - s.top IN
  IF Small(dx) /\ Small(dy) THEN s
  ELSE IF dx > dy THEN Rect(s.left, s.top, p[1], s.top + dx)
  ELSE IF dx =< dy /\ dy + s.left =< image.right
       THEN Rect(s.left, s.top, dy + s.left, p[2])
  ELSE s

RightButtom(s, p) ==
  LET dx == p[1] - s.left
      dy == p[2] - s.top IN
  IF Small(dx) /\ Small(dy) THEN s
  ELSE IF dx > dy /\ dx + s.top =< image.bottom
       THEN Rect(s.left, s.top, p[1], s.top + dx)
  ELSE IF dx =< dy /\ dy + s.left =< image.right
       THEN Rect(s.left, s.top, dy + s.left, p[2])
  ELSE s

LeftButtom(s, p) ==
  LET dx == s.right - p[1]
      dy == p[2] - s.top IN
  IF Small(dx) /\ Small(dy) THEN s
  ELSE IF dx > dy /\ dx + s.top =< image.bottom
       THEN Rect(p[1], s.top, s.right, s.top + dx)
  ELSE IF dx =< dy /\ s.right - dy >= image.left
       THEN Rect(s.right - dy, s.top, s.right, p[2])
  ELSE s

\* The test of the upper edge is the wrong way round: the selection grows to
\* the left only where it leaves the picture, or touches the edge.
LeftTop(s, p) ==
  LET dx == s.right - p[1]
      dy == s.bottom - p[2] IN
  IF Small(dx) /\ Small(dy) THEN s
  ELSE IF dx > dy /\ s.bottom - dx =< image.top
       THEN Rect(p[1], s.bottom - dx, s.right, s.bottom)
  ELSE IF dx =< dy /\ s.right - dy >= image.left
       THEN Rect(s.right - dy, p[2], s.right, s.bottom)
  ELSE s

\* dx is taken from the right edge, so the selection may shrink below the
\* minimum when it is negative.
RightTop(s, p) ==
  LET dx == p[1] - s.right
      dy == s.bottom - p[2] IN
  IF Small(dx) /\ Small(dy) THEN s
  ELSE IF dx < dy /\ dy + s.left =< image.right
       THEN Rect(s.left, p[2], dy + s.left, s.bottom)
  ELSE IF dx >= dy /\ s.bottom - dx >= image.top
       THEN Rect(p[1] - dx, s.top, s.right, p[1])
  ELSE s

\* A drag of the whole selection stops, in each direction by itself, where it
\* would leave the picture.
Held(offset, low, high, least, greatest) ==
  IF offset > 0 THEN IF high + offset > greatest THEN 0 ELSE offset
                ELSE IF low + offset < least THEN 0 ELSE offset
InsideRect(s, p) ==
  LET x == Held(p[1] - mouse[1], s.left, s.right, image.left, image.right)
      y == Held(p[2] - mouse[2], s.top, s.bottom, image.top, image.bottom) IN
  Rect(s.left + x, s.top + y, s.right + x, s.bottom + y)

MoveSelectionFrame(s, p) ==
  LET pos == GetPositionInCropperRect(s, p) IN
  CASE pos = "RIGHT_BUTTOM" -> RightButtom(s, p)
    [] pos = "LEFT_BUTTOM"  -> LeftButtom(s, p)
    [] pos = "LEFT_TOP"     -> LeftTop(s, p)
    [] pos = "RIGHT_TOP"    -> RightTop(s, p)
    [] pos = "INSIDE_RECT"  -> InsideRect(s, p)
    [] OTHER                -> s

-----------------------------------------------------------------------------
NoRect == SetRect(0, 0, 0, 0)

CropInit ==
  /\ open = FALSE
  /\ image = NoRect /\ selection = NoRect /\ output = NoRect
  /\ pressed = FALSE /\ mouse = <<0, 0>>

\* The dialog opens with a picture; one that would vanish is not shown.
OpenCropper(p) ==
  /\ ~open
  /\ open' = TRUE
  /\ \E w \in CalibratedWidth(p), h \in CalibratedHeight(p) : image' = SetOriginalPixmap(w, h)
  /\ selection' = ResetCropper(image')
  /\ pressed' = FALSE /\ mouse' = <<0, 0>>
  /\ output' = NoRect

MousePress(p) ==
  /\ open
  /\ pressed' = TRUE /\ mouse' = p
  /\ UNCHANGED <<open, image, selection, output>>

MouseMove(p) ==
  /\ open
  /\ pressed /\ Covers(image, p)
  /\ mouse' = p
  /\ selection' = MoveSelectionFrame(selection, p)
  /\ UNCHANGED <<open, image, pressed, output>>

MouseRelease ==
  /\ open /\ pressed
  /\ pressed' = FALSE
  /\ UNCHANGED <<open, image, selection, mouse, output>>

\* on_cancel_clicked only puts the selection back.
CropCancel ==
  /\ open
  /\ selection' = ResetCropper(image)
  /\ UNCHANGED <<open, image, pressed, mouse, output>>

Gone == open' = FALSE /\ image' = NoRect /\ selection' = NoRect
        /\ pressed' = FALSE /\ mouse' = <<0, 0>>

\* The window is closed: the picture stays as it is.
CropClose == open /\ Gone /\ UNCHANGED output

\* on_ok_clicked: the selection, relative to the picture.
CropOk ==
  /\ open /\ Gone
  /\ output' = Rect(selection.left - image.left, selection.top - image.top,
                    selection.right - image.left, selection.bottom - image.top)

CropNext ==
  \/ \E p \in Pictures : OpenCropper(p)
  \/ \E p \in Points : MousePress(p) \/ MouseMove(p)
  \/ MouseRelease \/ CropCancel \/ CropClose \/ CropOk

CropSpec == CropInit /\ [][CropNext]_cropVars

-----------------------------------------------------------------------------
Rects == [left : Int, top : Int, right : Int, bottom : Int]

CropTypeOK ==
  /\ open \in BOOLEAN /\ pressed \in BOOLEAN
  /\ image \in Rects /\ selection \in Rects /\ output \in Rects
  /\ mouse \in Int \X Int

\* However the mouse drags its corners, the selection is a square (an avatar
\* is round), and it leaves the picture nowhere but at the top, where the test
\* of moveSelectionFrame for LEFT_TOP is reversed, and there by less than the
\* length of a handle.
SelectionStays ==
  open => /\ selection.right - selection.left = selection.bottom - selection.top
          /\ image.left =< selection.left /\ selection.right =< image.right
          /\ selection.bottom =< image.bottom
          /\ image.top - SquareLength =< selection.top
=============================================================================
