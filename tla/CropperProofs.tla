---------------------------- MODULE CropperProofs ----------------------------
(* Proofs about Cropper, for every label, every length of the handles and   *)
(* every set of pictures.                                                   *)
EXTENDS Cropper, TLAPS

\* An empty selection, which only a picture of one line or column begins with.
Thin(i) == i.left = i.right \/ i.top = i.bottom

\* What SelectionStays needs to be inductive: the selection never turns over,
\* so the handles in the middle of the edges hide the corners of a small one,
\* and with them the branch of RIGHT_TOP that takes the lower edge from the
\* wrong coordinate of the mouse.
Fits(i, s) ==
  /\ s \in Rects
  /\ s.right - s.left = s.bottom - s.top
  /\ i.left =< s.left /\ s.right =< i.right
  /\ s.bottom =< i.bottom
  /\ i.top - SquareLength =< s.top
  /\ s.left =< s.right + 1
  /\ s.left = s.right + 1 => Thin(i) /\ i.top =< s.top

CropInv == CropTypeOK /\ (open => Fits(image, selection) /\ Fits(image, ResetCropper(image)))

-----------------------------------------------------------------------------
\* setOriginalPixmap and resetCropper place the first selection in the picture.
LEMMA FirstSelection ==
  ASSUME NEW w \in 1 .. LabelWidth, NEW h \in 1 .. LabelHeight,
         NEW i, i = SetOriginalPixmap(w, h)
  PROVE  i \in Rects /\ Fits(i, ResetCropper(i))
<1> USE LabelAssumption, SquareAssumption
<1> DEFINE m == Smaller(w, h)
           length == (3 * m) \div 4
           x == (LabelWidth - length) \div 2
           y == (LabelHeight - length) \div 2
<1>1. /\ i = Rect((LabelWidth - w) \div 2, (LabelHeight - h) \div 2,
                      (LabelWidth - w) \div 2 + w - 1, (LabelHeight - h) \div 2 + h - 1)
      /\ i \in Rects
  BY DEF SetOriginalPixmap, SetRect, Rect, Rects
<1>2. m \in 1 .. LabelWidth /\ m =< w /\ m =< h /\ (m = w \/ m = h)
  BY DEF Smaller
<1>3. length \in 0 .. m /\ (length = 0 => m = 1) /\ 4 * length =< 3 * m
  BY <1>2
<1>4. ResetCropper(i) = Rect(x, y, x + length - 1, y + length - 1)
  BY <1>1 DEF ResetCropper, SetRect, Rect
<1> HIDE DEF length, m
<1>5. /\ x \in Int /\ y \in Int
      /\ (LabelWidth - w) \div 2 =< x
      /\ x + length - 1 =< (LabelWidth - w) \div 2 + w - 1
  BY <1>2, <1>3
<1>6. /\ (LabelHeight - h) \div 2 =< y
      /\ y + length - 1 =< (LabelHeight - h) \div 2 + h - 1
  BY <1>2, <1>3
<1>7. length = 0 => w = 1 \/ h = 1
  BY <1>2, <1>3
<1> QED
  BY <1>1, <1>3, <1>4, <1>5, <1>6, <1>7 DEF Fits, Thin, Rects, Rect

-----------------------------------------------------------------------------
\* What getPositionInCropperRect says of the mouse at a corner.
LEMMA AtACorner ==
  ASSUME NEW s \in Rects, NEW p \in Int \X Int,
         GetPositionInCropperRect(s, p) # "MID"
  PROVE  LET x == (s.left + s.right) \div 2
             y == (s.top + s.bottom) \div 2 IN
         /\ ~Near(p, s.right, y) /\ ~Near(p, s.left, y)
         /\ ~Near(p, x, s.bottom) /\ ~Near(p, x, s.top)
  BY DEF GetPositionInCropperRect

\* What getPositionInCropperRect calls a corner is near it.
LEMMA CornerHit ==
  ASSUME NEW s \in Rects, NEW p \in Int \X Int
  PROVE  LET pos == GetPositionInCropperRect(s, p) IN
         /\ pos = "LEFT_BUTTOM" => Near(p, s.left, s.bottom)
         /\ pos = "RIGHT_BUTTOM" => Near(p, s.right, s.bottom)
         /\ pos = "LEFT_TOP" => Near(p, s.left, s.top)
         /\ pos = "RIGHT_TOP" => Near(p, s.right, s.top)
         /\ pos = "INSIDE_RECT" => CoversStrictly(s, p)
  BY DEF GetPositionInCropperRect

\* moveSelectionFrame with the lower right corner keeps the selection in the picture.
LEMMA RightButtomFits ==
  ASSUME CropTypeOK, NEW s, Fits(image, s), NEW p \in Int \X Int, Covers(image, p),
         GetPositionInCropperRect(s, p) = "RIGHT_BUTTOM"
  PROVE  Fits(image, RightButtom(s, p))
<1> USE SquareAssumption
<1> DEFINE y == (s.top + s.bottom) \div 2
           dx == p[1] - s.left
           dy == p[2] - s.top
<1>1. s \in Rects /\ image \in Rects /\ p[1] \in Int /\ p[2] \in Int
  BY DEF Fits, CropTypeOK
<1>2. Near(p, s.right, s.bottom) /\ ~Near(p, s.right, y)
  BY <1>1, AtACorner, CornerHit
<1>3. dy > 0
  BY <1>1, <1>2 DEF Near, Fits, Rects
<1>4. CASE dx > dy /\ dx + s.top =< image.bottom
  <2>1. Fits(image, Rect(s.left, s.top, p[1], s.top + dx))
    BY <1>1, <1>3, <1>4 DEF Fits, Covers, Rects, Rect
  <2> QED
    BY <2>1, <1>4 DEF RightButtom
<1>5. CASE dx =< dy /\ dy + s.left =< image.right
  <2>1. Fits(image, Rect(s.left, s.top, dy + s.left, p[2]))
    BY <1>1, <1>3, <1>5 DEF Fits, Covers, Rects, Rect
  <2> QED
    BY <1>1, <2>1, <1>5 DEF RightButtom, Rects
<1> QED
  BY <1>4, <1>5 DEF RightButtom

\* The same with the lower left corner.
LEMMA LeftButtomFits ==
  ASSUME CropTypeOK, NEW s, Fits(image, s), NEW p \in Int \X Int, Covers(image, p),
         GetPositionInCropperRect(s, p) = "LEFT_BUTTOM"
  PROVE  Fits(image, LeftButtom(s, p))
<1> USE SquareAssumption
<1> DEFINE y == (s.top + s.bottom) \div 2
           dx == s.right - p[1]
           dy == p[2] - s.top
<1>1. s \in Rects /\ image \in Rects /\ p[1] \in Int /\ p[2] \in Int
  BY DEF Fits, CropTypeOK
<1>2. Near(p, s.left, s.bottom) /\ ~Near(p, s.left, y)
  BY <1>1, AtACorner, CornerHit
<1>3. dy > 0
  BY <1>1, <1>2 DEF Near, Fits, Rects
<1>4. CASE dx > dy /\ dx + s.top =< image.bottom
  <2>1. Fits(image, Rect(p[1], s.top, s.right, s.top + dx))
    BY <1>1, <1>3, <1>4 DEF Fits, Covers, Rects, Rect
  <2> QED
    BY <2>1, <1>4 DEF LeftButtom
<1>5. CASE dx =< dy /\ s.right - dy >= image.left
  <2>1. Fits(image, Rect(s.right - dy, s.top, s.right, p[2]))
    BY <1>1, <1>3, <1>5 DEF Fits, Covers, Rects, Rect
  <2> QED
    BY <1>1, <2>1, <1>5 DEF LeftButtom, Rects
<1> QED
  BY <1>4, <1>5 DEF LeftButtom

\* The corner with the reversed test: the mouse is in the picture and at most
\* half a handle away from the corner, so the new edge is less than a handle
\* above the picture.  An empty selection stays as it is.
LEMMA LeftTopFits ==
  ASSUME CropTypeOK, NEW s, Fits(image, s), NEW p \in Int \X Int, Covers(image, p),
         GetPositionInCropperRect(s, p) = "LEFT_TOP"
  PROVE  Fits(image, LeftTop(s, p))
<1> USE SquareAssumption
<1> DEFINE y == (s.top + s.bottom) \div 2
           dx == s.right - p[1]
           dy == s.bottom - p[2]
<1>1. s \in Rects /\ image \in Rects /\ p[1] \in Int /\ p[2] \in Int
  BY DEF Fits, CropTypeOK
<1>2. Near(p, s.left, s.top) /\ ~Near(p, s.left, y)
  BY <1>1, AtACorner, CornerHit
<1>3. CASE s.left = s.right + 1
  <2>1. y = s.top - 1 /\ (s.left + s.right) \div 2 = s.left - 1
    BY <1>1, <1>3 DEF Fits, Rects
  <2>2. /\ ~Near(p, s.left - 1, s.top)
        /\ p[1] >= s.left /\ 2 * (p[1] - s.left) > SquareLength - 2
        /\ p[2] >= s.top /\ 2 * (p[2] - s.top) > SquareLength - 2
    BY <1>1, <1>2, <2>1, AtACorner DEF Near, Rects
  <2>3. p[1] = s.left /\ p[2] = s.top
    <3>1. CASE image.left = image.right
      BY <1>1, <1>2, <2>2, <3>1 DEF Near, Fits, Covers, Rects
    <3>2. CASE image.top = image.bottom /\ image.top =< s.top
      BY <1>1, <1>2, <2>2, <3>2 DEF Near, Fits, Covers, Rects
    <3> QED
      BY <1>3, <3>1, <3>2 DEF Fits, Thin
  <2>4. dx = -1 /\ dy = -1
    BY <1>1, <1>3, <2>3 DEF Fits, Rects
  <2>5. LeftTop(s, p) = Rect(s.right + 1, s.top, s.right, s.bottom)
    BY <1>1, <1>3, <2>3, <2>4 DEF LeftTop, Small, Fits, Rects
  <2> QED
    BY <1>1, <1>3, <2>5 DEF Fits, Rects, Rect
<1>4. CASE s.left =< s.right
  <2>1. dy > 0
    BY <1>1, <1>2, <1>4 DEF Near, Fits, Rects
  <2>2. CASE dx > dy /\ s.bottom - dx =< image.top
    <3>1. Fits(image, Rect(p[1], s.bottom - dx, s.right, s.bottom))
      BY <1>1, <1>2, <2>1, <2>2 DEF Near, Fits, Covers, Rects, Rect
    <3> QED
      BY <3>1, <2>2 DEF LeftTop
  <2>3. CASE dx =< dy /\ s.right - dy >= image.left
    <3>1. Fits(image, Rect(s.right - dy, p[2], s.right, s.bottom))
      BY <1>1, <2>1, <2>3 DEF Fits, Covers, Rects, Rect
    <3> QED
      BY <1>1, <3>1, <2>3 DEF LeftTop, Rects
  <2> QED
    BY <2>2, <2>3 DEF LeftTop
<1> QED
  BY <1>1, <1>3, <1>4 DEF Fits, Rects

\* The last branch of RIGHT_TOP is never taken.
LEMMA RightTopFits ==
  ASSUME CropTypeOK, NEW s, Fits(image, s), NEW p \in Int \X Int, Covers(image, p),
         GetPositionInCropperRect(s, p) = "RIGHT_TOP"
  PROVE  Fits(image, RightTop(s, p))
<1> USE SquareAssumption
<1> DEFINE y == (s.top + s.bottom) \div 2
           dx == p[1] - s.right
           dy == s.bottom - p[2]
<1>1. s \in Rects /\ image \in Rects /\ p[1] \in Int /\ p[2] \in Int
  BY DEF Fits, CropTypeOK
<1>2. Near(p, s.right, s.top) /\ ~Near(p, s.right, y) /\ ~Near(p, (s.left + s.right) \div 2, s.top)
  BY <1>1, AtACorner, CornerHit
<1>3. dx < dy /\ dy > 0
  BY <1>1, <1>2 DEF Near, Fits, Rects
<1>4. CASE dy + s.left =< image.right
  <2>1. Fits(image, Rect(s.left, p[2], dy + s.left, s.bottom))
    BY <1>1, <1>3, <1>4 DEF Fits, Covers, Rects, Rect
  <2> QED
    BY <1>1, <1>3, <2>1, <1>4 DEF RightTop, Rects
<1> QED
  BY <1>1, <1>3, <1>4 DEF RightTop, Rects

\* A drag of the whole selection keeps it in the picture.
LEMMA InsideRectFits ==
  ASSUME CropTypeOK, NEW s, Fits(image, s), NEW p \in Int \X Int, CoversStrictly(s, p)
  PROVE  Fits(image, InsideRect(s, p))
<1> DEFINE x == Held(p[1] - mouse[1], s.left, s.right, image.left, image.right)
           y == Held(p[2] - mouse[2], s.top, s.bottom, image.top, image.bottom)
<1>1. /\ s \in Rects /\ image \in Rects /\ p[1] \in Int /\ p[2] \in Int
      /\ mouse[1] \in Int /\ mouse[2] \in Int
  BY DEF Fits, CropTypeOK
<1>2. x \in Int /\ image.left =< s.left + x /\ s.right + x =< image.right
  BY <1>1 DEF Fits, Rects, Held
<1>3. /\ y \in Int /\ s.bottom + y =< image.bottom
      /\ image.top - SquareLength =< s.top + y
  BY <1>1, SquareAssumption DEF Fits, Rects, Held
<1>4. s.left =< s.right
  BY <1>1 DEF CoversStrictly, Rects
<1> HIDE DEF x, y
<1>5. Fits(image, Rect(s.left + x, s.top + y, s.right + x, s.bottom + y))
  BY <1>1, <1>2, <1>3, <1>4, SquareAssumption DEF Fits, Rects, Rect
<1> QED
  BY <1>5 DEF InsideRect, x, y

\* moveSelectionFrame keeps the selection in the picture, wherever the mouse is.
LEMMA MoveSelectionFrameFits ==
  ASSUME CropTypeOK, NEW s, Fits(image, s), NEW p \in Int \X Int, Covers(image, p)
  PROVE  Fits(image, MoveSelectionFrame(s, p))
<1>1. s \in Rects
  BY DEF Fits
<1> DEFINE pos == GetPositionInCropperRect(s, p)
<1>2. CASE pos = "RIGHT_BUTTOM"
  BY <1>2, RightButtomFits DEF MoveSelectionFrame
<1>3. CASE pos = "LEFT_BUTTOM"
  BY <1>3, LeftButtomFits DEF MoveSelectionFrame
<1>4. CASE pos = "LEFT_TOP"
  BY <1>4, LeftTopFits DEF MoveSelectionFrame
<1>5. CASE pos = "RIGHT_TOP"
  BY <1>5, RightTopFits DEF MoveSelectionFrame
<1>6. CASE pos = "INSIDE_RECT"
  BY <1>1, <1>6, CornerHit, InsideRectFits DEF MoveSelectionFrame
<1>7. CASE pos \notin {"RIGHT_BUTTOM", "LEFT_BUTTOM", "LEFT_TOP", "RIGHT_TOP", "INSIDE_RECT"}
  BY <1>7 DEF MoveSelectionFrame
<1> QED
  BY <1>2, <1>3, <1>4, <1>5, <1>6, <1>7

-----------------------------------------------------------------------------
\* CropInv holds at first, when no dialog is open.
LEMMA CropInvInit == CropInit => CropInv
<1>1. NoRect \in Rects
  BY DEF NoRect, SetRect, Rect, Rects
<1>2. <<0, 0>> \in Int \X Int
  OBVIOUS
<1> QED
  BY <1>1, <1>2, Zenon DEF CropInit, CropInv, CropTypeOK

\* Every step of the dialog keeps CropInv.
LEMMA CropInvStep == CropInv /\ [CropNext]_cropVars => CropInv'
<1> SUFFICES ASSUME CropInv, [CropNext]_cropVars PROVE CropInv'
  OBVIOUS
<1>t. NoRect \in Rects
  BY DEF NoRect, SetRect, Rect, Rects
<1>m. <<0, 0>> \in Int \X Int
  OBVIOUS
<1>p. Points \subseteq Int \X Int
  BY LabelAssumption DEF Points
<1>1. ASSUME NEW pic \in Pictures, OpenCropper(pic) PROVE CropInv'
  <2>1. PICK w \in CalibratedWidth(pic), h \in CalibratedHeight(pic) :
          image' = SetOriginalPixmap(w, h)
    BY <1>1 DEF OpenCropper
  <2>2. w \in 1 .. LabelWidth /\ h \in 1 .. LabelHeight
    <3>1. \A n, d, limit : Scaled(n, d, limit) \subseteq 1 .. limit
      BY Zenon DEF Scaled
    <3> QED
      BY <2>1, <3>1, LabelAssumption DEF CalibratedWidth, CalibratedHeight
  <2>3. image' \in Rects /\ Fits(image', ResetCropper(image'))
    BY <2>1, <2>2, LabelAssumption, FirstSelection
  <2>4. ResetCropper(image') \in Rects
    BY <2>3 DEF Fits
  <2> QED
    BY <1>1, <1>t, <1>m, <2>3, <2>4, Zenon DEF OpenCropper, CropInv, CropTypeOK
<1>2. ASSUME NEW p \in Points, MousePress(p) PROVE CropInv'
  BY <1>2, <1>p DEF MousePress, CropInv, CropTypeOK, Fits, Thin
<1>3. ASSUME NEW p \in Points, MouseMove(p) PROVE CropInv'
  <2>1. Fits(image, MoveSelectionFrame(selection, p))
    BY <1>3, <1>p, MoveSelectionFrameFits DEF MouseMove, CropInv
  <2> QED
    BY <1>3, <1>p, <2>1 DEF MouseMove, CropInv, CropTypeOK, Fits, Thin
<1>4. ASSUME MouseRelease PROVE CropInv'
  BY <1>4 DEF MouseRelease, CropInv, CropTypeOK, Fits, Thin
<1>5. ASSUME CropCancel PROVE CropInv'
  BY <1>5 DEF CropCancel, CropInv, CropTypeOK, Fits, Thin
<1>6. ASSUME CropClose \/ CropOk PROVE CropInv'
  <2>1. output' \in Rects
    BY <1>6 DEF CropClose, CropOk, CropInv, CropTypeOK, Rect, Rects
  <2> QED
    BY <1>6, <1>t, <1>m, <2>1, Zenon DEF CropClose, CropOk, Gone, CropInv, CropTypeOK
<1>7. ASSUME UNCHANGED cropVars PROVE CropInv'
  BY <1>7 DEF cropVars, CropInv, CropTypeOK, Fits, Thin
<1> QED
  BY <1>1, <1>2, <1>3, <1>4, <1>5, <1>6, <1>7 DEF CropNext

\* The two images and the selection have the types that the model gives them.
THEOREM CropTypeCorrect == CropSpec => []CropTypeOK
<1>1. CropInv => CropTypeOK
  BY DEF CropInv
<1> QED
  BY <1>1, CropInvInit, CropInvStep, PTL DEF CropSpec

\* Whatever the size of the picture and however the mouse moves, the selection
\* (m_croppedRect) is a square inside of the picture, but for less than a handle
\* at the top, where the test of LEFT_TOP in moveSelectionFrame is reversed.
THEOREM SelectionCorrect == CropSpec => []SelectionStays
<1>1. CropInv => SelectionStays
  BY DEF CropInv, Fits, SelectionStays
<1> QED
  BY <1>1, CropInvInit, CropInvStep, PTL DEF CropSpec
=============================================================================
