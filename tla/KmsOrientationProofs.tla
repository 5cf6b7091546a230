-------------------------- MODULE KmsOrientationProofs --------------------------
(***************************************************************************)
(* What the quarter-turn maps and their users compute, for panels of every *)
(* size.  Each map has four forms of its own in the code, and the renderer *)
(* the cursor and the input combine them: that all of them turn the same   *)
(* way and agree to the pixel at every edge is what is proved.             *)
(***************************************************************************)
EXTENDS KmsOrientation, TLAPS

\* The application's image and the panel have the same pixels: each logical pixel
\* is shown at one place of the panel, inside of it, and the panel shows nothing
\* else (SDL_kmsdrmorientation.h: "inverse of the above").
THEOREM PanelShowsEveryPixel ==
  ASSUME NEW r \in Rotations, NEW lw \in Nat, NEW lh \in Nat
  PROVE  LET panel == Image(PreRotationPhysicalSize(r, lw, lh))
             logical == Image(Size(lw, lh))
         IN  /\ \A q \in logical :
                  /\ RotationLogicalToPhysical(r, lw, lh, q) \in panel
                  /\ RotationPhysicalToLogical(r, lw, lh,
                       RotationLogicalToPhysical(r, lw, lh, q)) = q
             /\ \A p \in panel :
                  /\ RotationPhysicalToLogical(r, lw, lh, p) \in logical
                  /\ RotationLogicalToPhysical(r, lw, lh,
                       RotationPhysicalToLogical(r, lw, lh, p)) = p
<1> USE DEF PreRotationPhysicalSize, RotationSwapsAxes, RotationLogicalToPhysical,
        RotationPhysicalToLogical, Image, Size, Pixels, Rect, Point, Size, Turned
<1>1. CASE r = 0
  BY <1>1
<1>2. CASE r = 90
  BY <1>2
<1>3. CASE r = 180
  BY <1>3
<1>4. CASE r = 270
  BY <1>4
<1> QED
  BY <1>1, <1>2, <1>3, <1>4 DEF Rotations

Points == [x : Int, y : Int]
Rects == [x : Int, y : Int, w : Nat, h : Nat]

\* The panel of a window of the panel's logical size is the panel.
THEOREM SizesAreInverse ==
  ASSUME NEW r \in Rotations, NEW pw, NEW ph
  PROVE  LET logical == RotationLogicalSize(r, pw, ph)
         IN  PreRotationPhysicalSize(r, logical.w, logical.h) = Size(pw, ph)
<1> USE DEF RotationLogicalSize, PreRotationPhysicalSize, RotationSwapsAxes, Size
<1>1. CASE r = 0
  BY <1>1
<1>2. CASE r = 90
  BY <1>2
<1>3. CASE r = 180
  BY <1>3
<1>4. CASE r = 270
  BY <1>4
<1> QED
  BY <1>1, <1>2, <1>3, <1>4 DEF Rotations

\* A rectangle's half-open edges are turned into the edges of exactly the pixels
\* that its pixels are turned into ("this keeps widths exact").
THEOREM RectangleIsImage ==
  ASSUME NEW r \in Rotations, NEW lw \in Nat, NEW lh \in Nat,
         NEW rect \in Rects, NEW q \in Points
  PROVE  q \in Pixels(rect) <=>
           RotationLogicalToPhysical(r, lw, lh, q)
             \in Pixels(PreRotationLogicalRectToPhysical(r, lw, lh, rect))
<1> USE DEF RotationLogicalToPhysical, PreRotationLogicalRectToPhysical, Turned,
        Pixels, Rect, Point, Points, Rects
<1>1. CASE r = 0
  BY <1>1
<1>2. CASE r = 90
  BY <1>2
<1>3. CASE r = 180
  BY <1>3
<1>4. CASE r = 270
  BY <1>4
<1> QED
  BY <1>1, <1>2, <1>3, <1>4 DEF Rotations

\* The rotate pass samples, for every pixel of the panel, the centre of the texel
\* the pixel map names ("so a NEAREST sample is an exact copy").
THEOREM PassCopiesExactly ==
  ASSUME NEW r \in Rotations, NEW lw \in Nat, NEW lh \in Nat,
         NEW p \in Points
  PROVE  Sampled(r, lw, lh, p)
           = TexelCentre(lw, lh, RotationPhysicalToLogical(r, lw, lh, p))
<1> USE DEF Sampled, Interpolated, RotationQuad, PanelCentre, TexelCentre, Minus,
        RotationSwapsAxes, RotationPhysicalToLogical, Turned, Point, Points
<1>1. CASE r = 0
  BY <1>1
<1>2. CASE r = 90
  BY <1>2
<1>3. CASE r = 180
  BY <1>3
<1>4. CASE r = 270
  BY <1>4
<1> QED
  BY <1>1, <1>2, <1>3, <1>4 DEF Rotations

\* A touch is reported where the rotate pass shows the image, and a relative
\* motion turns as the difference of two positions does.
THEOREM TouchHitsWhatIsShown ==
  ASSUME NEW r \in Rotations, NEW lw \in Nat, NEW lh \in Nat, NEW one \in Nat,
         NEW p \in Points, NEW q \in Points
  PROVE  /\ PreRotationPhysicalToLogicalNormalized(r, one, p)
              = Interpolated(RotationQuad(r), one, p)
         /\ PreRotationPhysicalDeltaToLogical(r, Minus(q, p))
              = Minus(RotationPhysicalToLogical(r, lw, lh, q),
                      RotationPhysicalToLogical(r, lw, lh, p))
<1> USE DEF PreRotationPhysicalToLogicalNormalized, PreRotationPhysicalDeltaToLogical,
        Interpolated, RotationQuad, RotationPhysicalToLogical, Turned, Minus, Point, Points
<1>1. CASE r = 0
  BY <1>1
<1>2. CASE r = 90
  BY <1>2
<1>3. CASE r = 180
  BY <1>3
<1>4. CASE r = 270
  BY <1>4
<1> QED
  BY <1>1, <1>2, <1>3, <1>4 DEF Rotations

\* glScissor, whose rectangle is turned in the viewport's own frame and then moved,
\* lets through exactly the panel's pixels that show the clip rectangle.
THEOREM ScissorIsTheClip ==
  ASSUME NEW r \in Rotations, NEW lw \in Nat, NEW lh \in Nat,
         NEW viewport \in Rects, NEW clip \in Rects, NEW q \in Points
  PROVE  LET p == RotationLogicalToPhysical(r, lw, lh, Plus(viewport, q))
             ph == PreRotationPhysicalSize(r, lw, lh).h
         IN  q \in Pixels(clip) <=>
               Point(p.x, ph - 1 - p.y) \in Pixels(GlScissor(r, lw, lh, viewport, clip))
<1> USE DEF GlScissor, GlRect, RotationLogicalToPhysical, PreRotationPhysicalSize, Size,
        PreRotationLogicalRectToPhysical, RotationSwapsAxes, Turned, Plus, Pixels, Rect,
        Point, Points, Rects
<1>1. CASE r = 0
  BY <1>1
<1>2. CASE r = 90
  BY <1>2
<1>3. CASE r = 180
  BY <1>3
<1>4. CASE r = 270
  BY <1>4
<1> QED
  BY <1>1, <1>2, <1>3, <1>4 DEF Rotations

\* A rectangle drawn in a viewport through the projection covers the rectangle that
\* the rectangle map gives for it: vertices, viewport and scissor agree.
THEOREM QuadFillsItsRectangle ==
  ASSUME NEW r \in Rotations, NEW lw \in Nat, NEW lh \in Nat,
         NEW viewport \in Rects, NEW rect \in Rects
  PROVE  LET a == GlVertex(r, lw, lh, viewport, Point(rect.x, rect.y))
             b == GlVertex(r, lw, lh, viewport, Point(rect.x + rect.w, rect.y + rect.h))
             drawn == GlScissor(r, lw, lh, viewport, rect)
         IN  /\ {a.x, b.x} = {drawn.x, drawn.x + drawn.w}
             /\ {a.y, b.y} = {drawn.y, drawn.y + drawn.h}
<1> USE DEF GlVertex, GlViewport, GlScissor, GlRect, PreRotationProjection, Size,
        PreRotationPhysicalSize, PreRotationLogicalRectToPhysical, RotationSwapsAxes, Turned,
        Rect, Point, Points, Rects
<1>1. CASE r = 0
  BY <1>1
<1>2. CASE r = 90
  BY <1>2
<1>3. CASE r = 180
  BY <1>3
<1>4. CASE r = 270
  BY <1>4
<1> QED
  BY <1>1, <1>2, <1>3, <1>4 DEF Rotations

\* Reading a rectangle back gives, pixel for pixel, what the panel shows of it: the
\* GL rows, the flip and the small copy's own size undo one another.
THEOREM ReadbackIsLogical ==
  ASSUME NEW r \in Rotations, NEW lw \in Nat, NEW lh \in Nat,
         NEW rect \in Rects, NEW q \in Points
  PROVE  RotationPhysicalToLogical(r, lw, lh, ReadFrom(r, lw, lh, rect, q))
           = Plus(rect, q)
<1> USE DEF ReadFrom, RowRead, GlRect, RotationLogicalToPhysical, RotationPhysicalToLogical,
        PreRotationPhysicalSize, PreRotationLogicalRectToPhysical, RotationSwapsAxes, Turned,
        Plus, Size, Rect, Point, Points, Rects
<1>1. CASE r = 0
  BY <1>1
<1>2. CASE r = 90
  BY <1>2
<1>3. CASE r = 180
  BY <1>3
<1>4. CASE r = 270
  BY <1>4
<1> QED
  BY <1>1, <1>2, <1>3, <1>4 DEF Rotations

\* The cursor's bitmap and position are turned separately: each of its pixels is
\* then off the place where the logical screen would have it by exactly the
\* turned hot spot, which is left to the driver that it was handed to.
THEOREM CursorOffByHotSpot ==
  ASSUME NEW r \in Rotations, NEW lw \in Nat, NEW lh \in Nat, NEW cw \in Nat, NEW ch \in Nat,
         NEW hot \in Points, NEW mouse \in Points, NEW c \in Points
  PROVE  CursorPixel(r, lw, lh, cw, ch, mouse, c)
           = Plus(RotationLogicalToPhysical(r, lw, lh, Plus(mouse, Minus(c, hot))),
                  CursorHotSpot(r, cw, ch, hot))
<1> USE DEF CursorPixel, CursorHotSpot, RotationLogicalToPhysical, Turned, Plus, Minus, Point,
        Points
<1>1. CASE r = 0
  BY <1>1
<1>2. CASE r = 90
  BY <1>2
<1>3. CASE r = 180
  BY <1>3
<1>4. CASE r = 270
  BY <1>4
<1> QED
  BY <1>1, <1>2, <1>3, <1>4 DEF Rotations

\* Turning an image to the panel and back gives the image.
THEOREM CopiesAreInverse ==
  ASSUME NEW r \in Rotations, NEW lw \in Nat, NEW lh \in Nat, NEW S,
         NEW image \in [Image(Size(lw, lh)) -> S]
  PROVE  PreRotationCopyPhysicalToLogical(r, lw, lh,
           PreRotationCopyLogicalToPhysical(r, lw, lh, image)) = image
<1> DEFINE logical == Image(Size(lw, lh))
           panel == Image(PreRotationPhysicalSize(r, lw, lh))
           To(q) == RotationLogicalToPhysical(r, lw, lh, q)
           turned == PreRotationCopyLogicalToPhysical(r, lw, lh, image)
<1>1. ASSUME NEW q \in logical PROVE To(q) \in panel /\ turned[To(q)] = image[q]
  <2>1. To(q) \in panel
    BY PanelShowsEveryPixel
  <2>2. turned[To(q)] = image[CHOOSE s \in logical : To(s) = To(q)]
    BY <2>1 DEF PreRotationCopyLogicalToPhysical
  <2>3. \A s \in logical : To(s) = To(q) => s = q
    BY PanelShowsEveryPixel
  <2>4. (CHOOSE s \in logical : To(s) = To(q)) = q
    BY <2>3
  <2> QED
    BY <2>1, <2>2, <2>4
<1>2. PreRotationCopyPhysicalToLogical(r, lw, lh, turned) = [q \in logical |-> image[q]]
  BY <1>1 DEF PreRotationCopyPhysicalToLogical
<1> QED
  BY <1>2
================================================================================
