----------------------------- MODULE KmsOrientation -----------------------------
(***************************************************************************)
(* The quarter-turn maps between the logical image an application renders  *)
(* and the panel it is shown on (SDL_kmsdrmorientation.h and               *)
(* SDL_kmsdrmprerotate.h), and what the renderer, the cursor and the input *)
(* build from them.                                                        *)
(*                                                                         *)
(* A point is a pixel [x, y] or an edge between pixels, from the top left; *)
(* a rectangle has half-open edges.  lw and lh are the logical size.       *)
(***************************************************************************)
EXTENDS Integers

Rotations == {0, 90, 180, 270}
Point(x, y) == [x |-> x, y |-> y]
Rect(x, y, w, h) == [x |-> x, y |-> y, w |-> w, h |-> h]
Plus(p, q) == Point(p.x + q.x, p.y + q.y)
Minus(p, q) == Point(p.x - q.x, p.y - q.y)

\* The switch of all the maps: what they give for 0, 90, 180 and 270 degrees.
Turned(r, none, quarter, half, threequarters) ==
  IF r = 90 THEN quarter
  ELSE IF r = 180 THEN half
  ELSE IF r = 270 THEN threequarters
  ELSE none

\* The pixels of a rectangle, and of an image of a size.
Pixels(rect) == [x : rect.x .. rect.x + rect.w - 1, y : rect.y .. rect.y + rect.h - 1]
Image(size) == Pixels(Rect(0, 0, size.w, size.h))
Size(w, h) == [w |-> w, h |-> h]

-------------------------------------------------------------------------------
(* SDL_kmsdrmorientation.h *)

PanelOrientationDegrees(name) ==
  CASE name = "Left Side Up" -> 90
    [] name = "Upside Down" -> 180
    [] name = "Right Side Up" -> 270
    [] OTHER -> 0

RotationSwapsAxes(r) == r \in {90, 270}

RotationLogicalSize(r, pw, ph) ==
  IF RotationSwapsAxes(r) THEN Size(ph, pw) ELSE Size(pw, ph)

RotationPhysicalToLogical(r, lw, lh, p) ==
  Turned(r, p,
         Point(lw - 1 - p.y, p.x),
         Point(lw - 1 - p.x, lh - 1 - p.y),
         Point(p.y, lh - 1 - p.x))

RotationLogicalToPhysical(r, lw, lh, q) ==
  Turned(r, q,
         Point(q.y, lw - 1 - q.x),
         Point(lw - 1 - q.x, lh - 1 - q.y),
         Point(lh - 1 - q.y, q.x))

\* The texture coordinates of the rotate pass' strip at the panel's corners, and
\* at a point [x, y] / one between them, where the GPU interpolates.
RotationQuad(r) ==
  [corner \in [x : {0, 1}, y : {0, 1}] |->
     Turned(r, corner,
            Point(1 - corner.y, corner.x),
            Point(1 - corner.x, 1 - corner.y),
            Point(corner.y, 1 - corner.x))]
Interpolated(quad, one, p) ==
  LET origin == quad[Point(0, 0)]
      right == Minus(quad[Point(1, 0)], origin)
      down == Minus(quad[Point(0, 1)], origin)
  IN  Point(one * origin.x + p.x * right.x + p.y * down.x,
            one * origin.y + p.x * right.y + p.y * down.y)

\* The pass samples at the centre of a pixel of the panel, NEAREST takes the texel
\* that holds the coordinate.  Both centres are in units of 1 / (2 lw lh).
PanelCentre(r, lw, lh, p) ==
  IF RotationSwapsAxes(r) THEN Point((2 * p.x + 1) * lw, (2 * p.y + 1) * lh)
                          ELSE Point((2 * p.x + 1) * lh, (2 * p.y + 1) * lw)
TexelCentre(lw, lh, q) == Point((2 * q.x + 1) * lh, (2 * q.y + 1) * lw)
Sampled(r, lw, lh, p) ==
  Interpolated(RotationQuad(r), 2 * lw * lh, PanelCentre(r, lw, lh, p))

-------------------------------------------------------------------------------
(* SDL_kmsdrmprerotate.h *)

PreRotationPhysicalSize(r, lw, lh) ==
  IF RotationSwapsAxes(r) THEN Size(lh, lw) ELSE Size(lw, lh)

PreRotationLogicalRectToPhysical(r, lw, lh, rect) ==
  Turned(r, rect,
         Rect(rect.y, lw - rect.x - rect.w, rect.h, rect.w),
         Rect(lw - rect.x - rect.w, lh - rect.y - rect.h, rect.w, rect.h),
         Rect(lh - rect.y - rect.h, rect.x, rect.h, rect.w))

\* The signs of the projection matrix: matrix[0], [4], [12] make clip-space x of
\* x / (lw / 2), y / (lh / 2) and 1, and matrix[1], [5], [13] clip-space y.
PreRotationProjection(r) ==
  Turned(r, [xx |-> 1, xy |-> 0, x1 |-> -1, yx |-> 0, yy |-> -1, y1 |-> 1],
         [xx |-> 0, xy |-> 1, x1 |-> -1, yx |-> 1, yy |-> 0, y1 |-> -1],
         [xx |-> -1, xy |-> 0, x1 |-> 1, yx |-> 0, yy |-> 1, y1 |-> -1],
         [xx |-> 0, xy |-> -1, x1 |-> 1, yx |-> -1, yy |-> 0, y1 |-> 1])

\* Input positions, in units of 1 / one of the panel.
PreRotationPhysicalToLogicalNormalized(r, one, p) ==
  Turned(r, p,
         Point(one - p.y, p.x),
         Point(one - p.x, one - p.y),
         Point(p.y, one - p.x))

PreRotationPhysicalDeltaToLogical(r, d) ==
  Turned(r, d,
         Point(-d.y, d.x),
         Point(-d.x, -d.y),
         Point(d.y, -d.x))

PreRotationCopyLogicalToPhysical(r, lw, lh, logical) ==
  [p \in Image(PreRotationPhysicalSize(r, lw, lh)) |->
     logical[CHOOSE q \in Image(Size(lw, lh)) : RotationLogicalToPhysical(r, lw, lh, q) = p]]

PreRotationCopyPhysicalToLogical(r, lw, lh, physical) ==
  [q \in Image(Size(lw, lh)) |-> physical[RotationLogicalToPhysical(r, lw, lh, q)]]

-------------------------------------------------------------------------------
(* The users of the maps *)

\* GL counts rows from the bottom.
GlRect(ph, rect) == [rect EXCEPT !.y = ph - rect.y - rect.h]

\* glViewport and glScissor of GLES2, the clip rectangle being inside the
\* viewport's.
GlViewport(r, lw, lh, viewport) ==
  GlRect(PreRotationPhysicalSize(r, lw, lh).h,
         PreRotationLogicalRectToPhysical(r, lw, lh, viewport))
GlScissor(r, lw, lh, viewport, clip) ==
  LET origin == PreRotationLogicalRectToPhysical(r, lw, lh, viewport)
      inside == PreRotationLogicalRectToPhysical(r, viewport.w, viewport.h, clip)
  IN  GlRect(PreRotationPhysicalSize(r, lw, lh).h,
             [inside EXCEPT !.x = @ + origin.x, !.y = @ + origin.y])

\* Where GL puts a vertex of the viewport: clip space -1 .. 1 is stretched over
\* glViewport's rectangle.  A vertex is exact here, GL's rounding aside.
GlVertex(r, lw, lh, viewport, v) ==
  LET m == PreRotationProjection(r)
      gl == GlViewport(r, lw, lh, viewport)
  IN  Point(gl.x + m.xx * v.x + m.xy * v.y + ((m.x1 + 1) \div 2) * gl.w,
            gl.y + m.yx * v.x + m.yy * v.y + ((m.y1 + 1) \div 2) * gl.h)

\* GLES2_RenderReadPixels: the row of the panel that pixel (i, j) of the read
\* surface comes from, once the surface has been flipped, and which pixel of the
\* panel a pixel q of the result has been copied from.
RowRead(r, lw, lh, physical, j) ==
  LET ph == PreRotationPhysicalSize(r, lw, lh).h
  IN  ph - 1 - (GlRect(ph, physical).y + physical.h - 1 - j)
ReadFrom(r, lw, lh, rect, q) ==
  LET physical == PreRotationLogicalRectToPhysical(r, lw, lh, rect)
      p == RotationLogicalToPhysical(r, rect.w, rect.h, q)
  IN  Point(physical.x + p.x, RowRead(r, lw, lh, physical, p.y))

\* The bo of the cursor plane holds the turned cursor; the hot spot, turned as a
\* pixel of it, goes to drmModeSetCursor2.
CursorHotSpot(r, cw, ch, hot) == RotationLogicalToPhysical(r, cw, ch, hot)

\* drmModeMoveCursor puts the plane at the turned position, from which nothing is
\* taken off (USE_ATOMIC_CURSOR is 0).  Where pixel c of the cursor is then seen.
CursorPixel(r, lw, lh, cw, ch, mouse, c) ==
  Plus(RotationLogicalToPhysical(r, lw, lh, mouse),
       RotationLogicalToPhysical(r, cw, ch, c))
================================================================================
