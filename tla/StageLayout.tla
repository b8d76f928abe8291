---------------------------- MODULE StageLayout ----------------------------
(***************************************************************************)
(* Where the tiles of a call go: client/packages/core/src/layout/          *)
(* computeLayout.ts.  A pure function from a scene to frames.              *)
(*                                                                         *)
(* Frames are in sixtieths of a pixel, so that halves and quarters of the  *)
(* stage and the shares of up to six tiles in a strip are whole numbers.   *)
(* An aspect ratio is a number of 144ths (16:9 is 256, 9:16 is 81).        *)
(* Corner radii, anchors and fits are left out.                            *)
(***************************************************************************)
EXTENDS Integers, Sequences, FiniteSets
LOCAL INSTANCE SequencesExt
LOCAL INSTANCE FiniteSetsExt

CONSTANT None                     \* nobody

Px == 60
Unknown == 0                      \* a null, zero or non-finite ratio

AtLeast(a, b) == IF a >= b THEN a ELSE b
AtMost(a, b) == IF a <= b THEN a ELSE b

\* clampStageTileAspectRatio.
ClampRatio(ratio) == IF ratio = Unknown THEN 256 ELSE AtMost(256, AtLeast(81, ratio))

-----------------------------------------------------------------------------
(* computeStageLayout: up to three tiles in the rows that show them best.  *)

\* The partitions into rows that are tried, by the indexes of the tiles.
Candidates(n) ==
  CASE n = 1 -> << <<<<1>>>> >>
    [] n = 2 -> << <<<<1, 2>>>>, <<<<1>>, <<2>>>> >>
    [] OTHER -> << <<<<1, 2, 3>>>>, <<<<1, 2>>, <<3>>>>, <<<<1>>, <<2, 3>>>>,
                   <<<<1>>, <<2>>, <<3>>>> >>

Times(a, b) == a * b
Plus(a, b) == a + b

\* The product of all members of a sequence but the i-th.
Others(q, i) == FoldFunctionOnSet(Times, 1, q, DOMAIN q \ {i})
Total(q) == FoldFunctionOnSet(Plus, 0, q, DOMAIN q)

\* The rows of one candidate.  Rows as wide as the stage have the heights wide / sum
\* of ratios; when together they are too high, they shrink to share what there is.
\* <<>> for a candidate that leaves no room.
RowsFor(rows, ratios, width, height, gap) ==
  LET n == Len(rows)
      wide == [k \in 1..n |-> AtLeast(0, width - gap * (Len(rows[k]) - 1))]
      sum == [k \in 1..n |-> Total([j \in 1..Len(rows[k]) |-> ratios[rows[k][j]]])]
      even == \A k \in 1..n : wide[k] = wide[1]
      share == [k \in 1..n |-> (IF even THEN 1 ELSE wide[k]) * Others(sum, k)]
      left == height - gap * (n - 1)
      high == [k \in 1..n |-> AtLeast(1, AtMost((wide[k] * 144) \div sum[k],
                                                (left * share[k]) \div Total(share)))]
  IN IF left <= 0 \/ Total(wide) = 0 THEN <<>>
     ELSE [k \in 1..n |-> [j \in 1..Len(rows[k]) |->
            [tile |-> rows[k][j], h |-> high[k],
             w |-> AtLeast(1, (ratios[rows[k][j]] * high[k]) \div 144)]]]

ShortEdges(layout) ==
  LET all == FlattenSeq(layout) IN [i \in DOMAIN all |-> AtMost(all[i].w, all[i].h)]

\* The harmonic mean of the short edges, in hundredths of a pixel.
Harmonic(edges) ==
  LET d == Total([i \in DOMAIN edges |-> Others(edges, i)])
      p == Len(edges) * FoldFunctionOnSet(Times, 1, edges, DOMAIN edges)
  IN 100 * (p \div d) + (100 * (p % d)) \div d

Measure(layout) ==
  LET edges == ShortEdges(layout)
      all == FlattenSeq(layout)
  IN [layout |-> layout, rows |-> Len(layout), harmonic |-> Harmonic(edges),
      short |-> Min(Range(edges)),
      area |-> Total([i \in DOMAIN all |-> all[i].w * all[i].h])]

NoBest == [layout |-> <<>>, rows |-> 99, harmonic |-> -100, short |-> -1, area |-> -1]

Away(a, b) == IF a >= b THEN a - b ELSE b - a

\* Whether a candidate replaces the best so far: a clear gain of the short edges,
\* or a comparable one with fewer rows, a longer shortest edge or more area.
Better(new, best) ==
  LET comparable == Away(new.harmonic, best.harmonic) <= 600
      taller == new.short > best.short + 1
  IN \/ new.harmonic > best.harmonic + 600
     \/ comparable /\ new.rows < best.rows
     \/ comparable /\ new.rows = best.rows
        /\ (taller \/ (Away(new.short, best.short) <= 1 /\ new.area > best.area))
     \/ ~comparable /\ new.harmonic > best.harmonic /\ taller

StageRows(ratios, width, height, gap) ==
  LET n == Len(ratios)
      Consider(best, rows) ==
        LET layout == RowsFor(rows, ratios, width, height, gap)
        IN IF layout # <<>> /\ Better(Measure(layout), best) THEN Measure(layout) ELSE best
  IN IF n = 0 \/ width <= 0 \/ height <= 0 THEN <<>>
     ELSE FoldLeft(Consider, NoBest, Candidates(n)).layout

-----------------------------------------------------------------------------
(* computeLayout.                                                          *)

DeviceGroup(vw, vh) ==
  CASE AtMost(vw, vh) < 600 -> "phone"
    [] AtMost(vw, vh) \in 600..1023 -> "tablet"
    [] OTHER -> "desktop"

Gap(group) == IF group = "phone" THEN 8 ELSE 12
Padding(group) == IF group = "phone" THEN 8 ELSE 16
PipPercent(group) == CASE group = "phone" -> 24 [] group = "tablet" -> 20 [] OTHER -> 16
PipInset(group) == CASE group = "phone" -> 12 [] group = "tablet" -> 16 [] OTHER -> 20
ThumbnailMin(group) == CASE group = "phone" -> 72 [] group = "tablet" -> 96 [] OTHER -> 120

Tile(id, type, x, y, w, h) == [id |-> id, type |-> type, x |-> x, y |-> y, w |-> w, h |-> h]

\* deriveMode.  A scene: [vw, vh, participants, local, pinned, content, swapped], its
\* participants [id, role, ratio] in order; None for no pin and no content.
Mode(scene) ==
  CASE Len(scene.participants) = 1 -> "solo"
    [] Len(scene.participants) # 1 /\ scene.content # None -> "content"
    [] Len(scene.participants) # 1 /\ scene.content = None /\ scene.pinned # None -> "focus"
    [] Len(scene.participants) = 2 /\ scene.content = None /\ scene.pinned = None -> "pair"
    [] OTHER -> "grid"

\* gridTilesToAbsolute: rows in the middle of the stage, tiles in the middle of rows.
Placed(rows, ids, x, y, width, height, gap) ==
  LET RowHeight(k) == rows[k][1].h
      Above(k) == Total([i \in 1..k - 1 |-> RowHeight(i) + gap])
      high == Total([i \in DOMAIN rows |-> RowHeight(i)]) + gap * (Len(rows) - 1)
      Wide(k) == Total([j \in DOMAIN rows[k] |-> rows[k][j].w]) + gap * (Len(rows[k]) - 1)
      Before(k, j) == Total([i \in 1..j - 1 |-> rows[k][i].w + gap])
  IN FlattenSeq([k \in DOMAIN rows |-> [j \in DOMAIN rows[k] |->
       Tile(ids[rows[k][j].tile], "participant",
            Px * x + (Px \div 2) * (width - Wide(k)) + Px * Before(k, j),
            Px * y + (Px \div 2) * (height - high) + Px * Above(k),
            Px * rows[k][j].w, Px * RowHeight(k))]])

\* computePip: the corner at the bottom right of the viewport.
Pip(p, vw, vh, group) ==
  LET w == (Px * vw * PipPercent(group)) \div 100
      h == (w * 144) \div ClampRatio(IF p.ratio = Unknown THEN 108 ELSE p.ratio)
      inset == Px * PipInset(group)
  IN << Tile(p.id, "pip", Px * vw - inset - w, Px * vh - inset - h, w, h) >>

\* The extent of the primary along the split: three quarters, less (down to a half)
\* where the thumbnails of the strip would not reach their least size.
PrimaryExtent(along, across, n, least, gap) ==
  LET each == Px * (across - gap * (n - 1))
      tight == each < n * Px * least \/ along < 4 * least
      byStrip == IF least * n + gap * (n - 1) > across THEN 2 * along ELSE 3 * along
  IN (Px \div 4) * (IF n = 0 \/ ~tight THEN 3 * along
                    ELSE AtLeast(2 * along, AtMost(byStrip, 4 * (along - least))))
     - (Px \div 2) * gap

\* Mutant: the gaps are not taken off.
ThumbnailGapless(across, n, gap) == IF n = 0 THEN 0 ELSE (Px * across) \div n

\* What each of n thumbnails gets of the strip.
Thumbnail(across, n, gap) == IF n = 0 THEN 0 ELSE (Px * (across - gap * (n - 1))) \div n

\* computePrimaryWithFilmstrip: beside the primary in a wide area, below it otherwise.
Filmstrip(id, type, strip, x, y, width, height, gap, least) ==
  LET n == Len(strip)
      wide == width > height
      side == IF wide THEN PrimaryExtent(width, height, n, least, gap)
              ELSE PrimaryExtent(height, width, n, least, gap)
      across == IF wide THEN height ELSE width
      rest == Px * (IF wide THEN width ELSE height) - side - Px * gap
      each == Thumbnail(across, n, gap)
      start == side + Px * gap
      At(i) == (i - 1) * (each + Px * gap)
  IN IF wide
     THEN << Tile(id, type, Px * x, Px * y, side, Px * height) >>
          \o [i \in 1..n |-> Tile(strip[i].id, "participant",
                                  Px * x + start, Px * y + At(i), rest, each)]
     ELSE << Tile(id, type, Px * x, Px * y, Px * width, side) >>
          \o [i \in 1..n |-> Tile(strip[i].id, "participant",
                                  Px * x + At(i), Px * y + start, each, rest)]

\* participantsStableOrder: the local participant last.
StableOrder(participants, local) ==
  SelectSeq(participants, LAMBDA p : p.id # local)
    \o SelectSeq(participants, LAMBDA p : p.id = local)

Strip(scene, id) == StableOrder(SelectSeq(scene.participants, LAMBDA p : p.id # id), scene.local)

\* One of the participants with a role, as a sequence of at most one.
FirstOf(q) == IF q = <<>> THEN <<>> ELSE <<q[1]>>

ContentId(owner) == <<owner, "_content">>

\* computeLayout: a pin on nobody of the scene falls back to what holds without it.
Layout(scene) ==
  LET group == DeviceGroup(scene.vw, scene.vh)
      gap == Gap(group)
      pad == Padding(group)
      width == scene.vw - 2 * pad
      height == scene.vh - 2 * pad
      locals == FirstOf(SelectSeq(scene.participants, LAMBDA p : p.id = scene.local))
      remotes == SelectSeq(scene.participants, LAMBDA p : p.role = "remote")
      found == scene.pinned \in {p.id : p \in Range(scene.participants)}
      asked == Mode(scene)
      mode == IF asked = "focus" /\ ~found THEN Mode([scene EXCEPT !.pinned = None]) ELSE asked
      PipOf(q) == IF q = <<>> THEN <<>> ELSE Pip(q[1], scene.vw, scene.vh, group)
      large == IF scene.swapped THEN locals ELSE FirstOf(remotes)
      small == IF scene.swapped THEN FirstOf(remotes) ELSE locals
      grid == SubSeq(remotes, 1, AtMost(3, Len(remotes)))
      ratios == [i \in DOMAIN grid |-> ClampRatio(grid[i].ratio)]
  IN [mode |-> mode,
      tiles |->
        CASE mode = "solo" -> <<>>
          [] mode = "pair" ->
               [i \in DOMAIN large |->
                  Tile(large[i].id, "participant", 0, 0, Px * scene.vw, Px * scene.vh)]
          [] mode = "grid" ->
               Placed(StageRows(ratios, width, height, gap), [i \in DOMAIN grid |-> grid[i].id],
                      pad, pad, width, height, gap)
          [] mode = "focus" ->
               Filmstrip(scene.pinned, "participant", Strip(scene, scene.pinned),
                         pad, pad, width, height, gap, ThumbnailMin(group))
          [] mode = "content" ->
               Filmstrip(ContentId(scene.content), "contentSource", Strip(scene, scene.content),
                         pad, pad, width, height, gap, ThumbnailMin(group)),
      pip |-> CASE mode \in {"solo", "grid"} -> PipOf(locals)
                [] mode = "pair" -> PipOf(small)
                [] OTHER -> <<>>]

-----------------------------------------------------------------------------
(* What a layout must be.                                                  *)

Apart(s, t) == s.x + s.w <= t.x \/ t.x + t.w <= s.x \/ s.y + s.h <= t.y \/ t.y + t.h <= s.y

\* Every tile is on the viewport and has a size, and no two overlap.
Fits(layout, vw, vh) ==
  LET tiles == layout.tiles
  IN /\ \A i \in DOMAIN tiles :
          /\ tiles[i].w > 0 /\ tiles[i].h > 0 /\ tiles[i].x >= 0 /\ tiles[i].y >= 0
          /\ tiles[i].x + tiles[i].w <= Px * vw /\ tiles[i].y + tiles[i].h <= Px * vh
     /\ \A i, j \in DOMAIN tiles : i # j => Apart(tiles[i], tiles[j])

\* The ids that are shown, tiles first, the corner last.
Shown(layout) == LET all == layout.tiles \o layout.pip IN [i \in DOMAIN all |-> all[i].id]
=============================================================================
