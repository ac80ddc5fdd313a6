------------------------------ MODULE WindowFit ------------------------------
(***************************************************************************)
(* The arithmetic of window sizes (geometry_utils.go, window_autofit.go):  *)
(* which size a window gets for a viewport, a preset and a monitor.  The   *)
(* program offers these functions to the hosts that embed it; none of its  *)
(* own goroutines calls them, so they are operators here and no actions of *)
(* Geometry.  The theorems hold for sizes of any numbers; in particular a  *)
(* monitor that was not detected is 0x0.                                   *)
(***************************************************************************)
EXTENDS Integers

Dimensions == [w : Int, h : Int]

Least(m, n) == IF m <= n THEN m ELSE n
Most(m, n) == IF m >= n THEN m ELSE n

Within(s, t) == s.w <= t.w /\ s.h <= t.h
IsDetected(mon) == mon.w > 0 /\ mon.h > 0

CalculateConstrainedSize(req, mon) ==
  IF IsDetected(mon) THEN [w |-> Least(req.w, mon.w), h |-> Least(req.h, mon.h)] ELSE req

\* The width that the docked DevTools are taken to have.
DevToolsReservedWidth == 420

\* The size a viewport needs, with the DevTools beside it.
Needed(req, reserved) ==
  [w |-> req.w + (IF reserved THEN DevToolsReservedWidth ELSE 0), h |-> req.h]

\* The current size is a floor, the monitor a ceiling, and the ceiling wins.
RequiredWindowSize(req, cur, mon, reserved) ==
  LET need == Needed(req, reserved)
  IN  CalculateConstrainedSize([w |-> Most(need.w, cur.w), h |-> Most(need.h, cur.h)], mon)

\* GrowWindowToFit compares with the fields cur and resizes the window only when one
\* dimension is to grow; the window may differ from the fields until the next poll.
GrowWindowToFit(req, cur, now, mon, reserved) ==
  LET new == RequiredWindowSize(req, cur, mon, reserved)
  IN  IF Within(new, cur) THEN now ELSE new

Presets == {"desktop", "mobile", "tablet"}

BaseSize(mode) ==
  CASE mode = "desktop" -> [w |-> 1024, h |-> 768]
    [] mode = "mobile"  -> [w |-> 375, h |-> 812]
    [] mode = "tablet"  -> [w |-> 768, h |-> 1024]

\* The desktop is the whole monitor.
GetPresetSize(mode, mon) ==
  IF mode = "desktop" /\ IsDetected(mon) THEN mon
  ELSE IF mon.w = 0 \/ mon.h = 0 THEN BaseSize(mode)
  ELSE CalculateConstrainedSize(BaseSize(mode), mon)
=============================================================================
