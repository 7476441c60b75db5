------------------------------ MODULE Scaling ------------------------------
(***************************************************************************)
(* Where a display widget draws its area in its window, and which point of *)
(* the area a point of the window is (spice_display_get_scaling and        *)
(* transform_input, spice-widget.c).  The factors are doubles in the code  *)
(* and fractions here; what is rounded there is rounded here.              *)
(***************************************************************************)
EXTENDS Integers

CONSTANTS Sizes, Heights  \* of windows and of areas

ScalingAssumption == Sizes \subseteq Nat \ {0} /\ Heights \subseteq Nat \ {0}

VARIABLES
  window,  \* what is allocated: <<width, height>>
  area,    \* d->area: <<width, height>>
  scaling, only_downscale

vars == <<window, area, scaling, only_downscale>>
Rectangles == Sizes \X Heights

TypeOK == window \in Rectangles /\ area \in Rectangles
          /\ {scaling, only_downscale} \subseteq BOOLEAN

Init == window \in Rectangles /\ area \in Rectangles
        /\ scaling = TRUE /\ only_downscale = FALSE

(* MIN of the two ratios, and not more than 1 where the picture only shrinks *)
Ratio == IF window[1] * area[2] <= window[2] * area[1]
           THEN <<window[1], area[1]>> ELSE <<window[2], area[2]>>
Grows == Ratio[1] >= Ratio[2]
Factor == IF ~scaling \/ (only_downscale /\ Grows) THEN <<1, 1>> ELSE Ratio

(* w_out, h_out: floor (size * s + 0.5)                                     *)
Shown(i) == (2 * area[i] * Factor[1] + Factor[2]) \div (2 * Factor[2])

(* x_out, y_out: in the middle of the window                                *)
Offset(i) == IF window[i] > Shown(i) THEN (window[i] - Shown(i)) \div 2 ELSE 0

(* transform_input: both coordinates with the factor of the columns, that   *)
(* leads from the last column of the window to the last one of the area     *)
InputScale == <<area[1] - 1, Shown(1) - 1>>
Input(i, point) == ((point - Offset(i)) * InputScale[1]) \div InputScale[2]

(* size_allocate, update_area, the properties                               *)
SizeAllocate(r) == window' = r /\ UNCHANGED <<area, scaling, only_downscale>>
UpdateArea(r) == area' = r /\ UNCHANGED <<window, scaling, only_downscale>>
SetProperty ==
  /\ scaling' \in BOOLEAN /\ only_downscale' \in BOOLEAN
  /\ UNCHANGED <<window, area>>

Next ==
  \/ \E r \in Rectangles : SizeAllocate(r) \/ UpdateArea(r)
  \/ SetProperty
Spec == Init /\ [][Next]_vars

-----------------------------------------------------------------------------
(* A display that is scaled is in the window as a whole, and it is not      *)
(* larger than the area when it is only scaled down.                        *)
Fits ==
  \A i \in {1, 2} :
    /\ scaling /\ ~only_downscale => Offset(i) + Shown(i) <= window[i]
    /\ scaling /\ only_downscale => Offset(i) + Shown(i) <= window[i] /\ Shown(i) <= area[i]

(* The pointer reaches every end of the area and leaves it at neither: the  *)
(* first column of what is drawn is the first of the area and the last one  *)
(* the last.  A picture of one column is out of it.                         *)
PointerReaches ==
  Shown(1) > 1 =>
    /\ Input(1, Offset(1)) = 0 /\ Input(1, Offset(1) + Shown(1) - 1) = area[1] - 1
    /\ \A p \in 0 .. Shown(1) - 1 : Input(1, Offset(1) + p) \in 0 .. area[1] - 1
=============================================================================
