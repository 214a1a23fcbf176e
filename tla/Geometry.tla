------------------------------ MODULE Geometry ------------------------------
(***************************************************************************)
(* geometry_util.cc: coordinates between CEF's logical pixels and the      *)
(* window's device pixels, and the device scale factor of util_win.cc.     *)
(*                                                                         *)
(* The scale is Dpi / 96.  For the scalings Windows offers (multiples of   *)
(* 25 per cent, so Dpi a multiple of 24) the float computation of the code *)
(* is exact for screen-sized values, and std::floor is integer division.   *)
(***************************************************************************)
EXTENDS Integers

CONSTANT Dpi

ASSUME DpiAssumption == Dpi \in Nat /\ Dpi >= 96 /\ Dpi % 24 = 0

LogicalToDevice(value) == (value * Dpi) \div 96

DeviceToLogical(value) == (value * 96) \div Dpi

Rect(x, y, w, h) == [x |-> x, y |-> y, width |-> w, height |-> h]

EmptyRect == Rect(0, 0, 0, 0)

LogicalToDeviceRect(r) ==
  Rect(LogicalToDevice(r.x), LogicalToDevice(r.y),
       LogicalToDevice(r.width), LogicalToDevice(r.height))

(* SWebView::IsOverPopupWidget: the right and the bottom edge are outside. *)
IsInside(x, y, r) ==
  /\ r.x <= x /\ x < r.x + r.width
  /\ r.y <= y /\ y < r.y + r.height
=============================================================================
