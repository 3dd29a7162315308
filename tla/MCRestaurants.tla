--------------------------- MODULE MCRestaurants ---------------------------
(* Two restaurants and three menus: one pull is still safe for the detail   *)
(* page, two are not, and a page can be put out of date in both directions. *)
EXTENDS Restaurants

CONSTANTS r1, r2, m1, m2, m3

MCPlaces == <<r1, r2>>
MCMenus == <<m1, m2, m3>>
=============================================================================
