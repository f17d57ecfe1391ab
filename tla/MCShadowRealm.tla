--------------------------- MODULE MCShadowRealm ---------------------------
(* Instances of ShadowRealm for TLC: three realms of one owner; two realms *)
(* are enough for the runs that show what the code does not prevent.       *)
EXTENDS ShadowRealm
=============================================================================
