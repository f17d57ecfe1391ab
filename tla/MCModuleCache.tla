---------------------------- MODULE MCModuleCache ----------------------------
(* Two files that may require each other, a library, and an id that resolves *)
(* to the first file.                                                        *)
EXTENDS ModuleCache, TLC

CONSTANTS f1, f2, id, lib, t1, t2

MCPathOf == id :> f1
=============================================================================
