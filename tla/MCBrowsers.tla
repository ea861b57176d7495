---------------------------- MODULE MCBrowsers ----------------------------
(***************************************************************************)
(* Two browsers: the one the main goroutine closes and the one it launches *)
(* next. They are model values of the .cfg files; a liveness property is    *)
(* checked on them, so they form no symmetry set.                          *)
(***************************************************************************)
EXTENDS Browsers
=============================================================================
