------------------------------ MODULE MCOverlay ------------------------------
(* Two overlays, one of them with a handler that clicks through an Element;
   a stack of six calls stands for the gigabyte a goroutine's stack may grow to. *)
EXTENDS Overlay
=============================================================================
