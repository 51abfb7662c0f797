----------------------------- MODULE MCDebounce -----------------------------
(* Model-checking instances of the debouncers and of the stream they       *)
(* implement.                                                              *)
EXTENDS Debounce, TLC
=============================================================================
