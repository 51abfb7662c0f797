----------------------------- MODULE MCFileOps ------------------------------
(***************************************************************************)
(* Two files of one name and one of another on a second device (usb).      *)
(***************************************************************************)
EXTENDS FileOps
CONSTANTS home, docs, usb, a, b
TwoNames == <<<<home, a>>, <<docs, a>>, <<usb, b>>>>
=============================================================================
