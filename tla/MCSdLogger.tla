----------------------------- MODULE MCSdLogger -----------------------------
(* The instance of SdLogger by itself; its constants are in the .cfg file: *)
(* NoFile is a model value, the others are small numbers.                  *)
EXTENDS SdLogger
=============================================================================
