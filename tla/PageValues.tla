----------------------------- MODULE PageValues -----------------------------
(* What the modules of the browser pages share.                              *)

CONSTANT None  \* no value: null, undefined, nothing open, nothing chosen
=============================================================================
