----------------------------- MODULE MCRunStore -----------------------------
(* Small instances of RunStore.  The configurations choose how many runs and
   step names there are; x is a name that is in no template, as
   "submit-to-engine" is. *)
EXTENDS RunStore

CONSTANTS prj1, prj2, d1, run0, run1, e1, a, b, x
=============================================================================
