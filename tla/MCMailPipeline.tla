--------------------------- MODULE MCMailPipeline ---------------------------
(* Model values for MailPipeline. *)
EXTENDS MailPipeline, TLC

CONSTANTS e1, h1, w1, w2, r1, r2, c1, k1
=============================================================================
