----------------------------- MODULE MCFieldQueue -----------------------------
(* FieldQueue on small sets.                                                  *)
EXTENDS FieldQueue, TLC
===============================================================================
