---------------------------- MODULE MCEmqClient ----------------------------
(***************************************************************************)
(* The client on small instances.  The configurations give every constant  *)
(* of EmqClient a value; a header is 8 bytes, two words, and so is a tag.  *)
(***************************************************************************)
EXTENDS EmqClient
=============================================================================
