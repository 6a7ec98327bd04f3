---------------------------- MODULE MCEmqRequest ----------------------------
(***************************************************************************)
(* The request buffer on lengths around every limit.  TLC's integers are   *)
(* of 32 bits, so uint32_t is scaled down to 2^12 values and the message   *)
(* sizes with it; the structures keep their real sizes.                    *)
(***************************************************************************)
EXTENDS EmqRequest
=============================================================================
