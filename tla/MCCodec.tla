------------------------------- MODULE MCCodec --------------------------------
(* ACodec and the component on a small instance.                           *)
EXTENDS ACodec
===============================================================================
