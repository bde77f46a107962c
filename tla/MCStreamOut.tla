---------------------------- MODULE MCStreamOut ----------------------------
(* StreamOut with a buffer of three bytes: enough for a write() that is cut *)
(* short twice, for a call that fills the buffer more than once, and for a  *)
(* block or a start point below, at, and one below the size of the buffer.  *)
EXTENDS StreamOut

AllConfigs ==
    {[type |-> "FLUSH_ALWAYS", start |-> 0, block |-> 0],
     [type |-> "FLUSH_FULL",   start |-> 0, block |-> 0],
     [type |-> "FLUSH_LINE",   start |-> 2, block |-> 0],
     [type |-> "FLUSH_BLOCK",  start |-> 0, block |-> 2]}

=============================================================================
