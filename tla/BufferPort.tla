------------------------------ MODULE BufferPort ------------------------------
(***************************************************************************)
(* What a port of the decoder promises its client, whatever happens inside *)
(* the driver: a buffer the client submits comes back exactly once, and a  *)
(* flush is over only when the client owns every buffer of the port.       *)
(***************************************************************************)
CONSTANT Bufs

VARIABLES owner,      \* who has each buffer: "client", "driver" or "message"
          flushing    \* 1 while a flush the client asked for is under way

portVars == <<owner, flushing>>

PortInit ==
    /\ owner = [b \in Bufs |-> "client"]
    /\ flushing = 0

(* EmptyThisBuffer or FillThisBuffer, refused while a flush is under way.  *)
Submit(b) ==
    /\ owner[b] = "client" /\ flushing = 0
    /\ owner' = [owner EXCEPT ![b] = "driver"]
    /\ UNCHANGED flushing

(* The driver posts INPUT_DONE or OUTPUT_DONE ...                          *)
Return(b) ==
    /\ owner[b] = "driver"
    /\ owner' = [owner EXCEPT ![b] = "message"]
    /\ UNCHANGED flushing

(* ... and the client reads it.                                            *)
Collect(b) ==
    /\ owner[b] = "message"
    /\ owner' = [owner EXCEPT ![b] = "client"]
    /\ UNCHANGED flushing

BeginFlush == flushing = 0 /\ flushing' = 1 /\ UNCHANGED owner

(* The client reads the FLUSH_..._DONE message.                            *)
EndFlush ==
    /\ flushing = 1
    /\ \A b \in Bufs : owner[b] = "client"
    /\ flushing' = 0
    /\ UNCHANGED owner

PortNext ==
    \/ \E b \in Bufs : Submit(b) \/ Return(b) \/ Collect(b)
    \/ BeginFlush
    \/ EndFlush

PortSpec == PortInit /\ [][PortNext]_portVars
===============================================================================
