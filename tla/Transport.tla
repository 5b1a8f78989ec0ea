------------------------------ MODULE Transport ------------------------------
(***************************************************************************)
(* The connections behind the Connection trait of transport.rs: the        *)
(* in-process link of Link and the sockets of Wire.  A connection is of    *)
(* one medium for its whole life; the variables of the other rest.         *)
(***************************************************************************)
EXTENDS Link, Wire

VARIABLE medium

transportVars == <<medium, linkVars, wireVars>>

TransportInit ==
    /\ LinkInit /\ WireInit
    /\ medium \in {"memory", "socket"}
    /\ medium = "memory" => kind = "tcp"
    /\ medium = "socket" => dir = "inbound"

Memory == medium = "memory" /\ LinkNext /\ UNCHANGED <<medium, wireVars>>
Socket == medium = "socket" /\ WireNext /\ UNCHANGED <<medium, linkVars>>

TransportSpec ==
    /\ TransportInit /\ [][Memory \/ Socket]_transportVars
    /\ WireFairness
=============================================================================
