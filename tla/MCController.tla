--------------------------- MODULE MCController ---------------------------
(* Devices for the controller: what each connection may ask for. *)
EXTENDS Controller

\* "ompd pair" gives every scope: two connections, of one device or of two.
EveryOperation == [c \in Connection |-> Operation]

\* The same, asking only to launch and to stop.
LaunchAndStop == [c \in Connection |-> {"launch", "stop"}]
===========================================================================
