---------------------------- MODULE NodeSandboxes ----------------------------
(* What the modules about a node's resources share. *)
EXTENDS Integers, FiniteSets

CONSTANTS
    Sandboxes,  \* the sandboxes that are started on the node
    None        \* no slot, no device, no sandbox

\* Seeded fault: a channel takes one more than its capacity.
HasRoomForOneMore(channel, capacity) == Cardinality(channel) <= capacity

\* A send to a buffered channel does not wait.
HasRoom(channel, capacity) == Cardinality(channel) < capacity
=============================================================================
