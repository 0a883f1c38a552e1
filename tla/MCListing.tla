------------------------------ MODULE MCListing ------------------------------
(* A small instance of ResourceListing: both groups serve the kind Event. *)
EXTENDS ResourceListing

CONSTANTS core, events

MCGroups == {core, events}
MCKindsOf == [g \in MCGroups |-> IF g = core THEN {"Service", "Event"} ELSE {"Event"}]
=============================================================================
