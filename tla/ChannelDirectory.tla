-------------------------- MODULE ChannelDirectory --------------------------
(***************************************************************************)
(* What the channel list promises whoever watches it, without publishers,  *)
(* streams or stores: while a viewer watches, it shows channels that       *)
(* exist, and it never loses one it has shown.                             *)
(***************************************************************************)
CONSTANTS Channels, Viewers

VARIABLES
    existing, \* the channels created so far; none is ever deleted
    watching, \* viewers with the list on screen
    shown     \* viewer -> the channels on its screen

vars == <<existing, watching, shown>>

Init ==
    /\ existing \in SUBSET Channels
    /\ watching = {}
    /\ shown = [v \in Viewers |-> {}]

Create ==
    /\ \E h \in Channels \ existing : existing' = existing \cup {h}
    /\ UNCHANGED <<watching, shown>>

Open(v) ==
    /\ v \notin watching
    /\ watching' = watching \cup {v}
    /\ UNCHANGED <<existing, shown>>

Show(v) ==
    /\ v \in watching
    /\ \E more \in SUBSET existing : shown' = [shown EXCEPT ![v] = @ \cup more]
    /\ UNCHANGED <<existing, watching>>

Close(v) ==
    /\ v \in watching
    /\ watching' = watching \ {v}
    /\ shown' = [shown EXCEPT ![v] = {}]
    /\ UNCHANGED existing

Next == Create \/ \E v \in Viewers : Open(v) \/ Show(v) \/ Close(v)

Spec == Init /\ [][Next]_vars
=============================================================================
