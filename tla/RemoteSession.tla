--------------------------- MODULE RemoteSession ---------------------------
(* What a remote control promises its users: each connection is a session   *)
(* of its own, which begins with no gesture under way and in which the      *)
(* lines of that connection, and no others, are treated one after another.  *)
(* What survives a session is what no gesture relies on: the button last    *)
(* chosen, a coordinate not used again, and a default screenshot size.      *)
(*                                                                          *)
(* It is the same treat_events on one record for each connection, where the *)
(* program has one record for all.                                          *)
EXTENDS Session

CONSTANTS Conn, Line, NoSession

VARIABLES
    sess,   \* the session of each open connection
    out     \* the effect of the line just treated

vars == <<sess, out>>

Fresh(s) ==
    /\ ~s.mouse_event
    /\ s.times = 0
    /\ ~s.screen_rotate
    /\ ~s.flag
    /\ s.dim_times = 0
    /\ <<s.width, s.height>> \in {<<W176, H208>>, <<W320, H240>>}

Init ==
    /\ sess = [c \in Conn |-> NoSession]
    /\ out = Nothing

Open(c) ==
    /\ sess[c] = NoSession
    /\ sess' = [sess EXCEPT ![c] = sess'[c]]
    /\ sess'[c] # NoSession
    /\ Fresh(sess'[c])
    /\ UNCHANGED out

Treat(c, l, shot) ==
    /\ sess[c] # NoSession
    /\ out' = Effect(sess[c], l, shot)
    /\ sess' = [sess EXCEPT ![c] = AfterEvent(sess[c], l, shot)]

Close(c) ==
    /\ sess[c] # NoSession
    /\ sess' = [sess EXCEPT ![c] = NoSession]
    /\ UNCHANGED out

(* Between two callbacks nothing is being done. *)
Rest == out' = Nothing /\ UNCHANGED sess

Next ==
    \/ \E c \in Conn : Open(c) \/ Close(c)
    \/ \E c \in Conn, l \in Line, shot \in Shots : l.of[1] = c /\ Treat(c, l, shot)
    \/ Rest

Spec == Init /\ [][Next]_vars
=============================================================================
