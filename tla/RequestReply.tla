----------------------------- MODULE RequestReply ----------------------------
(***************************************************************************)
(* What a server promises the clients of its connections: every connection *)
(* answers its requests one by one, in the order they were asked, until it *)
(* is closed, and answers nothing after that.  A request has its effect at *)
(* most once, only if it may, and before it is answered; the answer tells  *)
(* whether it had.  A connection may be closed with requests unanswered.   *)
(***************************************************************************)
EXTENDS Integers, Sequences

CONSTANTS
    Conn,             \* connections
    Request,          \* requests
    Answer,           \* answers
    Tells(_, _)       \* the answers to a request, without and with its effect

VARIABLES
    permitted, \* the requests that may have their effect
    asked,     \* per connection, the requests of the client
    answers,   \* per connection, the answers the client got
    effects,   \* the requests that had their effect: connection and number
    closed     \* the connections that are closed

vars == <<permitted, asked, answers, effects, closed>>

Init ==
    /\ permitted \subseteq Request
    /\ asked = [c \in Conn |-> <<>>]
    /\ answers = [c \in Conn |-> <<>>]
    /\ effects = {}
    /\ closed = {}

Ask(c, request) ==
    /\ c \notin closed
    /\ asked' = [asked EXCEPT ![c] = Append(@, request)]
    /\ UNCHANGED <<permitted, answers, effects, closed>>

(* The request a connection has to answer next.                              *)
Due(c) == Len(answers[c]) + 1

Pending(c) == c \notin closed /\ Due(c) <= Len(asked[c])

Perform(c) ==
    /\ Pending(c)
    /\ asked[c][Due(c)] \in permitted
    /\ <<c, Due(c)>> \notin effects
    /\ effects' = effects \cup {<<c, Due(c)>>}
    /\ UNCHANGED <<permitted, asked, answers, closed>>

Reply(c, status) ==
    /\ Pending(c)
    /\ status \in Tells(asked[c][Due(c)], <<c, Due(c)>> \in effects)
    /\ answers' = [answers EXCEPT ![c] = Append(@, status)]
    /\ closed' \in {closed, closed \cup {c}}
    /\ UNCHANGED <<permitted, asked, effects>>

Close(c) ==
    /\ c \notin closed
    /\ closed' = closed \cup {c}
    /\ UNCHANGED <<permitted, asked, answers, effects>>

Next ==
    \E c \in Conn :
        \/ \E request \in Request : Ask(c, request)
        \/ Perform(c)
        \/ \E status \in Answer : Reply(c, status)
        \/ Close(c)

Spec == Init /\ [][Next]_vars
===============================================================================
