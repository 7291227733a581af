----------------------------- MODULE MCServerPoll -----------------------------
(***************************************************************************)
(* Environments for the runs of ServerPoll: which outcomes the requests    *)
(* of a cycle may have while the machine is up.                            *)
(***************************************************************************)
EXTENDS ServerPoll

AnyAnswer == Outcome

(* The adapters request may fail, but not with an HTTP status.              *)
NoStatus == {"ok", "garbled", "lost"}

(* Everything may fail; only a refused adapters request is left out.        *)
AnswersUnreliable ==
    [path \in Path |-> IF path = "/network/adapters" THEN NoStatus ELSE AnyAnswer]

(* As above, and the /service request is always answered.                   *)
AnswersServiceOk ==
    [AnswersUnreliable EXCEPT !["/service"] = {"ok"}]

(* A machine that answers everything.                                       *)
AnswersOk == [path \in Path |-> {"ok"}]
===============================================================================
