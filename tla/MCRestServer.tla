----------------------------- MODULE MCRestServer ----------------------------
EXTENDS RestServer

(* Passwords as UTF-8: "a", "ab", "x" (its code has the letter A) and an e   *)
(* with an accent (two bytes above 127).                                     *)
MCPasswords == {<<97>>, <<97, 98>>, <<120>>, <<195, 169>>}

Get == [method |-> "GET", path |-> "/system", json |-> TRUE, body |-> "none",
        action |-> "Unknown", auth |-> NoAuth, http |-> "1.1"]

ControlOf(pass, action) ==
    [Get EXCEPT !.method = "POST", !.path = "/service", !.body = "good",
                !.action = action, !.auth = encode(Admin \o <<Colon>> \o pass)]

MCRequests ==
    {Get, [Get EXCEPT !.path = "/services", !.body = "bad", !.http = "1.0 keep-alive"],
     [ControlOf(<<97>>, "Enable") EXCEPT !.http = "1.1 close"],
     [ControlOf(<<97>>, "Start") EXCEPT !.auth = NoAuth],
     [Get EXCEPT !.method = "POST", !.path = "/power/reboot", !.http = "1.0"]}
===============================================================================
