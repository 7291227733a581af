------------------------------ MODULE RestServer -----------------------------
(***************************************************************************)
(* The HTTP server on a monitored machine (server/rest.cpp) with the       *)
(* authentication (server/info.cpp) and the control operations it guards   *)
(* (server/services.cpp, server/system.cpp).                               *)
(*                                                                         *)
(* A connection reads a request, runs its function on a thread of the io   *)
(* context, which is blocked meanwhile, writes the answer and reads again, *)
(* or closes.  What the information functions gather is left out; a        *)
(* request is what routing, authentication and the answer depend on.       *)
(***************************************************************************)
EXTENDS Integers, Sequences, FiniteSetsExt, Base64

CONSTANTS
    Conn,         \* connections of clients
    Requests,     \* requests a client may send
    Passwords,    \* passwords the configuration file may hold, as bytes
    Threads,      \* threads that run the io context
    MaxRequests   \* bound: requests of all clients

NoAuth == <<>>

Path == {"/", "/drives", "/system", "/updates", "/network/adapters", "/service", "/services",
         "/power/shutdown", "/power/reboot", "/elsewhere"}

Action == {"Start", "Stop", "Restart", "Enable", "Disable", "Unknown"}

(* http: the version and the Connection header; json: Content-Type is        *)
(* application/json; body: no body, a JSON object of the right form, or      *)
(* something else; auth: the code after "Basic ", or NoAuth.  Without a body *)
(* the action is not initialised, that is, any.                              *)
Request == [method : {"GET", "POST"}, path : Path, json : BOOLEAN,
            body : {"none", "good", "bad"}, action : Action, auth : Seq(0 .. Pad),
            http : {"1.1", "1.1 close", "1.0", "1.0 keep-alive"}]

(* The bytes of a text in UTF-8 are never 0 and never 255.                   *)
Typable == 1 .. 254

ASSUME RestAssumption ==
    /\ Requests \subseteq Request
    /\ Passwords \subseteq Seq(Typable)
    /\ Threads \in Nat \ {0}
    /\ MaxRequests \in Nat

VARIABLES
    pc,        \* a connection: backlog, reading, handling, writing or closed
    asked,     \* requests the client sent
    read,      \* how many of them were read
    res,       \* the answer being written: its status, and whether it ends the connection
    answers,   \* answers the client got
    effects,   \* control operations carried out: connection and number
    password   \* the password in the configuration file

vars == <<pc, asked, read, res, answers, effects, password>>

Answer == {200, 302, 401, 404, 415, 500, 501}

NoAnswer == [status |-> 0, close |-> FALSE]

TypeOK ==
    /\ pc \in [Conn -> {"backlog", "reading", "handling", "writing", "closed"}]
    /\ asked \in [Conn -> Seq(Requests)]
    /\ read \in [Conn -> Nat]
    /\ res \in [Conn -> [status : {0} \cup Answer, close : BOOLEAN]]
    /\ answers \in [Conn -> Seq(Answer)]
    /\ effects \subseteq (Conn \X Nat)
    /\ password \in Passwords
    /\ \A c \in Conn :
        /\ read[c] <= Len(asked[c])
        /\ pc[c] \in {"handling", "writing"} => read[c] = Len(answers[c]) + 1
        /\ pc[c] \in {"backlog", "reading"} => read[c] = Len(answers[c])

Init ==
    /\ pc = [c \in Conn |-> "backlog"]
    /\ asked = [c \in Conn |-> <<>>]
    /\ read = [c \in Conn |-> 0]
    /\ res = [c \in Conn |-> NoAnswer]
    /\ answers = [c \in Conn |-> <<>>]
    /\ effects = {}
    /\ password \in Passwords

-------------------------------------------------------------------------------
(* Authentication.                                                           *)

Admin == <<97, 100, 109, 105, 110>>
Colon == 58

(* The headers Server::control_service of the client makes.                  *)
Credentials == [pass \in Passwords |-> encode(Admin \o <<Colon>> \o pass)]

(* Mutant of Right: the beginning is enough.                                 *)
RightPrefix(pass, configured) == IsPrefix(configured, pass)

Right(pass, configured) == pass = configured

(* Helpers::Authenticate, for a code and the configured password: an         *)
(* exception, or whether the password is right.                              *)
Outcome(code, configured) ==
    LET text == decode(code)
        split == SelectInSeq(text, LAMBDA byte : byte = Colon)
    IN  IF ~Decodable(code) \/ SubSeq(text, 1, split - 1) # Admin THEN "throws"
        ELSE IF Right(SubSeq(text, split + 1, Len(text)), configured) THEN "right"
        ELSE "wrong"

Authenticate ==
    [code \in Range(Credentials) \cup {request.auth : request \in Requests} |->
        [configured \in Passwords |-> Outcome(code, configured)]]

-------------------------------------------------------------------------------
(* The functions behind the paths: each result, and whether the operation    *)
(* was carried out.                                                          *)

Result(kind) == [kind |-> kind, done |-> FALSE]
Done == [kind |-> "value", done |-> TRUE]

Info == {Result("value"), Result("NotImplemented"), Result("throws")}

(* Two commands are tried; the operation fails if both do.                   *)
ShutdownOrReboot == {Done, Result("Failed")}

(* D-Bus errors are thrown; a unit without a file cannot be enabled.         *)
ControlSystemd(action) ==
    {Result("throws")} \cup
    CASE action = "Unknown" -> {Result("NotImplemented")}
      [] action \in {"Enable", "Disable"} -> {Done, Result("Failed")}
      [] OTHER -> {Done}

(* A script that is not found throws (a string made from a null pointer).    *)
ControlOpenrc(action) ==
    {Result("throws")} \cup
    CASE action = "Unknown" -> {Result("NotImplemented")}
      [] action = "Disable" -> {Done}
      [] OTHER -> {Done, Result("Failed")}

(* What get_service_manager finds on the machine is left open: systemd,      *)
(* openrc or neither.                                                        *)
ControlService(request) ==
    IF request.auth = NoAuth THEN {Result("NeedsPassword")}
    ELSE CASE Authenticate[request.auth][password] = "throws" -> {Result("throws")}
           [] Authenticate[request.auth][password] = "wrong" -> {Result("NeedsPassword")}
           [] OTHER -> ControlSystemd(request.action) \cup ControlOpenrc(request.action)
                           \cup {Result("NotImplemented")}

(* handler: where a request goes.                                            *)
Route(request) ==
    LET InfoPath == {"/drives", "/system", "/updates", "/network/adapters", "/service",
                     "/services"}
    IN  CASE request.path = "/" -> "root"
          [] request.method = "GET" /\ request.path \in InfoPath -> "info"
          [] request.method = "POST" /\ request.path \in {"/power/shutdown", "/power/reboot"}
                -> "power"
          [] request.method = "POST" /\ request.path = "/service" -> "service"
          [] OTHER -> "nowhere"

TakesMessage(request) == request.path = "/services" \/ Route(request) = "service"

(* Run: a body that does not parse throws before the function is called.     *)
Results(request) ==
    IF Route(request) \in {"root", "nowhere"} THEN {Result("none")}
    ELSE IF TakesMessage(request) /\ request.body = "bad" THEN {Result("throws")}
    ELSE CASE Route(request) = "info" -> Info
           [] Route(request) = "power" -> ShutdownOrReboot
           [] Route(request) = "service" -> ControlService(request)

(* A function that returns information answers JSON or 415; one that returns *)
(* nothing answers 200.                                                      *)
Status(request, result) ==
    CASE Route(request) = "root" -> 302
      [] Route(request) = "nowhere" -> 404
      [] result.kind = "value" -> IF Route(request) = "info" /\ ~request.json THEN 415 ELSE 200
      [] result.kind = "NotImplemented" -> 501
      [] result.kind = "NeedsPassword" -> 401
      [] OTHER -> 500

(* need_eof of the answer: a 200 does not take over what the request says of *)
(* the connection and goes by the version alone.                             *)
EndsConnection(request, status) ==
    IF status = 200 THEN request.http \notin {"1.1", "1.1 close"}
                    ELSE request.http \notin {"1.1", "1.0 keep-alive"}

-------------------------------------------------------------------------------
(* The client.                                                               *)

TotalAsked == MapThenSumSet(LAMBDA d : Len(asked[d]), Conn)

Send(c, request) ==
    /\ pc[c] # "closed"
    /\ TotalAsked < MaxRequests
    /\ asked' = [asked EXCEPT ![c] = Append(@, request)]
    /\ UNCHANGED <<pc, read, res, answers, effects, password>>

-------------------------------------------------------------------------------
(* The server.                                                               *)

Goto(c, label) == pc' = [pc EXCEPT ![c] = label]

(* Mutant of ThreadFree: one thread too few runs the io context.             *)
ThreadFreeFewer == Cardinality({c \in Conn : pc[c] = "handling"}) < Threads - 1

(* Callbacks of the io context need a thread that runs no function.          *)
ThreadFree == Cardinality({c \in Conn : pc[c] = "handling"}) < Threads

(* A failed accept leaves the client without a connection; the next one is   *)
(* accepted all the same.                                                    *)
on_accept(c) ==
    /\ pc[c] = "backlog"
    /\ ThreadFree
    /\ Goto(c, "reading") \/ Goto(c, "closed")
    /\ UNCHANGED <<asked, read, res, answers, effects, password>>

(* Mutant of Reading: the next request is read while an answer is written.   *)
ReadingAhead(c) == pc[c] \in {"reading", "writing"}

Reading(c) == pc[c] = "reading"

(* A whole request has arrived: its function starts.                         *)
on_read(c) ==
    /\ Reading(c)
    /\ ThreadFree
    /\ read[c] < Len(asked[c])
    /\ read' = [read EXCEPT ![c] = @ + 1]
    /\ Goto(c, "handling")
    /\ UNCHANGED <<asked, res, answers, effects, password>>

(* The end of the stream or a broken connection: nothing is started any      *)
(* more, and the Connection is destroyed.                                    *)
ReadEnds(c) ==
    /\ pc[c] = "reading"
    /\ ThreadFree
    /\ Goto(c, "closed")
    /\ UNCHANGED <<asked, read, res, answers, effects, password>>

(* Mutant of Timed: no timeout for a client that asks nothing.               *)
TimedWrites(c) == pc[c] = "writing"

(* do_read sets the timeout of the read and of the write that follows it.    *)
Timed(c) == pc[c] \in {"reading", "writing"}

(* The 30 seconds have passed.  An answer is lost, whatever was carried out. *)
TimesOut(c) ==
    /\ Timed(c)
    /\ ThreadFree
    /\ Goto(c, "closed")
    /\ UNCHANGED <<asked, read, res, answers, effects, password>>

(* handler and Run: the function returns and one answer is sent.             *)
handler(c) ==
    /\ pc[c] = "handling"
    /\ LET request == asked[c][read[c]]
       IN  \E result \in Results(request) :
              /\ res' = [res EXCEPT ![c] =
                           [status |-> Status(request, result),
                            close |-> EndsConnection(request, Status(request, result))]]
              /\ effects' = IF result.done THEN effects \cup {<<c, read[c]>>} ELSE effects
    /\ Goto(c, "writing")
    /\ UNCHANGED <<asked, read, answers, password>>

(* Mutant of AfterWrite: the next request is not read.                       *)
AfterWriteStays(c) == IF res[c].close THEN "closed" ELSE "writing"

AfterWrite(c) == IF res[c].close THEN "closed" ELSE "reading"

(* The answer was written.                                                   *)
on_write(c) ==
    /\ pc[c] = "writing"
    /\ ThreadFree
    /\ answers' = [answers EXCEPT ![c] = Append(@, res[c].status)]
    /\ res' = [res EXCEPT ![c] = NoAnswer]
    /\ Goto(c, AfterWrite(c))
    /\ UNCHANGED <<asked, read, effects, password>>

(* The client is gone.                                                       *)
WriteFails(c) ==
    /\ pc[c] = "writing"
    /\ ThreadFree
    /\ Goto(c, "closed")
    /\ UNCHANGED <<asked, read, res, answers, effects, password>>

Connection(c) ==
    \/ on_accept(c) \/ on_read(c) \/ ReadEnds(c) \/ handler(c)
    \/ on_write(c) \/ WriteFails(c) \/ TimesOut(c)

Next == \E c \in Conn : Connection(c) \/ \E request \in Requests : Send(c, request)

Spec == Init /\ [][Next]_vars

(* The io context takes the completed operations of all connections in turn, *)
(* every function returns and every write completes or fails.  A read that   *)
(* gets nothing fails when its timeout has passed.                           *)
Fairness ==
    \A c \in Conn :
        /\ SF_vars(on_accept(c))
        /\ SF_vars(on_read(c))
        /\ WF_vars(handler(c))
        /\ SF_vars(on_write(c) \/ WriteFails(c))
        /\ SF_vars(TimesOut(c) /\ read[c] = Len(asked[c]))

FairSpec == Spec /\ Fairness

-------------------------------------------------------------------------------
(* An operation may be carried out for a client that knows the password; to  *)
(* switch the machine off it need not.                                       *)
MayPerform(request) ==
    \/ Route(request) = "power"
    \/ Route(request) = "service" /\ request.auth = Credentials[password]

(* 200 to a control request means that it was carried out, anything else     *)
(* that it was not.                                                          *)
Tells(request, done) ==
    {status \in Answer :
        /\ done => status = 200
        /\ ~done /\ Route(request) \in {"power", "service"} => status # 200}

Service == INSTANCE RequestReply WITH
                permitted <- {request \in Requests : MayPerform(request)},
                closed <- {c \in Conn : pc[c] = "closed"},
                Request <- Requests

(* The connections of rest.cpp keep the promises of RequestReply: requests   *)
(* that arrive while another is handled, answers that are lost, timeouts and *)
(* Connection headers never make an answer out of turn, a second answer, an  *)
(* operation without the password or an answer that hides what was done.     *)
KeepsPromises == Service!Spec

(* Every request is answered or its connection is closed, however few        *)
(* threads there are (main.cpp keeps one of them for itself) and although a  *)
(* function of another connection blocks its thread: no path through Run     *)
(* ends without sending.                                                     *)
EveryRequestSettled ==
    \A c \in Conn, k \in 1 .. MaxRequests :
        Len(asked[c]) >= k ~> (Len(answers[c]) >= k \/ pc[c] = "closed")

(* A connection whose client asks nothing more does not stay open for ever,  *)
(* whatever its Connection header said and although a 200 does not take the  *)
(* header over: do_read sets a timeout every time.                           *)
ConnectionsEnd == \A c \in Conn : pc[c] = "reading" ~> pc[c] = "closed"

(* A service is controlled only for the exact user and password: no other    *)
(* pair a user can type has the same code, in spite of the sign extension in *)
(* encode and the zero bytes decode cuts off.                                *)
PasswordExact ==
    \A pass \in Passwords : Authenticate[Credentials[pass]][password] = "right" => pass = password

(* The configured password is accepted (main.cpp: "Config file does not have *)
(* a password under the admin section. Please add one.").                    *)
PasswordAccepted == Authenticate[Credentials[password]][password] = "right"
===============================================================================
