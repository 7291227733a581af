---------------------------- MODULE LoginDialogs -----------------------------
(***************************************************************************)
(* Logging in from the page of one machine, to open a terminal or to       *)
(* control a service: the dialogs, the pool tasks that connect, the        *)
(* signals between them and the terminal page that results                 *)
(* (client/objects/server.cpp open_term, control_service, network_post;    *)
(* client/ui Login.qml, ServerPage.qml, Services.qml, main.qml).           *)
(*                                                                         *)
(* Every action of the menus makes a new dialog.  A click on "Login" first *)
(* connects the signals of the Server to the dialog, and those of a        *)
(* terminal login to the page, then starts a pool task.  Nothing           *)
(* disconnects them: a signal reaches every dialog that ever logged in.    *)
(***************************************************************************)
EXTENDS Queues

CONSTANTS
    MaxDialogs,   \* bound: dialogs opened
    MaxAttempts,  \* bound: clicks on "Login"
    Replies       \* what a control request meets: done, refused or lost

ASSUME LoginAssumption ==
    /\ MaxDialogs \in Nat
    /\ MaxAttempts \in Nat
    /\ Replies \subseteq {"done", "refused", "lost"} /\ Replies # {}

Dialog == 1 .. MaxDialogs
Attempt == 1 .. MaxAttempts
Purpose == {"terminal", "service"}
Resource == {"session", "link", "channel"}

(* The calls of open_term that may fail, in their order.                     *)
Steps == <<"ssh_new", "ssh_connect", "ssh_userauth_password", "ssh_channel_new",
           "ssh_channel_open_session">>

(* What each call adds to what libssh holds, and what its error path frees.  *)
Acquired ==
    [step \in DOMAIN Steps |->
        CASE Steps[step] = "ssh_new"         -> {"session"}
          [] Steps[step] = "ssh_connect"     -> {"link"}
          [] Steps[step] = "ssh_channel_new" -> {"channel"}
          [] OTHER                           -> {}]

(* Mutant of FreedAtLast: the error path frees the channel only.             *)
FreedChannel == {"channel"}

FreedAtLast == {"session", "link", "channel"}

Released ==
    [step \in DOMAIN Steps |->
        CASE Steps[step] = "ssh_new"                  -> {}
          [] Steps[step] = "ssh_connect"              -> {"session"}
          [] Steps[step] = "ssh_channel_open_session" -> FreedAtLast
          [] OTHER                                    -> {"session", "link"}]

None == 0

Over == 0

VARIABLES
    dialogs,   \* the dialogs, in the order they were opened
    attempts,  \* the clicks on "Login": dialog, next step, what libssh holds
    links,     \* connections of the Server's signals, in their order
    events,    \* queued calls of slots in the GUI thread
    holder,    \* per attempt, who has its SSH connection
    term,      \* the terminal page: whose Pty it was given, and whether it got
               \* the connection
    page       \* the page of the machine still exists

vars == <<dialogs, attempts, links, events, holder, term, page>>

(* A slot of the page has dialog None.                                       *)
Link == [signal : {"open_term", "connecting_fail", "service_action_done"},
         slot : {"open_term", "connecting_fail", "done"}, dialog : Dialog \cup {None}]

Event == [slot : {"open_term", "connecting_fail", "done"}, dialog : Dialog \cup {None},
          pty : Attempt \cup {None}]

TypeOK ==
    /\ dialogs \in Seq([purpose : Purpose, state : {"form", "busy", "closed"}])
    /\ attempts \in Seq([dialog : 1 .. Len(dialogs), step : 0 .. Len(Steps),
                         held : SUBSET Resource])
    /\ links \in Seq(Link)
    /\ events \in Seq(Event)
    /\ holder \in [Attempt -> {"none", "pty", "screen", "gone"}]
    /\ term \in [pty : Attempt \cup {None}, live : BOOLEAN]
    /\ page \in BOOLEAN

NoTerm == [pty |-> None, live |-> FALSE]

Init ==
    /\ dialogs = <<>>
    /\ attempts = <<>>
    /\ links = <<>>
    /\ events = <<>>
    /\ holder = [a \in Attempt |-> "none"]
    /\ term = NoTerm
    /\ page = TRUE

-------------------------------------------------------------------------------
(* The user.                                                                 *)

IsOpen(d) == dialogs[d].state # "closed"

(* A menu entry: "Terminal" of the page or an action of a service.           *)
OpenDialog(purpose) ==
    /\ page
    /\ term = NoTerm
    /\ Len(dialogs) < MaxDialogs
    /\ \A d \in DOMAIN dialogs : ~IsOpen(d)
    /\ dialogs' = Append(dialogs, [purpose |-> purpose, state |-> "form"])
    /\ UNCHANGED <<attempts, links, events, holder, term, page>>

CloseDialog(d) ==
    /\ d \in DOMAIN dialogs
    /\ IsOpen(d)
    /\ dialogs' = [dialogs EXCEPT ![d].state = "closed"]
    /\ UNCHANGED <<attempts, links, events, holder, term, page>>

LinkTo(signal, slot, d) == [signal |-> signal, slot |-> slot, dialog |-> d]

(* The connections of Server::open_term and Server::control_service.         *)
NewLinks(d) ==
    IF dialogs[d].purpose = "terminal"
    THEN << LinkTo("open_term", "open_term", None),
            LinkTo("connecting_fail", "connecting_fail", d),
            LinkTo("open_term", "done", d) >>
    ELSE << LinkTo("connecting_fail", "connecting_fail", d),
            LinkTo("service_action_done", "done", d) >>

(* The button "Login", with both fields filled in.                           *)
LoginClicked(d) ==
    /\ d \in DOMAIN dialogs
    /\ dialogs[d].state = "form"
    /\ Len(attempts) < MaxAttempts
    /\ dialogs' = [dialogs EXCEPT ![d].state = "busy"]
    /\ links' = links \o NewLinks(d)
    /\ attempts' = Append(attempts, [dialog |-> d, step |-> 1, held |-> {}])
    /\ UNCHANGED <<events, holder, term, page>>

ScreenGone == [a \in Attempt |-> IF holder[a] = "screen" THEN "gone" ELSE holder[a]]

(* The user leaves the terminal: its Screen and connection are destroyed.    *)
LeaveTerminal ==
    /\ term # NoTerm
    /\ holder' = ScreenGone
    /\ term' = NoTerm
    /\ UNCHANGED <<dialogs, attempts, links, events, page>>

(* The user goes to another machine: the page is destroyed, and with it its  *)
(* connections and the calls queued for it.                                  *)
LeavePage ==
    /\ page
    /\ term = NoTerm
    /\ \A d \in DOMAIN dialogs : ~IsOpen(d)
    /\ page' = FALSE
    /\ links' = Kept(links, {i \in DOMAIN links : links[i].slot # "open_term"})
    /\ events' = Kept(events, {i \in DOMAIN events : events[i].slot # "open_term"})
    /\ UNCHANGED <<dialogs, attempts, holder, term>>

-------------------------------------------------------------------------------
(* The pool tasks.                                                           *)

PurposeOf(a) == dialogs[attempts[a].dialog].purpose

(* A signal is queued once for each of its connections, in their order.      *)
Emit(signal, pty) ==
    LET receivers == Kept(links, {i \in DOMAIN links : links[i].signal = signal})
    IN  events' = events \o [i \in DOMAIN receivers |->
                      [slot |-> receivers[i].slot, dialog |-> receivers[i].dialog, pty |-> pty]]

(* The attempt is a terminal login, and its task has not ended.              *)
Connecting(a) ==
    /\ a \in DOMAIN attempts
    /\ PurposeOf(a) = "terminal"
    /\ attempts[a].step # Over

(* The attempt goes to a step, with what libssh then holds.                  *)
Proceed(a, step, held) ==
    attempts' = [attempts EXCEPT ![a] =
                    [dialog |-> attempts[a].dialog, step |-> step, held |-> held]]

(* Mutant of LastStep: the sequence of calls has one step too many.          *)
PastLast == Len(Steps) + 1

LastStep == Len(Steps)

(* A call of open_term succeeds, and is not the last one.                    *)
StepSucceeds(a) ==
    /\ Connecting(a)
    /\ attempts[a].step < LastStep
    /\ Proceed(a, attempts[a].step + 1, attempts[a].held \cup Acquired[attempts[a].step])
    /\ UNCHANGED <<dialogs, links, events, holder, term, page>>

(* After the last one a Pty is given the connection and handed over.         *)
HandOver(a) ==
    /\ Connecting(a)
    /\ attempts[a].step = LastStep
    /\ Proceed(a, Over, {})
    /\ holder' = [holder EXCEPT ![a] = "pty"]
    /\ Emit("open_term", a)
    /\ UNCHANGED <<dialogs, links, term, page>>

(* Mutant of Reports: a refused password is not reported.                    *)
ReportsUnlessRefused(step) ==
    IF Steps[step] = "ssh_userauth_password" THEN UNCHANGED events
                                             ELSE Emit("connecting_fail", None)

Reports(step) == Emit("connecting_fail", None)

(* A call fails: its error path frees what is held and reports the failure.  *)
StepFails(a) ==
    /\ Connecting(a)
    /\ Proceed(a, Over, attempts[a].held \ Released[attempts[a].step])
    /\ Reports(attempts[a].step)
    /\ UNCHANGED <<dialogs, links, holder, term, page>>

(* The control request: an exception is caught and reported to no one.       *)
network_post(a, reply) ==
    /\ a \in DOMAIN attempts
    /\ PurposeOf(a) = "service"
    /\ attempts[a].step # Over
    /\ Proceed(a, Over, attempts[a].held)
    /\ \/ reply = "done" /\ Emit("service_action_done", None)
       \/ reply = "refused" /\ Emit("connecting_fail", None)
       \/ reply = "lost" /\ UNCHANGED events
    /\ UNCHANGED <<dialogs, links, holder, term, page>>

-------------------------------------------------------------------------------
(* The GUI thread handles a queued call.                                     *)

(* Mutants of Moved: the Pty keeps its connection; the terminal that was     *)
(* there keeps its own.                                                      *)
MovedNot(pty) == ScreenGone
MovedBeside(pty) == [holder EXCEPT ![pty] = IF @ = "pty" THEN "screen" ELSE @]

(* The connection leaves the Pty, if it is still there.                      *)
Moved(pty) == [ScreenGone EXCEPT ![pty] = IF @ = "pty" THEN "screen" ELSE @]

(* The next queued call is of this slot; it is handled now.                  *)
Handle(slot) ==
    /\ events # <<>>
    /\ Head(events).slot = slot
    /\ events' = Tail(events)

(* ServerPage.open_term: a new terminal page takes the connection; the       *)
(* terminal page it replaces is destroyed.                                   *)
open_term ==
    /\ Handle("open_term")
    /\ LET pty == Head(events).pty
       IN  /\ term' = [pty |-> pty, live |-> holder[pty] = "pty"]
           /\ holder' = Moved(pty)
    /\ UNCHANGED <<dialogs, attempts, links, page>>

(* Login.connecting_fail brings the form back.                               *)
connecting_fail ==
    /\ Handle("connecting_fail")
    /\ LET d == Head(events).dialog
       IN  dialogs' = IF IsOpen(d) THEN [dialogs EXCEPT ![d].state = "form"] ELSE dialogs
    /\ UNCHANGED <<attempts, links, holder, term, page>>

done ==
    /\ Handle("done")
    /\ dialogs' = [dialogs EXCEPT ![Head(events).dialog].state = "closed"]
    /\ UNCHANGED <<attempts, links, holder, term, page>>

User ==
    \/ \E purpose \in Purpose : OpenDialog(purpose)
    \/ \E d \in Dialog : CloseDialog(d)
    \/ \E d \in Dialog : LoginClicked(d)
    \/ LeaveTerminal
    \/ LeavePage

Task(a) ==
    \/ StepSucceeds(a)
    \/ HandOver(a)
    \/ StepFails(a)
    \/ \E reply \in Replies : network_post(a, reply)

GuiThread == open_term \/ connecting_fail \/ done

Next == User \/ GuiThread \/ \E a \in Attempt : Task(a)

Spec == Init /\ [][Next]_vars

(* A pool task runs to its end, since every call of libssh and every HTTP    *)
(* exchange returns, and the GUI thread empties its queue.                   *)
Fairness == WF_vars(GuiThread) /\ \A a \in Attempt : WF_vars(Task(a))

FairSpec == Spec /\ Fairness

-------------------------------------------------------------------------------
(* An attempt that is over holds nothing of libssh: each error path of       *)
(* open_term frees exactly what the calls before it made.                    *)
FailureReleases == \A a \in DOMAIN attempts : attempts[a].step = Over => attempts[a].held = {}

(* While the page exists, no connection is orphaned: one that still sits in  *)
(* its Pty has a call of open_term on its way.                               *)
ConnectionClaimed ==
    page => \A a \in Attempt : holder[a] = "pty" =>
                \E i \in DOMAIN events : events[i].slot = "open_term" /\ events[i].pty = a

(* A connection is in a Screen exactly while that Screen is the terminal on  *)
(* display: signals that arrive twice or late never leave two of them.       *)
OneTerminal ==
    \A a \in Attempt : holder[a] = "screen" <=> (term.pty = a /\ term.live)

Busy(d) ==
    /\ d \in DOMAIN dialogs
    /\ dialogs[d].purpose = "terminal"
    /\ dialogs[d].state = "busy"

(* A terminal login that shows its busy indicator is eventually closed or    *)
(* usable again: every way through open_term reports to its dialog.  (Of a   *)
(* service login this is false: network_post swallows exceptions.)           *)
DialogAnswered == \A d \in Dialog : Busy(d) ~> ~Busy(d)

(* A terminal page on display has a connection (tooltip of the action:       *)
(* "Opens a terminal").                                                      *)
TerminalConnected == term # NoTerm => term.live
===============================================================================
