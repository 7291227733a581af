------------------------------ MODULE ServerPoll ------------------------------
(***************************************************************************)
(* The poll cycle of one monitored machine (client/objects/server.cpp).    *)
(*                                                                         *)
(* A timer makes the client run Server::update_info on threads of the      *)
(* global Qt pool.  One call is one cycle: it arms the latch steps_done    *)
(* with max_steps, pings the machine, and issues HTTP requests that run    *)
(* as further pool tasks.  An answer is posted as a got_* signal to the    *)
(* GUI thread, whose handler counts the latch down; a request that fails   *)
(* counts it down itself.  The next cycle starts only when the latch is    *)
(* at zero, so the latch is both what separates the cycles and what can    *)
(* stop them for ever.                                                     *)
(*                                                                         *)
(* Data is abstracted to what the cycle decides on: the contents of        *)
(* answers are left out, a host name is "default" or "reported".           *)
(***************************************************************************)
EXTENDS Integers

CONSTANTS
    Pollers,       \* pool threads that may run update_info for this server
    Answers,       \* path -> the outcomes a request may have while the host is up
    GracefulDown,  \* the host never vanishes between a ping and the /service answer
    LatchModulus,  \* the latch counter is a size_t: it wraps at this value
    MaxInFlight    \* bound: no cycle starts with more work than this outstanding

(* Mutant of max_steps.                                                     *)
max_steps_seven == 7

max_steps == 6

(* Requests issued with a reference to an avaliable_* flag, and the flag.   *)
ControlledPath == {"/service", "/drives", "/updates", "/network/adapters"}

Page == {"services", "drives", "updates", "adapters"}

control == [path \in ControlledPath |->
              CASE path = "/service"          -> "services"
                [] path = "/drives"           -> "drives"
                [] path = "/updates"          -> "updates"
                [] path = "/network/adapters" -> "adapters"]

(* Requests issued with the dummy flag dont_care.                           *)
PlainPath == {"/system", "/drives", "/updates", "/network/adapters", "/services"}

Path == ControlledPath \cup PlainPath

(* "lost": the connection failed; "garbled": a 200 whose body is not the    *)
(* expected JSON; "unimplemented": a 501; "refused": any other status.      *)
Outcome == {"ok", "garbled", "lost", "unimplemented", "refused"}

ASSUME ConstantsAssumption ==
    /\ Answers \in [Path -> (SUBSET Outcome) \ {{}}]
    /\ GracefulDown \in BOOLEAN
    /\ LatchModulus \in Nat
    /\ LatchModulus > max_steps
    /\ MaxInFlight \in Nat

VARIABLES
    steps_done,  \* counter of the latch
    state,       \* Server::state
    hostname,    \* Server::hostname
    avaliable,   \* the four avaliable_* flags
    pc,          \* where each poller is in update_info
    new_state,   \* each poller's local variable new_state
    probes,      \* controlled requests running on the pool, per path
    gets,        \* dont_care requests running on the pool, per path
    events,      \* got_* signals queued for the GUI thread, per path
    announced,   \* the last notification: this_online, this_offline or none yet
    alive        \* environment: the machine is up

vars == <<steps_done, state, hostname, avaliable, pc, new_state, probes, gets,
          events, announced, alive>>

TypeOK ==
    /\ steps_done \in 0 .. LatchModulus - 1
    /\ state \in {"Unknown", "Online", "Offline"}
    /\ hostname \in {"default", "reported"}
    /\ avaliable \in [Page -> BOOLEAN]
    /\ pc \in [Pollers -> {"idle", "checked", "armed", "pinged", "changed"}]
    /\ new_state \in [Pollers -> {"Online", "Offline"}]
    /\ probes \in [ControlledPath -> Nat]
    /\ gets \in [PlainPath -> Nat]
    /\ events \in [Path -> Nat]
    /\ announced \in {"none", "online", "offline"}
    /\ alive \in BOOLEAN

Init ==
    /\ steps_done = 0
    /\ state = "Unknown"
    /\ hostname = "default"
    /\ avaliable = [page \in Page |-> FALSE]
    /\ pc = [p \in Pollers |-> "idle"]
    /\ new_state = [p \in Pollers |-> "Offline"]
    /\ probes = [path \in ControlledPath |-> 0]
    /\ gets = [path \in PlainPath |-> 0]
    /\ events = [path \in Path |-> 0]
    /\ announced = "none"
    /\ alive \in BOOLEAN

-------------------------------------------------------------------------------
(* boost::latch::count_down, n times.  A release build decrements the        *)
(* size_t below zero; a debug build stops at BOOST_ASSERT in the same place. *)
CountDown(n) ==
    steps_done' = IF n <= steps_done THEN steps_done - n
                                     ELSE steps_done - n + LatchModulus

Goto(p, label) == pc' = [pc EXCEPT ![p] = label]

ProbesRunning ==
    probes["/service"] + probes["/drives"] + probes["/updates"] +
    probes["/network/adapters"]

GetsRunning ==
    gets["/system"] + gets["/drives"] + gets["/updates"] +
    gets["/network/adapters"] + gets["/services"]

EventsQueued ==
    events["/system"] + events["/service"] + events["/services"] +
    events["/drives"] + events["/updates"] + events["/network/adapters"]

InFlight == ProbesRunning + GetsRunning + EventsQueued

(* update_info returns at once unless the latch is at zero.                  *)
TryWait(p) ==
    /\ pc[p] = "idle"
    /\ steps_done = 0
    /\ InFlight <= MaxInFlight
    /\ Goto(p, "checked")
    /\ UNCHANGED <<steps_done, state, hostname, avaliable, new_state, probes,
                   gets, events, announced, alive>>

Reset(p) ==
    /\ pc[p] = "checked"
    /\ steps_done' = max_steps
    /\ Goto(p, "armed")
    /\ UNCHANGED <<state, hostname, avaliable, new_state, probes, gets, events,
                   announced, alive>>

(* Mutant of PingResult: no answer is no result.                             *)
PingResultUnknown == IF alive THEN "Online" ELSE "Unknown"

PingResult == IF alive THEN "Online" ELSE "Offline"

ping_computer(p) ==
    /\ pc[p] = "armed"
    /\ new_state' = [new_state EXCEPT ![p] = PingResult]
    /\ Goto(p, "pinged")
    /\ UNCHANGED <<steps_done, state, hostname, avaliable, probes, gets, events,
                   announced, alive>>

(* The flag that decides whether a repeated cycle asks for a path: the       *)
(* flags of the drives, updates and adapters are permuted in the code.       *)
RefreshFlag == [path \in {"/drives", "/updates", "/network/adapters", "/services"} |->
                  CASE path = "/drives"           -> "adapters"
                    [] path = "/updates"          -> "drives"
                    [] path = "/network/adapters" -> "updates"
                    [] path = "/services"         -> "services"]

RefreshWanted(path) == path \in DOMAIN RefreshFlag /\ avaliable[RefreshFlag[path]]

One(b) == IF b THEN 1 ELSE 0

(* The machine is still online: two steps have no request, and every page    *)
(* that is not asked for counts as done.                                     *)
Refresh(p) ==
    /\ pc[p] = "pinged"
    /\ new_state[p] = state
    /\ state = "Online"
    /\ gets' = [path \in PlainPath |-> gets[path] + One(RefreshWanted(path))]
    /\ CountDown(max_steps - (One(RefreshWanted("/drives")) + One(RefreshWanted("/updates"))
                    + One(RefreshWanted("/network/adapters")) + One(RefreshWanted("/services"))))
    /\ Goto(p, "idle")
    /\ UNCHANGED <<state, hostname, avaliable, new_state, probes, events,
                   announced, alive>>

(* Mutant of OfflineSteps: the loop stops one step short.                    *)
OfflineStepsShort == max_steps - 1

(* An offline machine has nothing to ask for: a loop counts every step.      *)
OfflineSteps == max_steps

StillOffline(p) ==
    /\ pc[p] = "pinged"
    /\ new_state[p] = state
    /\ state # "Online"
    /\ CountDown(OfflineSteps)
    /\ Goto(p, "idle")
    /\ UNCHANGED <<state, hostname, avaliable, new_state, probes, gets, events,
                   announced, alive>>

(* The state differs: notify, unless this is the first ping, and store it.   *)
ChangeState(p) ==
    /\ pc[p] = "pinged"
    /\ new_state[p] # state
    /\ announced' = IF state = "Unknown" THEN announced
                    ELSE IF new_state[p] = "Offline" THEN "offline" ELSE "online"
    /\ state' = new_state[p]
    /\ Goto(p, "changed")
    /\ UNCHANGED <<steps_done, hostname, avaliable, new_state, probes, gets,
                   events, alive>>

GoOffline(p) ==
    /\ pc[p] = "changed"
    /\ new_state[p] = "Offline"
    /\ hostname' = "default"
    /\ avaliable' = [page \in Page |-> FALSE]
    /\ CountDown(OfflineSteps)
    /\ Goto(p, "idle")
    /\ UNCHANGED <<state, new_state, probes, gets, events, announced, alive>>

ComeOnline(p) ==
    /\ pc[p] = "changed"
    /\ new_state[p] = "Online"
    /\ gets' = [gets EXCEPT !["/system"] = @ + 1]
    /\ probes' = [path \in ControlledPath |-> probes[path] + 1]
    /\ Goto(p, "idle")
    /\ UNCHANGED <<steps_done, state, hostname, avaliable, new_state, events,
                   announced, alive>>

-------------------------------------------------------------------------------
(* network_get: one pool task.                                               *)

MayHappen(path, outcome) ==
    outcome \in (IF alive THEN Answers[path] ELSE {"lost"})

(* A request with the dummy flag: an answer is posted to the GUI thread, any *)
(* failure counts one step.                                                  *)
GetDone(path, outcome) ==
    /\ gets[path] > 0
    /\ MayHappen(path, outcome)
    /\ gets' = [gets EXCEPT ![path] = @ - 1]
    /\ \/ /\ outcome = "ok"
          /\ events' = [events EXCEPT ![path] = @ + 1]
          /\ UNCHANGED steps_done
       \/ /\ outcome # "ok"
          /\ CountDown(1)
          /\ UNCHANGED events
    /\ UNCHANGED <<state, hostname, avaliable, pc, new_state, probes, announced,
                   alive>>

(* Mutant of FailureSteps: the second step is counted for the drives too.    *)
FailureStepsDrives(path, outcome) ==
    IF outcome \in {"unimplemented", "refused"} /\ control[path] \in {"adapters", "drives"}
    THEN 2 ELSE 1

(* Steps a failed controlled request counts: a status error of the adapters  *)
(* request counts two.                                                       *)
FailureSteps(path, outcome) ==
    IF outcome \in {"unimplemented", "refused"} /\ control[path] = "adapters"
    THEN 2 ELSE 1

(* A controlled request also keeps the flag: a 200 sets it, before the body  *)
(* is parsed, and a 501 clears it.                                           *)
ProbeDone(path, outcome) ==
    /\ probes[path] > 0
    /\ MayHappen(path, outcome)
    /\ probes' = [probes EXCEPT ![path] = @ - 1]
    /\ avaliable' = CASE outcome \in {"ok", "garbled"} ->
                              [avaliable EXCEPT ![control[path]] = TRUE]
                      [] outcome = "unimplemented" ->
                              [avaliable EXCEPT ![control[path]] = FALSE]
                      [] OTHER -> avaliable
    /\ \/ /\ outcome = "ok"
          /\ events' = [events EXCEPT ![path] = @ + 1]
          /\ UNCHANGED steps_done
       \/ /\ outcome # "ok"
          /\ CountDown(FailureSteps(path, outcome))
          /\ UNCHANGED events
    /\ UNCHANGED <<state, hostname, pc, new_state, gets, announced, alive>>

-------------------------------------------------------------------------------
(* Handlers of the GUI thread.                                               *)

(* handle_drives, handle_updates, handle_adapters and handle_services as far *)
(* as the cycle is concerned; what they do to the lists is left out.         *)
handle_list(path) ==
    /\ path \in {"/drives", "/updates", "/network/adapters", "/services"}
    /\ events[path] > 0
    /\ events' = [events EXCEPT ![path] = @ - 1]
    /\ CountDown(1)
    /\ UNCHANGED <<state, hostname, avaliable, pc, new_state, probes, gets,
                   announced, alive>>

handle_info ==
    /\ events["/system"] > 0
    /\ events' = [events EXCEPT !["/system"] = @ - 1]
    /\ hostname' = "reported"
    /\ CountDown(1)
    /\ UNCHANGED <<state, avaliable, pc, new_state, probes, gets, announced, alive>>

(* handle_service issues the sixth request of a first cycle.                 *)
handle_service ==
    /\ events["/service"] > 0
    /\ events' = [events EXCEPT !["/service"] = @ - 1]
    /\ CountDown(1)
    /\ gets' = [gets EXCEPT !["/services"] = @ + 1]
    /\ UNCHANGED <<state, hostname, avaliable, pc, new_state, probes, announced, alive>>

-------------------------------------------------------------------------------
(* Environment: the machine goes down and comes back.                        *)

ServiceOutstanding ==
    \/ probes["/service"] > 0
    \/ \E p \in Pollers : pc[p] \in {"pinged", "changed"} /\ new_state[p] = "Online"

HostDown ==
    /\ alive
    /\ GracefulDown => ~ServiceOutstanding
    /\ alive' = FALSE
    /\ UNCHANGED <<steps_done, state, hostname, avaliable, pc, new_state, probes,
                   gets, events, announced>>

HostUp ==
    /\ ~alive
    /\ alive' = TRUE
    /\ UNCHANGED <<steps_done, state, hostname, avaliable, pc, new_state, probes,
                   gets, events, announced>>

update_info(p) ==
    \/ TryWait(p) \/ Reset(p) \/ ping_computer(p) \/ Refresh(p) \/ StillOffline(p)
    \/ ChangeState(p) \/ GoOffline(p) \/ ComeOnline(p)

network_get ==
    \E outcome \in Outcome :
        \/ \E path \in PlainPath : GetDone(path, outcome)
        \/ \E path \in ControlledPath : ProbeDone(path, outcome)

GuiThread ==
    \/ handle_info
    \/ handle_service
    \/ \E path \in Path : handle_list(path)

Next ==
    \/ \E p \in Pollers : update_info(p)
    \/ network_get
    \/ GuiThread
    \/ HostDown
    \/ HostUp

Spec == Init /\ [][Next]_vars

(* The timer fires for ever, a pool task that started keeps running, every   *)
(* request is answered or fails, and the GUI thread empties its event queue. *)
Fairness ==
    /\ \A p \in Pollers : WF_vars(update_info(p))
    /\ \A path \in PlainPath : WF_vars(\E outcome \in Outcome : GetDone(path, outcome))
    /\ \A path \in ControlledPath : WF_vars(\E outcome \in Outcome : ProbeDone(path, outcome))
    /\ WF_vars(handle_info)
    /\ WF_vars(handle_service)
    /\ \A path \in Path : WF_vars(handle_list(path))

FairSpec == Spec /\ Fairness

-------------------------------------------------------------------------------
(* Work that will still count the latch down.  A /service request or answer  *)
(* stands for two steps: its own and the /services request it leads to.      *)
Owed == InFlight + probes["/service"] + events["/service"]

Busy(p) == pc[p] \in {"armed", "pinged", "changed"}

(* The steps still to come: those of the work outstanding, and all of them   *)
(* while a poller is between its reset and what it issues or counts.         *)
StepsToCome == Owed + (IF \E p \in Pollers : Busy(p) THEN max_steps ELSE 0)

Settled == \A p \in Pollers : pc[p] # "changed"

(* The latch never reads zero while a request of the cycle is still running  *)
(* or its answer is still queued: try_wait in update_info really separates   *)
(* one cycle from the next.                                                  *)
CycleComplete == steps_done = 0 => InFlight = 0

(* The latch holds exactly the steps still to come: no step is forgotten     *)
(* (the next cycle would never start) and none is counted twice.             *)
LatchExact == steps_done = StepsToCome

(* A forgotten step is never made up for.  Once the latch is above what is   *)
(* still to come, no later failure, answer or handler counts the missing     *)
(* step, and no new cycle arms the latch again: the machine is not polled    *)
(* any more, although the timer goes on.                                     *)
LostForGood ==
    [][steps_done > StepsToCome => steps_done' > StepsToCome' /\ steps_done' # 0]_vars

(* A machine shown as offline has its configured host name and none of its   *)
(* pages enabled: no late answer of an earlier cycle brings one back after   *)
(* update_info cleared them.                                                 *)
OfflineQuiet ==
    (state = "Offline" /\ Settled) =>
        /\ hostname = "default"
        /\ \A page \in Page : ~avaliable[page]

(* The last notification agrees with the state on display: this_online and   *)
(* this_offline are emitted for the change that is stored.                   *)
AnnouncedAgrees ==
    /\ announced = "online" => state = "Online"
    /\ announced = "offline" => state = "Offline"

(* A latch at zero moves only by being armed again: count_down is never      *)
(* called on an expired latch (BOOST_ASSERT in a debug build, a wrap to      *)
(* 2^64 - 1 in a release build).                                             *)
NoUnderflow == [][steps_done = 0 => steps_done' \in {0, max_steps}]_vars

(* Every cycle that was started completes, so polling goes on for ever.      *)
CycleFinishes == (steps_done # 0) ~> (steps_done = 0)

(* A machine that goes down for good is eventually shown as offline, and     *)
(* stays so.                                                                 *)
GoneOfflineNoticed == <>[]~alive => <>[](state = "Offline")

(* A machine that comes up for good is eventually shown as online.           *)
CameOnlineNoticed == <>[]alive => <>[](state = "Online")
===============================================================================
