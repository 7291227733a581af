--------------------------- MODULE ServerPollProofs ---------------------------
(***************************************************************************)
(* Theorems about the poll cycle (ServerPoll), for every set of answers,   *)
(* every latch width and every bound.                                      *)
(***************************************************************************)
EXTENDS ServerPoll, TLAPS

(* At most one thread runs update_info of a server at a time.               *)
OnePoller == \A p, q \in Pollers : p = q

(* The adapters request may be lost or garbled, but is not answered with an *)
(* HTTP error status.                                                       *)
AdaptersNeverRefused ==
    Answers["/network/adapters"] \cap {"unimplemented", "refused"} = {}

(* Every count-down, of at most max_steps, leaves the counter in range.     *)
LEMMA CountDownType ==
    ASSUME steps_done \in 0 .. LatchModulus - 1,
           NEW n \in 0 .. max_steps,
           CountDown(n)
    PROVE  steps_done' \in 0 .. LatchModulus - 1
  BY ConstantsAssumption DEF CountDown, max_steps

(* No step takes a request or an event that is not there, and the counter   *)
(* stays a machine word.                                                    *)
LEMMA TypeStep == TypeOK /\ [Next]_vars => TypeOK'
<1> SUFFICES ASSUME TypeOK, [Next]_vars
             PROVE  TypeOK'
  OBVIOUS
<1> USE DEF TypeOK
<1>1. ASSUME NEW p \in Pollers, TryWait(p)
      PROVE  TypeOK'
  BY <1>1 DEF TryWait, Goto
<1>2. ASSUME NEW p \in Pollers, Reset(p)
      PROVE  TypeOK'
  BY <1>2, ConstantsAssumption DEF Reset, Goto, max_steps
<1>3. ASSUME NEW p \in Pollers, ping_computer(p)
      PROVE  TypeOK'
  BY <1>3 DEF ping_computer, PingResult, Goto
<1>4. ASSUME NEW p \in Pollers, Refresh(p)
      PROVE  TypeOK'
  <2> DEFINE n == max_steps - (One(RefreshWanted("/drives")) + One(RefreshWanted("/updates"))
                  + One(RefreshWanted("/network/adapters")) + One(RefreshWanted("/services")))
  <2>1. n \in 0 .. max_steps
    BY DEF One, max_steps
  <2>2. steps_done' \in 0 .. LatchModulus - 1
    BY <1>4, <2>1, CountDownType DEF Refresh
  <2>3. gets' \in [PlainPath -> Nat]
    BY <1>4 DEF Refresh, One
  <2> QED
    BY <1>4, <2>2, <2>3 DEF Refresh, Goto
<1>5. ASSUME NEW p \in Pollers, StillOffline(p)
      PROVE  TypeOK'
  BY <1>5, CountDownType DEF StillOffline, OfflineSteps, Goto, max_steps
<1>6. ASSUME NEW p \in Pollers, ChangeState(p)
      PROVE  TypeOK'
  BY <1>6 DEF ChangeState, Goto
<1>7. ASSUME NEW p \in Pollers, GoOffline(p)
      PROVE  TypeOK'
  BY <1>7, CountDownType DEF GoOffline, OfflineSteps, Goto, max_steps
<1>8. ASSUME NEW p \in Pollers, ComeOnline(p)
      PROVE  TypeOK'
  BY <1>8 DEF ComeOnline, Goto, PlainPath
<1>9. ASSUME NEW path \in PlainPath, NEW outcome \in Outcome, GetDone(path, outcome)
      PROVE  TypeOK'
  <2>1. steps_done' \in 0 .. LatchModulus - 1
    BY <1>9, CountDownType DEF GetDone, max_steps
  <2>2. gets' \in [PlainPath -> Nat] /\ events' \in [Path -> Nat]
    BY <1>9 DEF GetDone, Path
  <2> QED
    BY <1>9, <2>1, <2>2 DEF GetDone
<1>10. ASSUME NEW path \in ControlledPath, NEW outcome \in Outcome, ProbeDone(path, outcome)
       PROVE  TypeOK'
  <2>1. steps_done' \in 0 .. LatchModulus - 1
    BY <1>10, CountDownType DEF ProbeDone, FailureSteps, max_steps
  <2>2. probes' \in [ControlledPath -> Nat] /\ events' \in [Path -> Nat]
    BY <1>10 DEF ProbeDone, Path
  <2>3. avaliable' \in [Page -> BOOLEAN]
    BY <1>10 DEF ProbeDone
  <2> QED
    BY <1>10, <2>1, <2>2, <2>3 DEF ProbeDone
<1>11. ASSUME NEW path \in Path, handle_list(path)
       PROVE  TypeOK'
  BY <1>11, CountDownType DEF handle_list, max_steps
<1>12. CASE handle_info
  BY <1>12, CountDownType DEF handle_info, max_steps, Path, PlainPath
<1>13. CASE handle_service
  BY <1>13, CountDownType DEF handle_service, max_steps, Path, PlainPath, ControlledPath
<1>14. CASE HostDown \/ HostUp
  BY <1>14 DEF HostDown, HostUp
<1>15. CASE UNCHANGED vars
  BY <1>15 DEF vars
<1> QED
  BY <1>1, <1>2, <1>3, <1>4, <1>5, <1>6, <1>7, <1>8, <1>9, <1>10, <1>11, <1>12,
     <1>13, <1>14, <1>15 DEF Next, update_info, network_get, GuiThread

(* The variables keep their types, whatever the answers and however many    *)
(* pollers overlap.                                                         *)
THEOREM TypeCorrect == Spec => []TypeOK
<1>1. Init => TypeOK
  BY ConstantsAssumption DEF Init, TypeOK, max_steps
<1> QED
  BY <1>1, TypeStep, PTL DEF Spec

-------------------------------------------------------------------------------
(* The inductive invariant.  CycleComplete and OfflineQuiet speak of single *)
(* moments of a cycle; what carries them from step to step is the ledger    *)
(* between the latch and the work still to come.                            *)

(* The latch is never below what is owed; an armed poller finds nothing     *)
(* left of the cycle before.                                                *)
Ledger ==
    /\ Owed <= steps_done
    /\ steps_done <= max_steps
    /\ \A p \in Pollers : pc[p] = "checked" => steps_done = 0
    /\ \A p \in Pollers : Busy(p) => steps_done = max_steps /\ Owed = 0

(* Requests and answers exist only while the machine is shown as online, so *)
(* nothing can enable a page of an offline machine.                         *)
Quiet ==
    /\ \A p \in Pollers : pc[p] = "changed" => state = new_state[p]
    /\ state # "Online" => Owed = 0
    /\ (state # "Online" /\ Settled) =>
           hostname = "default" /\ \A page \in Page : ~avaliable[page]

IInv == TypeOK /\ Ledger /\ Quiet

(* The counters that make up the sum.                                       *)
LEMMA Counters ==
    ASSUME TypeOK
    PROVE  /\ probes["/service"] \in Nat
           /\ probes["/drives"] \in Nat
           /\ probes["/updates"] \in Nat
           /\ probes["/network/adapters"] \in Nat
           /\ gets["/system"] \in Nat
           /\ gets["/drives"] \in Nat
           /\ gets["/updates"] \in Nat
           /\ gets["/network/adapters"] \in Nat
           /\ gets["/services"] \in Nat
           /\ events["/system"] \in Nat
           /\ events["/service"] \in Nat
           /\ events["/services"] \in Nat
           /\ events["/drives"] \in Nat
           /\ events["/updates"] \in Nat
           /\ events["/network/adapters"] \in Nat
  BY DEF TypeOK, ControlledPath, PlainPath, Path

(* The sums are natural numbers.                                            *)
LEMMA SumTypes ==
    ASSUME TypeOK
    PROVE  /\ ProbesRunning \in Nat
           /\ GetsRunning \in Nat
           /\ EventsQueued \in Nat
           /\ InFlight \in Nat
           /\ Owed \in Nat
           /\ InFlight <= Owed
<1>1. ProbesRunning \in Nat /\ probes["/service"] \in Nat
  BY Counters DEF ProbesRunning
<1>2. GetsRunning \in Nat
  BY Counters DEF GetsRunning
<1>3. EventsQueued \in Nat /\ events["/service"] \in Nat
  BY Counters DEF EventsQueued
<1> QED
  BY <1>1, <1>2, <1>3 DEF InFlight, Owed

(* The sums are numbers after a step as before it.                           *)
LEMMA SumTypesNext ==
    ASSUME TypeOK'
    PROVE  /\ ProbesRunning' \in Nat
           /\ GetsRunning' \in Nat
           /\ EventsQueued' \in Nat
<1>1. \A path \in ControlledPath : probes'[path] \in Nat
  BY DEF TypeOK
<1>2. \A path \in PlainPath : gets'[path] \in Nat
  BY DEF TypeOK
<1>3. \A path \in Path : events'[path] \in Nat
  BY DEF TypeOK
<1>4. ProbesRunning' \in Nat
  BY <1>1 DEF ProbesRunning, ControlledPath
<1>5. GetsRunning' \in Nat
  BY <1>2 DEF GetsRunning, PlainPath
<1>6. EventsQueued' \in Nat
  BY <1>3 DEF EventsQueued, Path, PlainPath, ControlledPath
<1> QED
  BY <1>4, <1>5, <1>6

(* What one more, or one less, of a counter does to its sum.                *)
LEMMA EventsStep ==
    ASSUME TypeOK, NEW path \in Path, NEW d \in {-1, 0, 1},
           events' = [events EXCEPT ![path] = @ + d]
    PROVE  /\ EventsQueued' = EventsQueued + d
           /\ events'["/service"] = IF path = "/service" THEN events["/service"] + d
                                                     ELSE events["/service"]
<1>1. /\ events'["/system"] = events["/system"] + (IF path = "/system" THEN d ELSE 0)
      /\ events'["/service"] = events["/service"] + (IF path = "/service" THEN d ELSE 0)
      /\ events'["/services"] = events["/services"] + (IF path = "/services" THEN d ELSE 0)
      /\ events'["/drives"] = events["/drives"] + (IF path = "/drives" THEN d ELSE 0)
      /\ events'["/updates"] = events["/updates"] + (IF path = "/updates" THEN d ELSE 0)
      /\ events'["/network/adapters"] = events["/network/adapters"] + (IF path = "/network/adapters" THEN d ELSE 0)
  BY DEF TypeOK, Path, PlainPath, ControlledPath
<1> QED
  BY <1>1, Counters DEF EventsQueued, Path, PlainPath, ControlledPath

(* A request issued or answered moves the sum by one.                        *)
LEMMA GetsStep ==
    ASSUME TypeOK, NEW path \in PlainPath, NEW d \in {-1, 1},
           gets' = [gets EXCEPT ![path] = @ + d]
    PROVE  GetsRunning' = GetsRunning + d
<1>1. /\ gets'["/system"] = gets["/system"] + (IF path = "/system" THEN d ELSE 0)
      /\ gets'["/drives"] = gets["/drives"] + (IF path = "/drives" THEN d ELSE 0)
      /\ gets'["/updates"] = gets["/updates"] + (IF path = "/updates" THEN d ELSE 0)
      /\ gets'["/network/adapters"] = gets["/network/adapters"] + (IF path = "/network/adapters" THEN d ELSE 0)
      /\ gets'["/services"] = gets["/services"] + (IF path = "/services" THEN d ELSE 0)
  BY DEF TypeOK, PlainPath
<1> QED
  BY <1>1, Counters DEF GetsRunning, PlainPath

(* A probe that ends lowers the sum, and its own count, by one.              *)
LEMMA ProbesStep ==
    ASSUME TypeOK, NEW path \in ControlledPath,
           probes' = [probes EXCEPT ![path] = @ - 1]
    PROVE  /\ ProbesRunning' = ProbesRunning - 1
           /\ probes'["/service"] = probes["/service"] - (IF path = "/service" THEN 1 ELSE 0)
<1>1. /\ probes'["/service"] = probes["/service"] + (IF path = "/service" THEN -1 ELSE 0)
      /\ probes'["/drives"] = probes["/drives"] + (IF path = "/drives" THEN -1 ELSE 0)
      /\ probes'["/updates"] = probes["/updates"] + (IF path = "/updates" THEN -1 ELSE 0)
      /\ probes'["/network/adapters"] = probes["/network/adapters"] + (IF path = "/network/adapters" THEN -1 ELSE 0)
  BY DEF TypeOK, ControlledPath
<1> QED
  BY <1>1, Counters DEF ProbesRunning, ControlledPath

(* What each kind of step does to the work owed.                            *)
LEMMA OwedGetDone ==
    ASSUME TypeOK, TypeOK', NEW path \in PlainPath, NEW outcome \in Outcome,
           GetDone(path, outcome)
    PROVE  /\ InFlight >= 1
           /\ Owed' = IF outcome = "ok" THEN Owed ELSE Owed - 1
<1> DEFINE d == IF outcome = "ok" THEN 1 ELSE 0
<1>1. GetsRunning' = GetsRunning - 1
  <2>1. gets' = [gets EXCEPT ![path] = @ + (-1)]
    BY DEF GetDone, TypeOK
  <2>2. GetsRunning' = GetsRunning + (-1)
    BY <2>1, GetsStep
  <2> QED
    BY <2>2, SumTypes
<1>2. /\ EventsQueued' = EventsQueued + d
      /\ events'["/service"] = events["/service"]
  <2>1. CASE outcome = "ok"
    <3>1. events' = [events EXCEPT ![path] = @ + 1] /\ path \in Path /\ path # "/service"
      BY <2>1 DEF GetDone, Path, PlainPath
    <3> QED
      BY <2>1, <3>1, EventsStep, Counters
  <2>2. CASE outcome # "ok"
    BY <2>2, SumTypes DEF GetDone, EventsQueued
  <2> QED
    BY <2>1, <2>2
<1>3. ProbesRunning' = ProbesRunning /\ UNCHANGED probes
  BY DEF GetDone, ProbesRunning
<1>4. GetsRunning' \in Nat
  BY SumTypesNext
<1> QED
  BY <1>1, <1>2, <1>3, <1>4, SumTypes, Counters DEF Owed, InFlight

(* A probe that fails no longer owes its handler, and one of /service owes   *)
(* the list behind it no longer either.                                      *)
LEMMA OwedProbeDone ==
    ASSUME TypeOK, TypeOK', NEW path \in ControlledPath, NEW outcome \in Outcome,
           ProbeDone(path, outcome)
    PROVE  /\ InFlight >= 1
           /\ Owed' = IF outcome = "ok" THEN Owed
                      ELSE IF path = "/service" THEN Owed - 2 ELSE Owed - 1
<1> DEFINE d == IF outcome = "ok" THEN 1 ELSE 0
           s == IF path = "/service" THEN 1 ELSE 0
<1>1. ProbesRunning' = ProbesRunning - 1 /\ probes'["/service"] = probes["/service"] - s
  BY ProbesStep DEF ProbeDone
<1>2. /\ EventsQueued' = EventsQueued + d
      /\ events'["/service"] = IF outcome = "ok" /\ path = "/service"
                               THEN events["/service"] + 1 ELSE events["/service"]
  <2>1. CASE outcome = "ok"
    <3>1. events' = [events EXCEPT ![path] = @ + 1] /\ path \in Path
      BY <2>1 DEF ProbeDone, Path
    <3> QED
      BY <2>1, <3>1, EventsStep, Counters
  <2>2. CASE outcome # "ok"
    BY <2>2, SumTypes, Counters DEF ProbeDone, EventsQueued
  <2> QED
    BY <2>1, <2>2
<1>3. GetsRunning' = GetsRunning
  BY DEF ProbeDone, GetsRunning
<1>4. ProbesRunning' \in Nat
  BY SumTypesNext
<1>5. probes["/service"] \in Nat /\ events["/service"] \in Nat
  BY Counters
<1>6. CASE outcome = "ok"
  BY <1>1, <1>2, <1>3, <1>4, <1>5, <1>6, SumTypes DEF Owed, InFlight
<1>7. CASE outcome # "ok"
  BY <1>1, <1>2, <1>3, <1>4, <1>5, <1>7, SumTypes DEF Owed, InFlight
<1> QED
  BY <1>6, <1>7

(* A handler counts one step.                                                *)
LEMMA OwedHandled ==
    ASSUME TypeOK, TypeOK',
           handle_info \/ handle_service \/ \E path \in Path : handle_list(path)
    PROVE  /\ InFlight >= 1
           /\ Owed' = Owed - 1
<1>1. CASE handle_info \/ \E path \in Path : handle_list(path)
  <2>1. PICK path \in Path :
           /\ path # "/service"
           /\ events' = [events EXCEPT ![path] = @ - 1]
           /\ UNCHANGED <<probes, gets>>
    BY <1>1 DEF handle_info, handle_list, Path, PlainPath
  <2>2. events' = [events EXCEPT ![path] = @ + (-1)]
    BY <2>1 DEF TypeOK
  <2>3. EventsQueued' = EventsQueued + (-1) /\ events'["/service"] = events["/service"]
    BY <2>1, <2>2, EventsStep, Counters
  <2>4. ProbesRunning' = ProbesRunning /\ GetsRunning' = GetsRunning
    BY <2>1 DEF ProbesRunning, GetsRunning
  <2>5. EventsQueued' \in Nat
    BY SumTypesNext
  <2> QED
    BY <2>1, <2>3, <2>4, <2>5, SumTypes, Counters DEF Owed, InFlight
<1>2. CASE handle_service
  <2>1. events' = [events EXCEPT !["/service"] = @ + (-1)]
    BY <1>2 DEF handle_service, TypeOK, Path, ControlledPath
  <2>2. EventsQueued' = EventsQueued + (-1) /\ events'["/service"] = events["/service"] + (-1)
    BY <2>1, EventsStep DEF Path, ControlledPath
  <2>3. GetsRunning' = GetsRunning + 1
    BY <1>2, GetsStep DEF handle_service, PlainPath
  <2>4. ProbesRunning' = ProbesRunning /\ UNCHANGED probes
    BY <1>2 DEF handle_service, ProbesRunning
  <2>5. EventsQueued' \in Nat
    BY SumTypesNext
  <2> QED
    BY <2>2, <2>3, <2>4, <2>5, SumTypes, Counters DEF Owed, InFlight
<1> QED
  BY <1>1, <1>2

(* Coming online owes a step for each of max_steps; a refresh for each page  *)
(* that wants one.                                                           *)
LEMMA OwedIssued ==
    ASSUME TypeOK, NEW p \in Pollers
    PROVE  /\ ComeOnline(p) => Owed' = Owed + max_steps
           /\ Refresh(p) =>
                 Owed' = Owed + (One(RefreshWanted("/drives")) + One(RefreshWanted("/updates"))
                    + One(RefreshWanted("/network/adapters")) + One(RefreshWanted("/services")))
<1>1. ASSUME ComeOnline(p)
      PROVE  Owed' = Owed + max_steps
  <2>1. GetsRunning' = GetsRunning + 1
    BY <1>1, GetsStep DEF ComeOnline, PlainPath
  <2>2. \A path \in ControlledPath : probes'[path] = probes[path] + 1
    BY <1>1 DEF ComeOnline
  <2>3. /\ probes'["/service"] = probes["/service"] + 1
        /\ probes'["/drives"] = probes["/drives"] + 1
        /\ probes'["/updates"] = probes["/updates"] + 1
        /\ probes'["/network/adapters"] = probes["/network/adapters"] + 1
    BY <2>2 DEF ControlledPath
  <2>4. ProbesRunning' = ProbesRunning + 4
    <3>1. \A a, b, c, d \in Nat : (a + 1) + (b + 1) + (c + 1) + (d + 1) = (a + b + c + d) + 4
      OBVIOUS
    <3>2. /\ probes["/service"] \in Nat /\ probes["/drives"] \in Nat
          /\ probes["/updates"] \in Nat /\ probes["/network/adapters"] \in Nat
      BY Counters
    <3>3. ProbesRunning' = (probes["/service"] + 1) + (probes["/drives"] + 1)
                         + (probes["/updates"] + 1) + (probes["/network/adapters"] + 1)
      BY <2>3, Zenon DEF ProbesRunning
    <3> QED
      BY <3>1, <3>2, <3>3 DEF ProbesRunning
  <2>5. EventsQueued' = EventsQueued /\ UNCHANGED events
    BY <1>1 DEF ComeOnline, EventsQueued
  <2>6. probes["/service"] \in Nat /\ events["/service"] \in Nat
    BY Counters
  <2> QED
    BY <2>1, <2>3, <2>4, <2>5, <2>6, SumTypes DEF Owed, InFlight, max_steps
<1>2. ASSUME Refresh(p)
      PROVE  Owed' = Owed + (One(RefreshWanted("/drives")) + One(RefreshWanted("/updates"))
                    + One(RefreshWanted("/network/adapters")) + One(RefreshWanted("/services")))
  <2> DEFINE a == One(RefreshWanted("/drives"))
             b == One(RefreshWanted("/updates"))
             c == One(RefreshWanted("/network/adapters"))
             d == One(RefreshWanted("/services"))
  <2>1. One(RefreshWanted("/system")) = 0
    <3>1. ~RefreshWanted("/system")
      BY DEF RefreshWanted, RefreshFlag
    <3> QED
      BY <3>1 DEF One
  <2>2. a \in Nat /\ b \in Nat /\ c \in Nat /\ d \in Nat
    BY DEF One
  <2>3. \A path \in PlainPath : gets'[path] = gets[path] + One(RefreshWanted(path))
    BY <1>2 DEF Refresh
  <2>4. /\ gets'["/system"] = gets["/system"]
        /\ gets'["/drives"] = gets["/drives"] + a
        /\ gets'["/updates"] = gets["/updates"] + b
        /\ gets'["/network/adapters"] = gets["/network/adapters"] + c
        /\ gets'["/services"] = gets["/services"] + d
    BY <2>1, <2>3, Counters DEF PlainPath
  <2> HIDE DEF a, b, c, d
  <2>5. GetsRunning' = GetsRunning + (a + b + c + d)
    BY <2>2, <2>4, Counters DEF GetsRunning
  <2>6. ProbesRunning' = ProbesRunning /\ EventsQueued' = EventsQueued /\ UNCHANGED <<probes, events>>
    BY <1>2 DEF Refresh, ProbesRunning, EventsQueued
  <2>7. probes["/service"] \in Nat /\ events["/service"] \in Nat
    BY Counters
  <2>8. Owed' = Owed + (a + b + c + d)
    BY <2>2, <2>5, <2>6, <2>7, SumTypes DEF Owed, InFlight
  <2> QED
    BY <2>8 DEF a, b, c, d
<1> QED
  BY <1>1, <1>2

(* What leaves probes, requests and events alone owes the same.              *)
LEMMA OwedUnchanged ==
    ASSUME UNCHANGED <<probes, gets, events>>
    PROVE  Owed' = Owed
  BY DEF Owed, InFlight, ProbesRunning, GetsRunning, EventsQueued

-------------------------------------------------------------------------------
(* Nothing is owed or counted yet.                                           *)
LEMMA InvInit == Init => IInv
<1> SUFFICES ASSUME Init PROVE IInv
  OBVIOUS
<1>1. TypeOK
  BY ConstantsAssumption DEF Init, TypeOK, max_steps
<1>2. Owed = 0
  <2>1. ProbesRunning = 0
    BY DEF Init, ProbesRunning, ControlledPath
  <2>2. GetsRunning = 0
    BY DEF Init, GetsRunning, PlainPath
  <2>3. EventsQueued = 0 /\ probes["/service"] = 0 /\ events["/service"] = 0
    BY DEF Init, EventsQueued, ControlledPath, PlainPath, Path
  <2> QED
    BY <2>1, <2>2, <2>3 DEF Owed, InFlight
<1> QED
  BY <1>1, <1>2 DEF Init, IInv, Ledger, Quiet, Busy, max_steps

(* Every step preserves the invariant.                                       *)
LEMMA InvStep ==
    ASSUME OnePoller, AdaptersNeverRefused, IInv, [Next]_vars
    PROVE  IInv'
<1>1. TypeOK /\ TypeOK'
  BY TypeStep DEF IInv
<1>2. Owed \in Nat /\ InFlight \in Nat /\ InFlight <= Owed /\ steps_done \in Nat
  BY <1>1, SumTypes DEF TypeOK
<1> USE DEF IInv, Ledger, Quiet, Busy, Settled, max_steps
<1>3. ASSUME NEW p \in Pollers, TryWait(p)
      PROVE  IInv'
  <2>1. Owed' = Owed
    BY <1>3, OwedUnchanged DEF TryWait
  <2> QED
    BY <1>1, <1>2, <1>3, <2>1 DEF TryWait, Goto, TypeOK, OnePoller
<1>4. ASSUME NEW p \in Pollers, Reset(p)
      PROVE  IInv'
  <2>1. Owed' = Owed
    BY <1>4, OwedUnchanged DEF Reset
  <2> QED
    BY <1>1, <1>2, <1>4, <2>1 DEF Reset, Goto, TypeOK, OnePoller
<1>5. ASSUME NEW p \in Pollers, ping_computer(p)
      PROVE  IInv'
  <2>1. Owed' = Owed
    BY <1>5, OwedUnchanged DEF ping_computer, PingResult
  <2> QED
    BY <1>1, <1>2, <1>5, <2>1 DEF ping_computer, PingResult, Goto, TypeOK, OnePoller
<1>6. ASSUME NEW p \in Pollers, Refresh(p)
      PROVE  IInv'
  <2> DEFINE n == One(RefreshWanted("/drives")) + One(RefreshWanted("/updates"))
                    + One(RefreshWanted("/network/adapters")) + One(RefreshWanted("/services"))
  <2>1. n \in 0 .. 4
    BY DEF One
  <2>2. Owed' = Owed + n
    BY <1>1, <1>6, OwedIssued
  <2>3. CountDown(max_steps - n)
    BY <1>6 DEF Refresh
  <2> HIDE DEF n
  <2>4. steps_done = max_steps /\ Owed = 0
    BY <1>6 DEF Refresh
  <2>5. steps_done' = n
    BY <2>1, <2>3, <2>4 DEF CountDown
  <2> QED
    BY <1>1, <1>2, <1>6, <2>1, <2>2, <2>4, <2>5 DEF Refresh, Goto, TypeOK, OnePoller
<1>7. ASSUME NEW p \in Pollers, StillOffline(p)
      PROVE  IInv'
  <2>1. Owed' = Owed
    BY <1>7, OwedUnchanged DEF StillOffline, OfflineSteps
  <2>2. steps_done = max_steps /\ Owed = 0
    BY <1>7 DEF StillOffline, OfflineSteps
  <2>3. steps_done' = 0
    BY <1>7, <2>2 DEF StillOffline, OfflineSteps, CountDown
  <2> QED
    BY <1>1, <1>2, <1>7, <2>1, <2>2, <2>3 DEF StillOffline, OfflineSteps, Goto, TypeOK, OnePoller
<1>8. ASSUME NEW p \in Pollers, ChangeState(p)
      PROVE  IInv'
  <2>1. Owed' = Owed
    BY <1>8, OwedUnchanged DEF ChangeState
  <2> QED
    BY <1>1, <1>2, <1>8, <2>1 DEF ChangeState, Goto, TypeOK, OnePoller
<1>9. ASSUME NEW p \in Pollers, GoOffline(p)
      PROVE  IInv'
  <2>1. Owed' = Owed
    BY <1>9, OwedUnchanged DEF GoOffline, OfflineSteps
  <2>2. steps_done = max_steps /\ Owed = 0
    BY <1>9 DEF GoOffline, OfflineSteps
  <2>3. steps_done' = 0
    BY <1>9, <2>2 DEF GoOffline, OfflineSteps, CountDown
  <2> QED
    BY <1>1, <1>2, <1>9, <2>1, <2>2, <2>3 DEF GoOffline, OfflineSteps, Goto, TypeOK, OnePoller
<1>10. ASSUME NEW p \in Pollers, ComeOnline(p)
       PROVE  IInv'
  <2>1. Owed' = Owed + max_steps
    BY <1>1, <1>10, OwedIssued
  <2>2. steps_done = max_steps /\ Owed = 0 /\ state = "Online"
    BY <1>10 DEF ComeOnline
  <2> QED
    BY <1>1, <1>2, <1>10, <2>1, <2>2 DEF ComeOnline, Goto, TypeOK, OnePoller
<1>11. ASSUME NEW path \in PlainPath, NEW outcome \in Outcome, GetDone(path, outcome)
       PROVE  IInv'
  <2>1. InFlight >= 1 /\ Owed' = IF outcome = "ok" THEN Owed ELSE Owed - 1
    BY <1>1, <1>11, OwedGetDone
  <2>2. state = "Online" /\ \A p \in Pollers : pc[p] = "idle"
    BY <1>1, <1>2, <2>1 DEF TypeOK
  <2>3. steps_done' = IF outcome = "ok" THEN steps_done ELSE steps_done - 1
    BY <1>2, <1>11, <2>1 DEF GetDone, CountDown
  <2> QED
    BY <1>1, <1>2, <1>11, <2>1, <2>2, <2>3 DEF GetDone
<1>12. ASSUME NEW path \in ControlledPath, NEW outcome \in Outcome, ProbeDone(path, outcome)
       PROVE  IInv'
  <2>1. /\ InFlight >= 1
        /\ Owed' = IF outcome = "ok" THEN Owed
                   ELSE IF path = "/service" THEN Owed - 2 ELSE Owed - 1
    BY <1>1, <1>12, OwedProbeDone
  <2>2. state = "Online" /\ \A p \in Pollers : pc[p] = "idle"
    BY <1>1, <1>2, <2>1 DEF TypeOK
  <2>3. FailureSteps(path, outcome) = 1
    BY <1>12 DEF FailureSteps, control, ControlledPath, AdaptersNeverRefused, ProbeDone, MayHappen
  <2>4. steps_done' = IF outcome = "ok" THEN steps_done ELSE steps_done - 1
    BY <1>2, <1>12, <2>1, <2>3 DEF ProbeDone, CountDown
  <2> QED
    BY <1>1, <1>2, <1>12, <2>1, <2>2, <2>4 DEF ProbeDone
<1>13. ASSUME handle_info \/ handle_service \/ \E path \in Path : handle_list(path)
       PROVE  IInv'
  <2>1. InFlight >= 1 /\ Owed' = Owed - 1
    BY <1>1, <1>13, OwedHandled
  <2>2. state = "Online" /\ \A p \in Pollers : pc[p] = "idle"
    BY <1>1, <1>2, <2>1 DEF TypeOK
  <2>3. steps_done' = steps_done - 1 /\ UNCHANGED <<state, pc, new_state>>
    BY <1>2, <1>13, <2>1 DEF handle_info, handle_service, handle_list, CountDown
  <2> QED
    BY <1>1, <1>2, <2>1, <2>2, <2>3
<1>14. ASSUME HostDown \/ HostUp \/ UNCHANGED vars
       PROVE  IInv'
  <2>1. UNCHANGED <<steps_done, state, hostname, avaliable, pc, new_state, probes, gets, events>>
    BY <1>14 DEF HostDown, HostUp, vars
  <2>2. Owed' = Owed
    BY <2>1, OwedUnchanged
  <2> QED
    BY <1>1, <2>1, <2>2
<1> QED
  BY <1>3, <1>4, <1>5, <1>6, <1>7, <1>8, <1>9, <1>10, <1>11, <1>12, <1>13, <1>14
     DEF Next, update_info, network_get, GuiThread

(* The ledger holds throughout, whatever else fails.                        *)
THEOREM LedgerHolds ==
    ASSUME OnePoller, AdaptersNeverRefused
    PROVE  Spec => []IInv
<1>1. IInv /\ [Next]_vars => IInv'
  BY InvStep
<1> QED
  BY InvInit, <1>1, PTL DEF Spec

(* A cycle starts only when every request of the cycle before is answered   *)
(* and handled: update_info's try_wait separates the cycles.                *)
THEOREM CyclesSeparate ==
    ASSUME OnePoller, AdaptersNeverRefused
    PROVE  Spec => []CycleComplete
<1>1. IInv => CycleComplete
  BY SumTypes DEF IInv, Ledger, CycleComplete
<1> QED
  BY <1>1, LedgerHolds, PTL

(* No late answer renames an offline machine or enables one of its pages.   *)
THEOREM OfflineStaysQuiet ==
    ASSUME OnePoller, AdaptersNeverRefused
    PROVE  Spec => []OfflineQuiet
<1>1. IInv => OfflineQuiet
  BY DEF IInv, Quiet, OfflineQuiet
<1> QED
  BY <1>1, LedgerHolds, PTL

(* count_down is never called on an expired latch: from zero the latch only *)
(* moves by being armed, and every state keeps it within max_steps.         *)
THEOREM LatchNeverUnderflows ==
    ASSUME OnePoller, AdaptersNeverRefused
    PROVE  Spec => NoUnderflow
<1>1. IInv /\ [Next]_vars => [steps_done = 0 => steps_done' \in {0, max_steps}]_vars
  <2> SUFFICES ASSUME IInv, [Next]_vars, steps_done = 0
               PROVE  steps_done' \in {0, max_steps}
    OBVIOUS
  <2>1. TypeOK /\ TypeOK' /\ Owed = 0 /\ InFlight = 0
    BY TypeStep, SumTypes DEF IInv, Ledger
  <2>2. \A p \in Pollers : ~Busy(p)
    BY DEF IInv, Ledger, max_steps
  <2>3. \A path \in PlainPath, outcome \in Outcome : ~GetDone(path, outcome)
    BY <2>1, OwedGetDone
  <2>4. \A path \in ControlledPath, outcome \in Outcome : ~ProbeDone(path, outcome)
    BY <2>1, OwedProbeDone
  <2>5. ~GuiThread
    BY <2>1, OwedHandled DEF GuiThread
  <2> QED
    BY <2>2, <2>3, <2>4, <2>5 DEF Next, update_info, network_get, TryWait, Reset,
       ping_computer, PingResult, Refresh, StillOffline, OfflineSteps, ChangeState, GoOffline, ComeOnline, Busy,
       HostDown, HostUp, vars
<1> QED
  BY <1>1, LedgerHolds, PTL DEF Spec, NoUnderflow

(* The last notification agrees with the state on display, whatever the     *)
(* answers and however many pollers overlap.                                *)
THEOREM NotificationsAgree == Spec => []AnnouncedAgrees
<1>1. Init => AnnouncedAgrees
  BY DEF Init, AnnouncedAgrees
<1>2. TypeOK /\ AnnouncedAgrees /\ [Next]_vars => AnnouncedAgrees'
  <2> SUFFICES ASSUME TypeOK, AnnouncedAgrees, [Next]_vars
               PROVE  AnnouncedAgrees'
    OBVIOUS
  <2>1. ASSUME NEW p \in Pollers, ChangeState(p)
        PROVE  AnnouncedAgrees'
    BY <2>1 DEF ChangeState, AnnouncedAgrees, TypeOK
  <2>2. CASE UNCHANGED <<announced, state>>
    BY <2>2 DEF AnnouncedAgrees
  <2> QED
    BY <2>1, <2>2 DEF Next, update_info, network_get, GuiThread, TryWait, Reset,
       ping_computer, PingResult, Refresh, StillOffline, OfflineSteps, GoOffline, ComeOnline, GetDone, ProbeDone,
       handle_info, handle_service, handle_list, HostDown, HostUp, vars
<1> QED
  BY <1>1, <1>2, TypeCorrect, PTL DEF Spec

-------------------------------------------------------------------------------
(* The machine answers every /service request it gets, and does not vanish  *)
(* while one is on its way.                                                 *)
ServiceAnswered == GracefulDown /\ Answers["/service"] = {"ok"}

(* No step is forgotten between cycles; a machine with a /service request   *)
(* on its way is up.                                                        *)
Exact ==
    /\ (\A p \in Pollers : ~Busy(p)) => steps_done = Owed
    /\ ServiceOutstanding => alive

(* As long as /service is answered, what is counted between cycles is all    *)
(* that was owed.                                                            *)
LEMMA ExactStep ==
    ASSUME OnePoller, AdaptersNeverRefused, ServiceAnswered, IInv, Exact, [Next]_vars
    PROVE  Exact'
<1>1. TypeOK /\ TypeOK'
  BY TypeStep DEF IInv
<1>2. Owed \in Nat /\ InFlight \in Nat /\ InFlight <= Owed /\ steps_done \in Nat
  BY <1>1, SumTypes DEF TypeOK
<1>3. InFlight >= 1 => \A p \in Pollers : pc[p] = "idle"
  BY <1>1, <1>2 DEF IInv, Ledger, Busy, TypeOK
<1>4. \A p \in Pollers : pc[p] = "checked" => steps_done = 0 /\ Owed = 0
  BY <1>2 DEF IInv, Ledger
<1>5. \A p \in Pollers : Busy(p) => steps_done = max_steps /\ Owed = 0
  BY DEF IInv, Ledger
<1> USE DEF Exact, Busy, max_steps
<1>6. ASSUME NEW p \in Pollers, TryWait(p) \/ Reset(p) \/ ping_computer(p) \/ ChangeState(p)
      PROVE  Exact'
  <2>1. Owed' = Owed /\ UNCHANGED <<probes, alive>>
    BY <1>6, OwedUnchanged DEF TryWait, Reset, ping_computer, PingResult, ChangeState
  <2>2. (\A q \in Pollers : ~Busy(q))' => steps_done' = Owed'
    BY <1>1, <1>6, <2>1 DEF TryWait, Reset, ping_computer, PingResult, ChangeState, Goto, TypeOK, OnePoller
  <2>3. ServiceOutstanding' => alive'
    BY <1>1, <1>6, <2>1 DEF TryWait, Reset, ping_computer, PingResult, ChangeState, Goto, TypeOK, OnePoller,
       ServiceOutstanding
  <2> QED
    BY <2>2, <2>3
<1>7. ASSUME NEW p \in Pollers, Refresh(p)
      PROVE  Exact'
  <2> DEFINE n == One(RefreshWanted("/drives")) + One(RefreshWanted("/updates"))
                    + One(RefreshWanted("/network/adapters")) + One(RefreshWanted("/services"))
  <2>1. n \in 0 .. 4
    BY DEF One
  <2>2. Owed' = Owed + n
    BY <1>1, <1>7, OwedIssued
  <2>3. CountDown(max_steps - n) /\ UNCHANGED <<probes, alive>>
    BY <1>7 DEF Refresh
  <2> HIDE DEF n
  <2>4. steps_done' = Owed'
    BY <1>2, <1>5, <1>7, <2>1, <2>2, <2>3 DEF Refresh, CountDown
  <2> QED
    BY <1>1, <1>7, <2>3, <2>4 DEF Refresh, Goto, TypeOK, OnePoller, ServiceOutstanding
<1>8. ASSUME NEW p \in Pollers, StillOffline(p) \/ GoOffline(p)
      PROVE  Exact'
  <2>1. Owed' = Owed /\ UNCHANGED <<probes, alive>>
    BY <1>8, OwedUnchanged DEF StillOffline, OfflineSteps, GoOffline
  <2>2. steps_done' = 0 /\ Owed = 0
    BY <1>5, <1>8 DEF StillOffline, OfflineSteps, GoOffline, CountDown
  <2> QED
    BY <1>1, <1>8, <2>1, <2>2 DEF StillOffline, OfflineSteps, GoOffline, Goto, TypeOK, OnePoller,
       ServiceOutstanding
<1>9. ASSUME NEW p \in Pollers, ComeOnline(p)
      PROVE  Exact'
  <2>1. Owed' = Owed + max_steps
    BY <1>1, <1>9, OwedIssued
  <2>2. steps_done' = Owed'
    BY <1>5, <1>9, <2>1 DEF ComeOnline
  <2>3. alive'
    BY <1>9 DEF ComeOnline, ServiceOutstanding
  <2> QED
    BY <2>2, <2>3
<1>10. ASSUME NEW path \in PlainPath, NEW outcome \in Outcome, GetDone(path, outcome)
       PROVE  Exact'
  <2>1. InFlight >= 1 /\ Owed' = IF outcome = "ok" THEN Owed ELSE Owed - 1
    BY <1>1, <1>10, OwedGetDone
  <2>2. steps_done' = IF outcome = "ok" THEN steps_done ELSE steps_done - 1
    BY <1>2, <1>3, <1>10, <2>1 DEF GetDone, CountDown
  <2>3. UNCHANGED <<pc, new_state, probes, alive>>
    BY <1>10 DEF GetDone
  <2> QED
    BY <1>3, <2>1, <2>2, <2>3 DEF ServiceOutstanding
<1>11. ASSUME NEW path \in ControlledPath, NEW outcome \in Outcome, ProbeDone(path, outcome)
       PROVE  Exact'
  <2>1. /\ InFlight >= 1
        /\ Owed' = IF outcome = "ok" THEN Owed
                   ELSE IF path = "/service" THEN Owed - 2 ELSE Owed - 1
    BY <1>1, <1>11, OwedProbeDone
  <2>2. path = "/service" => outcome = "ok"
    BY <1>11 DEF ProbeDone, ServiceOutstanding, MayHappen, ServiceAnswered
  <2>3. FailureSteps(path, outcome) = 1
    BY <1>11 DEF FailureSteps, control, ControlledPath, AdaptersNeverRefused, ProbeDone, MayHappen
  <2>4. steps_done' = IF outcome = "ok" THEN steps_done ELSE steps_done - 1
    BY <1>2, <1>3, <1>11, <2>1, <2>3 DEF ProbeDone, CountDown
  <2>5. UNCHANGED <<pc, new_state, alive>> /\ (probes'["/service"] > 0 => probes["/service"] > 0)
    BY <1>1, <1>11 DEF ProbeDone, TypeOK, ControlledPath
  <2> QED
    BY <1>3, <2>1, <2>2, <2>4, <2>5 DEF ServiceOutstanding
<1>12. ASSUME handle_info \/ handle_service \/ \E path \in Path : handle_list(path)
       PROVE  Exact'
  <2>1. InFlight >= 1 /\ Owed' = Owed - 1
    BY <1>1, <1>12, OwedHandled
  <2>2. steps_done' = steps_done - 1 /\ UNCHANGED <<pc, new_state, probes, alive>>
    BY <1>2, <1>3, <1>12, <2>1 DEF handle_info, handle_service, handle_list, CountDown
  <2> QED
    BY <1>3, <2>1, <2>2 DEF ServiceOutstanding
<1>13. ASSUME HostDown \/ HostUp \/ UNCHANGED vars
       PROVE  Exact'
  <2>1. UNCHANGED <<steps_done, pc, new_state, probes, gets, events>>
    BY <1>13 DEF HostDown, HostUp, vars
  <2>2. Owed' = Owed
    BY <2>1, OwedUnchanged
  <2>3. ServiceOutstanding' => alive'
    BY <1>13, <2>1 DEF HostDown, HostUp, vars, ServiceOutstanding, ServiceAnswered
  <2> QED
    BY <2>1, <2>2, <2>3
<1> QED
  BY <1>6, <1>7, <1>8, <1>9, <1>10, <1>11, <1>12, <1>13
     DEF Next, update_info, network_get, GuiThread

(* When the machine answers its /service requests, no step is ever          *)
(* forgotten or counted twice: the latch holds exactly the steps to come.   *)
THEOREM LatchIsExact ==
    ASSUME OnePoller, AdaptersNeverRefused, ServiceAnswered
    PROVE  Spec => []LatchExact
<1>1. Init => Exact
  <2> SUFFICES ASSUME Init PROVE Exact
    OBVIOUS
  <2>1. Owed = 0
    BY InvInit, SumTypes DEF Init, IInv, Ledger
  <2> QED
    BY <2>1 DEF Init, Exact, ServiceOutstanding, ControlledPath
<1>2. IInv /\ Exact /\ [Next]_vars => Exact'
  BY ExactStep
<1>3. IInv /\ Exact => LatchExact
  BY SumTypes DEF IInv, Ledger, Exact, LatchExact, StepsToCome, max_steps
<1> QED
  BY <1>1, <1>2, <1>3, LedgerHolds, PTL DEF Spec

-------------------------------------------------------------------------------
(* With a step lost no poller is in a cycle, and none can start one.         *)
LEMMA LostMeansIdle ==
    ASSUME OnePoller, AdaptersNeverRefused, IInv, steps_done > StepsToCome
    PROVE  /\ \A p \in Pollers : pc[p] = "idle"
           /\ steps_done \in Nat /\ steps_done # 0 /\ steps_done > Owed
<1>1. Owed \in Nat /\ steps_done \in Nat
  BY SumTypes DEF IInv, TypeOK
<1>2. ASSUME NEW p \in Pollers, Busy(p)
      PROVE  FALSE
  <2>1. steps_done = max_steps /\ Owed = 0
    BY <1>2 DEF IInv, Ledger
  <2>2. StepsToCome = Owed + max_steps
    BY <1>2 DEF StepsToCome
  <2> QED
    BY <2>1, <2>2 DEF max_steps
<1>a. ~\E p \in Pollers : Busy(p)
  BY <1>2
<1>b. StepsToCome = Owed + 0
  BY <1>a, Zenon DEF StepsToCome
<1>3. steps_done > Owed
  BY <1>1, <1>b
<1>4. \A p \in Pollers : pc[p] # "checked"
  <2>1. steps_done # 0
    BY <1>1, <1>3
  <2>2. \A p \in Pollers : pc[p] = "checked" => steps_done = 0
    BY DEF IInv, Ledger
  <2> QED
    BY <2>1, <2>2, Zenon
<1>5. \A p \in Pollers : pc[p] \in {"idle", "checked", "armed", "pinged", "changed"}
  BY DEF IInv, TypeOK
<1> QED
  BY <1>1, <1>a, <1>3, <1>4, <1>5 DEF Busy

(* No step of the pool, of the handlers or of the machine counts the lost    *)
(* step.                                                                     *)
LEMMA LostStep ==
    ASSUME OnePoller, AdaptersNeverRefused, IInv, [Next]_vars, steps_done > StepsToCome
    PROVE  steps_done' > StepsToCome' /\ steps_done' # 0
<1>1. TypeOK /\ TypeOK'
  BY TypeStep DEF IInv
<1>2. /\ \A p \in Pollers : pc[p] = "idle"
      /\ steps_done \in Nat /\ steps_done # 0 /\ steps_done > Owed
  BY LostMeansIdle
<1>a. probes'["/service"] \in Nat /\ events'["/service"] \in Nat
  BY <1>1 DEF TypeOK, ControlledPath, Path
<1>b. Owed' \in Nat
  BY <1>1, <1>a, SumTypesNext DEF Owed, InFlight
<1>3. Owed \in Nat /\ Owed' \in Nat /\ InFlight \in Nat /\ InFlight <= Owed
  BY <1>1, <1>b, SumTypes
<1>4. SUFFICES /\ \A p \in Pollers : pc'[p] = "idle"
               /\ steps_done' \in Nat /\ steps_done' > Owed'
  <2>1. ASSUME \A p \in Pollers : pc'[p] = "idle"
        PROVE  StepsToCome' = Owed' + 0
    <3>1. ~\E p \in Pollers : Busy(p)'
      BY <2>1 DEF Busy
    <3> QED
      BY <3>1, Zenon DEF StepsToCome
  <2> QED
    BY <1>3, <2>1
<1>5. ASSUME NEW path \in PlainPath, NEW outcome \in Outcome, GetDone(path, outcome)
      PROVE  UNCHANGED pc /\ steps_done' \in Nat /\ steps_done' > Owed'
  <2>1. InFlight >= 1 /\ Owed' = IF outcome = "ok" THEN Owed ELSE Owed - 1
    BY <1>1, <1>5, OwedGetDone
  <2> QED
    BY <1>2, <1>3, <1>5, <2>1 DEF GetDone, CountDown
<1>6. ASSUME NEW path \in ControlledPath, NEW outcome \in Outcome, ProbeDone(path, outcome)
      PROVE  UNCHANGED pc /\ steps_done' \in Nat /\ steps_done' > Owed'
  <2>1. /\ InFlight >= 1
        /\ Owed' = IF outcome = "ok" THEN Owed
                   ELSE IF path = "/service" THEN Owed - 2 ELSE Owed - 1
    BY <1>1, <1>6, OwedProbeDone
  <2>2. FailureSteps(path, outcome) = 1
    BY <1>6 DEF FailureSteps, control, ControlledPath, AdaptersNeverRefused, ProbeDone, MayHappen
  <2>3. steps_done' = IF outcome = "ok" THEN steps_done ELSE steps_done - 1
    BY <1>2, <1>3, <1>6, <2>1, <2>2 DEF ProbeDone, CountDown
  <2> QED
    BY <1>2, <1>3, <1>6, <2>1, <2>3 DEF ProbeDone
<1>7. ASSUME GuiThread
      PROVE  UNCHANGED pc /\ steps_done' \in Nat /\ steps_done' > Owed'
  <2>1. InFlight >= 1 /\ Owed' = Owed - 1
    BY <1>1, <1>7, OwedHandled DEF GuiThread
  <2>2. steps_done' = steps_done - 1 /\ UNCHANGED pc
    BY <1>2, <1>3, <1>7, <2>1 DEF GuiThread, handle_info, handle_service, handle_list, CountDown
  <2> QED
    BY <1>2, <1>3, <2>1, <2>2
<1>8. ASSUME HostDown \/ HostUp \/ UNCHANGED vars
      PROVE  UNCHANGED pc /\ steps_done' \in Nat /\ steps_done' > Owed'
  <2>1. UNCHANGED <<steps_done, pc, probes, gets, events>>
    BY <1>8 DEF HostDown, HostUp, vars
  <2> QED
    BY <1>2, <2>1, OwedUnchanged
<1>9. \A p \in Pollers : ~update_info(p)
  BY <1>2 DEF update_info, TryWait, Reset, ping_computer, Refresh, StillOffline, ChangeState,
              GoOffline, ComeOnline
<1> QED
  BY <1>2, <1>5, <1>6, <1>7, <1>8, <1>9 DEF Next, network_get

(* One /service request that fails is enough: the step it leaves behind is   *)
(* never counted, whatever the machine does and answers afterwards.          *)
THEOREM NeverMadeUpFor ==
    ASSUME OnePoller, AdaptersNeverRefused
    PROVE  Spec => LostForGood
<1>1. IInv /\ [Next]_vars
          => [steps_done > StepsToCome => steps_done' > StepsToCome' /\ steps_done' # 0]_vars
  BY LostStep
<1> QED
  BY <1>1, LedgerHolds, PTL DEF Spec, LostForGood

(* With a step lost, the latch never again reads zero, and try_wait, which   *)
(* update_info starts with, lets no poller begin a cycle.                    *)
THEOREM NoCycleAfterLoss ==
    ASSUME OnePoller, AdaptersNeverRefused
    PROVE  Spec => []((steps_done > StepsToCome)
                         => [](steps_done # 0 /\ \A p \in Pollers : pc[p] = "idle"))
<1>1. IInv /\ [Next]_vars /\ steps_done > StepsToCome => (steps_done > StepsToCome)'
  BY LostStep
<1>2. IInv /\ steps_done > StepsToCome
          => steps_done # 0 /\ \A p \in Pollers : pc[p] = "idle"
  BY LostMeansIdle
<1> QED
  BY <1>1, <1>2, LedgerHolds, PTL DEF Spec

(* Nothing of a cycle is left, yet the latch is not at zero.                 *)
Stopped == steps_done # 0 /\ InFlight = 0 /\ \A p \in Pollers : pc[p] = "idle"

(* Whatever was answered, and however many pollers overlapped before: a      *)
(* machine whose last request is done while the latch is not at zero stays   *)
(* on display as it is.  This includes the latch that wrapped.               *)
THEOREM StoppedForGood ==
    Spec => [][Stopped => Stopped' /\ UNCHANGED <<state, hostname, avaliable, announced>>]_vars
<1>1. TypeOK /\ [Next]_vars
          => [Stopped => Stopped' /\ UNCHANGED <<state, hostname, avaliable, announced>>]_vars
  <2> SUFFICES ASSUME TypeOK, [Next]_vars, Stopped
               PROVE  Stopped' /\ UNCHANGED <<state, hostname, avaliable, announced>>
    OBVIOUS
  <2>1. TypeOK' /\ InFlight = 0
    BY TypeStep DEF Stopped
  <2>2. \A path \in PlainPath, outcome \in Outcome : ~GetDone(path, outcome)
    BY <2>1, OwedGetDone
  <2>3. \A path \in ControlledPath, outcome \in Outcome : ~ProbeDone(path, outcome)
    BY <2>1, OwedProbeDone
  <2>4. ~GuiThread
    BY <2>1, OwedHandled DEF GuiThread
  <2>5. \A p \in Pollers : ~update_info(p)
    BY DEF Stopped, update_info, TryWait, Reset, ping_computer, Refresh, StillOffline, ChangeState,
           GoOffline, ComeOnline
  <2>6. UNCHANGED <<steps_done, state, hostname, avaliable, announced, pc, probes, gets, events>>
    BY <2>2, <2>3, <2>4, <2>5 DEF Next, network_get, HostDown, HostUp, vars
  <2> QED
    BY <2>6 DEF Stopped, InFlight, ProbesRunning, GetsRunning, EventsQueued
<1> QED
  BY <1>1, TypeCorrect, PTL DEF Spec
===============================================================================
