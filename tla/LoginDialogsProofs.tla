-------------------------- MODULE LoginDialogsProofs -------------------------
(***************************************************************************)
(* Proofs about LoginDialogs, for any number of dialogs and logins.  What  *)
(* a signal is queued for does not matter to them: whichever call of       *)
(* open_term comes, and however often, the connections stay where they     *)
(* belong.                                                                 *)
(***************************************************************************)
EXTENDS LoginDialogs, SequenceLemmas, SequenceTheorems

DialogRecord == [purpose : Purpose, state : {"form", "busy", "closed"}]

AttemptRecord == [dialog : Nat, step : 0 .. 5, held : SUBSET Resource]

(* What libssh holds for a login, before the call of each step.              *)
HeldAt ==
    [step \in 1 .. 5 |->
        CASE step = 1 -> {}
          [] step = 2 -> {"session"}
          [] step \in {3, 4} -> {"session", "link"}
          [] step = 5 -> {"session", "link", "channel"}]

Expected(a) ==
    IF attempts[a].step = Over \/ PurposeOf(a) # "terminal" THEN {} ELSE HeldAt[attempts[a].step]

(* The inductive invariant of the pool tasks.                                *)
TasksHold ==
    /\ dialogs \in Seq(DialogRecord)
    /\ attempts \in Seq(AttemptRecord)
    /\ \A a \in DOMAIN attempts : attempts[a].dialog \in DOMAIN dialogs
    /\ \A a \in DOMAIN attempts : attempts[a].held = Expected(a)

(* The inductive invariant of the connections: one that was never handed     *)
(* over is in no one's hands.                                                *)
ConnectionsPlaced ==
    /\ OneTerminal
    /\ holder \in [Attempt -> {"none", "pty", "screen", "gone"}]
    /\ attempts \in Seq(AttemptRecord)
    /\ \A a \in Attempt : a > Len(attempts) => holder[a] = "none"
    /\ \A a \in Attempt : a <= Len(attempts) /\ attempts[a].step # Over => holder[a] = "none"

(* The five calls of open_term, in their order.                              *)
LEMMA FiveSteps ==
    /\ Len(Steps) = 5
    /\ DOMAIN Steps = 1 .. 5
    /\ Steps[1] = "ssh_new" /\ Steps[2] = "ssh_connect" /\ Steps[3] = "ssh_userauth_password"
    /\ Steps[4] = "ssh_channel_new" /\ Steps[5] = "ssh_channel_open_session"
BY DEF Steps

(* Each call that succeeds adds what the next step expects, and each error   *)
(* path frees what its step holds.                                           *)
LEMMA StepHolds ==
    /\ HeldAt[1] = {}
    /\ \A step \in 1 .. 4 : HeldAt[step] \cup Acquired[step] = HeldAt[step + 1]
    /\ \A step \in 1 .. 5 : HeldAt[step] \ Released[step] = {}
<1>1. \A step \in 1 .. 5 : Acquired[step] = CASE step = 1 -> {"session"} [] step = 2 -> {"link"}
                                             [] step = 4 -> {"channel"} [] OTHER -> {}
  BY FiveSteps DEF Acquired
<1>2. \A step \in 1 .. 5 : Released[step] = CASE step = 1 -> {} [] step = 2 -> {"session"}
                              [] step = 5 -> FreedAtLast [] OTHER -> {"session", "link"}
  BY FiveSteps DEF Released
<1> QED
  BY <1>1, <1>2 DEF HeldAt, FreedAtLast

(* One element of a sequence is replaced.                                    *)
LEMMA Replaced ==
    ASSUME NEW S, NEW s \in Seq(S), NEW i \in DOMAIN s, NEW x \in S
    PROVE  LET t == [s EXCEPT ![i] = x]
           IN  /\ t \in Seq(S)
               /\ Len(t) = Len(s)
               /\ DOMAIN t = DOMAIN s
               /\ t[i] = x
               /\ \A j \in DOMAIN s : j # i => t[j] = s[j]
  OBVIOUS

(* A dialog changes its state, not its purpose.                              *)
LEMMA DialogTurns ==
    ASSUME dialogs \in Seq(DialogRecord),
           NEW d, NEW state \in {"form", "busy", "closed"},
           dialogs' = [dialogs EXCEPT ![d].state = state]
    PROVE  /\ dialogs' \in Seq(DialogRecord)
           /\ Len(dialogs') >= Len(dialogs)
           /\ \A e \in DOMAIN dialogs : dialogs'[e].purpose = dialogs[e].purpose
<1>1. CASE d \in DOMAIN dialogs
  <2> DEFINE x == [dialogs[d] EXCEPT !.state = state]
  <2>1. dialogs[d] \in DialogRecord
    BY <1>1
  <2>2. x \in DialogRecord /\ x.purpose = dialogs[d].purpose
    BY <2>1 DEF DialogRecord
  <2>3. dialogs' = [dialogs EXCEPT ![d] = x]
    OBVIOUS
  <2> HIDE DEF x
  <2>4. /\ dialogs' \in Seq(DialogRecord)
        /\ Len(dialogs') = Len(dialogs)
        /\ dialogs'[d] = x
        /\ \A e \in DOMAIN dialogs : e # d => dialogs'[e] = dialogs[e]
    BY <1>1, <2>2, <2>3, Replaced
  <2>5. Len(dialogs) \in Nat
    OBVIOUS
  <2> QED
    BY <2>2, <2>4, <2>5
<1>2. CASE d \notin DOMAIN dialogs
  <2>1. dialogs' = dialogs
    BY <1>2
  <2>2. Len(dialogs) \in Nat
    OBVIOUS
  <2>3. \A e \in DOMAIN dialogs : dialogs'[e].purpose = dialogs[e].purpose
    BY <2>1, Zenon
  <2>4. dialogs' \in Seq(DialogRecord) /\ Len(dialogs') = Len(dialogs)
    BY <2>1, Zenon
  <2> QED
    BY <2>2, <2>3, <2>4
<1> QED
  BY <1>1, <1>2

(* No step takes from a task what its current call expects.                  *)
LEMMA TasksStep == ASSUME TasksHold, [Next]_vars PROVE TasksHold'
<1> USE DEF Over
(* The dialogs change their state only, and more of them may come.           *)
<1>1. ASSUME dialogs' \in Seq(DialogRecord),
             Len(dialogs') >= Len(dialogs),
             \A d \in DOMAIN dialogs : dialogs'[d].purpose = dialogs[d].purpose,
             UNCHANGED attempts
      PROVE  TasksHold'
  <2>1. \A a \in DOMAIN attempts : attempts[a].dialog \in DOMAIN dialogs
    BY DEF TasksHold
  <2>2. \A d \in DOMAIN dialogs : d \in DOMAIN dialogs'
    BY <1>1 DEF TasksHold
  <2>3. \A a \in DOMAIN attempts : PurposeOf(a)' = PurposeOf(a)
    BY <1>1, <2>1 DEF PurposeOf
  <2>4. \A a \in DOMAIN attempts : Expected(a)' = Expected(a)
    BY <1>1, <2>3 DEF Expected
  <2> QED
    BY <1>1, <2>1, <2>2, <2>4 DEF TasksHold
<1>2. ASSUME NEW purpose \in Purpose, OpenDialog(purpose) PROVE TasksHold'
  <2> DEFINE x == [purpose |-> purpose, state |-> "form"]
  <2>1. x \in DialogRecord /\ dialogs \in Seq(DialogRecord)
    BY DEF DialogRecord, TasksHold
  <2>2. dialogs' = Append(dialogs, x) /\ UNCHANGED attempts
    BY <1>2 DEF OpenDialog
  <2> HIDE DEF x
  <2>3. /\ dialogs' \in Seq(DialogRecord)
        /\ Len(dialogs') >= Len(dialogs)
        /\ \A d \in DOMAIN dialogs : dialogs'[d] = dialogs[d]
    BY <2>1, <2>2
  <2> QED
    BY <1>1, <2>2, <2>3
<1>3. dialogs \in Seq(DialogRecord)
  BY DEF TasksHold
<1>4. ASSUME NEW d \in Dialog, CloseDialog(d) PROVE TasksHold'
  BY <1>1, <1>3, <1>4, DialogTurns DEF CloseDialog
<1>5. ASSUME NEW d \in Dialog, LoginClicked(d) PROVE TasksHold'
  <2>1. /\ d \in DOMAIN dialogs
        /\ dialogs' = [dialogs EXCEPT ![d].state = "busy"]
        /\ attempts' = Append(attempts, [dialog |-> d, step |-> 1, held |-> {}])
    BY <1>5 DEF LoginClicked
  <2>2. /\ dialogs' \in Seq(DialogRecord)
        /\ Len(dialogs') >= Len(dialogs)
        /\ \A e \in DOMAIN dialogs : dialogs'[e].purpose = dialogs[e].purpose
    BY <1>3, <2>1, DialogTurns
  <2>3. /\ attempts' \in Seq(AttemptRecord)
        /\ Len(attempts') = Len(attempts) + 1
        /\ \A a \in DOMAIN attempts : attempts'[a] = attempts[a]
        /\ attempts'[Len(attempts')] = [dialog |-> d, step |-> 1, held |-> {}]
    <3> DEFINE x == [dialog |-> d, step |-> 1, held |-> {}]
    <3>1. x \in AttemptRecord
      BY DEF AttemptRecord, Dialog
    <3>2. attempts' = Append(attempts, x)
      BY <2>1
    <3>3. attempts \in Seq(AttemptRecord)
      BY DEF TasksHold
    <3> HIDE DEF x
    <3>4. /\ attempts' \in Seq(AttemptRecord)
          /\ Len(attempts') = Len(attempts) + 1
          /\ \A a \in DOMAIN attempts : attempts'[a] = attempts[a]
          /\ attempts'[Len(attempts')] = x
      BY <3>1, <3>2, <3>3
    <3> QED
      BY <3>4 DEF x
  <2>4. \A a \in DOMAIN attempts' : attempts'[a].dialog \in DOMAIN dialogs'
    BY <2>1, <2>2, <2>3 DEF TasksHold
  <2>5. \A a \in DOMAIN attempts' : attempts'[a].held = Expected(a)'
    <3>1. \A a \in DOMAIN attempts : attempts[a].dialog \in DOMAIN dialogs
      BY DEF TasksHold
    <3>2. \A a \in DOMAIN attempts : PurposeOf(a)' = PurposeOf(a)
      BY <2>2, <2>3, <3>1 DEF PurposeOf
    <3>3. \A a \in DOMAIN attempts : Expected(a)' = Expected(a)
      BY <2>3, <3>2 DEF Expected
    <3>4. ASSUME NEW a, a = Len(attempts) + 1 PROVE attempts'[a].held = {} /\ Expected(a)' = {}
      BY <2>3, <3>4, StepHolds DEF Expected
    <3>5. \A a \in DOMAIN attempts' : a \in DOMAIN attempts \/ a = Len(attempts) + 1
      BY <2>3 DEF TasksHold
    <3>6. \A a \in DOMAIN attempts : attempts[a].held = Expected(a)
      BY DEF TasksHold
    <3> QED
      BY <2>3, <3>3, <3>4, <3>5, <3>6
  <2> QED
    BY <2>2, <2>3, <2>4, <2>5 DEF TasksHold
<1>6. ASSUME NEW a \in DOMAIN attempts, NEW step \in 0 .. 5, NEW held \in SUBSET Resource,
             Proceed(a, step, held),
             UNCHANGED dialogs,
             held = IF step = Over \/ PurposeOf(a) # "terminal" THEN {} ELSE HeldAt[step]
      PROVE  TasksHold'
  <2> DEFINE x == [dialog |-> attempts[a].dialog, step |-> step, held |-> held]
  <2>1. attempts \in Seq(AttemptRecord) /\ attempts[a] \in AttemptRecord
    BY DEF TasksHold
  <2>2. x \in AttemptRecord /\ x.dialog = attempts[a].dialog /\ x.step = step /\ x.held = held
    BY <2>1 DEF AttemptRecord
  <2>3. attempts' = [attempts EXCEPT ![a] = x]
    BY <1>6 DEF Proceed
  <2> HIDE DEF x
  <2>4. /\ attempts' \in Seq(AttemptRecord)
        /\ DOMAIN attempts' = DOMAIN attempts
        /\ attempts'[a] = x
        /\ \A b \in DOMAIN attempts : b # a => attempts'[b] = attempts[b]
    BY <2>1, <2>2, <2>3, Replaced
  <2>5. \A b \in DOMAIN attempts : attempts'[b].dialog = attempts[b].dialog
    BY <2>2, <2>4
  <2>6. \A b \in DOMAIN attempts : PurposeOf(b)' = PurposeOf(b)
    BY <1>6, <2>5 DEF PurposeOf
  <2>7. Expected(a)' = held
    BY <1>6, <2>2, <2>4, <2>6 DEF Expected
  <2>8. \A b \in DOMAIN attempts : b # a => Expected(b)' = Expected(b)
    BY <2>4, <2>6 DEF Expected
  <2>9. \A b \in DOMAIN attempts : attempts[b].held = Expected(b)
    BY DEF TasksHold
  <2>a. \A b \in DOMAIN attempts' : attempts'[b].held = Expected(b)'
    BY <2>2, <2>4, <2>7, <2>8, <2>9
  <2>b. \A b \in DOMAIN attempts' : attempts'[b].dialog \in DOMAIN dialogs'
    BY <1>6, <2>4, <2>5 DEF TasksHold
  <2>c. dialogs' \in Seq(DialogRecord)
    BY <1>6 DEF TasksHold
  <2> QED
    BY <2>4, <2>a, <2>b, <2>c DEF TasksHold
(* A task's attempt, while it connects: what it holds is what its step       *)
(* expects.                                                                  *)
<1>h. ASSUME NEW a, Connecting(a)
      PROVE  /\ a \in DOMAIN attempts /\ PurposeOf(a) = "terminal"
             /\ attempts[a].step \in 1 .. 5
             /\ attempts[a].held = HeldAt[attempts[a].step]
             /\ attempts[a].held \in SUBSET Resource
  <2>1. a \in DOMAIN attempts /\ PurposeOf(a) = "terminal" /\ attempts[a].step # 0
    BY <1>h DEF Connecting
  <2>2. attempts \in Seq(AttemptRecord) /\ attempts[a].held = Expected(a)
    BY <2>1 DEF TasksHold
  <2>3. attempts[a] \in AttemptRecord
    BY <2>1, <2>2
  <2>4. attempts[a].step \in 1 .. 5 /\ attempts[a].held \in SUBSET Resource
    BY <2>1, <2>3 DEF AttemptRecord
  <2>5. Expected(a) = HeldAt[attempts[a].step]
    BY <2>1 DEF Expected
  <2> QED
    BY <2>1, <2>2, <2>4, <2>5
<1>a. ASSUME NEW a \in Attempt, StepSucceeds(a) PROVE TasksHold'
  <2> DEFINE step == attempts[a].step
             held == attempts[a].held \cup Acquired[step]
  <2>1. Connecting(a) /\ step < 5 /\ UNCHANGED dialogs
    BY <1>a, FiveSteps DEF StepSucceeds, LastStep
  <2>2. a \in DOMAIN attempts /\ PurposeOf(a) = "terminal" /\ step \in 1 .. 4
    BY <1>h, <2>1
  <2>3. Proceed(a, step + 1, held)
    BY <1>a, <2>2 DEF StepSucceeds
  <2>4. held = HeldAt[step + 1]
    BY <1>h, <2>1, <2>2, StepHolds
  <2>5. HeldAt[step + 1] \in SUBSET Resource /\ step + 1 \in 0 .. 5 /\ step + 1 # 0
    BY <2>2 DEF HeldAt, Resource
  <2> HIDE DEF step, held
  <2> QED
    BY <1>6, <2>1, <2>2, <2>3, <2>4, <2>5
<1>b. ASSUME NEW a \in Attempt, HandOver(a) PROVE TasksHold'
  <2>1. /\ Connecting(a)
        /\ Proceed(a, 0, {})
        /\ UNCHANGED dialogs
    BY <1>b DEF HandOver
  <2> QED
    BY <1>6, <1>h, <2>1
<1>c. ASSUME NEW a \in Attempt, StepFails(a) PROVE TasksHold'
  <2> DEFINE held == attempts[a].held \ Released[attempts[a].step]
  <2>1. /\ Connecting(a)
        /\ Proceed(a, 0, held)
        /\ UNCHANGED dialogs
    BY <1>c DEF StepFails, Connecting
  <2>2. held = {}
    BY <1>h, <2>1, StepHolds
  <2> HIDE DEF held
  <2> QED
    BY <1>6, <1>h, <2>1, <2>2
<1>d. ASSUME NEW a \in Attempt, NEW reply \in Replies, network_post(a, reply) PROVE TasksHold'
  <2>1. /\ a \in DOMAIN attempts
        /\ Proceed(a, 0, attempts[a].held)
        /\ PurposeOf(a) # "terminal"
        /\ UNCHANGED dialogs
    BY <1>d DEF network_post
  <2>2. attempts[a].held = {}
    BY <2>1 DEF TasksHold, Expected
  <2> QED
    BY <1>6, <2>1, <2>2
<1>7. CASE connecting_fail \/ done
  BY <1>1, <1>3, <1>7, DialogTurns DEF connecting_fail, done, TasksHold
<1>8. CASE open_term \/ LeaveTerminal \/ LeavePage \/ UNCHANGED vars
  BY <1>1, <1>8 DEF open_term, LeaveTerminal, LeavePage, vars, TasksHold
<1> QED
  BY <1>2, <1>4, <1>5, <1>a, <1>b, <1>c, <1>d, <1>7, <1>8 DEF Next, User, GuiThread, Task

(* An attempt that is over holds nothing of libssh: each error path of       *)
(* open_term frees exactly what the calls before it made.                    *)
THEOREM NothingLeaks == Spec => []FailureReleases
<1>1. Init => TasksHold
  BY DEF Init, TasksHold
<1>2. TasksHold /\ [Next]_vars => TasksHold'
  BY TasksStep
<1>3. TasksHold => FailureReleases
  BY DEF TasksHold, FailureReleases, Expected
<1> QED
  BY <1>1, <1>2, <1>3, PTL DEF Spec

(* A connection is in no one's hands before its task is over.                *)
LEMMA ConnectionsStep == ASSUME ConnectionsPlaced, [Next]_vars PROVE ConnectionsPlaced'
<1> USE DEF Over
<1>t. attempts \in Seq(AttemptRecord) /\ holder \in [Attempt -> {"none", "pty", "screen", "gone"}]
  BY DEF ConnectionsPlaced
(* Nothing happens to the connections and to the terminal.                   *)
<1>1. ASSUME UNCHANGED <<attempts, holder, term>> PROVE ConnectionsPlaced'
  BY <1>1 DEF ConnectionsPlaced, OneTerminal
<1>2. ASSUME NEW d \in Dialog, LoginClicked(d) PROVE ConnectionsPlaced'
  <2> DEFINE x == [dialog |-> d, step |-> 1, held |-> {}]
  <2>1. x \in AttemptRecord
    BY DEF AttemptRecord, Dialog
  <2>2. attempts' = Append(attempts, x) /\ UNCHANGED <<holder, term>>
    BY <1>2 DEF LoginClicked
  <2> HIDE DEF x
  <2>3. /\ attempts' \in Seq(AttemptRecord)
        /\ Len(attempts') = Len(attempts) + 1 /\ Len(attempts) \in Nat
        /\ \A a \in 1 .. Len(attempts) : attempts'[a] = attempts[a]
    BY <1>t, <2>1, <2>2
  <2> QED
    BY <2>2, <2>3 DEF ConnectionsPlaced, OneTerminal, Attempt
<1>6. ASSUME NEW a \in DOMAIN attempts, NEW step \in 0 .. 5, NEW held \in SUBSET Resource,
             Proceed(a, step, held)
      PROVE  /\ attempts' \in Seq(AttemptRecord)
             /\ Len(attempts') = Len(attempts)
             /\ \A b \in 1 .. Len(attempts) : b # a => attempts'[b] = attempts[b]
             /\ attempts'[a].step = step
  <2> DEFINE x == [dialog |-> attempts[a].dialog, step |-> step, held |-> held]
  <2>1. attempts[a] \in AttemptRecord
    BY <1>t
  <2>2. x \in AttemptRecord /\ x.step = step
    BY <2>1 DEF AttemptRecord
  <2>3. attempts' = [attempts EXCEPT ![a] = x]
    BY <1>6 DEF Proceed
  <2> HIDE DEF x
  <2> QED
    BY <1>t, <2>2, <2>3, Replaced
(* A step of a task that keeps the connections where they are.               *)
<1>7. ASSUME NEW a \in DOMAIN attempts, NEW step \in 0 .. 5, NEW held \in SUBSET Resource,
             attempts[a].step # 0, Proceed(a, step, held), UNCHANGED <<holder, term>>
      PROVE  ConnectionsPlaced'
  <2>2. /\ attempts' \in Seq(AttemptRecord)
        /\ Len(attempts') = Len(attempts)
        /\ \A b \in 1 .. Len(attempts) : b # a => attempts'[b] = attempts[b]
    BY <1>6, <1>7
  <2> QED
    BY <1>7, <2>2 DEF ConnectionsPlaced, OneTerminal, Attempt
<1>h. ASSUME NEW a \in DOMAIN attempts
      PROVE  attempts[a].step \in 0 .. 5 /\ attempts[a].held \in SUBSET Resource
  <2>1. attempts[a] \in AttemptRecord
    BY <1>t
  <2> QED
    BY <2>1 DEF AttemptRecord
<1>a. ASSUME NEW a \in Attempt, StepSucceeds(a) PROVE ConnectionsPlaced'
  <2> DEFINE held == attempts[a].held \cup Acquired[attempts[a].step]
  <2>1. /\ a \in DOMAIN attempts /\ attempts[a].step # 0 /\ attempts[a].step < 5
        /\ Proceed(a, attempts[a].step + 1, held)
        /\ UNCHANGED <<holder, term>>
    BY <1>a, FiveSteps DEF StepSucceeds, Connecting, LastStep
  <2>2. attempts[a].step \in 1 .. 4
    BY <1>h, <2>1
  <2>3. Acquired[attempts[a].step] \in SUBSET Resource
    BY <2>2, FiveSteps DEF Acquired, Resource
  <2>4. attempts[a].step + 1 \in 0 .. 5 /\ held \in SUBSET Resource
    BY <1>h, <2>1, <2>2, <2>3
  <2> HIDE DEF held
  <2> QED
    BY <1>7, <2>1, <2>4
<1>b. ASSUME NEW a \in Attempt, HandOver(a) PROVE ConnectionsPlaced'
  <2>1. /\ a \in DOMAIN attempts /\ attempts[a].step # 0
        /\ Proceed(a, 0, {})
        /\ holder' = [holder EXCEPT ![a] = "pty"]
        /\ UNCHANGED term
    BY <1>b DEF HandOver, Connecting
  <2>2. /\ attempts' \in Seq(AttemptRecord)
        /\ Len(attempts') = Len(attempts)
        /\ \A b \in 1 .. Len(attempts) : b # a => attempts'[b] = attempts[b]
        /\ attempts'[a].step = 0
    BY <1>6, <2>1
  <2>3. a \in 1 .. Len(attempts)
    BY <1>t, <2>1
  <2>4. holder[a] = "none"
    BY <2>1, <2>3 DEF ConnectionsPlaced
  <2> QED
    BY <2>1, <2>2, <2>3, <2>4 DEF ConnectionsPlaced, OneTerminal, Attempt
<1>c. ASSUME NEW a \in Attempt, StepFails(a) PROVE ConnectionsPlaced'
  <2> DEFINE held == attempts[a].held \ Released[attempts[a].step]
  <2>1. /\ a \in DOMAIN attempts /\ attempts[a].step # 0
        /\ Proceed(a, 0, held)
        /\ UNCHANGED <<holder, term>>
    BY <1>c DEF StepFails, Connecting
  <2>2. held \in SUBSET Resource
    BY <1>h, <2>1
  <2> HIDE DEF held
  <2> QED
    BY <1>7, <2>1, <2>2
<1>d. ASSUME NEW a \in Attempt, NEW reply \in Replies, network_post(a, reply)
      PROVE  ConnectionsPlaced'
  <2>1. /\ a \in DOMAIN attempts /\ attempts[a].step # 0
        /\ Proceed(a, 0, attempts[a].held)
        /\ UNCHANGED <<holder, term>>
    BY <1>d DEF network_post
  <2> QED
    BY <1>7, <1>h, <2>1
<1>e. CASE open_term
  <2> DEFINE pty == Head(events).pty
  <2>1. /\ term' = [pty |-> pty, live |-> holder[pty] = "pty"]
        /\ holder' = Moved(pty)
        /\ UNCHANGED attempts
    BY <1>e DEF open_term
  <2> HIDE DEF pty
  <2>2. \A a \in Attempt : ScreenGone[a] \in {"none", "pty", "gone"}
                          /\ (ScreenGone[a] = "none" <=> holder[a] = "none")
                          /\ (ScreenGone[a] = "pty" <=> holder[a] = "pty")
    BY <1>t DEF ScreenGone
  <2>3. /\ holder' \in [Attempt -> {"none", "pty", "screen", "gone"}]
        /\ \A a \in Attempt : holder'[a] = "screen" <=> a = pty /\ holder[a] = "pty"
        /\ \A a \in Attempt : holder'[a] = "none" <=> holder[a] = "none"
    BY <2>1, <2>2 DEF Moved, ScreenGone
  <2>4. OneTerminal'
    BY <2>1, <2>3 DEF OneTerminal
  <2> QED
    BY <2>1, <2>3, <2>4 DEF ConnectionsPlaced
<1>f. CASE LeaveTerminal
  <2>1. /\ term' = NoTerm
        /\ holder' = ScreenGone
        /\ UNCHANGED attempts
    BY <1>f DEF LeaveTerminal
  <2>2. /\ holder' \in [Attempt -> {"none", "pty", "gone"}]
        /\ \A a \in Attempt : holder'[a] = "none" <=> holder[a] = "none"
    BY <1>t, <2>1 DEF ScreenGone
  <2>3. OneTerminal'
    BY <2>1, <2>2 DEF OneTerminal, NoTerm
  <2> QED
    BY <2>1, <2>2, <2>3 DEF ConnectionsPlaced
<1>g. CASE \/ \E purpose \in Purpose : OpenDialog(purpose)
           \/ \E d \in Dialog : CloseDialog(d)
           \/ LeavePage \/ connecting_fail \/ done \/ UNCHANGED vars
  BY <1>1, <1>g DEF OpenDialog, CloseDialog, LeavePage, connecting_fail, done, vars
<1> QED
  BY <1>2, <1>a, <1>b, <1>c, <1>d, <1>e, <1>f, <1>g DEF Next, User, GuiThread, Task

(* A connection is in a Screen exactly while that Screen is the terminal on  *)
(* display, however often and however late the signals arrive.               *)
THEOREM OnlyOneTerminal == Spec => []OneTerminal
<1>1. Init => ConnectionsPlaced
  BY DEF Init, ConnectionsPlaced, OneTerminal, NoTerm, Attempt
<1>2. ConnectionsPlaced /\ [Next]_vars => ConnectionsPlaced'
  BY ConnectionsStep
<1>3. ConnectionsPlaced => OneTerminal
  BY DEF ConnectionsPlaced
<1> QED
  BY <1>1, <1>2, <1>3, PTL DEF Spec

-------------------------------------------------------------------------------
(* The queues.                                                               *)

QueuesTyped ==
    /\ links \in Seq(Link)
    /\ events \in Seq(Event)

(* The calls answer a signal: one for each of its connections.               *)
Answers(added, signal, pty) ==
    \A i \in DOMAIN links : links[i].signal = signal =>
        \E j \in DOMAIN added : added[j].slot = links[i].slot /\ added[j].pty = pty

(* A signal adds calls of slots behind those already queued.                 *)
LEMMA Emitted ==
    ASSUME QueuesTyped, NEW signal, NEW pty \in Attempt \cup {None}, Emit(signal, pty)
    PROVE  \E added \in Seq(Event) : events' = events \o added /\ Answers(added, signal, pty)
<1> DEFINE kept == {i \in DOMAIN links : links[i].signal = signal}
           to == Kept(links, kept)
           added == [i \in DOMAIN to |->
                       [slot |-> to[i].slot, dialog |-> to[i].dialog, pty |-> pty]]
<1>1. events' = events \o added
  BY DEF Emit
<1>2. links \in Seq(Link)
  BY DEF QueuesTyped
<1>3. /\ to \in Seq(Link)
      /\ \A k \in kept \cap DOMAIN links : \E i \in DOMAIN to : to[i] = links[k]
  <2> HIDE DEF kept
  <2> QED
    BY <1>2, KeptElements
<1> HIDE DEF to
<1>4. \A i \in DOMAIN links : links[i].signal = signal =>
         \E j \in DOMAIN to : to[j] = links[i]
  BY <1>3
<1>5. DOMAIN to = 1 .. Len(to) /\ Len(to) \in Nat /\ \A i \in 1 .. Len(to) : to[i] \in Link
  BY <1>3
<1>6. added \in Seq(Event)
  <2>1. ASSUME NEW i \in 1 .. Len(to)
        PROVE  [slot |-> to[i].slot, dialog |-> to[i].dialog, pty |-> pty] \in Event
    BY <1>5 DEF Link, Event
  <2> QED
    BY <1>5, <2>1
<1>7. Answers(added, signal, pty)
  BY <1>4 DEF Answers
<1> QED
  BY <1>1, <1>6, <1>7

(* The inductive invariant of the types.                                     *)
Typed ==
    /\ TasksHold
    /\ QueuesTyped
    /\ holder \in [Attempt -> {"none", "pty", "screen", "gone"}]
    /\ term \in [pty : Attempt \cup {None}, live : BOOLEAN]
    /\ page \in BOOLEAN

(* The call at the head of the queue is of a known slot, and the others      *)
(* move up.                                                                  *)
LEMMA Handled ==
    ASSUME QueuesTyped, NEW slot, Handle(slot)
    PROVE  /\ Head(events) \in Event /\ Head(events).slot = slot
           /\ 1 \in DOMAIN events /\ Head(events) = events[1]
           /\ events' \in Seq(Event)
           /\ \A i \in DOMAIN events : i # 1 => i - 1 \in DOMAIN events' /\ events'[i - 1] = events[i]
  BY DEF QueuesTyped, Handle

(* What a dialog connects are links.                                         *)
LEMMA NewLinksTyped == ASSUME NEW d \in Dialog PROVE NewLinks(d) \in Seq(Link)
<1>1. \A signal \in {"open_term", "connecting_fail", "service_action_done"},
         slot \in {"open_term", "connecting_fail", "done"},
         e \in Dialog \cup {None} : LinkTo(signal, slot, e) \in Link
  BY DEF Link, LinkTo
<1> QED
  BY <1>1 DEF NewLinks

(* The types are preserved by every step.                                    *)
LEMMA TypedStep == ASSUME Typed, [Next]_vars PROVE Typed'
<1>0. /\ TasksHold /\ QueuesTyped
      /\ links \in Seq(Link) /\ events \in Seq(Event)
      /\ holder \in [Attempt -> {"none", "pty", "screen", "gone"}]
      /\ term \in [pty : Attempt \cup {None}, live : BOOLEAN]
      /\ page \in BOOLEAN
  BY DEF Typed, QueuesTyped
<1>t. TasksHold'
  BY <1>0, TasksStep
<1>h. ScreenGone \in [Attempt -> {"none", "pty", "screen", "gone"}]
  BY <1>0 DEF ScreenGone
(* Signals only add to the queue.                                            *)
<1>e. ASSUME NEW signal, NEW pty \in Attempt \cup {None}, Emit(signal, pty)
      PROVE  events' \in Seq(Event)
  <2>1. PICK added \in Seq(Event) : events' = events \o added
    BY <1>0, <1>e, Emitted
  <2> QED
    BY <1>0, <2>1
<1>n. None \in Attempt \cup {None}
  OBVIOUS
<1>1. ASSUME NEW d \in Dialog, LoginClicked(d) PROVE Typed'
  <2>1. links' = links \o NewLinks(d) /\ UNCHANGED <<events, holder, term, page>>
    BY <1>1 DEF LoginClicked
  <2>2. links' \in Seq(Link)
    BY <1>0, <2>1, NewLinksTyped
  <2> QED
    BY <1>0, <1>t, <2>1, <2>2 DEF Typed, QueuesTyped
<1>2. CASE LeavePage
  <2>1. /\ links' = Kept(links, {i \in DOMAIN links : links[i].slot # "open_term"})
        /\ events' = Kept(events, {i \in DOMAIN events : events[i].slot # "open_term"})
        /\ page' = FALSE
        /\ UNCHANGED <<holder, term>>
    BY <1>2 DEF LeavePage
  <2>2. links' \in Seq(Link)
    BY <1>0, <2>1, KeptElements
  <2>3. events' \in Seq(Event)
    BY <1>0, <2>1, KeptElements
  <2> QED
    BY <1>0, <1>t, <2>1, <2>2, <2>3 DEF Typed, QueuesTyped
<1>3. ASSUME NEW a \in Attempt, HandOver(a) PROVE Typed'
  <2>1. /\ holder' = [holder EXCEPT ![a] = "pty"]
        /\ Emit("open_term", a)
        /\ UNCHANGED <<links, term, page>>
    BY <1>3 DEF HandOver
  <2>2. events' \in Seq(Event)
    BY <1>e, <2>1
  <2> QED
    BY <1>0, <1>t, <2>1, <2>2 DEF Typed, QueuesTyped
<1>4. ASSUME NEW a \in Attempt, StepFails(a) PROVE Typed'
  <2>1. Emit("connecting_fail", None) /\ UNCHANGED <<links, holder, term, page>>
    BY <1>4 DEF StepFails, Reports
  <2>2. events' \in Seq(Event)
    BY <1>e, <1>n, <2>1
  <2> QED
    BY <1>0, <1>t, <2>1, <2>2 DEF Typed, QueuesTyped
<1>5. ASSUME NEW a \in Attempt, NEW reply \in Replies, network_post(a, reply) PROVE Typed'
  <2>1. /\ \/ Emit("service_action_done", None)
           \/ Emit("connecting_fail", None)
           \/ UNCHANGED events
        /\ UNCHANGED <<links, holder, term, page>>
    BY <1>5 DEF network_post
  <2>2. events' \in Seq(Event)
    BY <1>0, <1>e, <1>n, <2>1
  <2> QED
    BY <1>0, <1>t, <2>1, <2>2 DEF Typed, QueuesTyped
<1>6. CASE open_term
  <2> DEFINE pty == Head(events).pty
  <2>1. /\ Handle("open_term")
        /\ term' = [pty |-> pty, live |-> holder[pty] = "pty"]
        /\ holder' = Moved(pty)
        /\ UNCHANGED <<links, page>>
    BY <1>6 DEF open_term
  <2>2. events' \in Seq(Event) /\ pty \in Attempt \cup {None}
    BY <1>0, <2>1, Handled DEF Event
  <2> HIDE DEF pty
  <2>3. holder' \in [Attempt -> {"none", "pty", "screen", "gone"}]
    BY <1>h, <2>1 DEF Moved
  <2>4. term' \in [pty : Attempt \cup {None}, live : BOOLEAN]
    BY <2>1, <2>2
  <2> QED
    BY <1>0, <1>t, <2>1, <2>2, <2>3, <2>4 DEF Typed, QueuesTyped
<1>7. CASE connecting_fail \/ done
  <2>1. PICK slot : Handle(slot)
    BY <1>7 DEF connecting_fail, done
  <2>2. UNCHANGED <<links, holder, term, page>>
    BY <1>7 DEF connecting_fail, done
  <2>3. events' \in Seq(Event)
    BY <1>0, <2>1, Handled
  <2> QED
    BY <1>0, <1>t, <2>2, <2>3 DEF Typed, QueuesTyped
<1>8. CASE LeaveTerminal
  <2>1. holder' = ScreenGone /\ term' = NoTerm /\ UNCHANGED <<links, events, page>>
    BY <1>8 DEF LeaveTerminal
  <2> QED
    BY <1>0, <1>h, <1>t, <2>1 DEF Typed, QueuesTyped, NoTerm
<1>9. CASE \/ \E purpose \in Purpose : OpenDialog(purpose)
           \/ \E d \in Dialog : CloseDialog(d)
           \/ \E a \in Attempt : StepSucceeds(a)
           \/ UNCHANGED vars
  <2>1. UNCHANGED <<links, events, holder, term, page>>
    BY <1>9 DEF OpenDialog, CloseDialog, StepSucceeds, vars
  <2> QED
    BY <1>0, <1>t, <2>1 DEF Typed, QueuesTyped
<1> QED
  BY <1>1, <1>2, <1>3, <1>4, <1>5, <1>6, <1>7, <1>8, <1>9 DEF Next, User, GuiThread, Task

(* They hold before a button was pressed.                                    *)
LEMMA TypedInit == Init => Typed
<1> SUFFICES ASSUME Init PROVE Typed
  OBVIOUS
<1>1. TasksHold
  BY DEF Init, TasksHold
<1> QED
  BY <1>1 DEF Init, Typed, QueuesTyped, NoTerm

(* The tasks, the signals' connections and the queued calls refer to dialogs *)
(* and logins that exist, and libssh is never beyond the last call of        *)
(* open_term.                                                                *)
THEOREM TypesHold == Spec => []TypeOK
<1>1. Typed => TypeOK
  <2> SUFFICES ASSUME Typed PROVE TypeOK
    OBVIOUS
  <2>1. /\ dialogs \in Seq(DialogRecord) /\ attempts \in Seq(AttemptRecord)
        /\ \A a \in DOMAIN attempts : attempts[a].dialog \in DOMAIN dialogs
    BY DEF Typed, TasksHold
  <2> DEFINE R == [dialog : 1 .. Len(dialogs), step : 0 .. Len(Steps), held : SUBSET Resource]
  <2>2. ASSUME NEW a \in DOMAIN attempts PROVE attempts[a] \in R
    <3>1. attempts[a] \in AttemptRecord /\ attempts[a].dialog \in 1 .. Len(dialogs)
      BY <2>1
    <3> QED
      BY <3>1, FiveSteps DEF AttemptRecord
  <2> HIDE DEF R
  <2>3. attempts \in Seq(R)
    BY <2>1, <2>2
  <2> QED
    BY <2>1, <2>3 DEF R, Typed, QueuesTyped, TypeOK, DialogRecord
<1> QED
  BY <1>1, TypedInit, TypedStep, PTL DEF Spec

(* The inductive invariant of the connections handed over: while the page    *)
(* exists, the call of open_term for each is queued, and each login still    *)
(* under way has the connection that will queue it.                          *)
Claimed ==
    /\ ConnectionClaimed
    /\ page => \A a \in DOMAIN attempts : PurposeOf(a) = "terminal" =>
                  \E i \in DOMAIN links : links[i].signal = "open_term" /\ links[i].slot = "open_term"

(* No step takes a dialog away or changes what it was opened for.            *)
LEMMA DialogsStay ==
    ASSUME TasksHold, [Next]_vars
    PROVE  /\ dialogs' \in Seq(DialogRecord)
           /\ Len(dialogs') >= Len(dialogs)
           /\ \A d \in DOMAIN dialogs : dialogs'[d].purpose = dialogs[d].purpose
<1>1. dialogs \in Seq(DialogRecord) /\ Len(dialogs) \in Nat
  BY DEF TasksHold
<1>2. ASSUME NEW purpose \in Purpose, OpenDialog(purpose)
      PROVE  /\ dialogs' \in Seq(DialogRecord)
             /\ Len(dialogs') >= Len(dialogs)
             /\ \A d \in DOMAIN dialogs : dialogs'[d].purpose = dialogs[d].purpose
  <2> DEFINE x == [purpose |-> purpose, state |-> "form"]
  <2>1. x \in DialogRecord
    BY DEF DialogRecord
  <2>2. dialogs' = Append(dialogs, x)
    BY <1>2 DEF OpenDialog
  <2> HIDE DEF x
  <2> QED
    BY <1>1, <2>1, <2>2
<1>3. CASE UNCHANGED dialogs
  BY <1>1, <1>3
<1>4. ASSUME NEW d, NEW state \in {"form", "busy", "closed"},
             dialogs' = [dialogs EXCEPT ![d].state = state]
      PROVE  /\ dialogs' \in Seq(DialogRecord)
             /\ Len(dialogs') >= Len(dialogs)
             /\ \A e \in DOMAIN dialogs : dialogs'[e].purpose = dialogs[e].purpose
  BY <1>1, <1>4, DialogTurns
<1> QED
  <2>1. CASE \E d \in Dialog : CloseDialog(d) \/ LoginClicked(d)
    BY <1>4, <2>1 DEF CloseDialog, LoginClicked
  <2>2. CASE connecting_fail \/ done
    BY <1>3, <1>4, <2>2 DEF connecting_fail, done
  <2>3. CASE \/ \E a \in Attempt : Task(a)
             \/ open_term \/ LeaveTerminal \/ LeavePage \/ UNCHANGED vars
    <3>1. UNCHANGED dialogs
      BY <2>3 DEF Task, StepSucceeds, HandOver, StepFails, network_post, open_term, LeaveTerminal,
                  LeavePage, vars
    <3> QED
      BY <1>3, <3>1
  <2> QED
    BY <1>2, <2>1, <2>2, <2>3 DEF Next, User, GuiThread

(* The next step of a task keeps the dialogs of the logins.                  *)
LEMMA DialogOfStays ==
    ASSUME TasksHold, NEW a, NEW step, NEW held, Proceed(a, step, held)
    PROVE  DOMAIN attempts' = DOMAIN attempts
           /\ \A b \in DOMAIN attempts : attempts'[b].dialog = attempts[b].dialog
  BY DEF Proceed, TasksHold

(* The first of a sequence comes behind the sequence it is joined to.        *)
LEMMA FirstJoined ==
    ASSUME NEW S, NEW old \in Seq(S), NEW more \in Seq(S), Len(more) = 3
    PROVE  (old \o more)[Len(old) + 1] = more[1] /\ Len(old) + 1 \in DOMAIN (old \o more)
<1>1. PICK n \in Nat : n = Len(old)
  OBVIOUS
<1>2. n + 1 \in 1 .. n + 3 /\ (n + 1) - n = 1 /\ ~(n + 1 <= n)
  OBVIOUS
<1>3. /\ old \o more \in Seq(S) /\ Len(old \o more) = Len(old) + Len(more)
      /\ \A i \in 1 .. Len(old) + Len(more) :
           (old \o more)[i] = IF i <= Len(old) THEN old[i] ELSE more[i - Len(old)]
  BY ConcatProperties, Zenon
<1>4. PICK all \in Seq(S) : all = old \o more
  BY <1>3, Zenon
<1>5. Len(all) = n + 3 /\ \A i \in 1 .. n + 3 : all[i] = IF i <= n THEN old[i] ELSE more[i - n]
  BY <1>1, <1>3, <1>4, Zenon
<1>6. DOMAIN all = 1 .. n + 3
  BY <1>5
<1>7. all[n + 1] = more[1]
  BY <1>2, <1>5, Zenon
<1> QED
  BY <1>1, <1>2, <1>4, <1>6, <1>7, Zenon

(* Every connection keeps someone who will close or show it.                 *)
LEMMA ClaimedStep == ASSUME Typed, Typed', Claimed, [Next]_vars PROVE Claimed'
<1>0. /\ TasksHold /\ QueuesTyped
      /\ attempts \in Seq(AttemptRecord) /\ dialogs \in Seq(DialogRecord)
      /\ links \in Seq(Link) /\ events \in Seq(Event)
      /\ holder \in [Attempt -> {"none", "pty", "screen", "gone"}]
      /\ \A a \in DOMAIN attempts : attempts[a].dialog \in DOMAIN dialogs
  BY DEF Typed, QueuesTyped, TasksHold
<1>d. \A a \in DOMAIN attempts :
         attempts'[a].dialog = attempts[a].dialog => PurposeOf(a)' = PurposeOf(a)
  BY <1>0, DialogsStay DEF PurposeOf
<1>p. CASE page' = FALSE
  BY <1>p DEF Claimed, ConnectionClaimed
(* No new login, no connection lost or handed over.                          *)
<1>q. ASSUME page' = page, \A a \in Attempt : holder'[a] = "pty" => holder[a] = "pty",
             UNCHANGED links, DOMAIN attempts' = DOMAIN attempts,
             \A a \in DOMAIN attempts : attempts'[a].dialog = attempts[a].dialog,
             \A i \in DOMAIN events : \E j \in DOMAIN events' : events'[j] = events[i]
      PROVE  Claimed'
  <2>1. \A a \in DOMAIN attempts : PurposeOf(a)' = PurposeOf(a)
    BY <1>d, <1>q
  <2>2. (page => \A a \in DOMAIN attempts : PurposeOf(a) = "terminal" =>
             \E i \in DOMAIN links : links[i].signal = "open_term" /\ links[i].slot = "open_term")'
    BY <1>q, <2>1 DEF Claimed
  <2>3. ConnectionClaimed'
    BY <1>q DEF Claimed, ConnectionClaimed
  <2> QED
    BY <2>2, <2>3 DEF Claimed
(* Signals only add to the queue.                                            *)
<1>e. ASSUME NEW signal, NEW pty \in Attempt \cup {None}, Emit(signal, pty)
      PROVE  \A i \in DOMAIN events : \E j \in DOMAIN events' : events'[j] = events[i]
  <2>1. PICK added \in Seq(Event) : events' = events \o added
    BY <1>0, <1>e, Emitted
  <2>2. \A i \in DOMAIN events : i \in DOMAIN events' /\ events'[i] = events[i]
    BY <1>0, <2>1
  <2> QED
    BY <2>2
<1>n. None \in Attempt \cup {None}
  OBVIOUS
<1>1. ASSUME NEW d \in Dialog, LoginClicked(d) PROVE Claimed'
  <2>1. /\ links' = links \o NewLinks(d)
        /\ attempts' = Append(attempts, [dialog |-> d, step |-> 1, held |-> {}])
        /\ d \in DOMAIN dialogs
        /\ UNCHANGED <<events, holder, page>>
    BY <1>1 DEF LoginClicked
  <2>2. ConnectionClaimed'
    BY <2>1 DEF Claimed, ConnectionClaimed
  <2>3. \A i \in DOMAIN links : i \in DOMAIN links' /\ links'[i] = links[i]
    BY <1>0, <2>1, NewLinksTyped
  <2>4. \A a \in DOMAIN attempts : attempts'[a] = attempts[a]
    BY <1>0, <2>1
  <2>5. \A a \in DOMAIN attempts' : a \in DOMAIN attempts \/ a = Len(attempts) + 1
    BY <1>0, <2>1
  <2>6. dialogs[d].purpose = "terminal" =>
           \E i \in DOMAIN links' : links'[i].signal = "open_term" /\ links'[i].slot = "open_term"
    <3> SUFFICES ASSUME dialogs[d].purpose = "terminal"
                 PROVE  \E i \in DOMAIN links' : links'[i].signal = "open_term" /\ links'[i].slot = "open_term"
      OBVIOUS
    <3>1. NewLinks(d) \in Seq(Link) /\ Len(NewLinks(d)) = 3 /\ NewLinks(d)[1] = LinkTo("open_term", "open_term", None)
      BY NewLinksTyped DEF NewLinks
    <3>2. links' = links \o NewLinks(d) /\ links \in Seq(Link)
      BY <1>0, <2>1
    <3>3. links'[Len(links) + 1] = NewLinks(d)[1] /\ Len(links) + 1 \in DOMAIN links'
      <4>1. PICK more \in Seq(Link) : more = NewLinks(d) /\ Len(more) = 3
        BY <3>1
      <4>2. PICK old \in Seq(Link) : old = links /\ links' = old \o more
        BY <3>2, <4>1
      <4>3. (old \o more)[Len(old) + 1] = more[1] /\ Len(old) + 1 \in DOMAIN (old \o more)
        BY <4>1, FirstJoined
      <4> QED
        BY <4>1, <4>2, <4>3
    <3> QED
      BY <3>1, <3>3 DEF LinkTo
  <2>7. ASSUME NEW a, a = Len(attempts) + 1 PROVE PurposeOf(a)' = dialogs[d].purpose
    <3>1. attempts'[a].dialog = d
      BY <1>0, <2>1, <2>7
    <3>2. dialogs'[d].purpose = dialogs[d].purpose
      BY <1>0, <2>1, DialogsStay
    <3> QED
      BY <3>1, <3>2 DEF PurposeOf
  <2>8. (page => \A a \in DOMAIN attempts : PurposeOf(a) = "terminal" =>
             \E i \in DOMAIN links : links[i].signal = "open_term" /\ links[i].slot = "open_term")'
    <3> SUFFICES ASSUME page', NEW a \in DOMAIN attempts', PurposeOf(a)' = "terminal"
                 PROVE  \E i \in DOMAIN links' : links'[i].signal = "open_term" /\ links'[i].slot = "open_term"
      OBVIOUS
    <3>1. CASE a \in DOMAIN attempts
      <4>1. PurposeOf(a) = "terminal"
        BY <1>d, <2>4, <3>1
      <4>2. PICK i \in DOMAIN links : links[i].signal = "open_term" /\ links[i].slot = "open_term"
        BY <2>1, <3>1, <4>1 DEF Claimed
      <4> QED
        BY <2>3, <4>2
    <3>2. CASE a = Len(attempts) + 1
      BY <2>6, <2>7, <3>2
    <3> QED
      BY <2>5, <3>1, <3>2
  <2> QED
    BY <2>2, <2>8 DEF Claimed
<1>2. ASSUME NEW a \in Attempt, HandOver(a) PROVE Claimed'
  <2>1. /\ Connecting(a) /\ Proceed(a, Over, {})
        /\ holder' = [holder EXCEPT ![a] = "pty"]
        /\ Emit("open_term", a)
        /\ UNCHANGED <<links, page>>
    BY <1>2 DEF HandOver
  <2>2. a \in DOMAIN attempts /\ PurposeOf(a) = "terminal"
    BY <2>1 DEF Connecting
  <2>3. DOMAIN attempts' = DOMAIN attempts
        /\ \A b \in DOMAIN attempts : attempts'[b].dialog = attempts[b].dialog
    BY <1>0, <2>1, DialogOfStays
  <2>4. \A b \in DOMAIN attempts : PurposeOf(b)' = PurposeOf(b)
    BY <1>d, <2>3
  <2>5. PICK added \in Seq(Event) : events' = events \o added /\ Answers(added, "open_term", a)
    <3>1. a \in Attempt \cup {None}
      OBVIOUS
    <3> QED
      BY <1>0, <2>1, <3>1, Emitted
  <2>6. page => \E j \in DOMAIN added : added[j].slot = "open_term" /\ added[j].pty = a
    BY <2>2, <2>5 DEF Claimed, Answers
  <2>7. /\ \A i \in DOMAIN events : i \in DOMAIN events' /\ events'[i] = events[i]
        /\ \A j \in DOMAIN added : Len(events) + j \in DOMAIN events'
                                    /\ events'[Len(events) + j] = added[j]
    BY <1>0, <2>5
  <2>8. \A b \in Attempt : b # a => holder'[b] = holder[b]
    BY <1>0, <2>1
  <2>9. ConnectionClaimed'
    BY <2>1, <2>6, <2>7, <2>8 DEF Claimed, ConnectionClaimed
  <2> QED
    BY <2>1, <2>3, <2>4, <2>9 DEF Claimed
<1>3. ASSUME NEW a \in Attempt, StepSucceeds(a) \/ StepFails(a) \/ \E reply \in Replies : network_post(a, reply)
      PROVE  Claimed'
  <2>1. PICK step, held : Proceed(a, step, held)
    BY <1>3 DEF StepSucceeds, StepFails, network_post
  <2>2. DOMAIN attempts' = DOMAIN attempts
        /\ \A b \in DOMAIN attempts : attempts'[b].dialog = attempts[b].dialog
    BY <1>0, <2>1, DialogOfStays
  <2>3. UNCHANGED <<links, holder, page>>
    BY <1>3 DEF StepSucceeds, StepFails, network_post
  <2>4. UNCHANGED events \/ \E signal : Emit(signal, None)
    BY <1>3 DEF StepSucceeds, StepFails, Reports, network_post
  <2>5. \A i \in DOMAIN events : \E j \in DOMAIN events' : events'[j] = events[i]
    BY <1>e, <1>n, <2>4
  <2> QED
    BY <1>q, <2>2, <2>3, <2>5
<1>4. CASE open_term
  <2> DEFINE pty == Head(events).pty
  <2>1. /\ Handle("open_term")
        /\ holder' = Moved(pty)
        /\ UNCHANGED <<attempts, links, page>>
    BY <1>4 DEF open_term
  <2>2. /\ Head(events) = events[1]
        /\ \A i \in DOMAIN events : i # 1 => i - 1 \in DOMAIN events' /\ events'[i - 1] = events[i]
    BY <1>0, <2>1, Handled
  <2>3. ASSUME NEW a \in Attempt, holder'[a] = "pty" PROVE holder[a] = "pty" /\ a # pty
    <3>1. \A b \in Attempt : ScreenGone[b] = "pty" <=> holder[b] = "pty"
      BY <1>0 DEF ScreenGone
    <3>2. ScreenGone = [b \in Attempt |-> ScreenGone[b]]
      BY DEF ScreenGone
    <3> HIDE DEF pty
    <3> QED
      BY <2>1, <2>3, <3>1, <3>2 DEF Moved
  <2>4. ConnectionClaimed'
    <3> SUFFICES ASSUME page', NEW a \in Attempt, holder'[a] = "pty"
                 PROVE  \E i \in DOMAIN events' : events'[i].slot = "open_term" /\ events'[i].pty = a
      BY DEF ConnectionClaimed
    <3>1. PICK i \in DOMAIN events : events[i].slot = "open_term" /\ events[i].pty = a
      BY <2>1, <2>3 DEF Claimed, ConnectionClaimed
    <3> QED
      BY <2>2, <2>3, <3>1
  <2>5. \A a \in DOMAIN attempts : PurposeOf(a)' = PurposeOf(a)
    BY <1>d, <2>1
  <2> QED
    BY <2>1, <2>4, <2>5 DEF Claimed
<1>5. CASE connecting_fail \/ done
  <2>1. PICK slot : slot # "open_term" /\ Handle(slot)
    BY <1>5 DEF connecting_fail, done
  <2>2. UNCHANGED <<attempts, links, holder, page>>
    BY <1>5 DEF connecting_fail, done
  <2>3. /\ events[1].slot # "open_term"
        /\ \A i \in DOMAIN events : i # 1 => i - 1 \in DOMAIN events' /\ events'[i - 1] = events[i]
    BY <1>0, <2>1, Handled
  <2>4. ConnectionClaimed'
    <3> SUFFICES ASSUME page', NEW a \in Attempt, holder'[a] = "pty"
                 PROVE  \E i \in DOMAIN events' : events'[i].slot = "open_term" /\ events'[i].pty = a
      BY DEF ConnectionClaimed
    <3>1. PICK i \in DOMAIN events : events[i].slot = "open_term" /\ events[i].pty = a
      BY <2>2 DEF Claimed, ConnectionClaimed
    <3> QED
      BY <2>3, <3>1
  <2>5. \A a \in DOMAIN attempts : PurposeOf(a)' = PurposeOf(a)
    BY <1>d, <2>2
  <2> QED
    BY <2>2, <2>4, <2>5 DEF Claimed
<1>6. CASE LeavePage
  BY <1>6, <1>p DEF LeavePage
<1>7. CASE LeaveTerminal
  <2>1. holder' = ScreenGone /\ UNCHANGED <<attempts, links, events, page>>
    BY <1>7 DEF LeaveTerminal
  <2>2. \A a \in Attempt : holder'[a] = "pty" => holder[a] = "pty"
    BY <1>0, <2>1 DEF ScreenGone
  <2> QED
    BY <1>q, <2>1, <2>2
<1>8. CASE \/ \E purpose \in Purpose : OpenDialog(purpose)
           \/ \E d \in Dialog : CloseDialog(d)
           \/ UNCHANGED vars
  <2>1. UNCHANGED <<attempts, links, events, holder, page>>
    BY <1>8 DEF OpenDialog, CloseDialog, vars
  <2> QED
    BY <1>q, <2>1
<1> QED
  BY <1>1, <1>2, <1>3, <1>4, <1>5, <1>6, <1>7, <1>8 DEF Next, User, GuiThread, Task

(* While the page exists, a connection that still sits in its Pty has a call *)
(* of open_term on its way, however many logins overlap: the connection of   *)
(* the signal outlives every dialog.                                         *)
THEOREM EveryConnectionClaimed == Spec => []ConnectionClaimed
<1>1. Init => Claimed
  BY DEF Init, Claimed, ConnectionClaimed
<1>2. Typed /\ Typed' /\ Claimed /\ [Next]_vars => Claimed'
  BY ClaimedStep
<1>3. Claimed => ConnectionClaimed
  BY DEF Claimed
<1> QED
  BY <1>1, <1>2, <1>3, TypedInit, TypedStep, PTL DEF Spec
===============================================================================
