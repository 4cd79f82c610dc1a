--------------------------- MODULE SendFlowProofs ---------------------------
(***************************************************************************)
(* Theorems about SendFlow, for any accounts and payees and any number of  *)
(* requests under way.                                                     *)
(***************************************************************************)
EXTENDS SendFlow, SequenceTheorems, TLAPS

\* The screens Esc leads through, from the wallet list down.
Floor(n) == IF n = 1 THEN "Wallets" ELSE IF n = 2 THEN "Chains" ELSE "Assets"

\* How many of them are under a screen.
Depths(s) == CASE s = "Wallets"               -> {0}
               [] s \in {"Chains", "Settings"} -> {1}
               [] s = "Assets"                -> {2}
               [] s \in {"Send", "History"}   -> {3}
               [] s \in {"Gate", "Words"}     -> {1, 2}

Stacked == session => /\ Len(nav) \in Depths(screen)
                      /\ \A n \in 1..Len(nav) : nav[n] = Floor(n)

\* Screens, session and transfer go together.
Shell == /\ screen \in Outer \cup Inner
         /\ nav \in Seq(Inner)
         /\ session \in BOOLEAN
         /\ session <=> screen \in Inner
         /\ (send # None) <=> (screen = "Send")
         /\ send \in Sends \cup {None}
         /\ Stacked

\* What a record of a transfer keeps of its types when fields are given new values.
LEMMA SendsType ==
    ASSUME NEW s \in Sends
    PROVE  /\ s # None /\ s.from \in Accounts /\ s.to \in Payees \cup {None}
           /\ s.req \in Requests \cup {None} /\ s.params \in Params \cup {None}
           /\ s.step \in Steps
  BY NoneAssumption DEF Sends

\* A key on the transfer screen, and whatever else leaves the shell as it is.
LEMMA ShellKept ==
    Shell /\ UNCHANGED <<screen, nav, session>> /\ send' \in Sends \cup {None}
        /\ (send' # None <=> send # None) => Shell'
  BY DEF Shell, Stacked

\* A screen that is opened over another.
LEMMA ShellPushed ==
    ASSUME Shell, screen \in {"Wallets", "Chains", "Assets"}, NEW s \in Inner \ {"Send"},
           Push(s), UNCHANGED session, send' = None,
           \A n \in Depths(screen) : n + 1 \in Depths(s) /\ Floor(n + 1) = screen
    PROVE  Shell'
<1>1. session /\ nav \in Seq(Inner) /\ screen \in Inner
  BY DEF Shell, Inner
<1>2. /\ nav' \in Seq(Inner) /\ Len(nav') = Len(nav) + 1
      /\ nav'[Len(nav) + 1] = screen
      /\ \A n \in 1..Len(nav) : nav'[n] = nav[n]
  BY <1>1 DEF Push
<1>3. Len(nav) \in Depths(screen) /\ Len(nav) \in Nat
  BY <1>1 DEF Shell, Stacked
<1>4. Stacked'
  BY <1>1, <1>2, <1>3 DEF Shell, Stacked, Push
<1> QED
  BY <1>1, <1>2, <1>4 DEF Shell, Push, Inner, Outer

LEMMA ShellPopped ==
    ASSUME Shell, Pop, screen \in Inner \ {"Wallets"}
    PROVE  Shell'
<1>1. session /\ nav \in Seq(Inner) /\ nav # <<>>
  BY DEF Shell, Pop
<1>2. /\ nav' \in Seq(Inner) /\ Len(nav') = Len(nav) - 1
      /\ \A n \in 1..Len(nav') : nav'[n] = nav[n]
      /\ nav[Len(nav)] \in Inner /\ Len(nav) \in Nat \ {0}
  <2>1. Len(nav) \in Nat \ {0} /\ \A n \in 1..Len(nav) : nav[n] \in Inner
    BY <1>1
  <2>2. PICK k \in Nat : k = Len(nav) - 1
    BY <2>1
  <2>3. 1 \in Int /\ k \in Int /\ \A n \in 1..k : nav[n] \in Inner
    BY <2>1, <2>2
  <2>4. nav' = SubSeq(nav, 1, k)
    BY <2>2 DEF Pop
  <2>5. /\ nav' \in Seq(Inner)
        /\ Len(nav') = IF 1 <= k THEN k - 1 + 1 ELSE 0
        /\ \A n \in 1..k - 1 + 1 : nav'[n] = nav[1 + n - 1]
    BY <2>3, <2>4, SubSeqProperties
  <2>6. Len(nav') = k /\ \A n \in 1..k : nav'[n] = nav[n]
    BY <2>5
  <2> QED
    BY <2>1, <2>2, <2>5, <2>6
<1>3. Len(nav) \in 1..3 /\ screen' = Floor(Len(nav))
  BY <1>1, <1>2 DEF Shell, Stacked, Depths, Inner, Pop
<1>4. /\ screen' \in Inner \ {"Send"} /\ Len(nav) - 1 \in Depths(screen')
      /\ session' = session /\ send' = None
  <2>1. CASE Len(nav) = 1
    BY <1>3, <2>1 DEF Floor, Depths, Inner, Pop, Leave
  <2>2. CASE Len(nav) = 2
    BY <1>3, <2>2 DEF Floor, Depths, Inner, Pop, Leave
  <2>3. CASE Len(nav) = 3
    BY <1>3, <2>3 DEF Floor, Depths, Inner, Pop, Leave
  <2> QED
    BY <1>3, <2>1, <2>2, <2>3
<1>5. Stacked'
  BY <1>1, <1>2, <1>4 DEF Shell, Stacked
<1>6. screen' # "Send" /\ screen' \in Outer \cup Inner
  BY <1>4
<1> QED
  BY <1>1, <1>2, <1>4, <1>5, <1>6 DEF Shell

---------------------------------------------------------------------------
(* Types, and what a step of the transfer leaves in the screen.            *)

\* What a task is about goes with its kind.
Fitting(task) ==
    /\ task \in Tasks
    /\ task.kind \in {"Quoted", "Authorized", "Blockhash", "Broadcast"} => task.about \in Requests
    /\ task.kind \in {"Balances", "History"} => task.about \in Accounts

Tasked == \A i \in ReqIds : pending[i] # None => Fitting(pending[i])

\* The screens of an account have one.
Placed == screen \in {"Assets", "Send", "History"} => account \in Accounts

\* What is reviewed, or further, is a request with its parameters.
Reviewed == send # None /\ send.step \in {"Review", "Authorize", "Broadcasting"} =>
              send.req \in Requests /\ send.params \in Params

LEMMA NextReqType == Unused # {} => next_req \in Unused /\ next_req \in ReqIds
  BY DEF Unused, next_req

LEMMA BuiltType ==
    ASSUME NEW s \in Sends, send = s, Filled
    PROVE  Built \in Requests
  BY SendsType, NoneAssumption DEF Filled, Built, Requests, Sends

LEMMA SignedType ==
    ASSUME NEW i \in ReqIds, NEW s \in Sends, FinishSigning(i, s),
           s.req \in Requests, s.params \in Params
    PROVE  /\ send' \in Sends /\ send'.req = s.req /\ send'.params = s.params
           /\ send'.step \in {"Broadcasting", "Failed"}
  BY DEF FinishSigning, FailSend, Sends, Steps

\* The steps of the transfer keep the screen and leave a transfer behind.
LEMMA TransferKeeps ==
    ASSUME TypeOK, Tasked, Reviewed,
           \/ \E p \in Payees : TypePayee(p) \/ Confirm(p)
           \/ ToAmount \/ TypeAmount \/ ToRecipient \/ RequestQuote
           \/ \E right \in BOOLEAN : EnterPassword(right)
           \/ Expire
           \/ \E i \in ReqIds : OnQuoted(i) \/ OnAuthorized(i) \/ OnBlockhash(i) \/ OnBroadcast(i)
    PROVE  /\ UNCHANGED <<shell, balances, balancesReq, history, deriving>>
           /\ send' \in Sends \cup {None} /\ (send' # None <=> send # None)
           /\ Reviewed'
<1> USE DEF OnSendScreen
<1> DEFINE Goal == /\ UNCHANGED <<shell, balances, balancesReq, history, deriving>>
                   /\ send' \in Sends \cup {None} /\ (send' # None <=> send # None)
                   /\ Reviewed'
<1>0. /\ send \in Sends \cup {None} /\ pending \in [ReqIds -> Tasks \cup {None}]
      /\ \A x \in Sends : x # None
  BY NoneAssumption DEF TypeOK
<1>1. ASSUME NEW p \in Payees, TypePayee(p) PROVE Goal
  BY <1>0, <1>1 DEF TypePayee, Step, Sends, Steps, Reviewed
<1>2. ASSUME NEW p \in Payees, Confirm(p) PROVE Goal
  <2>1. [from |-> send.from, to |-> p] \in Requests
    BY <1>0, <1>2 DEF Confirm, Step, Sends, Requests
  <2> QED
    BY <1>0, <1>2, <2>1 DEF Confirm, Step, Sends, Steps, Reviewed
<1>3. CASE ToAmount \/ TypeAmount \/ ToRecipient \/ RequestQuote
  <2>1. CASE ToAmount
    BY <1>0, <2>1 DEF ToAmount, Step, Sends, Steps, Reviewed
  <2>2. CASE TypeAmount
    BY <1>0, <2>2 DEF TypeAmount, Step, Sends, Steps, Reviewed
  <2>3. CASE ToRecipient
    BY <1>0, <2>3 DEF ToRecipient, Step, Sends, Steps, Reviewed
  <2>4. CASE RequestQuote
    BY <1>0, <2>4 DEF RequestQuote, Step, Sends, Steps, Reviewed
  <2> QED
    BY <1>3, <2>1, <2>2, <2>3, <2>4
<1>4. ASSUME NEW right \in BOOLEAN, EnterPassword(right) PROVE Goal
  BY <1>0, <1>4 DEF EnterPassword, Step, Sends, Steps, Reviewed
<1>5. CASE Expire
  <2>1. send.params \in Params /\ [send.params EXCEPT !.fresh = FALSE] \in Params
    BY <1>5 DEF Expire, Step, Reviewed, Params
  <2> QED
    BY <1>0, <1>5, <2>1 DEF Expire, Step, Sends, Steps, Reviewed
<1>6. ASSUME NEW i \in ReqIds, OnQuoted(i) PROVE Goal
  <2>1. pending[i].about \in Requests
    BY <1>6 DEF OnQuoted, Tasked, Fitting
  <2>2. [about |-> pending[i].about, fresh |-> TRUE] \in Params
    BY <2>1 DEF Params
  <2>3. Filled /\ send # None => Built \in Requests
    BY <1>0, BuiltType
  <2>4. UNCHANGED <<shell, balances, balancesReq, history, deriving>>
    BY <1>6 DEF OnQuoted
  <2>5. CASE send' = send
    BY <1>0, <2>4, <2>5 DEF Reviewed
  <2>6. CASE send # None /\ send' = [send EXCEPT !.step = "Failed"]
    BY <1>0, <2>4, <2>6 DEF Sends, Steps, Reviewed
  <2>7. ASSUME NEW pays \in BOOLEAN, send # None, Filled,
               send' = [send EXCEPT !.step = "Review", !.req = Built, !.payable = pays,
                                    !.params = [about |-> pending[i].about, fresh |-> TRUE]]
        PROVE  Goal
    BY <1>0, <2>2, <2>3, <2>4, <2>7 DEF Sends, Steps, Reviewed
  <2> QED
    BY <1>6, <2>5, <2>6, <2>7 DEF OnQuoted
<1>7. ASSUME NEW i \in ReqIds, OnAuthorized(i) PROVE Goal
  <2>1. pending[i].about \in Requests
    BY <1>7 DEF OnAuthorized, Tasked, Fitting
  <2> DEFINE s == [send EXCEPT !.proven = pending[i].about]
  <2>2. send # None => s \in Sends /\ s.req = send.req /\ s.params = send.params /\ s.step = send.step
    BY <1>0, <2>1 DEF Sends
  <2>3. CASE inflight = i /\ pending[i].right /\ Step("Authorize")
    <3>1. SignOrFetch(i, s)
      BY <1>7, <2>3 DEF OnAuthorized
    <3>2. s.req \in Requests /\ s.params \in Params
      BY <2>2, <2>3 DEF Step, Reviewed
    <3> HIDE DEF s
    <3>3. send' = s \/ FinishSigning(i, s)
      BY <3>1 DEF SignOrFetch
    <3>4. send' \in Sends /\ send'.req \in Requests /\ send'.params \in Params
      BY <2>2, <2>3, <3>2, <3>3, SignedType DEF Step
    <3> QED
      BY <1>0, <1>7, <2>3, <3>4 DEF OnAuthorized, Step, Reviewed
  <2>4. CASE ~(inflight = i /\ pending[i].right /\ Step("Authorize"))
    <3>1. UNCHANGED <<shell, balances, balancesReq, history, deriving>>
      BY <1>7 DEF OnAuthorized
    <3>2. CASE send' = send
      BY <1>0, <3>1, <3>2 DEF Reviewed
    <3>3. CASE send # None /\ send' = FailSend(send)
      BY <1>0, <3>1, <3>3 DEF FailSend, Sends, Steps, Reviewed
    <3>4. CASE send # None /\ send' = [send EXCEPT !.checking = FALSE]
      <4>1. /\ send' \in Sends /\ send'.step = send.step
            /\ send'.req = send.req /\ send'.params = send.params
        BY <1>0, <3>4 DEF Sends
      <4> QED
        BY <1>0, <3>1, <3>4, <4>1 DEF Reviewed
    <3> QED
      BY <1>7, <2>4, <3>2, <3>3, <3>4 DEF OnAuthorized
  <2> QED
    BY <2>3, <2>4
<1>8. ASSUME NEW i \in ReqIds, OnBlockhash(i) PROVE Goal
  <2> DEFINE s == [send EXCEPT !.params.fresh = TRUE]
  <2>1. CASE Step("Authorize") /\ FinishSigning(i, s)
    <3>1. send.params \in Params /\ [send.params EXCEPT !.fresh = TRUE] \in Params
      BY <2>1 DEF Step, Reviewed, Params
    <3>2. s \in Sends /\ s.req \in Requests /\ s.params \in Params
      BY <1>0, <2>1, <3>1 DEF Step, Sends, Reviewed
    <3> HIDE DEF s
    <3>3. send' \in Sends /\ send'.req \in Requests /\ send'.params \in Params
      BY <2>1, <3>2, SignedType
    <3> QED
      BY <1>0, <1>8, <2>1, <3>3 DEF OnBlockhash, Step, Reviewed
  <2>2. CASE send' = IF inflight # i \/ send = None THEN send ELSE FailSend(send)
    BY <1>0, <1>8, <2>2 DEF OnBlockhash, FailSend, Sends, Steps, Reviewed
  <2> QED
    BY <1>8, <2>1, <2>2 DEF OnBlockhash
<1>9. ASSUME NEW i \in ReqIds, OnBroadcast(i) PROVE Goal
  BY <1>0, <1>9 DEF OnBroadcast, FailSend, Sends, Steps, Reviewed
<1> QED
  BY <1>1, <1>2, <1>3, <1>4, <1>5, <1>6, <1>7, <1>8, <1>9

---------------------------------------------------------------------------
(* The requests under way.                                                 *)

Booked == /\ pending \in [ReqIds -> Tasks \cup {None}]
          /\ {balancesReq, inflight, deriving} \subseteq ReqIds \cup {None}
          /\ mine \subseteq {i \in ReqIds : pending[i] # None}
          /\ Tasked

LEMMA Spawned ==
    ASSUME Booked, NEW t, Fitting(t), Spawn(t)
    PROVE  /\ next_req \in ReqIds /\ next_req \notin {inflight, balancesReq, deriving}
           /\ next_req \notin mine
           /\ pending' \in [ReqIds -> Tasks \cup {None}]
           /\ pending'[next_req] = t /\ t # None
           /\ \A j \in ReqIds \ {next_req} : pending'[j] = pending[j]
           /\ Tasked'
<1>1. next_req \in ReqIds /\ pending[next_req] = None /\ next_req \notin {inflight, balancesReq, deriving}
  BY NextReqType DEF Spawn, Unused
<1>2. t \in Tasks /\ t # None
  BY NoneAssumption DEF Fitting
<1> HIDE DEF next_req
<1> QED
  BY <1>1, <1>2 DEF Spawn, Booked, Tasked

LEMMA Ended ==
    ASSUME Booked, NEW i \in ReqIds, Handled(i)
    PROVE  /\ pending' \in [ReqIds -> Tasks \cup {None}]
           /\ pending'[i] = None /\ \A j \in ReqIds \ {i} : pending'[j] = pending[j]
           /\ mine \ {i} \subseteq {j \in ReqIds : pending'[j] # None}
           /\ Tasked'
  BY DEF Booked, Handled, Tasked

LEMMA Continued ==
    ASSUME Booked, NEW i \in ReqIds, NEW t, Fitting(t), Continue(i, t)
    PROVE  /\ pending' \in [ReqIds -> Tasks \cup {None}]
           /\ pending'[i] = t /\ t # None
           /\ \A j \in ReqIds \ {i} : pending'[j] = pending[j]
           /\ inflight' = i /\ mine' = mine \cup {i}
           /\ mine' \subseteq {j \in ReqIds : pending'[j] # None}
           /\ Tasked'
<1>1. t \in Tasks /\ t # None
  BY NoneAssumption DEF Fitting
<1> QED
  BY <1>1 DEF Booked, Continue, Tasked

LEMMA TaskFitting ==
    /\ \A r \in Requests : Fitting(Task("Quoted", r)) /\ Fitting(Task("Blockhash", r))
                           /\ Fitting(Task("Broadcast", r))
    /\ \A a \in Accounts : Fitting(Task("Balances", a)) /\ Fitting(Task("History", a))
    /\ Fitting(Task("Unlocked", None))
    /\ \A r \in Requests, right \in BOOLEAN :
          Fitting([kind |-> "Authorized", about |-> r, right |-> right])
  BY DEF Fitting, Task, Tasks, Kinds

\* Asked on the screen that is shown, and its own.
LEMMA BookedSpawn ==
    ASSUME Booked, NEW t, Fitting(t), Spawn(t),
           mine' \subseteq mine \cup {next_req},
           {balancesReq', inflight', deriving'} \subseteq {balancesReq, inflight, deriving, next_req}
    PROVE  Booked'
<1>1. next_req \in ReqIds
  BY NextReqType DEF Spawn
<1> HIDE DEF next_req
<1> QED
  BY <1>1, Spawned DEF Booked

LEMMA BookedEnd ==
    ASSUME Booked, NEW i \in ReqIds, Handled(i), mine' = mine \ {i},
           {balancesReq', inflight', deriving'} \subseteq {balancesReq, inflight, deriving, None}
    PROVE  Booked'
  BY Ended DEF Booked

LEMMA BookedSign ==
    ASSUME Booked, NEW i \in ReqIds, NEW s \in Sends, s.req \in Requests,
           FinishSigning(i, s), UNCHANGED <<balancesReq, deriving>>
    PROVE  Booked'
<1>1. CASE Continue(i, Task("Broadcast", s.req))
  BY <1>1, TaskFitting, Continued DEF Booked
<1>2. CASE Handled(i) /\ mine' = mine \ {i} /\ inflight' = None
  BY <1>2, BookedEnd
<1> QED
  BY <1>1, <1>2 DEF FinishSigning

LEMMA BookedNext == TypeOK /\ Shell /\ Booked /\ Reviewed /\ Placed /\ [Next]_vars => Booked'
<1> SUFFICES ASSUME TypeOK, Shell, Booked, Reviewed, Placed, [Next]_vars PROVE Booked'
  OBVIOUS
<1> USE DEF shell
<1>1. ASSUME UNCHANGED <<pending, balancesReq, inflight, deriving>>, mine' \in {mine, {}}
      PROVE  Booked'
  BY <1>1 DEF Booked, Tasked
<1>2. CASE BeginUnlock
  BY <1>2, TaskFitting, BookedSpawn DEF BeginUnlock
<1>3. CASE \/ OpenChains \/ OpenSettings \/ OpenReveal \/ RevealWords \/ OpenSend \/ Back
           \/ Lock \/ UNCHANGED vars
  BY <1>1, <1>3 DEF OpenChains, OpenSettings, OpenReveal, RevealWords, OpenSend, Back, Pop, Leave,
                    Lock, vars
<1>4. ASSUME NEW a \in Accounts, OpenAssets(a) PROVE Booked'
  BY <1>4, TaskFitting, BookedSpawn DEF OpenAssets
<1>5. CASE RefreshBalances
  <2>1. account \in Accounts
    BY <1>5 DEF RefreshBalances, Placed
  <2> QED
    BY <1>5, <2>1, TaskFitting, BookedSpawn DEF RefreshBalances
<1>6. CASE OpenHistory
  <2>1. account \in Accounts
    BY <1>6 DEF OpenHistory, Placed
  <2> QED
    BY <1>6, <2>1, TaskFitting, BookedSpawn DEF OpenHistory
<1>7. CASE \/ \E p \in Payees : TypePayee(p) \/ Confirm(p)
           \/ ToAmount \/ TypeAmount \/ ToRecipient \/ Expire
  BY <1>1, <1>7 DEF TypePayee, Confirm, ToAmount, TypeAmount, ToRecipient, Expire, OnSendScreen
<1>8. CASE RequestQuote
  <2>1. Built \in Requests
    BY <1>8, BuiltType DEF RequestQuote, Step, Shell
  <2> QED
    BY <1>8, <2>1, TaskFitting, BookedSpawn DEF RequestQuote
<1>9. ASSUME NEW right \in BOOLEAN, EnterPassword(right) PROVE Booked'
  <2>1. send.req \in Requests
    BY <1>9 DEF EnterPassword, Step, Reviewed
  <2> QED
    BY <1>9, <2>1, TaskFitting, BookedSpawn DEF EnterPassword
<1>10. ASSUME NEW i \in ReqIds,
              OnUnlocked(i) \/ OnQuoted(i) \/ OnBroadcast(i) \/ OnHistory(i) \/ OnBalances(i)
       PROVE  Booked'
  BY <1>10, BookedEnd DEF OnUnlocked, OnQuoted, OnBroadcast, OnHistory, OnBalances
<1>11. ASSUME NEW i \in ReqIds, OnAuthorized(i) PROVE Booked'
  <2> DEFINE s == [send EXCEPT !.proven = pending[i].about]
  <2>1. CASE Step("Authorize") /\ SignOrFetch(i, s)
    <3>1. s \in Sends /\ s.req \in Requests
      BY <1>11, <2>1 DEF OnAuthorized, Step, Shell, Booked, Tasked, Fitting, Reviewed, Sends
    <3> HIDE DEF s
    <3>2. CASE Continue(i, Task("Blockhash", s.req))
      BY <1>11, <3>1, <3>2, TaskFitting, Continued DEF OnAuthorized, Booked
    <3>3. CASE FinishSigning(i, s)
      BY <1>11, <3>1, <3>3, BookedSign DEF OnAuthorized
    <3> QED
      BY <2>1, <3>2, <3>3 DEF SignOrFetch
  <2>2. CASE Handled(i) /\ mine' = mine \ {i} /\ inflight' \in {inflight, None}
    BY <1>11, <2>2, BookedEnd DEF OnAuthorized
  <2> QED
    BY <1>11, <2>1, <2>2 DEF OnAuthorized
<1>12. ASSUME NEW i \in ReqIds, OnBlockhash(i) PROVE Booked'
  <2> DEFINE s == [send EXCEPT !.params.fresh = TRUE]
  <2>1. CASE Step("Authorize") /\ FinishSigning(i, s)
    <3>1. [send.params EXCEPT !.fresh = TRUE] \in Params
      BY <2>1 DEF Step, Reviewed, Params
    <3>2. s \in Sends /\ s.req \in Requests
      BY <2>1, <3>1 DEF Step, Shell, Reviewed, Sends
    <3> HIDE DEF s
    <3> QED
      BY <1>12, <2>1, <3>2, BookedSign DEF OnBlockhash
  <2>2. CASE Handled(i) /\ mine' = mine \ {i} /\ inflight' \in {inflight, None}
    BY <1>12, <2>2, BookedEnd DEF OnBlockhash
  <2> QED
    BY <1>12, <2>1, <2>2 DEF OnBlockhash
<1> QED
  BY <1>2, <1>3, <1>4, <1>5, <1>6, <1>7, <1>8, <1>9, <1>10, <1>11, <1>12 DEF Next, Keys, HandleEvent

---------------------------------------------------------------------------
(* Screens, session and transfer.                                          *)

\* The steps of a transfer, which TransferKeeps is about.
Transfer == \/ \E p \in Payees : TypePayee(p) \/ Confirm(p)
            \/ ToAmount \/ TypeAmount \/ ToRecipient \/ RequestQuote
            \/ \E right \in BOOLEAN : EnterPassword(right)
            \/ Expire
            \/ \E i \in ReqIds : OnQuoted(i) \/ OnAuthorized(i) \/ OnBlockhash(i) \/ OnBroadcast(i)

Screens == Shell /\ Placed /\ Reviewed /\ (account \in Accounts \cup {None})

LEMMA FloorOf ==
    /\ \A n \in Depths("Wallets") : n + 1 = 1 /\ Floor(n + 1) = "Wallets"
    /\ \A n \in Depths("Chains") : n + 1 = 2 /\ Floor(n + 1) = "Chains"
    /\ \A n \in Depths("Assets") : n + 1 = 3 /\ Floor(n + 1) = "Assets"
    /\ 1 \in Depths("Chains") /\ 1 \in Depths("Settings") /\ 2 \in Depths("Assets")
    /\ 1 \in Depths("Gate") /\ 2 \in Depths("Gate") /\ 3 \in Depths("History")
  BY DEF Depths, Floor

LEMMA ScreensNext == TypeOK /\ Tasked /\ Screens /\ [Next]_vars => Screens'
<1> SUFFICES ASSUME TypeOK, Tasked, Screens, [Next]_vars PROVE Screens'
  OBVIOUS
<1> USE DEF shell, Screens
<1>1. ASSUME UNCHANGED <<screen, nav, session, account, send>> PROVE Screens'
  BY <1>1, ShellKept DEF Shell, Placed, Reviewed
<1>2. ASSUME Shell', send' = None, account' = account,
             screen' \in {"Assets", "History"} => screen \in {"Assets", "Send", "History"}
      PROVE  Screens'
  BY <1>2 DEF Shell, Placed, Reviewed
<1>3. CASE Transfer
  BY <1>3, TransferKeeps, ShellKept DEF Transfer, Placed
<1>4. CASE BeginUnlock
  BY <1>4 DEF BeginUnlock, Shell, Stacked, Placed, Reviewed, Outer, Inner
<1>5. CASE OpenChains
  <2>1. Shell'
    BY <1>5, FloorOf, ShellPushed DEF OpenChains, Leave, Inner
  <2> QED
    BY <1>2, <1>5, <2>1 DEF OpenChains, Leave, Push
<1>6. CASE OpenSettings
  <2>1. Shell'
    BY <1>6, FloorOf, ShellPushed DEF OpenSettings, Leave, Inner
  <2> QED
    BY <1>2, <1>6, <2>1 DEF OpenSettings, Leave, Push
<1>7. CASE OpenReveal
  <2>1. Shell'
    BY <1>7, FloorOf, ShellPushed DEF OpenReveal, Leave, Inner
  <2> QED
    BY <1>2, <1>7, <2>1 DEF OpenReveal, Leave, Push
<1>8. CASE RevealWords
  <2>1. send = None /\ send' = None /\ session' /\ nav' = nav
    BY <1>8 DEF RevealWords, Shell
  <2>2. Stacked'
    BY <1>8, <2>1 DEF RevealWords, Shell, Stacked, Depths
  <2> QED
    BY <1>8, <2>1, <2>2 DEF RevealWords, Shell, Placed, Reviewed, Inner
<1>9. ASSUME NEW a \in Accounts, OpenAssets(a) PROVE Screens'
  <2>1. Shell'
    BY <1>9, FloorOf, ShellPushed DEF OpenAssets, Inner
  <2> QED
    BY <1>9, <2>1 DEF OpenAssets, Placed, Reviewed
<1>10. CASE RefreshBalances
  BY <1>1, <1>10 DEF RefreshBalances
<1>11. CASE OpenHistory
  <2>1. CASE screen = "Assets"
    <3>1. Shell'
      BY <1>11, <2>1, FloorOf, ShellPushed DEF OpenHistory, Inner
    <3> QED
      BY <1>2, <1>11, <2>1, <3>1 DEF OpenHistory, Push
  <2>2. CASE screen = "History"
    BY <1>1, <1>11, <2>2 DEF OpenHistory, Shell
  <2> QED
    BY <1>11, <2>1, <2>2 DEF OpenHistory
\* The transfer is the one screen that is pushed with a state of its own.
<1>12. CASE OpenSend
  <2>1. account \in Accounts /\ session /\ screen = "Assets" /\ Len(nav) = 2 /\ nav \in Seq(Inner)
    BY <1>12 DEF OpenSend, Placed, Shell, Stacked, Depths, Inner
  <2>2. /\ nav' \in Seq(Inner) /\ Len(nav') = 3 /\ nav'[3] = "Assets"
        /\ \A n \in 1..2 : nav'[n] = nav[n]
    <3>1. nav' = Append(nav, screen) /\ screen = "Assets" /\ screen \in Inner
      BY <1>12 DEF OpenSend, Push, Inner
    <3>2. /\ nav' \in Seq(Inner) /\ Len(nav') = Len(nav) + 1 /\ nav'[Len(nav) + 1] = screen
          /\ \A n \in 1..Len(nav) : nav'[n] = nav[n]
      <4>1. nav \in Seq(Inner) /\ screen \in Inner
        BY <2>1, <3>1
      <4> QED
        BY <3>1, <4>1, AppendProperties
    <3> QED
      BY <2>1, <3>1, <3>2
  <2>3. Stacked'
    BY <1>12, <2>1, <2>2 DEF OpenSend, Push, Shell, Stacked, Depths, Floor
  <2>4. NewSend(account) \in Sends
    BY <2>1 DEF NewSend, Sends, Steps, TypeOK
  <2>5. send' \in Sends /\ send' # None /\ send'.step = "Recipient"
    BY <1>12, <2>4, NoneAssumption DEF OpenSend, NewSend
  <2> QED
    BY <1>12, <2>1, <2>2, <2>3, <2>5 DEF OpenSend, Push, Shell, Placed, Reviewed, Inner
<1>13. CASE Back
  <2>1. Shell'
    BY <1>13, ShellPopped DEF Back
  <2>2. session /\ Len(nav) \in Nat \ {0} /\ \A n \in 1..Len(nav) : nav[n] = Floor(n)
    BY <1>13 DEF Back, Pop, Shell, Stacked
  <2>3. screen' = "Assets" => Len(nav) = 3
    <3>1. screen' = Floor(Len(nav))
      BY <1>13, <2>2 DEF Back, Pop
    <3>2. Len(nav) \in 1..3
      BY <1>13, <2>2 DEF Back, Shell, Stacked, Depths, Inner
    <3> QED
      BY <3>1, <3>2 DEF Floor
  <2>4. screen' = "Assets" => screen \in {"Send", "History"}
    <3>1. \A s \in Inner : 3 \in Depths(s) => s \in {"Send", "History"}
      BY DEF Depths, Inner
    <3>2. screen \in Inner /\ Len(nav) \in Depths(screen)
      BY <1>13, <2>2 DEF Back, Shell, Stacked
    <3> QED
      BY <2>3, <3>1, <3>2
  <2>5. screen' # "History"
    BY <1>13, <2>2 DEF Back, Pop, Floor
  <2> QED
    BY <1>2, <1>13, <2>1, <2>4, <2>5 DEF Back, Pop, Leave
<1>14. CASE Lock
  BY <1>14 DEF Lock, Leave, Shell, Stacked, Placed, Reviewed, Outer, Inner
<1>15. ASSUME NEW i \in ReqIds, OnUnlocked(i) PROVE Screens'
  <2>1. ~session /\ send = None /\ send' = None /\ account' = account
    BY <1>15 DEF OnUnlocked, Shell, Inner
  <2>2. CASE session' = TRUE /\ screen' = "Wallets" /\ nav' = <<>>
    <3>1. Len(nav') = 0 /\ nav' \in Seq(Inner)
      BY <2>2
    <3>2. Stacked'
      BY <2>2, <3>1 DEF Stacked, Depths
    <3>3. "Wallets" \in Inner
      BY DEF Inner
    <3>4. Shell'
      BY <2>1, <2>2, <3>1, <3>2, <3>3 DEF Shell
    <3> QED
      BY <1>2, <2>1, <2>2, <3>4
  <2>3. CASE screen' \in {"Login", "FirstRun"} /\ UNCHANGED <<session, nav>>
    <3>1. Shell'
      BY <2>1, <2>3 DEF Shell, Stacked, Outer, Inner
    <3> QED
      BY <1>2, <2>1, <2>3, <3>1
  <2> QED
    BY <1>15, <2>2, <2>3 DEF OnUnlocked
<1>16. ASSUME NEW i \in ReqIds, OnHistory(i) \/ OnBalances(i) PROVE Screens'
  BY <1>1, <1>16 DEF OnHistory, OnBalances
<1>17. CASE UNCHANGED vars
  BY <1>1, <1>17 DEF vars
<1> QED
  BY <1>3, <1>4, <1>5, <1>6, <1>7, <1>8, <1>9, <1>10, <1>11, <1>12, <1>13, <1>14, <1>15, <1>16, <1>17
     DEF Next, Keys, HandleEvent, Transfer

---------------------------------------------------------------------------
(* What is shown, and the question it answers.                             *)

\* Balances and history on their way are about the account that is open.
Shown == /\ balances \in {account, None}
         /\ balancesReq # None => pending[balancesReq] = Task("Balances", account)
         /\ screen = "History" /\ inflight # None => pending[inflight] = Task("History", account)
         /\ history # None => screen = "History" /\ history = account
         /\ send # None => send.from = account /\ send.balance \in {account, None}

LEMMA BackTo == Shell /\ Back => screen' \in {"Wallets", "Chains", "Assets"}
<1> SUFFICES ASSUME Shell, Back PROVE screen' \in {"Wallets", "Chains", "Assets"}
  OBVIOUS
<1>1. session /\ nav \in Seq(Inner) /\ nav # <<>> /\ screen' = nav[Len(nav)]
  BY DEF Back, Pop, Shell
<1>2. Len(nav) \in 1..Len(nav)
  BY <1>1
<1>3. screen' = Floor(Len(nav))
  BY <1>1, <1>2 DEF Shell, Stacked
<1> QED
  BY <1>3 DEF Floor

\* No step of a transfer changes whose it is, or the balance it was opened over.
LEMMA TransferSame ==
    ASSUME Transfer, send \in Sends \cup {None}, send # None
    PROVE  send'.from = send.from /\ send'.balance = send.balance
<1> USE DEF Sends, OnSendScreen
<1>1. CASE \/ \E p \in Payees : TypePayee(p) \/ Confirm(p)
           \/ ToAmount \/ TypeAmount \/ ToRecipient \/ RequestQuote
           \/ \E right \in BOOLEAN : EnterPassword(right)
           \/ Expire
  BY <1>1 DEF TypePayee, Confirm, ToAmount, TypeAmount, ToRecipient, RequestQuote, EnterPassword,
              Expire
<1>2. ASSUME NEW i \in ReqIds, OnQuoted(i) \/ OnBroadcast(i)
      PROVE  send'.from = send.from /\ send'.balance = send.balance
  BY <1>2 DEF OnQuoted, OnBroadcast, FailSend
<1>3. ASSUME NEW i \in ReqIds, NEW s, FinishSigning(i, s), s = [send EXCEPT !.proven = s.proven, !.params = s.params]
      PROVE  send'.from = send.from /\ send'.balance = send.balance
  BY <1>3 DEF FinishSigning, FailSend
<1>4. ASSUME NEW i \in ReqIds, OnAuthorized(i)
      PROVE  send'.from = send.from /\ send'.balance = send.balance
  <2> DEFINE s == [send EXCEPT !.proven = pending[i].about]
  <2>1. s = [send EXCEPT !.proven = s.proven, !.params = s.params]
    OBVIOUS
  <2>2. s.from = send.from /\ s.balance = send.balance
    OBVIOUS
  <2>3. CASE SignOrFetch(i, s)
    <3> HIDE DEF s
    <3> QED
      BY <1>3, <2>1, <2>2, <2>3 DEF SignOrFetch
  <2>4. CASE send' \in {send, FailSend(send), [send EXCEPT !.checking = FALSE]}
    BY <2>4 DEF FailSend
  <2> QED
    BY <1>4, <2>3, <2>4 DEF OnAuthorized
<1>5. ASSUME NEW i \in ReqIds, OnBlockhash(i)
      PROVE  send'.from = send.from /\ send'.balance = send.balance
  <2> DEFINE s == [send EXCEPT !.params.fresh = TRUE]
  <2>1. s = [send EXCEPT !.proven = s.proven, !.params = s.params]
    OBVIOUS
  <2>2. CASE FinishSigning(i, s)
    <3> HIDE DEF s
    <3> QED
      BY <1>3, <2>1, <2>2
  <2>3. CASE send' \in {send, FailSend(send)}
    BY <2>3 DEF FailSend
  <2> QED
    BY <1>5, <2>2, <2>3 DEF OnBlockhash
<1> QED
  BY <1>1, <1>2, <1>4, <1>5 DEF Transfer

\* A request under way is neither overwritten nor forgotten before its own answer.
LEMMA PendingKept ==
    ASSUME Booked, NEW j \in ReqIds, pending[j] # None,
           \/ UNCHANGED pending
           \/ \E t : Spawn(t)
           \/ \E i \in ReqIds \ {j} : Handled(i) \/ \E t : Continue(i, t)
    PROVE  pending'[j] = pending[j]
<1>1. ASSUME NEW t, Spawn(t) PROVE pending'[j] = pending[j]
  <2>1. next_req # j
    BY <1>1, NextReqType DEF Spawn, Unused
  <2> HIDE DEF next_req
  <2> QED
    BY <1>1, <2>1 DEF Spawn, Booked
<1> QED
  BY <1>1 DEF Handled, Continue, Booked

\* The steps of a transfer touch no request of another kind than theirs.
LEMMA TransferPending ==
    ASSUME Booked, Transfer, NEW j \in ReqIds, pending[j] # None,
           pending[j].kind \in {"Balances", "History"}
    PROVE  pending'[j] = pending[j]
<1>1. CASE \/ \E p \in Payees : TypePayee(p) \/ Confirm(p)
           \/ ToAmount \/ TypeAmount \/ ToRecipient \/ Expire
  BY <1>1 DEF TypePayee, Confirm, ToAmount, TypeAmount, ToRecipient, Expire, OnSendScreen
<1>2. CASE RequestQuote \/ \E right \in BOOLEAN : EnterPassword(right)
  BY <1>2, PendingKept DEF RequestQuote, EnterPassword
<1>3. ASSUME NEW i \in ReqIds, OnQuoted(i) \/ OnBroadcast(i) PROVE pending'[j] = pending[j]
  <2>1. i # j /\ Handled(i)
    BY <1>3 DEF OnQuoted, OnBroadcast
  <2> QED
    BY <2>1, PendingKept
<1>4. ASSUME NEW i \in ReqIds, OnAuthorized(i) PROVE pending'[j] = pending[j]
  <2>1. i # j
    BY <1>4 DEF OnAuthorized
  <2>2. Handled(i) \/ \E t : Continue(i, t)
    BY <1>4 DEF OnAuthorized, SignOrFetch, FinishSigning
  <2> QED
    BY <2>1, <2>2, PendingKept
<1>5. ASSUME NEW i \in ReqIds, OnBlockhash(i) PROVE pending'[j] = pending[j]
  <2>1. i # j
    BY <1>5 DEF OnBlockhash
  <2>2. Handled(i) \/ \E t : Continue(i, t)
    BY <1>5 DEF OnBlockhash, FinishSigning
  <2> QED
    BY <2>1, <2>2, PendingKept
<1> QED
  BY <1>1, <1>2, <1>3, <1>4, <1>5 DEF Transfer

\* Without a transfer, its events do no more than end what was awaited.
LEMMA TransferGone == Transfer /\ send = None => inflight' \in {inflight, None}
  BY DEF Transfer, TypePayee, Confirm, ToAmount, TypeAmount, ToRecipient, RequestQuote,
         EnterPassword, Expire, OnQuoted, OnAuthorized, OnBlockhash, OnBroadcast, Step

LEMMA ShownNext ==
    TypeOK /\ Screens /\ Booked /\ Shown /\ [Next]_vars => Shown'
<1> SUFFICES ASSUME TypeOK, Screens, Booked, Shown, [Next]_vars PROVE Shown'
  OBVIOUS
<1> USE DEF shell
<1>0. balancesReq # None => /\ balancesReq \in ReqIds /\ pending[balancesReq] # None
                            /\ pending[balancesReq].kind = "Balances"
  <2>1. Task("Balances", account) \in Tasks /\ Task("Balances", account).kind = "Balances"
    BY DEF Task, Tasks, Kinds, TypeOK
  <2> QED
    BY <2>1, NoneAssumption DEF Shown, Booked
<1>1. ASSUME UNCHANGED <<account, balances, balancesReq>>,
             balancesReq # None => pending'[balancesReq] = pending[balancesReq],
             screen' # "History", history' = None,
             send' # None => send'.from = account /\ send'.balance \in {account, None}
      PROVE  Shown'
  BY <1>1 DEF Shown
<1>2. CASE \/ OpenChains \/ OpenSettings \/ OpenReveal \/ Back \/ Lock
  <2>1. screen' # "History"
    BY <1>2, BackTo DEF OpenChains, OpenSettings, OpenReveal, Lock, Push, Screens
  <2> QED
    BY <1>1, <1>2, <2>1 DEF OpenChains, OpenSettings, OpenReveal, Back, Lock, Pop, Leave
<1>3. CASE OpenSend
  BY <1>1, <1>3 DEF OpenSend, Push, NewSend, Shown
<1>4. CASE RevealWords \/ UNCHANGED vars
  BY <1>4 DEF RevealWords, vars, Shown
<1>5. CASE BeginUnlock
  <2>1. send = None /\ history = None /\ screen' # "History"
    BY <1>5 DEF BeginUnlock, Shown, Screens, Shell
  <2> QED
    BY <1>0, <1>1, <1>5, <2>1, PendingKept DEF BeginUnlock
<1>6. ASSUME NEW a \in Accounts, OpenAssets(a) PROVE Shown'
  <2>1. pending'[next_req] = Task("Balances", a)
    BY <1>6, TaskFitting, Spawned DEF OpenAssets
  <2> QED
    BY <1>6, <2>1 DEF OpenAssets, Push, Shown
<1>7. CASE RefreshBalances
  <2>1. account \in Accounts /\ send = None /\ history = None
    BY <1>7 DEF RefreshBalances, Screens, Shell, Placed, Shown
  <2>2. pending'[next_req] = Task("Balances", account)
    BY <1>7, <2>1, TaskFitting, Spawned DEF RefreshBalances
  <2> QED
    BY <1>7, <2>1, <2>2 DEF RefreshBalances, Shown
<1>8. CASE OpenHistory
  <2>1. account \in Accounts
    BY <1>8 DEF OpenHistory, Screens, Placed
  <2>2. pending'[next_req] = Task("History", account)
    BY <1>8, <2>1, TaskFitting, Spawned DEF OpenHistory
  <2>3. balancesReq # None => pending'[balancesReq] = pending[balancesReq]
    BY <1>0, <1>8, PendingKept DEF OpenHistory
  <2> QED
    BY <1>8, <2>2, <2>3 DEF OpenHistory, Shown
<1>9. ASSUME NEW i \in ReqIds, OnBalances(i) PROVE Shown'
  <2>1. \A j \in ReqIds \ {i} : pending'[j] = pending[j]
    BY <1>9, Ended DEF OnBalances
  <2>2. screen = "History" /\ inflight # None => inflight \in ReqIds /\ inflight # i
    BY <1>9 DEF OnBalances, Shown, Task, Booked
  <2>3. CASE balancesReq = i
    <3>1. pending[i].about = account
      BY <2>3, NoneAssumption DEF Shown, Task
    <3> QED
      BY <1>9, <2>1, <2>2, <2>3, <3>1 DEF OnBalances, Shown
  <2>4. CASE balancesReq # i
    BY <1>0, <1>9, <2>1, <2>2, <2>4 DEF OnBalances, Shown
  <2> QED
    BY <2>3, <2>4
<1>10. ASSUME NEW i \in ReqIds, OnHistory(i) PROVE Shown'
  <2>1. \A j \in ReqIds \ {i} : pending'[j] = pending[j]
    BY <1>10, Ended DEF OnHistory
  <2>2. balancesReq # None => pending'[balancesReq] = pending[balancesReq]
    BY <1>0, <1>10, <2>1 DEF OnHistory
  <2>3. CASE inflight = i
    <3>1. screen = "History" => pending[i].about = account
      BY <2>3, NoneAssumption DEF Shown, Task
    <3> QED
      BY <1>10, <2>2, <2>3, <3>1 DEF OnHistory, Shown
  <2>4. CASE inflight # i
    <3>1. screen = "History" /\ inflight # None => pending'[inflight] = pending[inflight]
      BY <2>1, <2>4 DEF Booked
    <3> QED
      BY <1>10, <2>2, <2>4, <3>1 DEF OnHistory, Shown
  <2> QED
    BY <2>3, <2>4
<1>11. ASSUME NEW i \in ReqIds, OnUnlocked(i) PROVE Shown'
  <2>1. send = None /\ history = None /\ screen' # "History"
    BY <1>11 DEF OnUnlocked, Shown, Screens, Shell
  <2>2. balancesReq # None => i # balancesReq
    BY <1>0, <1>11 DEF OnUnlocked
  <2> QED
    BY <1>0, <1>1, <1>11, <2>1, <2>2, PendingKept DEF OnUnlocked
<1>12. CASE Transfer
  <2>1. UNCHANGED <<screen, account, balances, balancesReq, history>>
        /\ send' \in Sends \cup {None} /\ (send' # None <=> send # None)
    BY <1>12, TransferKeeps DEF Transfer, Booked, Screens
  <2>2. balancesReq # None => pending'[balancesReq] = pending[balancesReq]
    BY <1>0, <1>12, TransferPending
  <2>3. send # None => send'.from = send.from /\ send'.balance = send.balance
    BY <1>12, TransferSame DEF Screens, Shell
  <2>4. screen = "History" /\ inflight' # None
          => inflight' = inflight /\ pending'[inflight] = pending[inflight]
    <3> SUFFICES ASSUME screen = "History", inflight' # None
                 PROVE  inflight' = inflight /\ pending'[inflight] = pending[inflight]
      OBVIOUS
    <3>1. inflight' = inflight
      BY <1>12, TransferGone DEF Screens, Shell
    <3>2. inflight \in ReqIds /\ pending[inflight] = Task("History", account)
      BY <3>1 DEF Shown, Booked
    <3>3. pending[inflight] # None /\ pending[inflight].kind = "History"
      <4>1. Task("History", account) \in Tasks /\ Task("History", account).kind = "History"
        BY DEF Task, Tasks, Kinds, TypeOK
      <4> QED
        BY <3>2, <4>1, NoneAssumption
    <3> QED
      BY <1>12, <3>1, <3>2, <3>3, TransferPending
  <2> QED
    BY <2>1, <2>2, <2>3, <2>4 DEF Shown
<1> QED
  BY <1>2, <1>3, <1>4, <1>5, <1>6, <1>7, <1>8, <1>9, <1>10, <1>11, <1>12
     DEF Next, Keys, HandleEvent, Transfer

---------------------------------------------------------------------------
(* What a transfer awaits, step by step, and what was approved by then.    *)

\* Its own request of a kind, about r.
Awaits(kinds, r) == /\ inflight \in mine
                    /\ pending[inflight].kind \in kinds /\ pending[inflight].about = r

Stage ==
    send # None =>
      /\ send.req # None => /\ send.req.from = send.from
                            /\ ~strayed => send.params # None /\ send.params.about = send.req
      /\ send.step \in {"Recipient", "EnterAmount"} => mine = {} /\ ~send.checking
      /\ send.step = "Quoting" => Awaits({"Quoted"}, Built) /\ ~send.checking
      /\ send.step = "Review"  => inflight = None /\ ~send.checking
      /\ send.step = "Authorize" =>
           /\ send.retyped = send.req
           /\ IF send.checking
                THEN /\ Awaits({"Authorized", "Blockhash"}, send.req)
                     /\ pending[inflight].kind = "Blockhash" => send.proven = send.req
                ELSE inflight = None
      /\ send.step = "Broadcasting" => Awaits({"Broadcast"}, send.req)
      /\ send.step \in {"Done", "Failed"} => inflight = None

\* The answer to something else leaves the stage as it was.
LEMMA OtherAnswer ==
    ASSUME Booked, Stage, NEW i \in ReqIds, i # inflight,
           Handled(i), mine' = mine \ {i}, UNCHANGED <<inflight, send>>, strayed' <=> strayed
    PROVE  Stage'
<1>1. inflight \in mine => inflight \in mine' /\ pending'[inflight] = pending[inflight]
  BY Ended DEF Booked
<1>2. mine = {} => mine' = {}
  OBVIOUS
<1>3. Built' = Built
  BY DEF Built
<1> QED
  BY <1>1, <1>2, <1>3 DEF Stage, Awaits

LEMMA StageQuoted ==
    ASSUME Screens, Booked, Stage, NEW i \in ReqIds, OnQuoted(i)
    PROVE  Stage'
<1>1. pending[i] # None /\ pending[i].kind = "Quoted" /\ Handled(i) /\ mine' = mine \ {i}
  BY DEF OnQuoted
<1>2. CASE inflight # i
  <2>1. strayed' <=> strayed
    BY <1>2 DEF OnQuoted, Stray
  <2> QED
    BY <1>1, <1>2, <2>1, OtherAnswer DEF OnQuoted
<1>3. CASE inflight = i /\ send # None
  <2>1. send \in Sends /\ inflight' = None
    BY <1>3 DEF OnQuoted, Screens, Shell
  <2>2. send.step \in {"Recipient", "EnterAmount", "Quoting"} /\ ~send.checking
    <3>1. inflight # None /\ send.step \in Steps
      BY <1>3, <2>1, NoneAssumption DEF Sends
    <3>2. send.step \notin {"Review", "Authorize", "Broadcasting", "Done", "Failed"}
      BY <1>1, <1>3, <3>1 DEF Stage, Awaits
    <3> QED
      BY <1>3, <3>1, <3>2 DEF Stage, Steps
  <2>3. ~strayed' => ~strayed /\ i \in mine
    BY <1>3 DEF OnQuoted, Stray
  <2>4. CASE send' = [send EXCEPT !.step = "Failed"]
    BY <1>3, <2>1, <2>3, <2>4 DEF Stage, Sends
  <2>5. ASSUME NEW pays \in BOOLEAN, Filled,
               send' = [send EXCEPT !.step = "Review", !.req = Built, !.payable = pays,
                                    !.params = [about |-> pending[i].about, fresh |-> TRUE]]
        PROVE  Stage'
    <3>1. i \in mine => pending[i].about = Built
      BY <1>3, <2>2 DEF Stage, Awaits
    <3>2. Built \in Requests /\ Built.from = send.from
      BY <2>1, <2>5, BuiltType DEF Built
    <3>3. pending[i].about \in Requests
      BY <1>1 DEF Booked, Tasked, Fitting
    <3>4. [about |-> pending[i].about, fresh |-> TRUE] # None
      <4>1. [about |-> pending[i].about, fresh |-> TRUE] \in Params
        BY <3>3 DEF Params
      <4> QED
        BY <4>1, NoneAssumption
    <3>5. /\ send'.step = "Review" /\ send'.req = Built /\ send'.from = send.from
          /\ send'.params = [about |-> pending[i].about, fresh |-> TRUE]
          /\ send'.checking = send.checking
      BY <2>1, <2>5 DEF Sends
    <3> QED
      <4>1. send'.req.from = send'.from /\ send'.params # None
        BY <3>2, <3>4, <3>5
      <4>2. ~strayed' => send'.params.about = send'.req
        <5>1. send'.params.about = pending[i].about
          BY <3>5
        <5> QED
          BY <2>3, <3>1, <3>5, <5>1
      <4> QED
        BY <2>1, <2>2, <3>5, <4>1, <4>2 DEF Stage
  <2> QED
    BY <1>3, <2>4, <2>5 DEF OnQuoted
<1>4. CASE send = None
  BY <1>4 DEF OnQuoted, Stage
<1> QED
  BY <1>2, <1>3, <1>4

\* The transfer itself is the same after the step as before.
Same(s) == /\ s \in Sends /\ s.req = send.req /\ s.from = send.from
           /\ s.params # None /\ s.params.about = send.params.about

LEMMA StageFailed ==
    ASSUME Stage, send # None, send \in Sends, NEW s, s = send \/ Same(s), send' = FailSend(s),
           inflight' = None, ~strayed' => ~strayed
    PROVE  Stage'
<1>1. send'.step = "Failed" /\ send'.req = s.req /\ send'.from = s.from /\ send'.params = s.params
  BY DEF FailSend, Same, Sends
<1> QED
  BY <1>1 DEF Stage, Same

LEMMA StageSigned ==
    ASSUME Booked, Stage, send # None, send \in Sends, NEW i \in ReqIds, NEW s, Same(s),
           s.req \in Requests, FinishSigning(i, s), ~strayed' => ~strayed
    PROVE  Stage'
<1>1. CASE /\ send' = [s EXCEPT !.step = "Broadcasting"]
           /\ Continue(i, Task("Broadcast", s.req))
  <2>1. /\ send'.step = "Broadcasting" /\ send'.req = s.req /\ send'.from = s.from
        /\ send'.params = s.params
    BY <1>1 DEF Same, Sends
  <2>2. /\ inflight' = i /\ i \in mine' /\ pending'[i].kind = "Broadcast"
        /\ pending'[i].about = s.req
    <3>1. Fitting(Task("Broadcast", s.req))
      BY TaskFitting
    <3>2. inflight' = i /\ mine' = mine \cup {i} /\ pending'[i] = Task("Broadcast", s.req)
      BY <1>1, <3>1, Continued
    <3> QED
      BY <3>2 DEF Task
  <2> QED
    BY <2>1, <2>2 DEF Stage, Same, Awaits
<1>2. CASE send' = FailSend(s) /\ inflight' = None
  BY <1>2, StageFailed
<1> QED
  BY <1>1, <1>2 DEF FinishSigning

LEMMA StageAuthorized ==
    ASSUME Screens, Booked, Stage, NEW i \in ReqIds, OnAuthorized(i)
    PROVE  Stage'
<1> DEFINE s == [send EXCEPT !.proven = pending[i].about]
<1>0. /\ pending[i] # None /\ pending[i].kind = "Authorized" /\ i # None
      /\ send \in Sends \cup {None} /\ pending[i].about \in Requests
  BY NoneAssumption DEF OnAuthorized, Screens, Shell, Booked, Tasked, Fitting
<1>1. CASE inflight # i
  <2>1. strayed' <=> strayed
    BY <1>1 DEF OnAuthorized, Stray
  <2> QED
    BY <1>1, <2>1, OtherAnswer DEF OnAuthorized
<1>2. ~strayed' => ~strayed
  BY DEF OnAuthorized, Stray
<1>3. CASE inflight = i /\ pending[i].right /\ Step("Authorize")
  <2>1. /\ send \in Sends /\ send # None /\ send.req \in Requests /\ send.params \in Params
        /\ send.step = "Authorize"
    BY <1>0, <1>3 DEF Step, Screens, Reviewed
  <2>2. send.checking /\ i \in mine /\ pending[i].about = send.req /\ send.retyped = send.req
    BY <1>0, <1>3, <2>1 DEF Stage, Awaits
  <2>3. /\ s \in Sends /\ s.req = send.req /\ s.from = send.from /\ s.params = send.params
        /\ s.step = "Authorize" /\ s.checking = send.checking /\ s.retyped = send.retyped
        /\ s.proven = send.req
    BY <1>0, <2>1, <2>2 DEF Sends
  <2>4. Same(s)
    BY <2>1, <2>3, NoneAssumption DEF Same
  <2>5. SignOrFetch(i, s)
    BY <1>3 DEF OnAuthorized
  <2> HIDE DEF s
  <2>6. CASE send' = s /\ Continue(i, Task("Blockhash", s.req))
    <3>1. /\ inflight' = i /\ i \in mine' /\ pending'[i].kind = "Blockhash"
          /\ pending'[i].about = s.req
      <4>1. Fitting(Task("Blockhash", s.req))
        BY <2>1, <2>3, TaskFitting
      <4>2. inflight' = i /\ mine' = mine \cup {i} /\ pending'[i] = Task("Blockhash", s.req)
        BY <2>6, <4>1, Continued
      <4> QED
        BY <4>2 DEF Task
    <3> QED
      BY <1>2, <2>1, <2>2, <2>3, <2>6, <3>1 DEF Stage, Awaits
  <2>7. CASE FinishSigning(i, s)
    BY <1>2, <2>1, <2>3, <2>4, <2>7, StageSigned
  <2> QED
    BY <2>5, <2>6, <2>7 DEF SignOrFetch
<1>4. CASE inflight = i /\ ~(pending[i].right /\ Step("Authorize"))
  <2>1. inflight' = None /\ mine' = mine \ {i}
    BY <1>4 DEF OnAuthorized
  <2>2. CASE send = None
    BY <1>4, <2>2 DEF OnAuthorized, Stage
  <2>3. CASE send # None /\ send' = FailSend(send)
    BY <1>0, <1>2, <2>1, <2>3, StageFailed
  <2>4. CASE send # None /\ send' = [send EXCEPT !.checking = FALSE]
    <3>1. /\ send'.step = send.step /\ send'.req = send.req /\ send'.from = send.from
          /\ send'.params = send.params /\ send'.retyped = send.retyped /\ ~send'.checking
      BY <1>0, <2>4 DEF Sends
    <3>2. send.step \notin {"Quoting", "Broadcasting"}
      BY <1>0, <1>4, <2>4 DEF Stage, Awaits
    <3> QED
      BY <1>2, <2>1, <2>4, <3>1, <3>2 DEF Stage
  <2> QED
    BY <1>4, <2>2, <2>3, <2>4 DEF OnAuthorized
<1> QED
  BY <1>1, <1>3, <1>4

LEMMA StageBlockhash ==
    ASSUME Screens, Booked, Stage, NEW i \in ReqIds, OnBlockhash(i)
    PROVE  Stage'
<1> DEFINE s == [send EXCEPT !.params.fresh = TRUE]
<1>0. send \in Sends \cup {None}
  BY DEF Screens, Shell
<1>1. ~strayed' => ~strayed
  BY DEF OnBlockhash, Stray
<1>2. CASE inflight = i /\ Step("Authorize") /\ FinishSigning(i, s)
  <2>1. send \in Sends /\ send # None /\ send.req \in Requests /\ send.params \in Params
    BY <1>0, <1>2 DEF Step, Screens, Reviewed
  <2>2. /\ [send.params EXCEPT !.fresh = TRUE] \in Params
        /\ [send.params EXCEPT !.fresh = TRUE].about = send.params.about
    BY <2>1 DEF Params
  <2>3. Same(s)
    BY <2>1, <2>2, NoneAssumption DEF Same, Sends
  <2> HIDE DEF s
  <2>4. s.req \in Requests
    BY <2>1, <2>3 DEF Same
  <2> QED
    BY <1>1, <1>2, <2>1, <2>3, <2>4, StageSigned
<1>3. CASE /\ Handled(i) /\ mine' = mine \ {i}
           /\ inflight' = IF inflight = i THEN None ELSE inflight
           /\ send' = IF inflight # i \/ send = None THEN send ELSE FailSend(send)
  <2>1. CASE inflight # i
    <3>1. strayed' <=> strayed
      BY <2>1 DEF OnBlockhash, Stray
    <3> QED
      BY <1>3, <2>1, <3>1, OtherAnswer
  <2>2. CASE inflight = i /\ send # None
    BY <1>0, <1>1, <1>3, <2>2, StageFailed
  <2>3. CASE inflight = i /\ send = None
    BY <1>3, <2>3 DEF Stage
  <2> QED
    BY <2>1, <2>2, <2>3
<1> QED
  BY <1>2, <1>3 DEF OnBlockhash

LEMMA StageBroadcast ==
    ASSUME Screens, Booked, Stage, NEW i \in ReqIds, OnBroadcast(i)
    PROVE  Stage'
<1>0. send \in Sends \cup {None} /\ (~strayed' => ~strayed)
  BY DEF OnBroadcast, Stray, Screens, Shell
<1>1. CASE inflight # i
  <2>1. strayed' <=> strayed
    BY <1>1 DEF OnBroadcast, Stray
  <2> QED
    BY <1>1, <2>1, OtherAnswer DEF OnBroadcast
<1>2. CASE inflight = i /\ send = None
  BY <1>2 DEF OnBroadcast, Stage
<1>3. CASE inflight = i /\ send # None
  <2>1. CASE send' = FailSend(send)
    BY <1>0, <1>3, <2>1, StageFailed DEF OnBroadcast
  <2>2. CASE send' = [send EXCEPT !.step = "Done"]
    <3>1. /\ send'.step = "Done" /\ send'.req = send.req /\ send'.from = send.from
          /\ send'.params = send.params /\ inflight' = None
      BY <1>0, <1>3, <2>2 DEF OnBroadcast, Sends
    <3> QED
      BY <1>0, <1>3, <3>1 DEF Stage
  <2> QED
    BY <1>3, <2>1, <2>2 DEF OnBroadcast
<1> QED
  BY <1>1, <1>2, <1>3

\* Nothing but the transfer's own keys and events leaves it in place.
LEMMA StageKeys ==
    ASSUME TypeOK, Screens, Booked, Stage,
           \/ \E p \in Payees : TypePayee(p) \/ Confirm(p)
           \/ ToAmount \/ TypeAmount \/ ToRecipient \/ RequestQuote \/ Expire
           \/ \E right \in BOOLEAN : EnterPassword(right)
    PROVE  Stage'
<1> USE DEF OnSendScreen
<1>0. send \in Sends \cup {None}
  BY DEF Screens, Shell
<1>1. ASSUME NEW p \in Payees, TypePayee(p) PROVE Stage'
  BY <1>0, <1>1 DEF TypePayee, Step, Stage, Sends
<1>2. CASE ToAmount
  BY <1>0, <1>2 DEF ToAmount, Step, Stage, Sends
<1>3. CASE TypeAmount
  BY <1>0, <1>3 DEF TypeAmount, Step, Stage, Sends
<1>4. CASE ToRecipient
  BY <1>0, <1>4 DEF ToRecipient, Step, Stage, Sends
<1>5. ASSUME NEW p \in Payees, Confirm(p) PROVE Stage'
  <2>1. send \in Sends /\ send.step = "Review" /\ p = send.req.to /\ send.req \in Requests
    BY <1>0, <1>5 DEF Confirm, Step, Screens, Reviewed
  <2>2. [from |-> send.from, to |-> p] = send.req
    BY <1>5, <2>1, NoneAssumption DEF Confirm, Step, Stage, Requests
  <2>3. /\ send'.step = "Authorize" /\ send'.retyped = send.req /\ send'.req = send.req
        /\ send'.from = send.from /\ send'.params = send.params /\ send'.checking = send.checking
    BY <1>5, <2>1, <2>2 DEF Confirm, Sends
  <2> QED
    BY <1>5, <2>1, <2>3 DEF Confirm, Step, Stage
<1>6. CASE Expire
  <2>1. /\ send \in Sends /\ send # None /\ send.params \in Params
        /\ send' = [send EXCEPT !.params.fresh = FALSE]
    BY <1>0, <1>6 DEF Expire, Step, Screens, Reviewed
  <2>2. /\ [send.params EXCEPT !.fresh = FALSE].about = send.params.about
        /\ [send.params EXCEPT !.fresh = FALSE] \in Params
    BY <2>1 DEF Params
  <2>3. /\ send'.step = send.step /\ send'.req = send.req /\ send'.from = send.from
        /\ send'.params = [send.params EXCEPT !.fresh = FALSE]
        /\ send'.checking = send.checking /\ send'.retyped = send.retyped
        /\ send'.proven = send.proven /\ send'.to = send.to
    BY <2>1 DEF Sends
  <2> HIDE DEF OnSendScreen
  <2>4. UNCHANGED <<inflight, mine, pending, strayed>>
    BY <1>6 DEF Expire, OnSendScreen
  <2>5. send'.params # None
    BY <2>2, <2>3, NoneAssumption
  <2>6. send.step \in {"Review", "Authorize"}
    BY <1>6 DEF Expire, Step
  <2> QED
    BY <2>1, <2>2, <2>3, <2>4, <2>5, <2>6 DEF Stage, Awaits
<1>7. CASE RequestQuote
  <2>1. Built \in Requests /\ send \in Sends /\ send # None /\ send.step = "EnterAmount"
    BY <1>0, <1>7, BuiltType DEF RequestQuote, Step
  <2>2. Fitting(Task("Quoted", Built))
    BY <2>1, TaskFitting
  <2>3. pending'[next_req] = Task("Quoted", Built)
    BY <1>7, <2>2, Spawned DEF RequestQuote
  <2>4. /\ send'.step = "Quoting" /\ send'.req = send.req /\ send'.from = send.from
        /\ send'.params = send.params /\ send'.checking = send.checking /\ send'.to = send.to
    BY <1>7, <2>1 DEF RequestQuote, Sends
  <2>5. Built' = Built
    BY <2>4 DEF Built
  <2>6. inflight' = next_req /\ next_req \in mine' /\ strayed' = strayed
    BY <1>7 DEF RequestQuote
  <2> HIDE DEF next_req
  <2>7. Awaits({"Quoted"}, Built)'
    BY <2>3, <2>5, <2>6 DEF Awaits, Task
  <2> QED
    BY <2>1, <2>4, <2>6, <2>7 DEF Stage
<1>8. ASSUME NEW right \in BOOLEAN, EnterPassword(right) PROVE Stage'
  <2> DEFINE t == [kind |-> "Authorized", about |-> send.req, right |-> right]
  <2>1. send \in Sends /\ send # None /\ send.step = "Authorize" /\ send.req \in Requests
    BY <1>0, <1>8 DEF EnterPassword, Step, Screens, Reviewed
  <2>2. Fitting(t)
    BY <2>1, TaskFitting
  <2>3. pending'[next_req] = t
    BY <1>8, <2>2, Spawned DEF EnterPassword
  <2>4. /\ send'.step = "Authorize" /\ send'.req = send.req /\ send'.from = send.from
        /\ send'.params = send.params /\ send'.checking /\ send'.retyped = send.retyped
    BY <1>8, <2>1 DEF EnterPassword, Sends
  <2>5. inflight' = next_req /\ next_req \in mine' /\ strayed' = strayed
    BY <1>8 DEF EnterPassword
  <2> HIDE DEF next_req
  <2>6. /\ pending'[inflight'].kind = "Authorized" /\ pending'[inflight'].about = send.req
        /\ inflight' \in mine'
    BY <2>3, <2>5
  <2> QED
    BY <2>1, <2>4, <2>5, <2>6 DEF Stage, Awaits
<1> QED
  BY <1>1, <1>2, <1>3, <1>4, <1>5, <1>6, <1>7, <1>8

LEMMA StageNext == TypeOK /\ Screens /\ Booked /\ Stage /\ [Next]_vars => Stage'
<1> SUFFICES ASSUME TypeOK, Screens, Booked, Stage, [Next]_vars PROVE Stage'
  OBVIOUS
<1>1. CASE send' = None
  BY <1>1 DEF Stage
<1>2. CASE \/ OpenChains \/ OpenSettings \/ OpenReveal \/ OpenHistory \/ Back \/ Lock
           \/ \E a \in Accounts : OpenAssets(a)
  BY <1>1, <1>2 DEF OpenChains, OpenSettings, OpenReveal, OpenHistory, Back, Lock, OpenAssets, Pop,
                    Leave
<1>3. CASE BeginUnlock \/ RefreshBalances \/ RevealWords \/ \E i \in ReqIds : OnUnlocked(i)
  BY <1>1, <1>3 DEF BeginUnlock, RefreshBalances, RevealWords, OnUnlocked, Screens, Shell
<1>4. CASE OpenSend
  <2>1. /\ send'.req = None /\ send'.step = "Recipient" /\ ~send'.checking /\ mine' = {}
    BY <1>4 DEF OpenSend, NewSend
  <2> QED
    BY <2>1 DEF Stage
<1>5. ASSUME NEW i \in ReqIds, OnBalances(i) PROVE Stage'
  <2>1. CASE inflight # i
    BY <1>5, <2>1, OtherAnswer DEF OnBalances
  <2>2. CASE inflight = i /\ send # None
    <3>1. send \in Sends /\ send.step \in Steps /\ i # None
      BY <2>2, SendsType, NoneAssumption DEF Screens, Shell
    <3>2. send.step \in {"Recipient", "EnterAmount"}
      BY <1>5, <2>2, <3>1 DEF OnBalances, Stage, Awaits, Steps
    <3> QED
      BY <1>5, <2>2, <3>2 DEF OnBalances, Stage
  <2>3. CASE send = None
    BY <1>5, <2>3 DEF OnBalances, Stage
  <2> QED
    BY <2>1, <2>2, <2>3
<1>6. ASSUME NEW i \in ReqIds, OnHistory(i) PROVE Stage'
  <2>1. CASE inflight # i
    BY <1>6, <2>1, OtherAnswer DEF OnHistory
  <2>2. CASE inflight = i /\ send # None
    <3>1. send \in Sends /\ send.step \in Steps /\ i # None
      BY <2>2, SendsType, NoneAssumption DEF Screens, Shell
    <3>2. send.step \in {"Recipient", "EnterAmount"}
      BY <1>6, <2>2, <3>1 DEF OnHistory, Stage, Awaits, Steps
    <3> QED
      BY <1>6, <2>2, <3>2 DEF OnHistory, Stage
  <2>3. CASE send = None
    BY <1>6, <2>3 DEF OnHistory, Stage
  <2> QED
    BY <2>1, <2>2, <2>3
<1>7. CASE UNCHANGED vars
  BY <1>7 DEF vars, Stage, Awaits, Built
<1> QED
  BY <1>2, <1>3, <1>4, <1>5, <1>6, <1>7, StageKeys, StageQuoted, StageAuthorized, StageBlockhash,
     StageBroadcast
     DEF Next, Keys, HandleEvent

---------------------------------------------------------------------------
(* The theorems.                                                           *)

IInv == TypeOK /\ Screens /\ Booked /\ Shown /\ Stage

\* The two flags; the rest of the types is in the other parts.
LEMMA FlagsNext ==
    TypeOK /\ [Next]_vars => vault' \in BOOLEAN /\ strayed' \in BOOLEAN
<1> SUFFICES ASSUME TypeOK, [Next]_vars PROVE vault' \in BOOLEAN /\ strayed' \in BOOLEAN
  OBVIOUS
<1> USE DEF TypeOK, shell
<1>1. CASE Keys
  BY <1>1 DEF Keys, BeginUnlock, OpenChains, OpenSettings, OpenReveal, RevealWords, OpenAssets,
              RefreshBalances, OpenHistory, OpenSend, Back, Pop, Leave, TypePayee, Confirm, ToAmount,
              TypeAmount, ToRecipient, RequestQuote, EnterPassword, OnSendScreen
<1>2. CASE Lock \/ Expire \/ UNCHANGED vars
  BY <1>2 DEF Lock, Leave, Expire, OnSendScreen, vars
<1>3. ASSUME NEW i \in ReqIds, HandleEvent(i) PROVE vault' \in BOOLEAN /\ strayed' \in BOOLEAN
  BY <1>3 DEF HandleEvent, OnUnlocked, OnQuoted, OnAuthorized, OnBlockhash, OnBroadcast, OnHistory,
              OnBalances, Stray
<1> QED
  BY <1>1, <1>2, <1>3 DEF Next

LEMMA TypeFromParts ==
    /\ vault \in BOOLEAN /\ strayed \in BOOLEAN /\ Screens /\ Booked /\ Shown => TypeOK
  BY DEF Screens, Shell, Booked, Shown, TypeOK

LEMMA InvInit == Init => IInv
<1> SUFFICES ASSUME Init PROVE IInv
  OBVIOUS
<1>1. screen \in Outer /\ screen \notin Inner /\ screen \notin {"Send", "Assets", "History"}
  BY DEF Init, Outer, Inner
<1>2. Screens
  <2>1. nav \in Seq(Inner) /\ session = FALSE /\ send = None /\ account = None
    BY DEF Init
  <2>2. Shell
    BY <1>1, <2>1 DEF Shell, Stacked
  <2> QED
    BY <1>1, <2>1, <2>2 DEF Screens, Placed, Reviewed
<1>3. Booked
  BY DEF Init, Booked, Tasked
<1>4. Shown /\ Stage
  BY <1>1 DEF Init, Shown, Stage
<1>5. vault \in BOOLEAN /\ strayed \in BOOLEAN
  BY DEF Init
<1> QED
  BY <1>2, <1>3, <1>4, <1>5, TypeFromParts DEF IInv

LEMMA InvNext == IInv /\ [Next]_vars => IInv'
<1> SUFFICES ASSUME IInv, [Next]_vars PROVE IInv'
  OBVIOUS
<1>1. Screens' /\ Booked' /\ Shown' /\ Stage'
  BY ScreensNext, BookedNext, ShownNext, StageNext DEF IInv, Screens, Booked
<1>2. vault' \in BOOLEAN /\ strayed' \in BOOLEAN
  BY FlagsNext DEF IInv
<1>3. TypeOK'
  BY <1>1, <1>2 DEF Screens, Shell, Booked, Shown, TypeOK
<1> QED
  BY <1>1, <1>3 DEF IInv

\* The inductive invariant: what each screen, request and stage of a transfer
\* owes to the others.
THEOREM Invariance == Spec => []IInv
  BY InvInit, InvNext, PTL DEF Spec

\* Every variable keeps its type.
THEOREM TypeCorrect == Spec => []TypeOK
<1>1. IInv => TypeOK
  BY DEF IInv
<1> QED
  BY Invariance, <1>1, PTL

\* The screens behind the unlock and the session go together, and Esc leads back
\* to the wallet list.
THEOREM SessionIsBehind == Spec => []SessionBehindScreens
<1>1. IInv => SessionBehindScreens
  <2> SUFFICES ASSUME IInv PROVE SessionBehindScreens
    OBVIOUS
  <2>1. Shell
    BY DEF IInv, Screens
  <2>2. ASSUME session
        PROVE  /\ Len(nav) <= 3
               /\ \A n \in 1..Len(nav) : nav[n] \in {"Wallets", "Chains", "Assets"}
               /\ screen = "Wallets" <=> nav = <<>>
               /\ screen # "Wallets" => nav[1] = "Wallets"
    <3>1. /\ Len(nav) \in Depths(screen) /\ \A n \in 1..Len(nav) : nav[n] = Floor(n)
          /\ nav \in Seq(Inner) /\ screen \in Inner
      BY <2>1, <2>2 DEF Shell, Stacked
    <3>2. Len(nav) \in 0..3 /\ (Len(nav) = 0 <=> screen = "Wallets")
      BY <3>1 DEF Depths, Inner
    <3>3. nav = <<>> <=> Len(nav) = 0
      BY <3>1, EmptySeq
    <3>4. Len(nav) # 0 => 1 \in 1..Len(nav)
      BY <3>2
    <3> QED
      BY <3>1, <3>2, <3>3, <3>4 DEF Floor
  <2> QED
    BY <2>1, <2>2 DEF Shell, SessionBehindScreens
<1> QED
  BY Invariance, <1>1, PTL

\* What is shown of an address was read from it.
THEOREM ShownIsOwn == Spec => []ShownBelongsHere
<1>1. IInv => ShownBelongsHere
  BY DEF IInv, Shown, ShownBelongsHere
<1> QED
  BY Invariance, <1>1, PTL

\* Parameters under review were quoted for the request under review, unless an
\* event of another screen has touched this transfer.
THEOREM QuotedForRequest == Spec => []QuoteIsForRequest
<1>1. IInv => QuoteIsForRequest
  BY DEF IInv, Stage, QuoteIsForRequest
<1> QED
  BY Invariance, <1>1, PTL

\* A signature is made by the answer to the password or, for Solana, by the hash
\* fetched after it, and out of the transfer on screen.
LEMMA SignedBy ==
    ASSUME IInv, [Next]_vars, Signing
    PROVE  \E i \in ReqIds, s \in Sends :
             /\ inflight = i /\ FinishSigning(i, s)
             /\ s.req = send.req /\ s.retyped = send.retyped
             /\ \/ /\ pending[i].kind = "Authorized" /\ s.proven = pending[i].about
                   /\ send.params.about.from \notin OnSolana
                   /\ s.params = send.params
                \/ /\ pending[i].kind = "Blockhash" /\ s.proven = send.proven
                   /\ s.params.fresh
<1>0. /\ send \in Sends /\ send # None /\ send.step = "Authorize" /\ send' # None
      /\ send'.step = "Broadcasting" /\ send.params \in Params /\ send' # send
      /\ screen = "Send"
  BY DEF IInv, Screens, Shell, Reviewed, Signing, Step
<1>1. ASSUME NEW i \in ReqIds, OnAuthorized(i)
      PROVE  /\ inflight = i /\ FinishSigning(i, [send EXCEPT !.proven = pending[i].about])
             /\ pending[i].kind = "Authorized" /\ send.params.about.from \notin OnSolana
             /\ pending[i].about \in Requests
  <2>1. pending[i].kind = "Authorized" /\ pending[i].about \in Requests
    BY <1>1 DEF OnAuthorized, IInv, Booked, Tasked, Fitting
  <2>2. /\ FailSend(send).step = "Failed" /\ [send EXCEPT !.checking = FALSE].step = "Authorize"
        /\ [send EXCEPT !.proven = pending[i].about].step = "Authorize"
    BY <1>0 DEF FailSend, Sends
  <2>3. inflight = i /\ SignOrFetch(i, [send EXCEPT !.proven = pending[i].about])
    BY <1>0, <1>1, <2>2 DEF OnAuthorized
  <2>4. [send EXCEPT !.proven = pending[i].about].params = send.params
    BY <1>0 DEF Sends
  <2> QED
    BY <1>0, <2>1, <2>2, <2>3, <2>4 DEF SignOrFetch
<1>2. ASSUME NEW i \in ReqIds, OnBlockhash(i)
      PROVE  /\ inflight = i /\ FinishSigning(i, [send EXCEPT !.params.fresh = TRUE])
             /\ pending[i].kind = "Blockhash"
  <2>1. FailSend(send).step = "Failed"
    BY <1>0 DEF FailSend, Sends
  <2> QED
    BY <1>0, <1>2, <2>1 DEF OnBlockhash
<1>3. ASSUME NEW i \in ReqIds, OnAuthorized(i) PROVE \E s \in Sends :
             /\ inflight = i /\ FinishSigning(i, s)
             /\ s.req = send.req /\ s.retyped = send.retyped
             /\ pending[i].kind = "Authorized" /\ s.proven = pending[i].about
             /\ send.params.about.from \notin OnSolana /\ s.params = send.params
  <2> DEFINE s == [send EXCEPT !.proven = pending[i].about]
  <2>1. /\ s \in Sends /\ s.req = send.req /\ s.retyped = send.retyped /\ s.params = send.params
        /\ s.proven = pending[i].about
    BY <1>0, <1>1, <1>3 DEF Sends
  <2>2. inflight = i /\ FinishSigning(i, s) /\ pending[i].kind = "Authorized"
        /\ send.params.about.from \notin OnSolana
    BY <1>1, <1>3
  <2> HIDE DEF s
  <2> QED
    BY <2>1, <2>2
<1>4. ASSUME NEW i \in ReqIds, OnBlockhash(i) PROVE \E s \in Sends :
             /\ inflight = i /\ FinishSigning(i, s)
             /\ s.req = send.req /\ s.retyped = send.retyped
             /\ pending[i].kind = "Blockhash" /\ s.proven = send.proven /\ s.params.fresh
  <2> DEFINE s == [send EXCEPT !.params.fresh = TRUE]
  <2>1. [send.params EXCEPT !.fresh = TRUE] \in Params /\ [send.params EXCEPT !.fresh = TRUE].fresh
    BY <1>0 DEF Params
  <2>2. /\ s \in Sends /\ s.req = send.req /\ s.retyped = send.retyped /\ s.proven = send.proven
        /\ s.params.fresh
    BY <1>0, <2>1 DEF Sends
  <2>3. inflight = i /\ FinishSigning(i, s) /\ pending[i].kind = "Blockhash"
    BY <1>2, <1>4
  <2> HIDE DEF s
  <2> QED
    BY <2>2, <2>3
\* No other step goes from the password to the broadcast.
<1>5. \E i \in ReqIds : OnAuthorized(i) \/ OnBlockhash(i)
  <2>1. ~Keys
    BY <1>0 DEF Keys, BeginUnlock, OpenChains, OpenSettings, OpenReveal, RevealWords, OpenAssets,
                RefreshBalances, OpenHistory, OpenSend, Back, Pop, Leave, TypePayee, Confirm, ToAmount,
                TypeAmount, ToRecipient, RequestQuote, EnterPassword, Step, Sends
  <2>2. ~Lock /\ ~UNCHANGED vars
    BY <1>0 DEF Lock, Leave, vars
  <2>3. ~Expire
    BY <1>0 DEF Expire, Sends
  <2>4. ASSUME NEW i \in ReqIds
        PROVE  ~OnUnlocked(i) /\ ~OnQuoted(i) /\ ~OnBroadcast(i) /\ ~OnHistory(i) /\ ~OnBalances(i)
    BY <1>0 DEF OnUnlocked, OnQuoted, OnBroadcast, OnHistory, OnBalances, FailSend, Sends
  <2> QED
    BY <2>1, <2>2, <2>3, <2>4 DEF Next, HandleEvent
<1> QED
  BY <1>3, <1>4, <1>5

\* Nothing is signed that was not retyped and then confirmed by the password, on the
\* screen that shows it.
THEOREM OnlyApprovedIsSigned == Spec => SignsOnlyApproved
<1>1. ASSUME IInv, [Next]_vars, Signing
      PROVE  /\ session /\ screen = "Send"
             /\ send'.req = send.req
             /\ send'.retyped = send.req
             /\ send'.proven = send.req
             /\ inflight \in mine
             /\ pending[inflight].kind \in {"Authorized", "Blockhash"}
  <2>1. PICK i \in ReqIds, s \in Sends :
             /\ inflight = i /\ FinishSigning(i, s)
             /\ s.req = send.req /\ s.retyped = send.retyped
             /\ \/ pending[i].kind = "Authorized" /\ s.proven = pending[i].about
                \/ pending[i].kind = "Blockhash" /\ s.proven = send.proven
    BY <1>1, SignedBy
  <2>2. send # None /\ send.step = "Authorize" /\ i # None
    BY NoneAssumption, <1>1 DEF Signing, Step
  <2>3. /\ i \in mine /\ pending[i].about = send.req /\ send.retyped = send.req
        /\ pending[i].kind = "Blockhash" => send.proven = send.req
    BY <1>1, <2>1, <2>2 DEF IInv, Stage, Awaits
  <2>4. send'.req = s.req /\ send'.retyped = s.retyped /\ send'.proven = s.proven
    BY <2>1 DEF FinishSigning, FailSend, Sends
  <2>5. session /\ screen = "Send"
    BY <1>1, <2>2 DEF IInv, Screens, Shell, Inner
  <2> QED
    BY <2>1, <2>3, <2>4, <2>5
<1>2. IInv /\ [Next]_vars =>
        [Signing => /\ session /\ screen = "Send"
                    /\ send'.req = send.req
                    /\ send'.retyped = send.req
                    /\ send'.proven = send.req
                    /\ inflight \in mine
                    /\ pending[inflight].kind \in {"Authorized", "Blockhash"}]_vars
  BY <1>1
<1> QED
  BY Invariance, <1>2, PTL DEF SignsOnlyApproved, Spec

\* A Solana transfer is signed over a hash fetched after the password was accepted.
THEOREM FreshHashIsSigned == Spec => SolanaHashFresh
<1>1. ASSUME IInv, [Next]_vars, Signing, send.req.from \in OnSolana
      PROVE  send'.params.fresh
  <2>1. PICK i \in ReqIds, s \in Sends :
             /\ FinishSigning(i, s) /\ s.req = send.req
             /\ \/ send.params.about.from \notin OnSolana /\ s.params = send.params
                \/ s.params.fresh
    BY <1>1, SignedBy
  <2>2. send' = [s EXCEPT !.step = "Broadcasting"] /\ ~SignRefused(s)
    BY <1>1, <2>1 DEF FinishSigning, FailSend, Signing, Sends
  <2>3. s.params.fresh
    BY <1>1, <2>1, <2>2 DEF SignRefused
  <2> QED
    BY <2>2, <2>3 DEF Sends
<1>2. IInv /\ [Next]_vars => [Signing /\ send.req.from \in OnSolana => send'.params.fresh]_vars
  BY <1>1
<1> QED
  BY Invariance, <1>2, PTL DEF SolanaHashFresh, Spec
=============================================================================
