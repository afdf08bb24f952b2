--------------------------- MODULE AmiLoginProofs --------------------------
(* Proofs about the life of ami_socket, for every number of login threads,     *)
(* records, descriptors, requests, failures and losses.                        *)
EXTENDS AmiLogin, FiniteSetTheorems, TLAPS

----------------------------------------------------------------------------
(* The inductive invariant: what holds as long as no two logins have passed    *)
(* the test of ami_socket.                                                     *)

\* From LNew to the end of a login that succeeds, and to the delete of one that fails,
\* ami_socket is the record of the login.
Owning == {"connect", "greeting", "manage", "banner", "answer", "add", "epoll", "fail",
           "spin"}
\* The login has its descriptor.
HasFd == {"greeting", "manage", "banner", "answer", "add", "epoll"}
\* The record has its descriptor and type; its func and user_data.
Identified == {"manage", "banner", "answer", "add", "epoll"}
Managed == {"banner", "answer", "add", "epoll"}

\* One login at a time.
Single == \A s, t \in Atps : pc[s] # "idle" /\ pc[t] # "idle" => s = t

\* A record is there only as ami_socket or until closesocket deletes it; m_connect names
\* only ami_socket, under its descriptor, and epoll reports only what m_connect names.
Records ==
  /\ \A o \in Recs : heap[o] = "live" => o \in {ami_socket, cobj}
  /\ \A f \in Recs : registered[f] # Null => /\ registered[f] = ami_socket /\ Connected
                                             /\ sd[ami_socket] = f
  /\ \A f \in armed : registered[f] # Null

\* closesocket works on a record that is there and no longer registered.
Closing ==
  /\ cpc = "idle" => cobj = Null /\ cfd = Null
  /\ cpc # "idle" => Live(cobj) /\ cfd \in open /\ registered[cfd] = Null
  /\ cpc = "notify" => /\ cobj = ami_socket /\ \A f \in Recs : registered[f] = Null
                       /\ \A t \in Atps : pc[t] \in {"idle", "peek"}
  /\ cpc = "delete" => cobj # ami_socket

\* What a login has done at each place.
Logins ==
  \A t \in Atps :
    /\ pc[t] = "new" => ami_socket = Null
    /\ pc[t] \in Owning => Live(ami_socket)
    /\ pc[t] = "null" => ~Live(ami_socket)
    /\ pc[t] \notin {"idle", "epoll", "peek"} => \A f \in Recs : registered[f] = Null
    /\ pc[t] \in HasFd => lsd[t] \in open /\ lsd[t] # cfd /\ armed = {}
    /\ pc[t] \in Identified => ami_socket \in client /\ sd[ami_socket] = lsd[t]
    /\ pc[t] \in Managed => ami_socket \in manage /\ data[t] = ami_socket
    /\ pc[t] = "epoll" => registered[lsd[t]] = ami_socket
    /\ pc[t] = "peek" /\ ~early => registered[lsd[t]] = ami_socket /\ lsd[t] \in armed
                                   /\ ami_socket # Null

\* Between two logins, and before the last access of one.
Resting ==
  (\A t \in Atps : pc[t] \in {"idle", "peek"})
    => \/ ami_socket = Null
       \/ cpc = "notify"
       \/ Connected /\ sd[ami_socket] \in armed

\* A call of ami_async that nothing has crossed has the connection to itself.
Caller ==
  upc # "idle" /\ ~crossed
    => this = ami_socket /\ ami_socket # Null /\ InLogin = {} /\ cpc = "idle"

Alone == Single /\ Records /\ Closing /\ Logins /\ Resting /\ Caller

Inv == TypeOK /\ (~twice => Alone) /\ LoginIsSafe /\ CallIsSafe

----------------------------------------------------------------------------
(* Type correctness.                                                           *)

\* No record is null.
LEMMA Names == Null \notin Recs /\ Recs \subseteq Nat /\ Null \in Nat
BY LoginConstants DEF Recs, Null

\* A step of a login keeps the types.
LEMMA LoginTypeOK ==
  ASSUME TypeOK, Alone, ~twice, NEW t \in Atps, Login(t)
  PROVE  TypeOK'
<1> USE Names, LoginConstants
    DEF TypeOK, Pcs, Pointers, Goto, Local, Access, record, kernel, atp, close, user, ghosts
<1>1. CASE LSkip(t) BY <1>1 DEF LSkip
<1>2. CASE LCheck(t) BY <1>2 DEF LCheck
<1>3. CASE LNew(t) BY <1>3 DEF LNew
<1>4. CASE LConnect(t) BY <1>4 DEF LConnect
<1>5. CASE LNoConnect(t) BY <1>5 DEF LNoConnect
<1>6. CASE LIdentify(t) BY <1>6 DEF LIdentify, Live
<1>7. CASE LManage(t) BY <1>7 DEF LManage, Live
<1>8. CASE LBanner(t) \/ LAnswer(t)
  <2>1. CASE LBanner(t) BY <2>1 DEF LBanner
  <2>2. CASE LAnswer(t) BY <2>2 DEF LAnswer
  <2>3. QED BY <1>8, <2>1, <2>2
<1>9. CASE LReject(t) \/ LSpin(t)
  <2>1. fails' \in 0..MaxFails BY <1>9 DEF LReject, LSpin
  <2>2. PICK to \in {"fail", "spin"} : pc' = [pc EXCEPT ![t] = to]
    BY <1>9 DEF LReject, LSpin
  <2>3. CASE LReject(t) BY <2>1, <2>3 DEF LReject
  <2>4. CASE LSpin(t) BY <2>1, <2>4 DEF LSpin
  <2>5. QED BY <1>9, <2>3, <2>4
<1>10. CASE LDelete(t) BY <1>10 DEF LDelete
<1>11. CASE LNull(t) BY <1>11 DEF LNull, Return
<1>12. CASE LAdd(t)
  BY <1>12 DEF LAdd, Alone, Logins, Identified, Managed, Live
<1>13. CASE LEpoll(t)
  <2>1. pc[t] = "epoll" /\ pc' = [pc EXCEPT ![t] = "peek"] BY <1>13 DEF LEpoll
  <2>2. armed' \subseteq Recs BY <1>13, <2>1 DEF LEpoll
  <2>3. pc' \in [Atps -> Pcs] BY <2>1
  <2>4. QED BY <1>13, <2>1, <2>2, <2>3 DEF LEpoll
<1>14. CASE LPeek(t) BY <1>14 DEF LPeek, Return
<1>15. QED
  BY <1>1, <1>2, <1>3, <1>4, <1>5, <1>6, <1>7, <1>8, <1>9, <1>10, <1>11, <1>12, <1>13,
     <1>14
  DEF Login

\* So do the other threads' steps.
LEMMA OtherTypeOK ==
  ASSUME TypeOK, Alone, ~twice, Request \/ Pool \/ Call \/ \E f \in Recs : Lose(f)
  PROVE  TypeOK'
<1> USE Names, LoginConstants
    DEF TypeOK, Pointers, Access, record, kernel, atp, close, user, ghosts
<1>1. CASE Request BY <1>1 DEF Request
<1>2. CASE Notify BY <1>2 DEF Notify
<1>3. CASE CloseDelete BY <1>3 DEF CloseDelete, Alone, Logins, HasFd
<1>4. CASE \E f \in Recs : CloseFind(f) BY <1>4 DEF CloseFind
<1>5. CASE CallBegin BY <1>5 DEF CallBegin
<1>6. CASE CallTest BY <1>6 DEF CallTest
<1>7. CASE CallCompose \/ CallWrite BY <1>7 DEF CallCompose, CallWrite
<1>8. CASE \E f \in Recs : Lose(f) BY <1>8 DEF Lose
<1>9. QED BY <1>1, <1>2, <1>3, <1>4, <1>5, <1>6, <1>7, <1>8 DEF Pool, Call

----------------------------------------------------------------------------
(* One login at a time.                                                        *)

\* While one login runs the other threads are idle, and what it does at a place changes
\* only where it is.
LEMMA OneLogin ==
  ASSUME TypeOK, Single, NEW t \in Atps, NEW to, pc[t] # "idle",
         pc' = [pc EXCEPT ![t] = to]
  PROVE  /\ pc'[t] = to
         /\ \A s \in Atps : s # t => pc[s] = "idle" /\ pc'[s] = "idle"
         /\ Single'
BY DEF TypeOK, Single

\* The steps of a login up to its connection.
LEMMA LoginBegins ==
  ASSUME TypeOK, Alone, ~twice, crash = "none", NEW t \in Atps,
         LSkip(t) \/ LCheck(t) \/ LNew(t) \/ LConnect(t) \/ LNoConnect(t), ~twice'
  PROVE  Alone'
<1> USE Names
    DEF TypeOK, Pointers, Alone, Goto, Local, record, kernel, atp, close, user, ghosts
<1>1. CASE LSkip(t)
  BY <1>1
  DEF LSkip, Single, Records, Closing, Logins, Resting, Caller, Connected, Live, InLogin
<1>2. CASE LCheck(t)
  <2>1. \A s \in Atps : pc[s] = "idle" BY <1>2 DEF LCheck, InLogin
  <2>2. /\ pc'[t] = "new" /\ \A s \in Atps : s # t => pc'[s] = "idle"
        /\ ami_socket = Null
    BY <1>2, <2>1 DEF LCheck
  <2>3. \A f \in Recs : registered[f] = Null BY <2>2 DEF Records, Connected, Live
  <2>4. cpc # "notify" BY <2>2 DEF Closing, Live
  <2>5. UNCHANGED <<ami_socket, heap, sd, client, manage, registered, open, armed, lsd, data,
                    cpc, cfd, cobj, upc, this, early, crossed>>
    BY <1>2 DEF LCheck
  <2>6. Single' BY <2>2 DEF Single
  <2>7. Records' /\ Closing'
    BY <2>4, <2>5 DEF Records, Closing, Connected, Live
  <2>8. Logins' BY <2>2, <2>3, <2>5 DEF Logins, Owning, HasFd, Identified, Managed
  <2>9. Resting' /\ Caller' BY <2>2, <2>5 DEF Resting, Caller, InLogin
  <2>10. QED BY <2>6, <2>7, <2>8, <2>9
<1>3. CASE LNew(t)
  <2>1. /\ pc[t] = "new" /\ ami_socket = Null /\ pc'[t] = "connect" /\ Single'
        /\ \A s \in Atps : s # t => pc[s] = "idle" /\ pc'[s] = "idle"
        /\ \A f \in Recs : registered[f] = Null
    BY <1>3, OneLogin DEF LNew, Logins
  <2>2. PICK o \in Recs : /\ heap[o] = "none" /\ heap' = [heap EXCEPT ![o] = "live"]
                          /\ ami_socket' = o
    BY <1>3 DEF LNew
  <2>3. UNCHANGED <<sd, client, manage, registered, open, armed, lsd, data, cpc, cfd, cobj,
                    upc, this, early>> /\ crossed' = (crossed \/ upc # "idle")
    BY <1>3 DEF LNew
  <2>4. Live(o)' /\ o # cobj /\ cpc # "notify" BY <2>1, <2>2 DEF Closing, Live
  <2>5. Records' BY <2>1, <2>2, <2>3 DEF Records, Closing
  <2>6. Closing' BY <2>2, <2>3, <2>4 DEF Closing, Live
  <2>7. Logins' BY <2>1, <2>2, <2>3, <2>4 DEF Logins, Owning, HasFd, Identified, Managed
  <2>8. Resting' /\ Caller' BY <2>1, <2>3 DEF Resting, Caller
  <2>9. QED BY <2>1, <2>5, <2>6, <2>7, <2>8
<1>4. CASE LConnect(t)
  <2>1. /\ pc[t] = "connect" /\ pc'[t] = "greeting" /\ Single'
        /\ \A s \in Atps : s # t => pc[s] = "idle" /\ pc'[s] = "idle"
        /\ \A f \in Recs : registered[f] = Null
        /\ Live(ami_socket)
    BY <1>4, OneLogin DEF LConnect, Logins, Owning
  <2>2. PICK f \in Recs : /\ f \notin open /\ open' = open \cup {f}
                          /\ lsd' = [lsd EXCEPT ![t] = f]
    BY <1>4 DEF LConnect
  <2>3. UNCHANGED <<ami_socket, heap, sd, client, manage, registered, armed, data, cpc, cfd,
                    cobj, upc, this, early, crossed>>
    BY <1>4 DEF LConnect
  <2>4. Records' BY <2>1, <2>3 DEF Records
  <2>5. Closing' BY <2>1, <2>2, <2>3 DEF Closing, Live
  <2>6. Logins'
    <3>1. armed = {} BY <2>1 DEF Records
    <3>2. f # cfd BY <2>2 DEF Closing
    <3>4. QED
      BY <2>1, <2>2, <2>3, <3>1, <3>2
      DEF Logins, Owning, HasFd, Identified, Managed, Live
  <2>7. Resting' /\ Caller' BY <2>1, <2>3 DEF Resting, Caller, InLogin
  <2>8. QED BY <2>1, <2>4, <2>5, <2>6, <2>7
<1>5. CASE LNoConnect(t)
  <2>1. /\ pc[t] = "connect" /\ pc'[t] = "fail" /\ Single'
        /\ \A s \in Atps : s # t => pc[s] = "idle" /\ pc'[s] = "idle"
        /\ \A f \in Recs : registered[f] = Null
        /\ Live(ami_socket)
    BY <1>5, OneLogin DEF LNoConnect, Logins, Owning
  <2>2. UNCHANGED <<ami_socket, heap, sd, client, manage, registered, open, armed, lsd, data,
                    cpc, cfd, cobj, upc, this, early, crossed>>
    BY <1>5 DEF LNoConnect
  <2>3. Records' BY <2>1, <2>2 DEF Records
  <2>4. Closing' BY <2>1, <2>2 DEF Closing, Live
  <2>5. Logins' BY <2>1, <2>2 DEF Logins, Owning, HasFd, Identified, Managed, Live
  <2>6. Resting' /\ Caller' BY <2>1, <2>2 DEF Resting, Caller, InLogin
  <2>7. QED BY <2>1, <2>3, <2>4, <2>5, <2>6
<1>6. QED BY <1>1, <1>2, <1>3, <1>4, <1>5

\* The steps of a login from its connection to its answer.
LEMMA LoginGoesOn ==
  ASSUME TypeOK, Alone, ~twice, crash = "none", NEW t \in Atps,
         \/ LIdentify(t) \/ LManage(t) \/ LBanner(t) \/ LAnswer(t) \/ LReject(t)
         \/ LSpin(t)
  PROVE  Alone'
<1> USE Names DEF TypeOK, Pointers, Alone
<1>1. PICK to \in {"manage", "banner", "answer", "add", "fail", "spin"} :
        /\ pc' = [pc EXCEPT ![t] = to] /\ pc[t] \in HasFd /\ pc[t] # "epoll"
        /\ to \in HasFd => \/ pc[t] = "greeting" /\ to = "manage" /\ LIdentify(t)
                           \/ pc[t] = "manage" /\ to = "banner" /\ LManage(t)
                           \/ pc[t] \in Managed /\ ~LIdentify(t) /\ ~LManage(t)
  BY DEF LIdentify, LManage, LBanner, LAnswer, LReject, LSpin, Goto, HasFd, Managed
<1>2. /\ pc'[t] = to /\ Single'
      /\ \A s \in Atps : s # t => pc[s] = "idle" /\ pc'[s] = "idle"
  BY <1>1, OneLogin DEF HasFd
<1>3. /\ Live(ami_socket) /\ (\A f \in Recs : registered[f] = Null)
      /\ lsd[t] \in open /\ lsd[t] # cfd /\ armed = {}
  BY <1>1 DEF Logins, HasFd, Owning
<1>4. UNCHANGED <<ami_socket, heap, registered, open, armed, lsd, cpc, cfd, cobj, upc, this,
                  early, crossed>>
  BY DEF LIdentify, LManage, LBanner, LAnswer, LReject, LSpin, Local, record, kernel, close,
         user
<1>5. Records' BY <1>3, <1>4 DEF Records
<1>6. Closing' BY <1>1, <1>2, <1>3, <1>4 DEF Closing, Live, HasFd
<1>7. Logins'
  <2>1. to \in Identified => ami_socket \in client' /\ sd'[ami_socket] = lsd[t]
    <3>1. CASE LIdentify(t) BY <1>3, <3>1 DEF LIdentify, Live
    <3>2. CASE ~LIdentify(t) /\ to \in Identified
      <4>1. pc[t] \in Identified BY <1>1, <3>2 DEF HasFd, Identified, Managed
      <4>2. UNCHANGED <<client, sd>>
        BY <3>2 DEF LManage, LBanner, LAnswer, LReject, LSpin, Local, record
      <4>3. QED BY <4>1, <4>2 DEF Logins
    <3>3. QED BY <3>1, <3>2
  <2>2. to \in Managed => ami_socket \in manage' /\ data'[t] = ami_socket
    <3>1. CASE LManage(t) BY <1>3, <3>1 DEF LManage, Live
    <3>2. CASE ~LManage(t) /\ to \in Managed
      <4>1. pc[t] \in Managed /\ ~LIdentify(t) BY <1>1, <3>2 DEF HasFd, Managed
      <4>2. UNCHANGED <<manage, data>>
        BY <3>2, <4>1 DEF LBanner, LAnswer, LReject, LSpin, Local, record
      <4>3. QED BY <4>1, <4>2 DEF Logins
    <3>3. QED BY <3>1, <3>2
  <2>3. QED
    BY <1>1, <1>2, <1>3, <1>4, <2>1, <2>2
    DEF Logins, Owning, HasFd, Identified, Managed, Live
<1>8. Resting' BY <1>2 DEF Resting
<1>9. Caller' BY <1>1, <1>2, <1>4 DEF Caller, InLogin, HasFd
<1>10. QED BY <1>2, <1>5, <1>6, <1>7, <1>8, <1>9

\* The end of a login that has failed: the record is deleted, then ami_socket is NULL.
LEMMA LoginFails ==
  ASSUME TypeOK, Alone, ~twice, crash = "none", NEW t \in Atps, LDelete(t) \/ LNull(t)
  PROVE  Alone'
<1> USE Names DEF TypeOK, Pointers, Alone
<1>1. PICK to \in {"null", "idle"} :
        /\ pc' = [pc EXCEPT ![t] = to] /\ pc[t] \in {"fail", "null"}
  BY DEF LDelete, LNull, Return, Goto
<1>2. /\ pc'[t] = to /\ Single'
      /\ \A s \in Atps : s # t => pc[s] = "idle" /\ pc'[s] = "idle"
  BY <1>1, OneLogin
<1>3. \A f \in Recs : registered[f] = Null BY <1>1 DEF Logins
<1>4. cpc # "notify" BY <1>1 DEF Closing
<1>5. UNCHANGED <<sd, client, manage, registered, open, armed, cpc, cfd, cobj, upc, this,
                  early, crossed>>
  BY DEF LDelete, LNull, record, kernel, close, user, ghosts
<1>6. CASE LDelete(t)
  <2>1. Live(ami_socket) /\ pc'[t] = "null"
    BY <1>2, <1>6 DEF LDelete, Goto, Logins, Owning
  <2>2. heap' = [heap EXCEPT ![ami_socket] = "deleted"] /\ ami_socket' = ami_socket
    BY <1>6, <2>1 DEF LDelete, Live
  <2>3. Records' BY <1>3, <1>5, <2>1, <2>2 DEF Records, Live
  <2>4. Closing' BY <1>4, <1>5, <2>1, <2>2 DEF Closing, Live
  <2>5. Logins'
    BY <1>2, <1>3, <1>5, <2>1, <2>2 DEF Live, Logins, Owning, HasFd, Identified, Managed
  <2>6. Resting' /\ Caller' BY <1>1, <1>2, <1>5, <2>1 DEF Resting, Caller, InLogin
  <2>7. QED BY <1>2, <2>3, <2>4, <2>5, <2>6
<1>7. CASE LNull(t)
  <2>1. pc[t] = "null" /\ pc'[t] = "idle" /\ ami_socket' = Null /\ heap' = heap
    BY <1>2, <1>7 DEF LNull, Return, Goto, record
  <2>2. Records'
    <3>1. \A o \in Recs : heap[o] = "live" => o \in {ami_socket, cobj} BY DEF Records
    <3>2. ~Live(ami_socket)
      BY <2>1 DEF Logins
    <3>3. QED BY <1>3, <1>5, <2>1, <3>1, <3>2 DEF Records, Live
  <2>3. Closing' BY <1>4, <1>5, <2>1 DEF Closing, Live
  <2>4. Logins'
    BY <1>2, <1>3, <1>5, <2>1 DEF Logins, Owning, HasFd, Identified, Managed
  <2>5. Resting' /\ Caller' BY <1>1, <1>2, <1>5, <2>1 DEF Resting, Caller, InLogin
  <2>6. QED BY <1>2, <2>2, <2>3, <2>4, <2>5
<1>8. QED BY <1>6, <1>7

\* The end of a login that has succeeded: the connection is given to the pool.
LEMMA LoginSucceeds ==
  ASSUME TypeOK, Alone, ~twice, crash = "none", NEW t \in Atps,
         LAdd(t) \/ LEpoll(t) \/ LPeek(t)
  PROVE  Alone'
<1> USE Names DEF TypeOK, Pointers, Alone
<1>1. CASE LAdd(t)
  <2>1. /\ pc' = [pc EXCEPT ![t] = "epoll"] /\ pc[t] = "add" BY <1>1 DEF LAdd, Goto
  <2>2. /\ pc'[t] = "epoll" /\ Single'
        /\ \A s \in Atps : s # t => pc[s] = "idle" /\ pc'[s] = "idle"
    BY <2>1, OneLogin
  <2>3. /\ Live(ami_socket) /\ sd[ami_socket] = lsd[t] /\ ami_socket \in client \cap manage
        /\ lsd[t] \in open /\ lsd[t] # cfd /\ armed = {} /\ data[t] = ami_socket
        /\ \A f \in Recs : registered[f] = Null
    BY <2>1 DEF Logins, Owning, HasFd, Identified, Managed
  <2>4. registered' = [registered EXCEPT ![lsd[t]] = ami_socket] BY <1>1, <2>3 DEF LAdd
  <2>5. UNCHANGED <<ami_socket, heap, sd, client, manage, open, armed, lsd, data, cpc, cfd,
                    cobj, upc, this, early, crossed>>
    BY <1>1 DEF LAdd, record, close, user
  <2>6. Records' BY <2>3, <2>4, <2>5 DEF Records, Connected, Live
  <2>7. Closing' BY <2>1, <2>3, <2>4, <2>5 DEF Closing, Live
  <2>8. Logins'
    BY <2>2, <2>3, <2>4, <2>5 DEF Logins, Owning, HasFd, Identified, Managed, Live
  <2>9. Resting' /\ Caller' BY <2>1, <2>2, <2>5 DEF Resting, Caller, InLogin
  <2>10. QED BY <2>2, <2>6, <2>7, <2>8, <2>9
<1>2. CASE LEpoll(t)
  <2>1. /\ pc' = [pc EXCEPT ![t] = "peek"] /\ pc[t] = "epoll" BY <1>2 DEF LEpoll, Goto
  <2>2. /\ pc'[t] = "peek" /\ Single'
        /\ \A s \in Atps : s # t => pc[s] = "idle" /\ pc'[s] = "idle"
    BY <2>1, OneLogin
  <2>3. /\ Live(ami_socket) /\ sd[ami_socket] = lsd[t] /\ registered[lsd[t]] = ami_socket
        /\ lsd[t] \in open /\ lsd[t] # cfd
    BY <2>1 DEF Logins, Owning, HasFd, Identified
  <2>4. armed' = armed \cup {lsd[t]} BY <1>2 DEF LEpoll
  <2>5. UNCHANGED <<ami_socket, heap, sd, client, manage, registered, open, lsd, data, cpc,
                    cfd, cobj, upc, this, early, crossed>>
    BY <1>2 DEF LEpoll, record, close, user, ghosts
  <2>6. Records' BY <2>3, <2>4, <2>5 DEF Records, Connected, Live
  <2>7. Closing' BY <2>1, <2>3, <2>5 DEF Closing, Live
  <2>8. Logins'
    BY <2>2, <2>3, <2>4, <2>5 DEF Logins, Owning, HasFd, Identified, Managed, Live
  <2>9. Connected' /\ sd'[ami_socket'] \in armed'
    BY <2>3, <2>4, <2>5 DEF Records, Connected, Live
  <2>10. Resting' /\ Caller'
    BY <2>1, <2>2, <2>5, <2>9 DEF Resting, Caller, InLogin
  <2>11. QED BY <2>2, <2>6, <2>7, <2>8, <2>10
<1>3. CASE LPeek(t)
  <2>1. /\ pc' = [pc EXCEPT ![t] = "idle"] /\ pc[t] = "peek" BY <1>3 DEF LPeek, Return, Goto
  <2>2. /\ pc'[t] = "idle" /\ Single'
        /\ \A s \in Atps : s # t => pc[s] = "idle" /\ pc'[s] = "idle"
    BY <2>1, OneLogin
  <2>3. UNCHANGED <<ami_socket, heap, sd, client, manage, registered, open, armed, cpc, cfd,
                    cobj, upc, this, early, crossed>>
    BY <1>3 DEF LPeek, Local, record, kernel, close, user
  <2>4. Records' /\ Closing' BY <2>2, <2>3 DEF Records, Closing, Connected, Live
  <2>5. Logins' BY <2>2, <2>3 DEF Logins, Owning, HasFd, Identified, Managed
  <2>6. Resting' BY <2>1, <2>2, <2>3 DEF Resting, Connected, Live
  <2>7. Caller' BY <2>1, <2>2, <2>3 DEF Caller, InLogin
  <2>8. QED BY <2>2, <2>4, <2>5, <2>6, <2>7
<1>4. QED BY <1>1, <1>2, <1>3

----------------------------------------------------------------------------
(* The pool, the caller, and main().                                           *)

\* A step of closesocket.
LEMMA PoolAlone ==
  ASSUME TypeOK, Alone, ~twice, crash = "none", Pool
  PROVE  Alone'
<1> USE Names DEF TypeOK, Pointers, Alone
<1>1. CASE \E f \in Recs : CloseFind(f)
  <2>1. PICK f \in Recs : CloseFind(f) BY <1>1
  <2>2. /\ cpc = "idle" /\ cpc' = "notify" /\ f \in armed /\ cfd' = f /\ cobj' = registered[f]
        /\ armed' = armed \ {f} /\ registered' = [registered EXCEPT ![f] = Null]
        /\ early' = (early \/ \E t \in Atps : lsd[t] = f)
        /\ crossed' = (crossed \/ upc # "idle")
        /\ UNCHANGED <<ami_socket, heap, sd, client, manage, open, pc, lsd, data, upc, this>>
    BY <2>1 DEF CloseFind, record, atp, user
  <2>3. /\ registered[f] = ami_socket /\ ami_socket # Null /\ Connected /\ sd[ami_socket] = f
        /\ \A g \in Recs : g # f => registered[g] = Null
    BY <2>2 DEF Records
  <2>4. \A t \in Atps : pc[t] \in {"idle", "peek"}
    BY <2>2, <2>3 DEF Logins, HasFd, Pcs
  <2>5. Single' /\ Records' BY <2>2, <2>3 DEF Single, Records, Closing
  <2>6. Closing' BY <2>2, <2>3, <2>4 DEF Closing, Connected, Live
  <2>7. Logins'
    <3>1. \A t \in Atps : pc[t] = "peek" /\ ~early' => FALSE
      <4>1. SUFFICES ASSUME NEW t \in Atps, pc[t] = "peek", ~early' PROVE FALSE
        OBVIOUS
      <4>2. registered[lsd[t]] = ami_socket /\ lsd[t] \in armed
        BY <2>2, <4>1 DEF Logins
      <4>3. lsd[t] = f BY <2>3, <4>2 DEF Records
      <4>4. QED BY <2>2, <4>1, <4>3
    <3>2. QED
      BY <2>2, <2>4, <3>1 DEF Logins, Owning, HasFd, Identified, Managed
  <2>8. Resting' /\ Caller' BY <2>2 DEF Resting, Caller
  <2>9. QED BY <2>5, <2>6, <2>7, <2>8
<1>2. CASE Notify
  <2>1. /\ cpc = "notify" /\ cpc' = "delete" /\ cobj = ami_socket /\ Live(cobj)
        /\ ami_socket' = Null /\ \A t \in Atps : pc[t] \in {"idle", "peek"}
        /\ \A f \in Recs : registered[f] = Null
        /\ UNCHANGED <<heap, sd, client, manage, registered, open, armed, pc, lsd, data, cfd,
                       cobj, upc, this, early, crossed>>
    BY <1>2 DEF Notify, Closing, record, kernel, atp, user, ghosts
  <2>2. Single' /\ Records' BY <2>1 DEF Single, Records
  <2>3. Closing' BY <2>1 DEF Closing, Live
  <2>4. Logins' BY <2>1 DEF Logins, Owning, HasFd, Identified, Managed
  <2>5. Resting' /\ Caller' BY <2>1 DEF Resting, Caller
  <2>6. QED BY <2>2, <2>3, <2>4, <2>5
<1>3. CASE CloseDelete
  <2>1. /\ cpc = "delete" /\ cpc' = "idle" /\ cobj # ami_socket /\ Live(cobj)
        /\ registered[cfd] = Null /\ cfd \in Recs
        /\ open' = open \ {cfd} /\ heap' = [heap EXCEPT ![cobj] = "deleted"]
        /\ cfd' = Null /\ cobj' = Null
        /\ UNCHANGED <<ami_socket, sd, client, manage, registered, armed, pc, lsd, data, upc,
                       this, early, crossed>>
    BY <1>3 DEF CloseDelete, Closing, atp, user
  <2>2. Single' BY <2>1 DEF Single
  <2>3. Live(ami_socket)' = Live(ami_socket)
    BY <2>1 DEF Live
  <2>4. Connected => Connected' BY <2>1, <2>3 DEF Connected
  <2>5. Records' BY <2>1, <2>4 DEF Records, Live
  <2>6. Closing' BY <2>1 DEF Closing
  <2>7. Logins' BY <2>1, <2>3 DEF Logins, Owning, HasFd, Identified, Managed
  <2>8. Resting' BY <2>1, <2>4 DEF Resting
  <2>9. Caller' BY <2>1 DEF Caller, InLogin
  <2>10. QED BY <2>2, <2>5, <2>6, <2>7, <2>8, <2>9
<1>4. QED BY <1>1, <1>2, <1>3 DEF Pool

\* A step of ami_async, of main(), or the loss of a connection.
LEMMA CallAlone ==
  ASSUME TypeOK, Alone, ~twice, Request \/ Call \/ \E f \in Recs : Lose(f)
  PROVE  Alone'
<1> USE Names DEF TypeOK, Pointers, Alone
<1>1. UNCHANGED <<ami_socket, heap, sd, client, manage, registered, open, armed, pc, lsd, data,
                  cpc, cfd, cobj, early>>
  BY DEF Request, Call, CallBegin, CallTest, CallCompose, CallWrite, Lose, record, kernel,
         atp, close, ghosts
<1>2. Single' /\ Records' /\ Closing'
  BY <1>1 DEF Single, Records, Closing, Connected, Live
<1>3. Logins' /\ Resting'
  BY <1>1 DEF Logins, Resting, Connected, Live
<1>4. Caller'
  <2>1. CASE CallBegin BY <1>1, <2>1 DEF CallBegin, Caller, InLogin
  <2>2. CASE CallTest \/ CallCompose \/ CallWrite
    BY <1>1, <2>2 DEF CallTest, CallCompose, CallWrite, Caller, InLogin
  <2>3. CASE Request \/ \E f \in Recs : Lose(f)
    BY <1>1, <2>3 DEF Request, Lose, Caller, InLogin, user, ghosts
  <2>4. QED BY <2>1, <2>2, <2>3 DEF Call
<1>5. QED BY <1>2, <1>3, <1>4

----------------------------------------------------------------------------
(* What the threads access is there.                                           *)

\* A login accesses a record that is not there only if the connection was lost before
\* it returned.
LEMMA LoginAccess ==
  ASSUME TypeOK, Alone, crash = "none", NEW t \in Atps, Login(t)
  PROVE  crash' = "none" \/ (crash' = "login" /\ early')
<1> USE Names DEF TypeOK, Alone, Access, Goto, Local, ghosts
<1>1. CASE LIdentify(t) BY <1>1 DEF LIdentify, Logins, Owning
<1>2. CASE LManage(t) BY <1>2 DEF LManage, Logins, Owning
<1>3. CASE LBanner(t) \/ LAnswer(t)
  BY <1>3 DEF LBanner, LAnswer, Logins, Owning, Managed
<1>4. CASE LDelete(t) BY <1>4 DEF LDelete, Logins, Owning
<1>5. CASE LAdd(t) BY <1>5 DEF LAdd, Logins, Owning
<1>6. CASE LPeek(t)
  <2>1. early' = early /\ pc[t] = "peek" BY <1>6 DEF LPeek, Return
  <2>2. CASE ~early
    <3>1. registered[lsd[t]] = ami_socket /\ lsd[t] \in armed /\ ami_socket # Null
      BY <2>1, <2>2 DEF Logins
    <3>2. Live(ami_socket) BY <3>1 DEF Records, Connected
    <3>3. QED BY <1>6, <3>2 DEF LPeek
  <2>3. CASE early BY <1>6, <2>1, <2>3 DEF LPeek
  <2>4. QED BY <2>2, <2>3
<1>7. CASE \/ LSkip(t) \/ LCheck(t) \/ LNew(t) \/ LConnect(t) \/ LNoConnect(t) \/ LReject(t)
           \/ LSpin(t) \/ LNull(t) \/ LEpoll(t)
  BY <1>7 DEF LSkip, LCheck, LNew, LConnect, LNoConnect, LReject, LSpin, LNull, LEpoll
<1>8. QED BY <1>1, <1>2, <1>3, <1>4, <1>5, <1>6, <1>7 DEF Login

\* closesocket accesses only records that are there.
LEMMA PoolAccess ==
  ASSUME TypeOK, Alone, crash = "none", Pool
  PROVE  crash' = "none"
<1> USE Names DEF TypeOK, Alone, Access
<1>1. CASE \E f \in Recs : CloseFind(f)
  <2>1. PICK f \in Recs : CloseFind(f) BY <1>1
  <2>2. Live(registered[f]) BY <2>1 DEF CloseFind, Records, Connected
  <2>3. QED BY <2>1, <2>2 DEF CloseFind
<1>2. CASE Notify BY <1>2 DEF Notify, ghosts
<1>3. CASE CloseDelete BY <1>3 DEF CloseDelete, Closing
<1>4. QED BY <1>1, <1>2, <1>3 DEF Pool

\* A caller accesses a record that is not there only if a login or a close has crossed its
\* call.
LEMMA CallAccess ==
  ASSUME TypeOK, Alone, crash = "none", Request \/ Call \/ \E f \in Recs : Lose(f)
  PROVE  crash' = "none" \/ (crash' = "user" /\ crossed')
<1> USE Names DEF TypeOK, Alone, ghosts
<1>1. CASE Request \/ CallBegin \/ \E f \in Recs : Lose(f)
  BY <1>1 DEF Request, CallBegin, Lose
<1>2. CASE CallTest \/ CallCompose \/ CallWrite
  <2>1. crossed' = crossed /\ upc # "idle"
    BY <1>2 DEF CallTest, CallCompose, CallWrite
  <2>2. ~crossed => this = ami_socket /\ Live(ami_socket)
    BY <2>1 DEF Caller, InLogin, Resting, Connected
  <2>3. QED
    BY <1>2, <2>1, <2>2 DEF CallTest, CallCompose, CallWrite, Access, Live
<1>3. QED BY <1>1, <1>2 DEF Call

----------------------------------------------------------------------------
(* Theorems.                                                                   *)

\* The invariant holds initially.
LEMMA InitInv == Init => Inv
<1> SUFFICES ASSUME Init PROVE Inv OBVIOUS
<1> USE Names, LoginConstants DEF Init
<1>1. TypeOK
  <2>1. 0 \in 0..MaxQueue /\ 0 \in 0..MaxFails OBVIOUS
  <2>2. QED BY <2>1 DEF TypeOK, Pcs, Pointers
<1>2. Single /\ Records /\ Closing BY DEF Single, Records, Closing
<1>3. Logins BY DEF Logins, Owning, HasFd, Identified, Managed
<1>4. Resting /\ Caller BY DEF Resting, Caller
<1>5. QED BY <1>1, <1>2, <1>3, <1>4 DEF Inv, Alone, LoginIsSafe, CallIsSafe

\* Every step keeps the invariant.
LEMMA StepInv == Inv /\ [Next]_vars => Inv'
<1> SUFFICES ASSUME Inv, [Next]_vars PROVE Inv' OBVIOUS
<1>1. CASE Next
  <2>1. TypeOK /\ Alone /\ ~twice /\ crash = "none" BY <1>1 DEF Next, Followed, Inv
  <2>2. TypeOK' BY <1>1, <2>1, LoginTypeOK, OtherTypeOK DEF Next
  <2>3. ~twice' => Alone'
    BY <1>1, <2>1, LoginBegins, LoginGoesOn, LoginFails, LoginSucceeds, PoolAlone,
       CallAlone
    DEF Next, Login
  <2>4. \/ crash' = "none" \/ (crash' = "login" /\ early')
        \/ (crash' = "user" /\ crossed')
    BY <1>1, <2>1, LoginAccess, PoolAccess, CallAccess DEF Next
  <2>5. QED BY <2>2, <2>3, <2>4 DEF Inv, LoginIsSafe, CallIsSafe
<1>2. CASE UNCHANGED vars
  <2> USE <1>2 DEF vars, record, kernel, atp, close, user, ghosts
  <2>1. TypeOK' BY DEF Inv, TypeOK
  <2>2. ~twice' => Alone'
    BY DEF Inv, Alone, Single, Records, Closing, Logins, Resting, Caller, Connected, Live,
           InLogin
  <2>3. LoginIsSafe' /\ CallIsSafe' BY DEF Inv, LoginIsSafe, CallIsSafe
  <2>4. QED BY <2>1, <2>2, <2>3 DEF Inv
<1>3. QED BY <1>1, <1>2

\* The invariant holds in every state: as long as no two logins have passed the test of
\* ami_socket, m_connect, epoll, the login and closesocket agree on the one record there
\* is (amiaction.cpp 6-148, amiproc.cpp 361-370).
THEOREM Invariance == Spec => []Inv
BY InitInv, StepInv, PTL DEF Spec

\* Every variable has its type, a login keeps its descriptor, and what m_connect names has
\* its type and its AMI_MANAGE (amiaction.cpp 60-136).
THEOREM TypeCorrect == Spec => []TypeOK
<1>1. Inv => TypeOK BY DEF Inv
<1>2. QED BY <1>1, Invariance, PTL

\* Unless two logins have passed the unlocked test, there is at most one connection
\* (amiaction.cpp 6).
THEOREM AtMostOne == Spec => []OneConnection
<1>1. Inv => OneConnection
  <2>1. SUFFICES ASSUME Inv, ~twice
                 PROVE  /\ Cardinality({o \in Recs : heap[o] = "live" /\ o # cobj}) <= 1
                        /\ \A f \in Recs : registered[f] # Null => registered[f] = ami_socket
    BY DEF OneConnection
  <2>2. Records BY <2>1 DEF Inv, Alone
  <2>3. {o \in Recs : heap[o] = "live" /\ o # cobj} \subseteq {ami_socket}
    BY <2>2 DEF Records
  <2>4. IsFiniteSet({ami_socket}) /\ Cardinality({ami_socket}) = 1 BY FS_Singleton
  <2>5. Cardinality({o \in Recs : heap[o] = "live" /\ o # cobj}) <= 1
    BY <2>3, <2>4, FS_Subset
  <2>6. QED BY <2>2, <2>5 DEF Records
<1>2. QED BY <1>1, Invariance, PTL

\* Unless two logins have passed the test, ami_socket is NULL or a connection in use when
\* no login runs and no connection is being closed (amiaction.cpp 16-133, amiproc.cpp
\* 361-370).
THEOREM RestsSettled == Spec => []Settled
<1>1. Inv => Settled
  BY DEF Inv, Alone, Settled, Resting, InLogin
<1>2. QED BY <1>1, Invariance, PTL

\* amiLogin and closesocket access only records that are there, unless two logins have
\* passed the test or the connection was lost too soon (amiaction.cpp 148).
THEOREM LoginSafe == Spec => []LoginIsSafe
<1>1. Inv => LoginIsSafe BY DEF Inv
<1>2. QED BY <1>1, Invariance, PTL

\* ami_sync and ami_async access only records that are there, unless a login or a close
\* overlaps the call (amiproc.cpp 107-142, 174-196).
THEOREM CallSafe == Spec => []CallIsSafe
<1>1. Inv => CallIsSafe BY DEF Inv
<1>2. QED BY <1>1, Invariance, PTL
=============================================================================
