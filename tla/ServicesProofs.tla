--------------------------- MODULE ServicesProofs ---------------------------
(***************************************************************************)
(* For any number of users, sessions, requests, profiles, imports and      *)
(* calls: who is admitted was signed in, one profile is the default, a     *)
(* cancelled import stays so, the health check and the dashboard tell the  *)
(* truth, the AI provider gives up last, and two reports of revenue agree; *)
(* and the services, side by side, stay within the values the code names.  *)
(***************************************************************************)
EXTENDS MCServices, ImportProofs, RepliesProofs

-----------------------------------------------------------------------------
(* Accounts: the guard *)

Calling ==
    [at : {"idle", "open", "guard", "user", "change", "write"},
     op : {"none", "login", "read", "logout", "password", "create", "update"},
     who : People \cup Profiles \cup {Nobody},
     session : Sessions \cup {Nobody}, known : Nat, live : BOOLEAN]

\* What the guard's steps read of a request and of the rows they look up.
GuardShape ==
    /\ account \in [People -> [active : BOOLEAN, password : Nat]]
    /\ session \in [Sessions -> People \cup {Nobody}]
    /\ drawn \in [Sessions -> [who : People \cup {Nobody}, retired : BOOLEAN]]
    /\ call \in [Calls -> Calling]
    /\ \A c \in Calls :
          call[c].at \in {"open", "user", "change"} => call[c].who \in People
    /\ \A s \in Sessions : drawn[s] = NotDrawn \/ drawn[s].who \in People
    /\ \A c \in Calls :
          call[c].session \in Sessions => drawn[call[c].session].who \in People

\* A session in Redis is the one drawn under its id, and has not ended.
OpenSessionsAreDrawn ==
    \A s \in Sessions :
        session[s] # Nobody => drawn[s] = [who |-> session[s], retired |-> FALSE]

\* A request that was not live when it came will be turned away: its session is
\* still over, or its user still inactive.
DeadAreTurnedAway ==
    \A c \in Calls :
        /\ call[c].at = "guard" =>
              /\ call[c].session \in Sessions
              /\ call[c].live \/ drawn[call[c].session].retired
                              \/ ~account[drawn[call[c].session].who].active
        /\ call[c].at = "user" => call[c].live \/ ~account[call[c].who].active

GuardInvariant ==
    GuardShape /\ OpenSessionsAreDrawn /\ DeadAreTurnedAway /\ AdmittedWereLive

LEMMA GuardStarts == AccountsInit => GuardInvariant
  BY NobodyIsNoOne
     DEF AccountsInit, GuardInvariant, GuardShape, OpenSessionsAreDrawn, DeadAreTurnedAway,
         AdmittedWereLive, Quit, NotDrawn, Calling

LEMMA GuardRows ==
    ASSUME GuardInvariant
    PROVE  /\ account \in [People -> [active : BOOLEAN, password : Nat]]
           /\ session \in [Sessions -> People \cup {Nobody}]
           /\ drawn \in [Sessions -> [who : People \cup {Nobody}, retired : BOOLEAN]]
           /\ \A c \in Calls : call[c] \in Calling
           /\ \A s \in Sessions : drawn[s] = NotDrawn \/ drawn[s].who \in People
  BY DEF GuardInvariant, GuardShape

\* Requests end, or go on past the guard; sessions and accounts only end.
LEMMA GuardForgets ==
    ASSUME GuardInvariant, UNCHANGED admitted,
           account' \in [People -> [active : BOOLEAN, password : Nat]],
           session' \in [Sessions -> People \cup {Nobody}],
           drawn' \in [Sessions -> [who : People \cup {Nobody}, retired : BOOLEAN]],
           call' \in [Calls -> Calling],
           \A u \in People : account'[u].active => account[u].active,
           \A s \in Sessions :
              /\ drawn'[s] = drawn[s] \/ drawn[s].who \in People
              /\ drawn'[s].who = drawn[s].who
              /\ drawn[s].retired => drawn'[s].retired
              /\ session'[s] # Nobody => session'[s] = session[s] /\ drawn'[s] = drawn[s],
           \A c \in Calls :
              \/ call'[c] = call[c]
              \/ /\ call'[c].at \in {"idle", "write"}
                 /\ call'[c].session \in {call[c].session, Nobody}
    PROVE  GuardInvariant'
<1> USE DEF GuardInvariant
<1>a. \A c \in Calls : call'[c].at \in {"open", "user", "change"} => call'[c].who \in People
  BY DEF GuardShape
<1>b. \A s \in Sessions : drawn'[s] = NotDrawn \/ drawn'[s].who \in People
  BY DEF GuardShape
<1>c. \A c \in Calls :
         call'[c].session \in Sessions => drawn'[call'[c].session].who \in People
  BY NobodyIsNoOne DEF GuardShape
<1>1. GuardShape'
  BY <1>a, <1>b, <1>c DEF GuardShape
<1>2. DeadAreTurnedAway'
  BY DEF GuardShape, DeadAreTurnedAway
<1>3. OpenSessionsAreDrawn'
  <2> SUFFICES ASSUME NEW s \in Sessions, session'[s] # Nobody
               PROVE  drawn'[s] = [who |-> session'[s], retired |-> FALSE]
    BY DEF OpenSessionsAreDrawn
  <2>1. session'[s] = session[s] /\ drawn'[s] = drawn[s]
    OBVIOUS
  <2> QED BY <2>1 DEF OpenSessionsAreDrawn
<1>4. AdmittedWereLive'
  BY DEF AdmittedWereLive
<1> QED BY <1>1, <1>2, <1>3, <1>4

\* A request that changes no row ends, or goes on past the guard.
LEMMA RequestLeavesGuard ==
    ASSUME GuardInvariant, NEW c \in Calls, NEW new \in Calling,
           new.at \in {"idle", "write"},
           new.session \in {call[c].session, Nobody},
           call' = [call EXCEPT ![c] = new],
           UNCHANGED <<account, session, drawn, admitted>>
    PROVE  GuardInvariant'
<1>1. /\ call' \in [Calls -> Calling]
      /\ \A d \in Calls : call'[d] = IF d = c THEN new ELSE call[d]
  BY DEF GuardInvariant, GuardShape
<1> QED BY <1>1, GuardForgets DEF GuardInvariant, GuardShape

LEMMA LoginStep ==
    ASSUME GuardInvariant, NEW c \in Calls, NEW u \in People, Login(c, u)
    PROVE  GuardInvariant'
<1> DEFINE new == [Quit EXCEPT !.at = "open", !.op = "login", !.who = u]
<1>1. new \in Calling /\ new.at = "open" /\ new.who = u /\ new.session = Nobody
  BY DEF Quit, Calling
<1>2. call' = [call EXCEPT ![c] = new]
  BY DEF Login, Begin
<1> HIDE DEF new
<1>3. /\ call' \in [Calls -> Calling]
      /\ \A d \in Calls : call'[d] = IF d = c THEN new ELSE call[d]
  BY <1>1, <1>2 DEF GuardInvariant, GuardShape
<1> QED BY <1>1, <1>3, NobodyIsNoOne
        DEF Login, GuardInvariant, GuardShape, OpenSessionsAreDrawn, DeadAreTurnedAway,
            AdmittedWereLive

LEMMA OpenSessionStep ==
    ASSUME GuardInvariant, NEW c \in Calls, NEW s \in Sessions, OpenSession(c, s)
    PROVE  GuardInvariant'
<1> DEFINE u == call[c].who
<1>1. u \in People /\ drawn[s] = NotDrawn
  BY DEF OpenSession, GuardInvariant, GuardShape
<1>2. Quit \in Calling /\ Quit.session = Nobody /\ Quit.at = "idle"
  BY NobodyIsNoOne DEF Quit, Calling
<1>3. /\ call' \in [Calls -> Calling]
      /\ \A d \in Calls : call'[d] = IF d = c THEN Quit ELSE call[d]
  BY <1>2 DEF OpenSession, End, GuardInvariant, GuardShape
<1>4. /\ session' \in [Sessions -> People \cup {Nobody}]
      /\ \A z \in Sessions : session'[z] = IF z = s THEN u ELSE session[z]
  BY <1>1 DEF OpenSession, GuardInvariant, GuardShape
<1>5. /\ drawn' \in [Sessions -> [who : People \cup {Nobody}, retired : BOOLEAN]]
      /\ \A z \in Sessions : drawn'[z] = IF z = s THEN [who |-> u, retired |-> FALSE]
                                         ELSE drawn[z]
  BY <1>1 DEF OpenSession, GuardInvariant, GuardShape
<1>6. UNCHANGED <<account, admitted>>
  BY DEF OpenSession
<1>7. \A d \in Calls : call[d].session # s
  BY <1>1, NobodyIsNoOne DEF GuardInvariant, GuardShape, NotDrawn
<1> HIDE DEF u
<1>8. GuardShape'
  <2>1. \A d \in Calls : call'[d].at \in {"open", "user", "change"} => call'[d].who \in People
    BY <1>2, <1>3 DEF GuardInvariant, GuardShape
  <2>2. \A z \in Sessions : drawn'[z] = NotDrawn \/ drawn'[z].who \in People
    BY <1>1, <1>5 DEF GuardInvariant, GuardShape
  <2>3. \A d \in Calls :
           call'[d].session \in Sessions => drawn'[call'[d].session].who \in People
    BY <1>1, <1>2, <1>3, <1>5, NobodyIsNoOne DEF GuardInvariant, GuardShape
  <2> QED BY <1>3, <1>4, <1>5, <1>6, <2>1, <2>2, <2>3 DEF GuardInvariant, GuardShape
<1>9. OpenSessionsAreDrawn'
  BY <1>4, <1>5 DEF GuardInvariant, OpenSessionsAreDrawn
<1>10. DeadAreTurnedAway'
  BY <1>2, <1>3, <1>5, <1>6, <1>7 DEF GuardInvariant, DeadAreTurnedAway
<1> QED BY <1>6, <1>8, <1>9, <1>10 DEF GuardInvariant, AdmittedWereLive

LEMMA ArriveStep ==
    ASSUME GuardInvariant, NEW c \in Calls, NEW s \in Sessions,
           NEW op \in {"read", "logout", "password"}, Arrive(c, s, op),
           drawn[s].who \in People
    PROVE  GuardInvariant'
<1> DEFINE alive == ~drawn[s].retired /\ account[drawn[s].who].active
           new == [Quit EXCEPT !.at = "guard", !.op = op, !.session = s, !.live = alive]
<1>1. alive \in BOOLEAN
  OBVIOUS
<1>2. call' = [call EXCEPT ![c] = new]
  BY DEF Arrive, Begin
<1>3. /\ new \in Calling
      /\ new.at = "guard" /\ new.session = s /\ new.live = alive
  <2> HIDE DEF alive
  <2> QED BY <1>1 DEF Quit, Calling
<1> HIDE DEF new
<1>4. /\ call' \in [Calls -> Calling]
      /\ \A d \in Calls : call'[d] = IF d = c THEN new ELSE call[d]
  BY <1>2, <1>3 DEF GuardInvariant, GuardShape
<1>5. UNCHANGED <<account, session, drawn, admitted>>
  BY DEF Arrive
<1>6. GuardShape'
  BY <1>3, <1>4, <1>5 DEF GuardInvariant, GuardShape
<1>7. DeadAreTurnedAway'
  BY <1>3, <1>4, <1>5 DEF GuardInvariant, DeadAreTurnedAway
<1> QED BY <1>5, <1>6, <1>7 DEF GuardInvariant, OpenSessionsAreDrawn, AdmittedWereLive

LEMMA ReadSessionStep ==
    ASSUME GuardInvariant, NEW c \in Calls, ReadSession(c)
    PROVE  GuardInvariant'
<1> DEFINE u == session[call[c].session]
<1>1. UNCHANGED <<account, session, drawn, admitted>> /\ call[c].at = "guard"
  BY DEF ReadSession
<1>2. CASE u = Nobody
  <2>1. Quit \in Calling /\ Quit.session = Nobody /\ Quit.at = "idle"
    BY NobodyIsNoOne DEF Quit, Calling
  <2> QED BY <1>1, <1>2, <2>1, RequestLeavesGuard DEF ReadSession, End
<1>3. CASE u # Nobody
  <2>1. u \in People /\ drawn[call[c].session] = [who |-> u, retired |-> FALSE]
    BY <1>1, <1>3
       DEF GuardInvariant, GuardShape, OpenSessionsAreDrawn, DeadAreTurnedAway
  <2>2. call' = [call EXCEPT ![c].at = "user", ![c].who = u]
    BY <1>3 DEF ReadSession
  <2>3. call[c].live \/ ~account[u].active
    BY <1>1, <2>1 DEF GuardInvariant, DeadAreTurnedAway
  <2> HIDE DEF u
  <2> DEFINE new == [call[c] EXCEPT !.at = "user", !.who = u]
  <2>4. /\ new \in Calling
        /\ new.at = "user" /\ new.who = u /\ new.live = call[c].live
        /\ new.session = call[c].session
    <3>1. call[c] \in Calling
      BY GuardRows
    <3> QED BY <2>1, <3>1 DEF Calling
  <2>5. call' = [call EXCEPT ![c] = new]
    BY <2>2
  <2> HIDE DEF new
  <2>6. /\ call' \in [Calls -> Calling]
        /\ \A d \in Calls : call'[d] = IF d = c THEN new ELSE call[d]
    BY <2>4, <2>5 DEF GuardInvariant, GuardShape
  <2>7. GuardShape'
    BY <1>1, <2>1, <2>4, <2>6 DEF GuardInvariant, GuardShape
  <2>8. DeadAreTurnedAway'
    BY <1>1, <2>3, <2>4, <2>6 DEF GuardInvariant, DeadAreTurnedAway
  <2> QED BY <1>1, <2>7, <2>8 DEF GuardInvariant, OpenSessionsAreDrawn, AdmittedWereLive
<1> QED BY <1>2, <1>3

LEMMA CheckUserStep ==
    ASSUME GuardInvariant, NEW c \in Calls, CheckUser(c)
    PROVE  GuardInvariant'
<1>1. UNCHANGED <<account, session, drawn>> /\ call[c].at = "user"
  BY DEF CheckUser
<1>2. CASE account[call[c].who].active
  <2>1. call[c].live
    BY <1>1, <1>2 DEF GuardInvariant, DeadAreTurnedAway
  <2>2. call' = [call EXCEPT ![c].at = "change"] /\ admitted' = admitted \cup {call[c]}
    BY <1>2 DEF CheckUser, Proceed
  <2> DEFINE new == [call[c] EXCEPT !.at = "change"]
  <2>3. /\ new \in Calling /\ new.at = "change" /\ new.session = call[c].session
        /\ new.who = call[c].who /\ new.who \in People
    BY <1>1 DEF GuardInvariant, GuardShape, Calling
  <2>4. call' = [call EXCEPT ![c] = new]
    BY <2>2
  <2> HIDE DEF new
  <2>5. /\ call' \in [Calls -> Calling]
        /\ \A d \in Calls : call'[d] = IF d = c THEN new ELSE call[d]
    BY <2>3, <2>4 DEF GuardInvariant, GuardShape
  <2>6. GuardShape'
    BY <1>1, <2>3, <2>5 DEF GuardInvariant, GuardShape
  <2>7. DeadAreTurnedAway'
    BY <1>1, <2>3, <2>5 DEF GuardInvariant, DeadAreTurnedAway
  <2>8. AdmittedWereLive'
    BY <2>1, <2>2 DEF GuardInvariant, AdmittedWereLive
  <2> QED BY <1>1, <2>6, <2>7, <2>8 DEF GuardInvariant, OpenSessionsAreDrawn
<1>3. CASE ~account[call[c].who].active
  <2>1. Quit \in Calling /\ Quit.session = Nobody /\ Quit.at = "idle"
    BY NobodyIsNoOne DEF Quit, Calling
  <2> QED BY <1>3, <2>1, RequestLeavesGuard DEF CheckUser, End
<1> QED BY <1>2, <1>3

LEMMA GuardStep ==
    ASSUME GuardInvariant, [AccountsNext]_accountsVars
    PROVE  GuardInvariant'
<1> USE NobodyIsNoOne
<1>e. Quit \in Calling /\ Quit.session = Nobody /\ Quit.at = "idle"
  BY DEF Quit, Calling
<1>a. ASSUME NEW c \in Calls, call' = [call EXCEPT ![c] = Quit]
      PROVE  /\ call' \in [Calls -> Calling]
             /\ \A d \in Calls : call'[d] = IF d = c THEN Quit ELSE call[d]
  BY <1>e, <1>a DEF GuardInvariant, GuardShape
<1>1. ASSUME NEW c \in Calls, NEW s \in Sessions, NEW op \in {"read", "logout", "password"},
             Arrive(c, s, op)
      PROVE  GuardInvariant'
  BY <1>1, ArriveStep DEF Arrive, GuardInvariant, GuardShape
<1>2. ASSUME NEW c \in Calls, Logout(c) PROVE GuardInvariant'
  <2>1. call' = [call EXCEPT ![c] = Quit] /\ UNCHANGED <<account, admitted>>
    BY <1>2 DEF Logout, End
  <2>2. /\ session' \in [Sessions -> People \cup {Nobody}]
        /\ \A s \in Sessions :
              session'[s] = IF s = call[c].session THEN Nobody ELSE session[s]
    BY <1>2 DEF Logout, GuardInvariant, GuardShape
  <2>3. /\ drawn' \in [Sessions -> [who : People \cup {Nobody}, retired : BOOLEAN]]
        /\ \A s \in Sessions :
              /\ drawn'[s] = drawn[s] \/ drawn[s].who \in People
              /\ drawn'[s].who = drawn[s].who
              /\ drawn[s].retired => drawn'[s].retired
              /\ s # call[c].session => drawn'[s] = drawn[s]
    <3> DEFINE x == call[c].session
    <3>1. drawn \in [Sessions -> [who : People \cup {Nobody}, retired : BOOLEAN]]
      BY GuardRows
    <3>2. x \in Sessions => drawn[x].who \in People
      BY DEF GuardInvariant, GuardShape
    <3>3. drawn' = [drawn EXCEPT ![x].retired = TRUE]
      BY <1>2 DEF Logout
    <3> HIDE DEF x
    <3>4. /\ drawn' \in [Sessions -> [who : People \cup {Nobody}, retired : BOOLEAN]]
          /\ \A s \in Sessions :
                /\ drawn'[s] = drawn[s] \/ drawn[s].who \in People
                /\ drawn'[s].who = drawn[s].who
                /\ drawn[s].retired => drawn'[s].retired
                /\ s # x => drawn'[s] = drawn[s]
      <4>1. CASE x \in Sessions
        BY <3>1, <3>2, <3>3, <4>1
      <4>2. CASE x \notin Sessions
        BY <3>1, <3>3, <4>2
      <4> QED BY <4>1, <4>2
    <3> QED BY <3>4 DEF x
  <2> QED BY <1>e, <1>a, <2>1, <2>2, <2>3, GuardForgets DEF GuardInvariant, GuardShape
<1>3. ASSUME NEW c \in Calls, ComparePassword(c) PROVE GuardInvariant'
  <2> DEFINE new == [call[c] EXCEPT !.at = "write",
                                    !.known = account[call[c].who].password]
  <2>1. account[call[c].who].password \in Nat
    BY <1>3 DEF ComparePassword, GuardInvariant, GuardShape
  <2>2. new \in Calling /\ new.at = "write" /\ new.session = call[c].session
    <3>1. call[c] \in Calling
      BY GuardRows
    <3> QED BY <2>1, <3>1 DEF Calling
  <2>3. call' = [call EXCEPT ![c] = new]
    BY <1>3 DEF ComparePassword
  <2> HIDE DEF new
  <2> QED BY <1>3, <2>2, <2>3, RequestLeavesGuard DEF ComparePassword
<1>4. ASSUME NEW c \in Calls, ChangePassword(c) PROVE GuardInvariant'
  <2>1. call' = [call EXCEPT ![c] = Quit] /\ UNCHANGED <<session, drawn, admitted>>
    BY <1>4 DEF ChangePassword, End
  <2>2. call[c].known + 1 \in Nat
    BY DEF GuardInvariant, GuardShape, Calling
  <2>3. /\ account' \in [People -> [active : BOOLEAN, password : Nat]]
        /\ \A u \in People : account'[u].active = account[u].active
    <3> DEFINE new == [account[call[c].who] EXCEPT !.password = call[c].known + 1]
    <3>1. account \in [People -> [active : BOOLEAN, password : Nat]]
      BY GuardRows
    <3>2. account' = [account EXCEPT ![call[c].who] = new]
      BY <1>4 DEF ChangePassword
    <3>3. CASE call[c].who \in People
      <4>1. /\ new \in [active : BOOLEAN, password : Nat]
            /\ new.active = account[call[c].who].active
        BY <2>2, <3>1, <3>3
      <4> HIDE DEF new
      <4> QED BY <3>1, <3>2, <3>3, <4>1
    <3>4. CASE call[c].who \notin People
      <4> HIDE DEF new
      <4> QED BY <3>1, <3>2, <3>4
    <3> QED BY <3>3, <3>4
  <2> QED BY <1>e, <1>a, <2>1, <2>3, GuardForgets DEF GuardInvariant, GuardShape
<1>5. ASSUME NEW c \in Calls, ReadOnly(c) PROVE GuardInvariant'
  BY <1>5, <1>e, RequestLeavesGuard DEF ReadOnly, End
<1>6. ASSUME NEW s \in Sessions, SessionExpires(s) PROVE GuardInvariant'
  <2>1. UNCHANGED <<account, call, admitted>>
    BY <1>6 DEF SessionExpires
  <2>2. /\ session' \in [Sessions -> People \cup {Nobody}]
        /\ \A z \in Sessions : session'[z] = IF z = s THEN Nobody ELSE session[z]
    BY <1>6 DEF SessionExpires, GuardInvariant, GuardShape
  <2>4. drawn[s].who \in People /\ drawn' = [drawn EXCEPT ![s].retired = TRUE]
    BY <1>6 DEF SessionExpires, GuardInvariant, GuardShape, OpenSessionsAreDrawn
  <2>3. /\ drawn' \in [Sessions -> [who : People \cup {Nobody}, retired : BOOLEAN]]
        /\ \A z \in Sessions :
              /\ drawn'[z] = drawn[z] \/ drawn[z].who \in People
              /\ drawn'[z].who = drawn[z].who
              /\ drawn[z].retired => drawn'[z].retired
              /\ z # s => drawn'[z] = drawn[z]
    <3>1. drawn \in [Sessions -> [who : People \cup {Nobody}, retired : BOOLEAN]]
      BY GuardRows
    <3> QED BY <2>4, <3>1
  <2> QED BY <2>1, <2>2, <2>3, GuardForgets DEF GuardInvariant, GuardShape
<1>7. ASSUME NEW u \in People, Deactivate(u) PROVE GuardInvariant'
  <2>1. UNCHANGED <<session, drawn, call, admitted>>
    BY <1>7 DEF Deactivate
  <2>2. /\ account' \in [People -> [active : BOOLEAN, password : Nat]]
        /\ \A v \in People : account'[v].active => account[v].active
    BY <1>7 DEF Deactivate, GuardInvariant, GuardShape
  <2> QED BY <2>1, <2>2, GuardForgets DEF GuardInvariant, GuardShape
<1>8. ASSUME NEW c \in Calls, NEW op \in {"create", "update"}, NEW p \in Profiles,
             ClearDefaults(c, op, p)
      PROVE  GuardInvariant'
  <2> DEFINE new == [Quit EXCEPT !.at = "write", !.op = op, !.who = p]
  <2>1. new \in Calling /\ new.at = "write" /\ new.session = Nobody
    BY DEF Quit, Calling
  <2>2. call' = [call EXCEPT ![c] = new]
    BY <1>8 DEF ClearDefaults, Begin
  <2> HIDE DEF new
  <2> QED BY <1>8, <2>1, <2>2, RequestLeavesGuard DEF ClearDefaults
<1>9. ASSUME NEW c \in Calls, WriteDefault(c) PROVE GuardInvariant'
  BY <1>9, <1>e, RequestLeavesGuard DEF WriteDefault, End
<1>10. ASSUME UNCHANGED <<account, session, drawn, admitted, call>> PROVE GuardInvariant'
  BY <1>10 DEF GuardInvariant, GuardShape, OpenSessionsAreDrawn, DeadAreTurnedAway,
               AdmittedWereLive
<1> QED
  BY <1>1, <1>2, <1>3, <1>4, <1>5, <1>6, <1>7, <1>8, <1>9, <1>10, LoginStep,
     OpenSessionStep, ReadSessionStep, CheckUserStep
     DEF AccountsNext, AuthStep, ProfileStep, DeleteProfile, accountsVars

\* Whoever the guard admits had an open session and an active account when the
\* request arrived, for any number of users, sessions and requests (auth.guard:47-72).
THEOREM AdmissionsAreLive == AccountsSpec => []AdmittedWereLive
<1>1. GuardInvariant => AdmittedWereLive
  BY DEF GuardInvariant
<1> QED BY GuardStarts, GuardStep, <1>1, PTL DEF AccountsSpec

-----------------------------------------------------------------------------
(* Accounts: the default profile *)

\* Unless two of them overlapped, a request that makes a default is alone, and
\* between its two statements no profile but its own is the default.
OnlyOneIsMaking ==
    \A c, d \in MakingDefault : c = d

OthersAreCleared ==
    \A c \in MakingDefault : \A p \in Profiles : profile[p] = "default" => p = call[c].who

DefaultIsUnique ==
    \A p, q \in Profiles : profile[p] = "default" /\ profile[q] = "default" => p = q

ProfileInvariant ==
    /\ profile \in [Profiles -> {"absent", "plain", "default"}]
    /\ crossed \in BOOLEAN
    /\ ~crossed => OnlyOneIsMaking /\ OthersAreCleared /\ DefaultIsUnique

LEMMA ProfilesStart == AccountsInit => ProfileInvariant
<1> SUFFICES ASSUME AccountsInit PROVE ProfileInvariant
  OBVIOUS
<1>1. MakingDefault = {}
  BY DEF AccountsInit, MakingDefault, Quit
<1> QED BY <1>1 DEF AccountsInit, ProfileInvariant, OnlyOneIsMaking, OthersAreCleared,
                    DefaultIsUnique

\* No request begins to make a default, and no profile becomes it.
LEMMA MakersRemain ==
    ASSUME ProfileInvariant, UNCHANGED crossed,
           profile' \in [Profiles -> {"absent", "plain", "default"}],
           \A d \in MakingDefault' : d \in MakingDefault /\ call'[d].who = call[d].who,
           \A p \in Profiles : profile'[p] = "default" => profile[p] = "default"
    PROVE  ProfileInvariant'
  BY DEF ProfileInvariant, OnlyOneIsMaking, OthersAreCleared, DefaultIsUnique

\* A request becomes one that makes no default.
LEMMA MakerLeaves ==
    ASSUME GuardShape, ProfileInvariant, UNCHANGED <<profile, crossed>>,
           NEW c \in Calls, NEW new, ~(new.at = "write" /\ new.op \in {"create", "update"}),
           call' = [call EXCEPT ![c] = new]
    PROVE  ProfileInvariant'
<1>1. \A d \in Calls : call'[d] = IF d = c THEN new ELSE call[d]
  BY DEF GuardShape
<1>2. \A d \in MakingDefault' : d \in MakingDefault /\ call'[d].who = call[d].who
  BY <1>1 DEF MakingDefault
<1> QED BY <1>2, MakersRemain DEF ProfileInvariant

\* The first statement of a request that makes a default.
LEMMA ClearDefaultsStep ==
    ASSUME GuardShape, ProfileInvariant, NEW c \in Calls, NEW op \in {"create", "update"},
           NEW p \in Profiles, ClearDefaults(c, op, p)
    PROVE  ProfileInvariant'
<1> DEFINE new == [Quit EXCEPT !.at = "write", !.op = op, !.who = p]
<1>1. new.at = "write" /\ new.op = op /\ new.who = p
  BY DEF Quit
<1>2. call' = [call EXCEPT ![c] = new]
  BY DEF ClearDefaults, Begin
<1> HIDE DEF new
<1>3. \A d \in Calls : call'[d] = IF d = c THEN new ELSE call[d]
  BY <1>2 DEF GuardShape
<1>4. \A q \in Profiles :
         /\ profile'[q] \in {"absent", "plain", "default"}
         /\ profile'[q] = "default" => q = p /\ profile[q] = "default"
  BY DEF ClearDefaults, Cleared, ProfileInvariant
<1>5. profile' \in [Profiles -> {"absent", "plain", "default"}]
  BY <1>4 DEF ClearDefaults, Cleared
<1>6. crossed' = (MakingDefault # {})
  BY DEF ClearDefaults
<1>7. crossed' \in BOOLEAN
  BY <1>6 DEF ProfileInvariant
<1>8. ASSUME ~crossed'
      PROVE  OnlyOneIsMaking' /\ OthersAreCleared' /\ DefaultIsUnique'
  <2>1. MakingDefault = {}
    BY <1>6, <1>8
  <2>2. \A d \in MakingDefault' : d = c
    BY <1>3, <2>1 DEF MakingDefault
  <2> QED BY <1>1, <1>3, <1>4, <2>2
          DEF OnlyOneIsMaking, OthersAreCleared, DefaultIsUnique, MakingDefault
<1> QED BY <1>5, <1>7, <1>8 DEF ProfileInvariant

\* The second one.
LEMMA WriteDefaultStep ==
    ASSUME GuardShape, ProfileInvariant, NEW c \in Calls, WriteDefault(c)
    PROVE  ProfileInvariant'
<1>1. c \in MakingDefault /\ UNCHANGED crossed
  BY DEF WriteDefault
<1>2. \A d \in Calls : call'[d] = IF d = c THEN Quit ELSE call[d]
  BY DEF WriteDefault, End, GuardShape
<1>3. profile' \in [Profiles -> {"absent", "plain", "default"}]
  BY DEF WriteDefault, ProfileInvariant
<1>4. \A q \in Profiles : profile'[q] = "default" => q = call[c].who \/ profile[q] = "default"
  BY DEF WriteDefault, ProfileInvariant
<1>5. \A d \in MakingDefault' : d \in MakingDefault /\ d # c
  BY <1>2 DEF MakingDefault, Quit
<1>6. ASSUME ~crossed
      PROVE  OnlyOneIsMaking' /\ OthersAreCleared' /\ DefaultIsUnique'
  <2>1. MakingDefault' = {}
    BY <1>1, <1>5, <1>6 DEF ProfileInvariant, OnlyOneIsMaking
  <2>2. \A q \in Profiles : profile'[q] = "default" => q = call[c].who
    BY <1>1, <1>4, <1>6 DEF ProfileInvariant, OthersAreCleared
  <2>3. OnlyOneIsMaking'
    BY <2>1 DEF OnlyOneIsMaking
  <2>4. OthersAreCleared'
    BY <2>1 DEF OthersAreCleared
  <2> QED BY <2>2, <2>3, <2>4 DEF DefaultIsUnique
<1> QED BY <1>1, <1>3, <1>6 DEF ProfileInvariant

LEMMA ProfileInvariantKept ==
    ASSUME GuardShape, ProfileInvariant, [AccountsNext]_accountsVars
    PROVE  ProfileInvariant'
<1>e. ~(Quit.at = "write" /\ Quit.op \in {"create", "update"})
  BY DEF Quit
<1>1. ASSUME NEW c \in Calls, NEW u \in People, Login(c, u) PROVE ProfileInvariant'
  <2> DEFINE new == [Quit EXCEPT !.at = "open", !.op = "login", !.who = u]
  <2>1. new.at = "open"
    BY DEF Quit
  <2>2. call' = [call EXCEPT ![c] = new]
    BY <1>1 DEF Login, Begin
  <2> HIDE DEF new
  <2> QED BY <1>1, <2>1, <2>2, MakerLeaves DEF Login
<1>2. ASSUME NEW c \in Calls, NEW s \in Sessions, OpenSession(c, s) PROVE ProfileInvariant'
  BY <1>2, <1>e, MakerLeaves DEF OpenSession, End
<1>3. ASSUME NEW c \in Calls, NEW s \in Sessions, NEW op \in {"read", "logout", "password"},
             Arrive(c, s, op)
      PROVE  ProfileInvariant'
  <2> DEFINE alive == ~drawn[s].retired /\ account[drawn[s].who].active
             new == [Quit EXCEPT !.at = "guard", !.op = op, !.session = s, !.live = alive]
  <2>1. call' = [call EXCEPT ![c] = new]
    BY <1>3 DEF Arrive, Begin
  <2> HIDE DEF alive
  <2>2. new.at = "guard"
    BY DEF Quit
  <2> HIDE DEF new
  <2> QED BY <1>3, <2>1, <2>2, MakerLeaves DEF Arrive
<1>4. ASSUME NEW c \in Calls, ReadSession(c) PROVE ProfileInvariant'
  <2>1. CASE call' = [call EXCEPT ![c] = Quit]
    BY <1>4, <2>1, <1>e, MakerLeaves DEF ReadSession
  <2>2. CASE call' # [call EXCEPT ![c] = Quit]
    <3> DEFINE u == session[call[c].session]
               new == [call[c] EXCEPT !.at = "user", !.who = u]
    <3>1. call' = [call EXCEPT ![c].at = "user", ![c].who = u]
      BY <1>4, <2>2 DEF ReadSession, End
    <3> HIDE DEF u
    <3>2. call' = [call EXCEPT ![c] = new] /\ new.at = "user"
      BY <3>1 DEF GuardShape, Calling
    <3> HIDE DEF new
    <3> QED BY <1>4, <3>2, MakerLeaves DEF ReadSession
  <2> QED BY <2>1, <2>2
<1>5. ASSUME NEW c \in Calls, CheckUser(c) PROVE ProfileInvariant'
  <2>1. CASE call' = [call EXCEPT ![c] = Quit]
    BY <1>5, <2>1, <1>e, MakerLeaves DEF CheckUser
  <2>2. CASE call' # [call EXCEPT ![c] = Quit]
    <3> DEFINE new == [call[c] EXCEPT !.at = "change"]
    <3>1. call' = [call EXCEPT ![c].at = "change"]
      BY <1>5, <2>2 DEF CheckUser, Proceed, End
    <3>2. call' = [call EXCEPT ![c] = new] /\ new.at = "change"
      BY <3>1 DEF GuardShape, Calling
    <3> HIDE DEF new
    <3> QED BY <1>5, <3>2, MakerLeaves DEF CheckUser
  <2> QED BY <2>1, <2>2
<1>6. ASSUME NEW c \in Calls, Logout(c) \/ ChangePassword(c) \/ ReadOnly(c)
      PROVE  ProfileInvariant'
  BY <1>6, <1>e, MakerLeaves DEF Logout, ChangePassword, ReadOnly, End
<1>7. ASSUME NEW c \in Calls, ComparePassword(c) PROVE ProfileInvariant'
  <2> DEFINE new == [call[c] EXCEPT !.at = "write",
                                    !.known = account[call[c].who].password]
  <2>1. new.op = "password"
    BY <1>7 DEF ComparePassword, GuardShape, Calling
  <2>2. call' = [call EXCEPT ![c] = new]
    BY <1>7 DEF ComparePassword
  <2> HIDE DEF new
  <2> QED BY <1>7, <2>1, <2>2, MakerLeaves DEF ComparePassword
<1>8. ASSUME UNCHANGED <<call, profile, crossed>> PROVE ProfileInvariant'
  BY <1>8 DEF ProfileInvariant, OnlyOneIsMaking, OthersAreCleared, DefaultIsUnique,
              MakingDefault
<1>9. ASSUME NEW p \in Profiles, DeleteProfile(p) PROVE ProfileInvariant'
  <2>1. /\ profile' \in [Profiles -> {"absent", "plain", "default"}]
        /\ \A q \in Profiles : profile'[q] = "default" => profile[q] = "default"
    BY <1>9 DEF DeleteProfile, ProfileInvariant
  <2>2. UNCHANGED <<call, crossed>>
    BY <1>9 DEF DeleteProfile
  <2> QED BY <2>1, <2>2, MakersRemain DEF MakingDefault
<1> QED
  BY <1>1, <1>2, <1>3, <1>4, <1>5, <1>6, <1>7, <1>8, <1>9, ClearDefaultsStep,
     WriteDefaultStep
     DEF AccountsNext, AuthStep, ProfileStep, SessionExpires, Deactivate, accountsVars

LEMMA UniqueDefaultCounts == ProfileInvariant => OneDefaultProfile
<1> SUFFICES ASSUME ProfileInvariant, ~crossed
             PROVE  Cardinality({p \in Profiles : profile[p] = "default"}) <= 1
  BY DEF OneDefaultProfile
<1> DEFINE defaults == {p \in Profiles : profile[p] = "default"}
<1>1. CASE defaults = {}
  BY <1>1, FS_EmptySet
<1>2. CASE defaults # {}
  <2>1. PICK p \in defaults : TRUE
    BY <1>2
  <2>2. defaults = {p}
    BY <2>1 DEF ProfileInvariant, DefaultIsUnique
  <2>3. Cardinality(defaults) = 1
    BY <2>2, FS_Singleton
  <2> QED BY <2>3
<1> QED BY <1>1, <1>2

\* At most one sender profile is the default, but for requests that make one and
\* overlap, until the next one made alone, for any number of profiles and
\* requests (settings.service:22-55).
THEOREM DefaultsAreUnique == AccountsSpec => []OneDefaultProfile
<1>1. GuardInvariant /\ ProfileInvariant /\ [AccountsNext]_accountsVars
        => (GuardInvariant /\ ProfileInvariant)'
  BY GuardStep, ProfileInvariantKept DEF GuardInvariant
<1> QED BY GuardStarts, ProfilesStart, UniqueDefaultCounts, <1>1, PTL DEF AccountsSpec

-----------------------------------------------------------------------------
(* Imports: a cancelled import stays quiet *)

ImportsShape ==
    /\ import = [i \in ImportIds |-> import[i]]
    /\ queued = [i \in ImportIds |-> queued[i]]
    /\ \A i \in ImportIds : "status" \in DOMAIN import[i] /\ "state" \in DOMAIN queued[i]
    /\ calling \subseteq [op : {"create", "cancel"}, of : ImportIds,
                         at : {"enqueue", "mark", "remove"}]
    /\ cancelled \subseteq ImportIds

\* Only the request that creates an import queues it, and an import is created once.
CallsFit ==
    /\ \A q \in calling : /\ q.op = "create" <=> q.at = "enqueue"
                          /\ import[q.of].status # "none"
    /\ \A i \in cancelled : import[i].status # "none"

\* No request that would queue a cancelled import is under way.
NoneWillQueue ==
    \A i \in cancelled \ early : \A q \in calling : q.of = i => q.op = "cancel"

ImportsInvariant == ImportsShape /\ CallsFit /\ NoneWillQueue /\ CancelledStaysQuiet

LEMMA ImportsStart == ImportsInit => ImportsInvariant
  BY DEF ImportsInit, ImportsInvariant, ImportsShape, CallsFit, NoneWillQueue,
         CancelledStaysQuiet, NoImport, NotQueued

\* What a run does to its own import, which is queued, disturbs no cancelled one.
LEMMA RunsDisturbNone ==
    ASSUME ImportsInvariant, UNCHANGED <<calling, cancelled, early>>,
           import' = [i \in ImportIds |-> import'[i]],
           queued' = [i \in ImportIds |-> queued'[i]],
           \A i \in ImportIds :
              /\ "status" \in DOMAIN import'[i] /\ "state" \in DOMAIN queued'[i]
              /\ import[i].status # "none" => import'[i].status # "none"
              /\ queued[i].state = "absent" => queued'[i].state = "absent"
    PROVE  ImportsInvariant'
<1> USE DEF ImportsInvariant
<1>1. ImportsShape'
  BY DEF ImportsShape
<1>2. CallsFit'
  BY DEF ImportsShape, CallsFit
<1>3. CancelledStaysQuiet'
  BY DEF ImportsShape, CancelledStaysQuiet
<1> QED BY <1>1, <1>2, <1>3 DEF NoneWillQueue

LEMMA ImportCallStep ==
    ASSUME ImportsInvariant, ImportCall
    PROVE  ImportsInvariant'
<1> USE DEF ImportsInvariant
<1>1. ASSUME NEW i \in ImportIds, AskCancel(i) PROVE ImportsInvariant'
  <2> DEFINE q == [op |-> "cancel", of |-> i, at |-> "mark"]
  <2>1. q.op = "cancel" /\ q.of = i /\ q.at = "mark"
    OBVIOUS
  <2>2. q \in [op : {"create", "cancel"}, of : ImportIds, at : {"enqueue", "mark", "remove"}]
    OBVIOUS
  <2>3. calling' = calling \cup {q} /\ UNCHANGED <<import, queued, cancelled, early>>
    BY <1>1 DEF AskCancel
  <2>4. import[i].status # "none"
    BY <1>1 DEF AskCancel
  <2> HIDE DEF q
  <2>5. ImportsShape'
    BY <2>2, <2>3 DEF ImportsShape
  <2>6. CallsFit'
    BY <2>1, <2>3, <2>4 DEF CallsFit
  <2>7. NoneWillQueue'
    BY <2>1, <2>3 DEF NoneWillQueue
  <2> QED BY <2>3, <2>5, <2>6, <2>7 DEF CancelledStaysQuiet
<1>2. ASSUME NEW i \in ImportIds, NEW f \in Files, CreateImport(i, f)
      PROVE  ImportsInvariant'
  <2> DEFINE row == [NoImport EXCEPT !.status = "PENDING", !.file = f]
             q == [op |-> "create", of |-> i, at |-> "enqueue"]
  <2>1. row.status = "PENDING" /\ "status" \in DOMAIN row
    BY DEF NoImport
  <2>2. /\ import' = [import EXCEPT ![i] = row] /\ calling' = calling \cup {q}
        /\ UNCHANGED <<queued, cancelled, early>>
    BY <1>2 DEF CreateImport
  <2>3. i \notin cancelled
    BY <1>2 DEF CreateImport, CallsFit, NoImport
  <2> HIDE DEF row
  <2>4. ImportsShape'
    BY <2>1, <2>2 DEF ImportsShape
  <2>7. \A j \in ImportIds : import'[j] = IF j = i THEN row ELSE import[j]
    BY <2>2 DEF ImportsShape
  <2>5. CallsFit'
    <3>1. \A p \in calling' : /\ p.op = "create" <=> p.at = "enqueue"
                             /\ import'[p.of].status # "none"
      BY <2>1, <2>2, <2>7 DEF ImportsShape, CallsFit
    <3>2. \A j \in cancelled' : import'[j].status # "none"
      BY <2>1, <2>2, <2>7 DEF ImportsShape, CallsFit
    <3> QED BY <3>1, <3>2 DEF CallsFit
  <2>6. NoneWillQueue'
    BY <2>2, <2>3 DEF NoneWillQueue
  <2> QED BY <2>2, <2>4, <2>5, <2>6 DEF CancelledStaysQuiet
<1>3. ASSUME NEW q \in calling, EnqueueImport(q) PROVE ImportsInvariant'
  <2> DEFINE run == [NotQueued EXCEPT !.state = "waiting"]
  <2>1. "state" \in DOMAIN run
    BY DEF NotQueued
  <2>2. /\ queued' = [queued EXCEPT ![q.of] = run] /\ calling' = calling \ {q}
        /\ UNCHANGED <<import, cancelled, early>>
    BY <1>3 DEF EnqueueImport
  <2>3. q.of \notin cancelled \ early
    BY <1>3 DEF EnqueueImport, CallsFit, NoneWillQueue
  <2> HIDE DEF run
  <2>4. ImportsShape'
    BY <2>1, <2>2 DEF ImportsShape
  <2> QED BY <2>2, <2>3, <2>4 DEF ImportsShape, CallsFit, NoneWillQueue, CancelledStaysQuiet
<1>4. ASSUME NEW q \in calling, MarkCancelled(q) PROVE ImportsInvariant'
  <2> DEFINE next == [q EXCEPT !.at = "remove"]
  <2>1. /\ next \in [op : {"create", "cancel"}, of : ImportIds,
                     at : {"enqueue", "mark", "remove"}]
        /\ next.op = q.op /\ next.of = q.of /\ next.at = "remove" /\ q.op = "cancel"
    BY <1>4 DEF MarkCancelled, ImportsShape, CallsFit
  <2>2. /\ calling' = (calling \ {q}) \cup {next}
        /\ UNCHANGED <<queued, cancelled, early>>
    BY <1>4 DEF MarkCancelled
  <2>3. /\ import' = [i \in ImportIds |-> import'[i]]
        /\ \A i \in ImportIds : /\ "status" \in DOMAIN import'[i]
                                /\ import[i].status # "none" => import'[i].status # "none"
    BY <1>4 DEF MarkCancelled, ImportsShape
  <2> HIDE DEF next
  <2>4. ImportsShape'
    BY <2>1, <2>2, <2>3 DEF ImportsShape
  <2>5. CallsFit'
    BY <2>1, <2>2, <2>3 DEF ImportsShape, CallsFit
  <2>6. NoneWillQueue'
    BY <2>1, <2>2 DEF NoneWillQueue
  <2> QED BY <2>2, <2>4, <2>5, <2>6 DEF CancelledStaysQuiet
<1>5. ASSUME NEW q \in calling, RemoveFromQueue(q) PROVE ImportsInvariant'
  <2>1. q.of \in ImportIds /\ q.op = "cancel" /\ calling' = calling \ {q} /\ UNCHANGED import
    BY <1>5 DEF RemoveFromQueue, ImportsShape, CallsFit
  <2>2. early \subseteq early'
        /\ ((\E p \in calling : p.op = "create" /\ p.of = q.of) => q.of \in early')
    BY <1>5 DEF RemoveFromQueue
  <2>3. CASE queued[q.of].state = "active"
    <3>1. UNCHANGED <<queued, cancelled>>
      BY <1>5, <2>3 DEF RemoveFromQueue
    <3> QED BY <2>1, <2>2, <3>1
            DEF ImportsShape, CallsFit, NoneWillQueue, CancelledStaysQuiet
  <2>4. CASE queued[q.of].state # "active"
    <3> DEFINE run == [NotQueued EXCEPT !.state = "absent", !.stalls = queued[q.of].stalls]
    <3>1. run.state = "absent" /\ "state" \in DOMAIN run
      BY DEF NotQueued
    <3>2. queued' = [queued EXCEPT ![q.of] = run] /\ cancelled' = cancelled \cup {q.of}
      BY <1>5, <2>4 DEF RemoveFromQueue, Dequeued
    <3> HIDE DEF run
    <3>3. ImportsShape'
      BY <2>1, <3>1, <3>2 DEF ImportsShape
    <3>4. CallsFit'
      BY <2>1, <3>2 DEF CallsFit
    <3>5. NoneWillQueue'
      BY <2>1, <2>2, <3>2 DEF NoneWillQueue, ImportsShape
    <3>6. CancelledStaysQuiet'
      BY <2>1, <2>2, <3>1, <3>2 DEF CancelledStaysQuiet, ImportsShape
    <3> QED BY <3>3, <3>4, <3>5, <3>6
  <2> QED BY <2>3, <2>4
<1> QED BY <1>1, <1>2, <1>3, <1>4, <1>5 DEF ImportCall

LEMMA ImportRunStep ==
    ASSUME ImportsInvariant, NEW i \in ImportIds, ImportRun(i)
    PROVE  ImportsInvariant'
<1> USE DEF ImportHistory
<1>d. ASSUME NEW state, queued[i].state # "absent", queued' = Dequeued(i, state)
      PROVE  /\ queued' = [j \in ImportIds |-> queued'[j]]
             /\ \A j \in ImportIds : /\ "state" \in DOMAIN queued'[j]
                                     /\ queued[j].state = "absent" => queued'[j] = queued[j]
  <2> DEFINE run == [NotQueued EXCEPT !.state = state, !.stalls = queued[i].stalls]
  <2>1. "state" \in DOMAIN run
    BY DEF NotQueued
  <2>2. queued' = [queued EXCEPT ![i] = run]
    BY <1>d DEF Dequeued
  <2> HIDE DEF run
  <2> QED BY <1>d, <2>1, <2>2 DEF ImportsInvariant, ImportsShape
<1>1. CASE StartImport(i)
  BY <1>1, RunsDisturbNone DEF StartImport, ImportsInvariant, ImportsShape
<1>2. CASE LoadSuppressions(i)
  BY <1>2, RunsDisturbNone DEF LoadSuppressions, RunAt, RunGoto, ImportsInvariant, ImportsShape
<1>3. CASE InsertLeads(i)
  BY <1>3, RunsDisturbNone DEF InsertLeads, RunAt, RunGoto, ImportsInvariant, ImportsShape
<1>4. CASE InsertRows(i)
  <2>1. queued[i].state # "absent" /\ UNCHANGED <<calling, cancelled, early>>
    BY <1>4 DEF InsertRows, RunAt
  <2>2. PICK tally, seen, at : queued' = [queued EXCEPT ![i].row = ChunkEnd(i),
                                  ![i].tally = tally, ![i].seen = seen, ![i].at = at]
    BY <1>4 DEF InsertRows
  <2>3. PICK total : import' = import \/ import' = [import EXCEPT ![i].tally = total]
    BY <1>4 DEF InsertRows
  <2>4. /\ queued' = [j \in ImportIds |-> queued'[j]]
        /\ \A j \in ImportIds : /\ "state" \in DOMAIN queued'[j]
                                /\ queued[j].state = "absent" => queued'[j] = queued[j]
    BY <2>1, <2>2 DEF ImportsInvariant, ImportsShape
  <2>5. /\ import' = [j \in ImportIds |-> import'[j]]
        /\ \A j \in ImportIds : /\ "status" \in DOMAIN import'[j]
                                /\ import'[j].status = import[j].status
    BY <2>3 DEF ImportsInvariant, ImportsShape
  <2> QED BY <2>1, <2>4, <2>5, RunsDisturbNone
<1>5. CASE FinishImport(i)
  <2>1. queued[i].state # "absent" /\ queued' = Dequeued(i, "absent")
        /\ UNCHANGED <<calling, cancelled, early>>
    BY <1>5 DEF FinishImport, RunAt
  <2>2. /\ import' = [j \in ImportIds |-> import'[j]]
        /\ \A j \in ImportIds : /\ "status" \in DOMAIN import'[j]
                                /\ import[j].status # "none" => import'[j].status # "none"
    BY <1>5 DEF FinishImport, ImportsInvariant, ImportsShape
  <2> QED BY <1>d, <2>1, <2>2, RunsDisturbNone
<1>6. CASE ImportFails(i)
  <2>1. queued[i].state # "absent" /\ queued' = Dequeued(i, "failed")
        /\ UNCHANGED <<import, calling, cancelled, early>>
    BY <1>6 DEF ImportFails
  <2> QED BY <1>d, <2>1, RunsDisturbNone DEF ImportsInvariant, ImportsShape
<1> QED BY <1>1, <1>2, <1>3, <1>4, <1>5, <1>6 DEF ImportRun

LEMMA ImportsStep ==
    ASSUME ImportsInvariant, [ImportsNext]_importsVars
    PROVE  ImportsInvariant'
<1>1. ASSUME ImportWorkerCrash PROVE ImportsInvariant'
  <2> DEFINE after(i) == [NotQueued EXCEPT !.stalls = queued[i].stalls + 1,
                  !.state = IF queued[i].stalls < ImportStalls THEN "waiting" ELSE "failed"]
  <2>1. \A i \in ImportIds : "state" \in DOMAIN after(i)
    BY DEF NotQueued
  <2>2. queued' = [i \in ImportIds |-> IF queued[i].state # "active" THEN queued[i] ELSE after(i)]
        /\ UNCHANGED <<import, calling, cancelled, early>>
    BY <1>1 DEF ImportWorkerCrash
  <2> HIDE DEF after
  <2> QED BY <2>1, <2>2, RunsDisturbNone DEF ImportsInvariant, ImportsShape
<1>2. ASSUME UNCHANGED <<import, queued, calling, cancelled, early>> PROVE ImportsInvariant'
  BY <1>2 DEF ImportsInvariant, ImportsShape, CallsFit, NoneWillQueue, CancelledStaysQuiet
<1> QED BY <1>1, <1>2, ImportCallStep, ImportRunStep
        DEF ImportsNext, ScreenAddress, importsVars

\* A cancel that succeeded ends the import, unless it overtook the request that
\* queues it, for any number of imports, files and crashes (imports.service:115-127).
THEOREM CancelsHold == ImportsSpec => []CancelledStaysQuiet
<1>1. ImportsInvariant => CancelledStaysQuiet
  BY DEF ImportsInvariant
<1> QED BY ImportsStart, ImportsStep, <1>1, PTL DEF ImportsSpec

-----------------------------------------------------------------------------
(* Health *)

HealthShape ==
    /\ now \in Ticks /\ heard \in BOOLEAN /\ unread \in BOOLEAN
    /\ missed \in Nat /\ latest \in Nat
    /\ sending \subseteq Nat
    /\ beat \in [at : Nat, until : Nat]
    /\ worker \in [state : {"down", "starting", "up"}, since : Nat]
    /\ health \in {"active", "stale", "none", "unasked"}

\* Nothing is dated later than now, and what a worker that is down has sent not
\* later than it stopped.
DatesFit ==
    /\ worker.since <= now /\ beat.at <= now
    /\ \A d \in sending : d <= now
    /\ worker.state = "down" => /\ beat.at <= worker.since
                                /\ \A d \in sending : d <= worker.since
    /\ latest <= now /\ missed <= now

\* The key is kept as long from the time it was set, which is `latest` ticks after
\* its date at most.  While the worker is up each tick that ended without a
\* heartbeat has taken one from what the key has left.
KeyFits ==
    /\ beat.until <= beat.at + latest + BeatTtl
    /\ worker.state = "up" =>
          /\ heard => beat.until >= now + BeatTtl
          /\ ~heard => beat.until + missed + 1 >= now + BeatTtl

HealthInvariant == HealthShape /\ DatesFit /\ KeyFits /\ HealthIsTrue

LEMMA HealthNumbers ==
    /\ BeatTtl \in Nat \ {0} /\ StaleAfter \in Nat \ {0} /\ MaxTime \in Nat \ {0}
    /\ \A t \in Ticks : t \in Nat /\ t <= MaxTime
  BY HealthBounds DEF Ticks

LEMMA HealthStarts == HealthInit => HealthInvariant
<1> SUFFICES ASSUME HealthInit PROVE HealthInvariant
  OBVIOUS
<1>1. /\ now = 0 /\ worker = [state |-> "down", since |-> 0] /\ sending = {}
      /\ beat = [at |-> 0, until |-> 0] /\ health = "unasked"
      /\ unread = FALSE /\ heard = FALSE /\ missed = 0 /\ latest = 0
  BY DEF HealthInit
<1>2. HealthShape
  <2>1. /\ now \in Ticks /\ missed \in Nat /\ latest \in Nat /\ sending \subseteq Nat
        /\ beat \in [at : Nat, until : Nat]
    BY <1>1, HealthNumbers DEF Ticks
  <2>2. /\ worker \in [state : {"down", "starting", "up"}, since : Nat]
        /\ health \in {"active", "stale", "none", "unasked"}
    BY <1>1
  <2>3. heard \in BOOLEAN /\ unread \in BOOLEAN
    BY <1>1, Zenon
  <2> QED BY <2>1, <2>2, <2>3 DEF HealthShape
<1>3. DatesFit
  BY <1>1 DEF DatesFit
<1>4. KeyFits
  BY <1>1, HealthNumbers DEF KeyFits
<1> QED BY <1>1, <1>2, <1>3, <1>4 DEF HealthInvariant, HealthIsTrue

\* A heartbeat dated d takes effect, late or not.
LEMMA KeyIsStep ==
    ASSUME HealthInvariant, NEW d \in Nat, d <= now, KeyIs(d), UNCHANGED <<now, unread>>,
           worker' \in [state : {"down", "starting", "up"}, since : Nat],
           worker'.since = worker.since,
           worker'.state = "down" => worker.state = "down" /\ d <= worker.since,
           sending' \subseteq sending
    PROVE  HealthInvariant'
<1> USE HealthNumbers DEF HealthInvariant, HealthShape
<1> DEFINE delay == now - d
<1>1. delay \in Nat /\ delay <= now /\ now = d + delay
  OBVIOUS
<1>2. /\ beat' = [at |-> d, until |-> now + BeatTtl] /\ heard' = TRUE /\ missed' = 0
      /\ latest' = (IF delay > latest THEN delay ELSE latest) /\ health' = "unasked"
  BY DEF KeyIs
<1> HIDE DEF delay
<1>3. latest' \in Nat /\ delay <= latest' /\ latest' <= now
  BY <1>1, <1>2 DEF DatesFit
<1>4. HealthShape'
  BY <1>2, <1>3
<1>5. DatesFit'
  BY <1>2, <1>3 DEF DatesFit
<1>6. KeyFits'
  BY <1>1, <1>2, <1>3 DEF KeyFits
<1> QED BY <1>2, <1>4, <1>5, <1>6 DEF HealthIsTrue

LEMMA CheckHealthStep ==
    ASSUME HealthInvariant, CheckHealth
    PROVE  HealthInvariant'
<1> USE HealthNumbers DEF HealthInvariant, HealthShape
<1>1. unread' = FALSE /\ UNCHANGED <<now, worker, sending, beat, heard, missed, latest>>
  BY DEF CheckHealth
<1>2. health' \in {"active", "stale", "none"}
  BY DEF CheckHealth
<1>3. HealthShape' /\ DatesFit' /\ KeyFits'
  BY <1>1, <1>2 DEF DatesFit, KeyFits
<1>4. CASE beat.until <= now
  <2>1. health' = "none"
    BY <1>4 DEF CheckHealth
  <2>2. worker.state = "up" => missed + 1 >= BeatTtl
    BY <1>4 DEF KeyFits
  <2> QED BY <1>1, <1>3, <2>1, <2>2 DEF HealthIsTrue
<1>5. CASE beat.until > now /\ now - beat.at < StaleAfter
  <2>1. health' = "active"
    BY <1>5 DEF CheckHealth
  <2>2. worker.state = "down" => /\ now - worker.since < StaleAfter
                                 /\ now - worker.since < BeatTtl + latest
    BY <1>5 DEF DatesFit, KeyFits
  <2> QED BY <1>1, <1>3, <2>1, <2>2 DEF HealthIsTrue
<1>6. CASE beat.until > now /\ ~(now - beat.at < StaleAfter)
  <2>1. health' = "stale"
    BY <1>6 DEF CheckHealth
  <2>2. StaleAfter < BeatTtl + latest
    BY <1>6 DEF DatesFit, KeyFits
  <2> QED BY <1>1, <1>3, <2>1, <2>2 DEF HealthIsTrue
<1> QED BY <1>4, <1>5, <1>6

LEMMA TimePassesStep ==
    ASSUME HealthInvariant, TimePasses
    PROVE  HealthInvariant'
<1> USE HealthNumbers DEF HealthInvariant, HealthShape
<1>1. /\ now < MaxTime /\ now' = now + 1 /\ heard' = FALSE /\ health' = "unasked"
      /\ missed' = (IF worker.state = "up" /\ ~heard THEN missed + 1 ELSE 0)
      /\ UNCHANGED <<worker, sending, beat, unread, latest>>
  BY DEF TimePasses
<1>2. now' \in Ticks
  BY <1>1 DEF Ticks
<1>3. HealthShape'
  <2>1. missed' \in Nat
    BY <1>1
  <2>2. heard' \in BOOLEAN /\ unread' \in BOOLEAN
    BY <1>1, Zenon
  <2> QED BY <1>1, <1>2, <2>1, <2>2
<1>4. DatesFit'
  BY <1>1 DEF DatesFit
<1>5. KeyFits'
  BY <1>1 DEF KeyFits
<1> QED BY <1>1, <1>3, <1>4, <1>5 DEF HealthIsTrue

LEMMA HealthStep == HealthInvariant /\ [HealthNext]_healthVars => HealthInvariant'
<1> SUFFICES ASSUME HealthInvariant, [HealthNext]_healthVars PROVE HealthInvariant'
  OBVIOUS
<1> USE HealthNumbers
<1>1. CASE StartWorker
  BY <1>1 DEF StartWorker, Becomes, HealthInvariant, HealthShape, DatesFit, KeyFits,
              HealthIsTrue
<1>2. CASE FirstHeartbeat
  <2>1. /\ worker.since \in Nat /\ worker.since <= now
        /\ worker' = [worker EXCEPT !.state = "up"]
    BY <1>2 DEF FirstHeartbeat, HealthInvariant, HealthShape, DatesFit
  <2>2. /\ worker' \in [state : {"down", "starting", "up"}, since : Nat]
        /\ worker'.since = worker.since /\ worker'.state = "up"
    BY <2>1 DEF HealthInvariant, HealthShape
  <2> QED BY <1>2, <2>1, <2>2, KeyIsStep DEF FirstHeartbeat
<1>3. CASE SendHeartbeat
  <2>1. sending' = sending \cup {now} /\ worker.state # "down"
        /\ UNCHANGED <<now, worker, beat, health, unread, heard, missed, latest>>
    BY <1>3 DEF SendHeartbeat
  <2>2. now \in Nat
    BY DEF HealthInvariant, HealthShape
  <2>3. HealthShape'
    BY <2>1, <2>2 DEF HealthInvariant, HealthShape
  <2>4. DatesFit'
    BY <2>1, <2>2 DEF HealthInvariant, DatesFit
  <2> QED BY <2>1, <2>3, <2>4 DEF HealthInvariant, KeyFits, HealthIsTrue
<1>4. ASSUME NEW d \in Ticks, SetHeartbeat(d) PROVE HealthInvariant'
  <2>1. /\ d \in sending /\ KeyIs(d) /\ UNCHANGED <<now, worker, unread>>
        /\ sending' \subseteq sending
    BY <1>4 DEF SetHeartbeat
  <2>2. d <= now /\ (worker.state = "down" => d <= worker.since)
    BY <2>1 DEF HealthInvariant, DatesFit
  <2> QED BY <2>1, <2>2, KeyIsStep DEF HealthInvariant, HealthShape
<1>5. ASSUME NEW d \in Ticks, RefuseHeartbeat(d) PROVE HealthInvariant'
  <2>1. sending' \subseteq sending
        /\ UNCHANGED <<now, worker, beat, health, unread, heard, missed, latest>>
    BY <1>5 DEF RefuseHeartbeat
  <2> QED BY <2>1 DEF HealthInvariant, HealthShape, DatesFit, KeyFits, HealthIsTrue
<1>6. CASE StopWorker
  <2>1. /\ worker' = [state |-> "down", since |-> now] /\ health' = "unasked"
        /\ sending' \subseteq sending \cup {worker.since}
        /\ UNCHANGED <<now, beat, unread, heard, missed, latest>>
    BY <1>6 DEF StopWorker, Becomes
  <2>2. sending' \subseteq Nat /\ \A d \in sending' : d <= now
    BY <2>1 DEF HealthInvariant, HealthShape, DatesFit
  <2>3. now \in Nat
    BY DEF HealthInvariant, HealthShape
  <2>4. HealthShape'
    BY <2>1, <2>2, <2>3 DEF HealthInvariant, HealthShape
  <2>5. DatesFit'
    BY <2>1, <2>2, <2>3 DEF HealthInvariant, DatesFit
  <2>6. KeyFits'
    BY <2>1 DEF HealthInvariant, KeyFits
  <2> QED BY <2>1, <2>4, <2>5, <2>6 DEF HealthInvariant, HealthIsTrue
<1>7. CASE CheckHealthUnread
  <2>1. /\ health' = "none" /\ unread' = TRUE
        /\ UNCHANGED <<now, worker, sending, beat, heard, missed, latest>>
    BY <1>7 DEF CheckHealthUnread
  <2>2. HealthShape'
    <3>1. unread' \in BOOLEAN
      BY <2>1, Zenon
    <3> QED BY <2>1, <3>1 DEF HealthInvariant, HealthShape
  <2> QED BY <2>1, <2>2 DEF HealthInvariant, DatesFit, KeyFits, HealthIsTrue
<1>8. CASE UNCHANGED healthVars
  BY <1>8 DEF healthVars, HealthInvariant, HealthShape, DatesFit, KeyFits, HealthIsTrue
<1> QED
  BY <1>1, <1>2, <1>3, <1>4, <1>5, <1>6, <1>7, <1>8, CheckHealthStep, TimePassesStep
     DEF HealthNext

\* However heartbeats are skipped, refused or late, workers stop and start, and
\* reads are refused: what the health check says of the worker means no more and
\* no less than HealthIsTrue states, for any times to live (health.service:58-65,
\* worker main:117-125).
THEOREM HealthTellsTheTruth == HealthSpec => []HealthIsTrue
<1>1. HealthInvariant => HealthIsTrue
  BY DEF HealthInvariant
<1> QED BY HealthStarts, HealthStep, <1>1, PTL DEF HealthSpec

-----------------------------------------------------------------------------
(* Monitoring: the dashboard *)

DashboardShape ==
    /\ clock \in Nat /\ told \in Nat /\ slowest \in Nat
    /\ cached \in [at : Nat, until : Nat]
    /\ reader \in [Readers -> [at : {"idle", "store"}, read : Nat]]

\* The key runs out that long after its figures were read, whoever set it.
CacheFits ==
    /\ cached.until <= cached.at + slowest + CacheTtl /\ cached.at <= clock
    /\ \A r \in Readers : reader[r].read <= clock

DashboardInvariant == DashboardShape /\ CacheFits /\ DashboardIsRecent

LEMMA TtlIsNumber == CacheTtl \in Nat
  BY MonitoringBounds

LEMMA DashboardStarts == MonitoringInit => DashboardInvariant
  BY TtlIsNumber
     DEF MonitoringInit, DashboardInvariant, DashboardShape, CacheFits, DashboardIsRecent,
         Nothing, Resting

LEMMA DashboardStep ==
    ASSUME DashboardInvariant, [MonitoringNext]_monitoringVars
    PROVE  DashboardInvariant'
<1> USE TtlIsNumber DEF DashboardInvariant, DashboardShape
<1>1. ASSUME NEW r \in Readers, GetDashboardStats(r) PROVE DashboardInvariant'
  <2>1. UNCHANGED <<clock, cached, slowest>>
    BY <1>1 DEF GetDashboardStats
  <2>2. CASE Held(cached)
    <3>1. told' = clock - cached.at /\ UNCHANGED reader
      BY <1>1, <2>2 DEF GetDashboardStats
    <3> QED BY <2>1, <2>2, <3>1 DEF Held, CacheFits, DashboardIsRecent
  <2>3. CASE ~Held(cached)
    <3>1. reader' = [reader EXCEPT ![r] = [at |-> "store", read |-> clock]] /\ UNCHANGED told
      BY <1>1, <2>3 DEF GetDashboardStats
    <3> QED BY <2>1, <3>1 DEF CacheFits, DashboardIsRecent
  <2> QED BY <2>2, <2>3
<1>2. ASSUME NEW r \in Readers, StoreDashboardStats(r) PROVE DashboardInvariant'
  <2> DEFINE age == clock - reader[r].read
  <2>1. age \in Nat /\ reader[r].read \in Nat /\ clock = reader[r].read + age
    BY DEF CacheFits
  <2>2. /\ cached' = [at |-> reader[r].read, until |-> clock + CacheTtl] /\ told' = age
        /\ slowest' = (IF age > slowest THEN age ELSE slowest)
        /\ reader' = [reader EXCEPT ![r] = Resting] /\ UNCHANGED clock
    BY <1>2 DEF StoreDashboardStats
  <2> HIDE DEF age
  <2>3. slowest' \in Nat /\ age <= slowest'
    BY <2>1, <2>2
  <2>4. DashboardShape'
    BY <2>1, <2>2, <2>3 DEF Resting
  <2>5. CacheFits'
    BY <2>1, <2>2, <2>3 DEF CacheFits, Resting
  <2> QED BY <2>1, <2>2, <2>3, <2>4, <2>5 DEF DashboardIsRecent
<1>3. CASE DropDashboardStats
  BY <1>3 DEF DropDashboardStats, Nothing, CacheFits, DashboardIsRecent
<1>6. ASSUME NEW r \in Readers, DashboardFails(r) PROVE DashboardInvariant'
  BY <1>6 DEF DashboardFails, Resting, CacheFits, DashboardIsRecent
<1>4. CASE Tick
  BY <1>4 DEF Tick, CacheFits, DashboardIsRecent
<1>5. CASE UNCHANGED <<clock, cached, reader, told, slowest>>
  BY <1>5 DEF CacheFits, DashboardIsRecent
<1> QED
  BY <1>1, <1>2, <1>3, <1>4, <1>5, <1>6 DEF MonitoringNext, monitoringVars

\* No dashboard shows figures older than the cache keeps them and the slowest
\* request took to store its own, for any number of requests (dashboard.service:23-99).
THEOREM DashboardsAreRecent == MonitoringSpec => []DashboardIsRecent
<1>1. DashboardInvariant => DashboardIsRecent
  BY DEF DashboardInvariant
<1> QED BY DashboardStarts, DashboardStep, <1>1, PTL DEF MonitoringSpec

-----------------------------------------------------------------------------
(* Drafting *)

Attempting ==
    [at : {"ask", "wait", "parse", "done", "failed"}, model : Models,
     attempt : 1 .. MaxRetries, error : Errors \cup {"none", "invalid"}]

DraftingShape ==
    /\ prompt \in [Prompts -> Attempting]
    /\ made \in [Prompts \X Models -> Nat]

\* The attempt a call is at counts the requests of its model, the one it is about to
\* make included; the fallback is asked after the primary, and a call that fails is
\* at the fallback's last attempt.
CallFits(draft, primary, fallback) ==
    /\ draft.model = "primary" =>
          /\ fallback = 0
          /\ primary = draft.attempt - (IF draft.at = "ask" THEN 1 ELSE 0)
    /\ draft.model = "fallback" =>
          /\ primary \in 1 .. MaxRetries
          /\ fallback = draft.attempt - (IF draft.at = "ask" THEN 1 ELSE 0)
    /\ draft.at = "wait" => draft.attempt < MaxRetries
    /\ draft.at = "failed" /\ draft.error # "invalid" =>
          /\ draft.model = "fallback"
          /\ draft.error \in Passing => draft.attempt = MaxRetries

CallsAreCounted ==
    \A p \in Prompts : CallFits(prompt[p], made[<<p, "primary">>], made[<<p, "fallback">>])

DraftingInvariant == DraftingShape /\ CallsAreCounted

LEMMA RetriesAreNumbers == MaxRetries \in Nat /\ MaxRetries >= 1
  BY DraftingBounds

LEMMA AttemptsInRange ==
    /\ 1 \in 1 .. MaxRetries
    /\ \A n \in Nat : n < MaxRetries => n + 1 \in 1 .. MaxRetries
    /\ \A n \in Nat : n <= MaxRetries /\ ~(n < MaxRetries) => n = MaxRetries
  BY RetriesAreNumbers

LEMMA CallFields ==
    ASSUME NEW draft \in Attempting
    PROVE  /\ draft.at \in {"ask", "wait", "parse", "done", "failed"}
           /\ draft.model \in {"primary", "fallback"}
           /\ draft.attempt \in Nat /\ 1 <= draft.attempt /\ draft.attempt <= MaxRetries
           /\ draft.error \in Errors \cup {"none", "invalid"}
  BY RetriesAreNumbers DEF Attempting, Models

LEMMA DraftingStarts == DraftingInit => DraftingInvariant
<1> SUFFICES ASSUME DraftingInit PROVE DraftingInvariant
  OBVIOUS
<1>1. Unasked \in Attempting
  BY RetriesAreNumbers DEF Unasked, Attempting, Models
<1>2. made \in [Prompts \X Models -> Nat]
  BY DEF DraftingInit
<1>3. \A p \in Prompts : /\ prompt[p] = Unasked
                         /\ made[<<p, "primary">>] = 0 /\ made[<<p, "fallback">>] = 0
  BY DEF DraftingInit, Models
<1>4. CallFits(Unasked, 0, 0)
  BY DEF CallFits, Unasked
<1>5. prompt \in [Prompts -> Attempting]
  BY <1>1 DEF DraftingInit
<1>6. CallsAreCounted
  BY <1>3, <1>4 DEF CallsAreCounted
<1> QED BY <1>2, <1>5, <1>6 DEF DraftingInvariant, DraftingShape

LEMMA AttemptsBound == DraftingInvariant => GivesUpLast
<1> SUFFICES ASSUME DraftingInvariant, NEW p \in Prompts
             PROVE  /\ prompt[p].at = "failed" /\ prompt[p].error # "invalid" =>
                          /\ made[<<p, "primary">>] > 0 /\ made[<<p, "fallback">>] > 0
                          /\ prompt[p].error \in Passing => made[<<p, "fallback">>] = MaxRetries
                    /\ \A m \in Models : made[<<p, m>>] <= MaxRetries
                    /\ prompt[p].model = "primary" => made[<<p, "fallback">>] = 0
  BY DEF GivesUpLast
<1> DEFINE draft == prompt[p]
<1>1. draft \in Attempting
  BY DEF DraftingInvariant, DraftingShape
<1>2. /\ draft.at \in {"ask", "wait", "parse", "done", "failed"}
      /\ draft.model \in {"primary", "fallback"}
      /\ draft.attempt \in Nat /\ 1 <= draft.attempt /\ draft.attempt <= MaxRetries
  BY <1>1, CallFields
<1>3. CallFits(draft, made[<<p, "primary">>], made[<<p, "fallback">>])
  BY DEF DraftingInvariant, CallsAreCounted
<1> HIDE DEF draft
<1>4. CASE draft.model = "primary"
  <2>1. made[<<p, "fallback">>] = 0 /\ made[<<p, "primary">>] <= MaxRetries
    BY <1>2, <1>3, <1>4, RetriesAreNumbers DEF CallFits
  <2>2. ~(draft.at = "failed" /\ draft.error # "invalid")
    BY <1>3, <1>4 DEF CallFits
  <2> QED BY <2>1, <2>2, RetriesAreNumbers DEF draft, Models
<1>5. CASE draft.model = "fallback"
  <2>1. /\ made[<<p, "primary">>] \in 1 .. MaxRetries
        /\ made[<<p, "fallback">>] <= MaxRetries
    BY <1>2, <1>3, <1>5, RetriesAreNumbers DEF CallFits
  <2>2. draft.at = "failed" /\ draft.error # "invalid" =>
           /\ made[<<p, "fallback">>] > 0
           /\ draft.error \in Passing => made[<<p, "fallback">>] = MaxRetries
    BY <1>2, <1>3, <1>5, RetriesAreNumbers DEF CallFits
  <2> QED BY <1>5, <2>1, <2>2, RetriesAreNumbers DEF draft, Models
<1> QED BY <1>2, <1>4, <1>5

\* One call moves, with or without a request of its own.
LEMMA CallMoves ==
    ASSUME DraftingInvariant, NEW p \in Prompts, NEW new \in Attempting,
           prompt' = [prompt EXCEPT ![p] = new],
           made' \in [Prompts \X Models -> Nat],
           \A q \in Prompts, m \in Models : q # p => made'[<<q, m>>] = made[<<q, m>>],
           CallFits(new, made'[<<p, "primary">>], made'[<<p, "fallback">>])
    PROVE  DraftingInvariant'
<1>1. /\ prompt' \in [Prompts -> Attempting]
      /\ \A q \in Prompts : prompt'[q] = IF q = p THEN new ELSE prompt[q]
  BY DEF DraftingInvariant, DraftingShape
<1>2. ASSUME NEW q \in Prompts
      PROVE  CallFits(prompt'[q], made'[<<q, "primary">>], made'[<<q, "fallback">>])
  <2>1. CASE q = p
    BY <1>1, <2>1
  <2>2. CASE q # p
    <3>1. /\ made'[<<q, "primary">>] = made[<<q, "primary">>]
          /\ made'[<<q, "fallback">>] = made[<<q, "fallback">>]
      BY <2>2 DEF Models
    <3>2. prompt'[q] = prompt[q]
      BY <1>1, <2>2
    <3> QED BY <3>1, <3>2 DEF DraftingInvariant, CallsAreCounted
  <2> QED BY <2>1, <2>2
<1> QED BY <1>1, <1>2 DEF DraftingInvariant, DraftingShape, CallsAreCounted

\* A request is counted for the model the call is at.
LEMMA RequestCounts ==
    ASSUME DraftingInvariant, NEW p \in Prompts, Requested(p)
    PROVE  /\ made' \in [Prompts \X Models -> Nat]
           /\ \A q \in Prompts, m \in Models : q # p => made'[<<q, m>>] = made[<<q, m>>]
           /\ made[<<p, "primary">>] \in Nat /\ made[<<p, "fallback">>] \in Nat
           /\ made'[<<p, "primary">>] =
                made[<<p, "primary">>] + (IF prompt[p].model = "primary" THEN 1 ELSE 0)
           /\ made'[<<p, "fallback">>] =
                made[<<p, "fallback">>] + (IF prompt[p].model = "fallback" THEN 1 ELSE 0)
<1> DEFINE model == prompt[p].model
<1>1. model \in {"primary", "fallback"} /\ model \in Models
  BY CallFields DEF DraftingInvariant, DraftingShape, Models
<1>2. made \in [Prompts \X Models -> Nat]
  BY DEF DraftingInvariant, DraftingShape
<1>3. made' = [made EXCEPT ![<<p, model>>] = made[<<p, model>>] + 1]
  BY DEF Requested
<1> HIDE DEF model
<1>4. <<p, model>> \in Prompts \X Models /\ made[<<p, model>>] + 1 \in Nat
  BY <1>1, <1>2
<1>5. \A q \in Prompts, m \in Models :
         made'[<<q, m>>] = IF q = p /\ m = model THEN made[<<p, model>>] + 1 ELSE made[<<q, m>>]
  BY <1>2, <1>3, <1>4
<1>6. made' \in [Prompts \X Models -> Nat]
  BY <1>2, <1>3, <1>4
<1>7. made[<<p, "primary">>] \in Nat /\ made[<<p, "fallback">>] \in Nat
  BY <1>2 DEF Models
<1>8. /\ made'[<<p, "primary">>] =
           made[<<p, "primary">>] + (IF model = "primary" THEN 1 ELSE 0)
      /\ made'[<<p, "fallback">>] =
           made[<<p, "fallback">>] + (IF model = "fallback" THEN 1 ELSE 0)
  <2>1. CASE model = "primary"
    BY <1>5, <1>7, <2>1 DEF Models
  <2>2. CASE model = "fallback"
    BY <1>5, <1>7, <2>2 DEF Models
  <2> QED BY <1>1, <2>1, <2>2
<1> QED BY <1>5, <1>6, <1>7, <1>8 DEF model

\* Once a request is counted, the model's count is the attempt the call is at.
LEMMA AskIsCounted ==
    ASSUME DraftingInvariant, NEW p \in Prompts, prompt[p].at = "ask", Requested(p)
    PROVE  /\ prompt[p].model = "primary" =>
                 /\ made'[<<p, "primary">>] = prompt[p].attempt
                 /\ made'[<<p, "fallback">>] = 0
           /\ prompt[p].model = "fallback" =>
                 /\ made'[<<p, "primary">>] \in 1 .. MaxRetries
                 /\ made'[<<p, "fallback">>] = prompt[p].attempt
<1>1. prompt[p].attempt \in Nat
  BY CallFields DEF DraftingInvariant, DraftingShape
<1>2. CallFits(prompt[p], made[<<p, "primary">>], made[<<p, "fallback">>])
  BY DEF DraftingInvariant, CallsAreCounted
<1>3. /\ made[<<p, "primary">>] \in Nat /\ made[<<p, "fallback">>] \in Nat
      /\ made'[<<p, "primary">>] =
           made[<<p, "primary">>] + (IF prompt[p].model = "primary" THEN 1 ELSE 0)
      /\ made'[<<p, "fallback">>] =
           made[<<p, "fallback">>] + (IF prompt[p].model = "fallback" THEN 1 ELSE 0)
  BY RequestCounts
<1>4. CASE prompt[p].model = "primary"
  BY <1>1, <1>2, <1>3, <1>4 DEF CallFits
<1>5. CASE prompt[p].model = "fallback"
  BY <1>1, <1>2, <1>3, <1>5, RetriesAreNumbers DEF CallFits
<1> QED BY <1>4, <1>5

LEMMA DraftingStep ==
    ASSUME DraftingInvariant, [DraftingNext]_draftingVars
    PROVE  DraftingInvariant'
<1> USE RetriesAreNumbers
<1>0. ASSUME NEW p \in Prompts
      PROVE  /\ prompt[p] \in Attempting
             /\ prompt[p].at \in {"ask", "wait", "parse", "done", "failed"}
             /\ prompt[p].model \in {"primary", "fallback"}
             /\ prompt[p].attempt \in Nat
             /\ 1 <= prompt[p].attempt /\ prompt[p].attempt <= MaxRetries
             /\ CallFits(prompt[p], made[<<p, "primary">>], made[<<p, "fallback">>])
             /\ made \in [Prompts \X Models -> Nat]
  BY CallFields DEF DraftingInvariant, DraftingShape, CallsAreCounted
<1>1. ASSUME NEW p \in Prompts, Answered(p) PROVE DraftingInvariant'
  <2> DEFINE new == [prompt[p] EXCEPT !.at = "parse"]
  <2>1. /\ new \in Attempting /\ new.at = "parse" /\ new.model = prompt[p].model
        /\ new.attempt = prompt[p].attempt
    BY <1>0 DEF Attempting
  <2>2. prompt' = [prompt EXCEPT ![p] = new] /\ prompt[p].at = "ask" /\ Requested(p)
    BY <1>1 DEF Answered
  <2> HIDE DEF new
  <2>3. CallFits(new, made'[<<p, "primary">>], made'[<<p, "fallback">>])
    BY <1>0, <2>1, <2>2, AskIsCounted DEF CallFits
  <2> QED BY <2>1, <2>2, <2>3, RequestCounts, CallMoves
<1>2. ASSUME NEW p \in Prompts, WaitEnds(p) PROVE DraftingInvariant'
  <2> DEFINE new == [prompt[p] EXCEPT !.at = "ask", !.attempt = prompt[p].attempt + 1]
  <2>1. /\ prompt[p].at = "wait" /\ UNCHANGED made
        /\ prompt' = [prompt EXCEPT ![p] = new]
    BY <1>2 DEF WaitEnds
  <2>2. prompt[p].attempt < MaxRetries
    BY <1>0, <2>1 DEF CallFits
  <2>3. prompt[p].attempt + 1 \in 1 .. MaxRetries
    BY <1>0, <2>2, AttemptsInRange
  <2>4. /\ new \in Attempting /\ new.at = "ask" /\ new.model = prompt[p].model
        /\ new.attempt = prompt[p].attempt + 1
    BY <1>0, <2>3 DEF Attempting
  <2> HIDE DEF new
  <2>5. CallFits(new, made[<<p, "primary">>], made[<<p, "fallback">>])
    BY <1>0, <2>1, <2>4 DEF CallFits
  <2> QED BY <1>0, <2>1, <2>4, <2>5, CallMoves
<1>3. ASSUME NEW p \in Prompts, ParseAnswer(p) PROVE DraftingInvariant'
  <2>1. prompt[p].at = "parse" /\ UNCHANGED made
    BY <1>3 DEF ParseAnswer
  <2>2. PICK new \in {[prompt[p] EXCEPT !.at = "done"],
                      [prompt[p] EXCEPT !.at = "failed", !.error = "invalid"]} :
           prompt' = [prompt EXCEPT ![p] = new]
    BY <1>3 DEF ParseAnswer
  <2>3. /\ new \in Attempting /\ new.model = prompt[p].model
        /\ new.attempt = prompt[p].attempt /\ new.at \in {"done", "failed"}
        /\ new.at = "failed" => new.error = "invalid"
    BY <1>0, <2>2 DEF Attempting
  <2>4. CallFits(new, made[<<p, "primary">>], made[<<p, "fallback">>])
    BY <1>0, <2>1, <2>3 DEF CallFits
  <2> QED BY <1>0, <2>1, <2>2, <2>3, <2>4, CallMoves
<1>4. ASSUME NEW p \in Prompts, NEW e \in Errors, RequestFails(p, e) PROVE DraftingInvariant'
  <2> DEFINE new == AfterError(p, e)
  <2>1. prompt[p].at = "ask" /\ Requested(p) /\ prompt' = [prompt EXCEPT ![p] = new]
    BY <1>4 DEF RequestFails
  <2>2. CASE e \in Passing /\ prompt[p].attempt < MaxRetries
    <3>1. new = [prompt[p] EXCEPT !.at = "wait", !.error = e]
      BY <2>2 DEF AfterError
    <3>2. /\ new \in Attempting /\ new.at = "wait" /\ new.model = prompt[p].model
          /\ new.attempt = prompt[p].attempt
      BY <1>0, <3>1 DEF Attempting
    <3> HIDE DEF new
    <3>3. CallFits(new, made'[<<p, "primary">>], made'[<<p, "fallback">>])
      BY <1>0, <2>1, <2>2, <3>2, AskIsCounted DEF CallFits
    <3> QED BY <2>1, <3>2, <3>3, RequestCounts, CallMoves
  <2>3. CASE ~(e \in Passing /\ prompt[p].attempt < MaxRetries) /\ prompt[p].model = "primary"
    <3>1. new = [prompt[p] EXCEPT !.at = "ask", !.model = "fallback", !.attempt = 1, !.error = e]
      BY <2>3 DEF AfterError
    <3>2. /\ new \in Attempting /\ new.at = "ask" /\ new.model = "fallback"
          /\ new.attempt = 1
      BY <1>0, <3>1, AttemptsInRange DEF Attempting, Models
    <3> HIDE DEF new
    <3>3. CallFits(new, made'[<<p, "primary">>], made'[<<p, "fallback">>])
      BY <1>0, <2>1, <2>3, <3>2, AskIsCounted DEF CallFits
    <3> QED BY <2>1, <3>2, <3>3, RequestCounts, CallMoves
  <2>4. CASE ~(e \in Passing /\ prompt[p].attempt < MaxRetries) /\ prompt[p].model = "fallback"
    <3>1. new = [prompt[p] EXCEPT !.at = "failed", !.error = e]
      BY <2>4 DEF AfterError
    <3>2. /\ new \in Attempting /\ new.at = "failed" /\ new.model = "fallback"
          /\ new.attempt = prompt[p].attempt /\ new.error = e
      BY <1>0, <2>4, <3>1 DEF Attempting
    <3>3. e \in Passing => prompt[p].attempt = MaxRetries
      BY <1>0, <2>4, AttemptsInRange
    <3> HIDE DEF new
    <3>4. CallFits(new, made'[<<p, "primary">>], made'[<<p, "fallback">>])
      BY <1>0, <2>1, <2>4, <3>2, <3>3, AskIsCounted DEF CallFits
    <3> QED BY <2>1, <3>2, <3>4, RequestCounts, CallMoves
  <2> QED BY <1>0, <2>2, <2>3, <2>4
<1>5. CASE UNCHANGED <<prompt, made>>
  BY <1>5 DEF DraftingInvariant, DraftingShape, CallsAreCounted
<1> QED BY <1>1, <1>2, <1>3, <1>4, <1>5 DEF DraftingNext, NextWindow, draftingVars

\* A call fails only after the fallback model was asked, no model is asked too
\* often, and the primary never after the fallback, for any number of calls and
\* retries (groq-ai.provider:65-117).
THEOREM FallbackGivesUpLast == DraftingSpec => []GivesUpLast
<1> QED BY DraftingStarts, DraftingStep, AttemptsBound, PTL DEF DraftingSpec

-----------------------------------------------------------------------------
(* Revenue: the two totals *)

\* Calls in flight are of a lead; amounts are numbers.
RevenueShape ==
    /\ client \in [Clients -> [stage : PipelineStages, expected : Nat, confirmed : Nat]]
    /\ booked \in [Clients -> Nat]
    /\ booking \in [Bookers -> [at : {"idle", "sum", "write"},
                                of : Clients \cup {"nobody"}, sum : Nat]]
    /\ \A b \in Bookers :
          IF booking[b].at = "idle" THEN booking[b] = NotBooking
                                    ELSE booking[b].of \in Clients

BookerOf(b, c) == booking[b].at # "idle" /\ booking[b].of = c

\* A sum read is never more than the entries are by the time it is written.
SumsAreBooked ==
    /\ \A b \in Bookers :
          booking[b].at = "write" => booking[b].sum <= booked[booking[b].of]
    /\ \A c \in Clients \ byHand : client[c].confirmed <= booked[c]

\* A lead whose bookings do not overlap, or no longer do, has one in flight at
\* most, whose sum is that of all entries; and with none, its confirmed revenue is
\* that sum.
UnclashedAgree ==
    \A c \in Clients \ clashed :
        /\ \A b1, b2 \in Bookers : BookerOf(b1, c) /\ BookerOf(b2, c) => b1 = b2
        /\ \A b \in Bookers :
              BookerOf(b, c) /\ booking[b].at = "write" => booking[b].sum = booked[c]
        /\ c \notin byHand /\ (\A b \in Bookers : ~BookerOf(b, c))
              => client[c].confirmed = booked[c]

RevenueInvariant == RevenueShape /\ SumsAreBooked /\ UnclashedAgree

LEMMA RevenueStarts == RevenueInit => RevenueInvariant
  BY DEF RevenueInit, RevenueInvariant, RevenueShape, SumsAreBooked, UnclashedAgree,
         BookerOf, NotBooking, PipelineStages

LEMMA AmountsAreNumbers ==
    /\ \A amount \in Amounts : amount \in Nat
    /\ \A n \in Optional : n # {} => Min(n) \in Nat
<1>1. \A amount \in Amounts : amount \in Nat
  BY RevenueBounds
<1>2. ASSUME NEW n \in Optional, n # {} PROVE Min(n) \in Nat
  <2>1. PICK k \in Amounts : n = {k}
    BY <1>2 DEF Optional
  <2>2. k \in n /\ \A y \in n : k <= y
    BY <1>1, <2>1
  <2>3. Min(n) \in n
    BY <2>2, Zenon DEF Min
  <2> QED BY <1>1, <2>1, <2>3
<1> QED BY <1>1, <1>2

\* A new entry grows the ledger of its lead, and overlaps who books it already.
LEMMA AddRevenueStep ==
    ASSUME RevenueInvariant, NEW b \in Bookers, NEW c \in Clients, NEW amount \in Amounts,
           AddRevenue(b, c, amount)
    PROVE  RevenueInvariant'
<1> USE DEF RevenueInvariant
<1>0. amount \in Nat
  BY AmountsAreNumbers
<1>1. /\ booking[b] = NotBooking /\ booking[b].at = "idle"
      /\ booked' = [booked EXCEPT ![c] = @ + amount]
      /\ booking' = [booking EXCEPT ![b] = [at |-> "sum", of |-> c, sum |-> 0]]
      /\ clashed' = IF BookingOf(c) = {} THEN clashed \ {c} ELSE clashed \cup {c}
      /\ client' = client /\ byHand' = byHand
  BY DEF AddRevenue, NotBooking
<1>2. /\ booking'[b] = [at |-> "sum", of |-> c, sum |-> 0]
      /\ \A d \in Bookers : d # b => booking'[d] = booking[d]
      /\ \A d \in Bookers : booking[d].at # "idle" /\ booking[d].of = c => BookingOf(c) # {}
      /\ booked'[c] = booked[c] + amount
      /\ \A k \in Clients : k # c => booked'[k] = booked[k]
  BY <1>1 DEF RevenueShape, BookingOf
<1>3. RevenueShape'
  BY <1>0, <1>1 DEF RevenueShape
<1>4. SumsAreBooked'
  BY <1>0, <1>1, <1>2 DEF RevenueShape, SumsAreBooked
<1>5. UnclashedAgree'
  <2> SUFFICES ASSUME NEW k \in Clients \ clashed'
               PROVE  /\ \A b1, b2 \in Bookers :
                            BookerOf(b1, k)' /\ BookerOf(b2, k)' => b1 = b2
                      /\ \A d \in Bookers :
                            BookerOf(d, k)' /\ booking'[d].at = "write"
                                => booking'[d].sum = booked'[k]
                      /\ k \notin byHand' /\ (\A d \in Bookers : ~BookerOf(d, k)')
                            => client'[k].confirmed = booked'[k]
    BY DEF UnclashedAgree
  <2>2. CASE k = c
    <3>1. BookingOf(c) = {}
      BY <1>1, <2>2
    <3>2. \A d \in Bookers : BookerOf(d, k)' <=> d = b
      BY <1>1, <1>2, <2>2, <3>1 DEF BookerOf
    <3> QED BY <1>2, <3>2
  <2>3. CASE k # c
    <3>0. k \notin clashed
      BY <1>1, <2>3
    <3>1. \A d \in Bookers : BookerOf(d, k)' <=> BookerOf(d, k)
      BY <1>1, <1>2, <2>3 DEF BookerOf
    <3>2. \A d \in Bookers : BookerOf(d, k) => d # b
      BY <1>1 DEF BookerOf
    <3> QED BY <1>1, <1>2, <2>3, <3>0, <3>1, <3>2 DEF UnclashedAgree
  <2> QED BY <2>2, <2>3
<1> QED BY <1>3, <1>4, <1>5

LEMMA SumEntriesStep ==
    ASSUME RevenueInvariant, NEW b \in Bookers, SumEntries(b)
    PROVE  RevenueInvariant'
<1> USE DEF RevenueInvariant
<1> DEFINE c == booking[b].of
<1>1. /\ booking[b].at = "sum" /\ c \in Clients
      /\ booking' = [booking EXCEPT ![b].at = "write", ![b].sum = booked[c]]
      /\ client' = client /\ booked' = booked /\ clashed' = clashed /\ byHand' = byHand
  BY DEF SumEntries, RevenueShape
<1>2. /\ booking'[b].at = "write" /\ booking'[b].of = c /\ booking'[b].sum = booked[c]
      /\ \A d \in Bookers : d # b => booking'[d] = booking[d]
  BY <1>1 DEF RevenueShape
<1>3. RevenueShape'
  BY <1>1 DEF RevenueShape
<1>4. SumsAreBooked'
  BY <1>1, <1>2 DEF RevenueShape, SumsAreBooked
<1>5. UnclashedAgree'
  <2>1. \A d \in Bookers, k \in Clients : BookerOf(d, k)' <=> BookerOf(d, k)
    BY <1>1, <1>2 DEF BookerOf
  <2>2. ASSUME NEW k \in Clients \ clashed, NEW d \in Bookers,
               BookerOf(d, k)', booking'[d].at = "write"
        PROVE  booking'[d].sum = booked[k]
    <3>1. CASE d = b
      BY <1>2, <2>2, <3>1 DEF BookerOf
    <3>2. CASE d # b
      BY <1>2, <2>1, <2>2, <3>2 DEF UnclashedAgree
    <3> QED BY <3>1, <3>2
  <2> QED BY <1>1, <2>1, <2>2 DEF UnclashedAgree
<1> QED BY <1>3, <1>4, <1>5

LEMMA WriteConfirmedStep ==
    ASSUME RevenueInvariant, NEW b \in Bookers, WriteConfirmed(b)
    PROVE  RevenueInvariant'
<1> USE DEF RevenueInvariant
<1> DEFINE c == booking[b].of
<1>1. /\ booking[b].at = "write" /\ c \in Clients
      /\ client' = [client EXCEPT ![c].confirmed = booking[b].sum, ![c].stage = "WON"]
      /\ byHand' = byHand \ {c}
      /\ booking' = [booking EXCEPT ![b] = NotBooking]
      /\ booked' = booked /\ clashed' = clashed
  BY DEF WriteConfirmed, RevenueShape
<1>2. /\ booking'[b].at = "idle"
      /\ \A d \in Bookers : d # b => booking'[d] = booking[d]
      /\ client'[c].confirmed = booking[b].sum
      /\ \A k \in Clients : k # c => client'[k] = client[k]
  BY <1>1 DEF RevenueShape, NotBooking
<1>3. RevenueShape'
  BY <1>1 DEF RevenueShape, NotBooking, PipelineStages
<1>4. SumsAreBooked'
  BY <1>1, <1>2 DEF RevenueShape, SumsAreBooked
<1>5. UnclashedAgree'
  <2>1. \A d \in Bookers, k \in Clients : BookerOf(d, k)' <=> d # b /\ BookerOf(d, k)
    BY <1>1, <1>2 DEF BookerOf
  <2>2. BookerOf(b, c) /\ \A k \in Clients : BookerOf(b, k) => k = c
    BY <1>1 DEF BookerOf
  <2> SUFFICES ASSUME NEW k \in Clients \ clashed
               PROVE  /\ \A b1, b2 \in Bookers :
                            BookerOf(b1, k)' /\ BookerOf(b2, k)' => b1 = b2
                      /\ \A d \in Bookers :
                            BookerOf(d, k)' /\ booking'[d].at = "write"
                                => booking'[d].sum = booked[k]
                      /\ k \notin byHand' /\ (\A d \in Bookers : ~BookerOf(d, k)')
                            => client'[k].confirmed = booked[k]
    BY <1>1 DEF UnclashedAgree
  <2>3. CASE k = c
    <3>1. \A d \in Bookers : ~BookerOf(d, k)'
      BY <2>1, <2>2, <2>3 DEF UnclashedAgree
    <3>2. booking[b].sum = booked[k]
      BY <1>1, <2>2, <2>3 DEF UnclashedAgree
    <3> QED BY <1>2, <2>3, <3>1, <3>2
  <2>4. CASE k # c
    <3>1. ~BookerOf(b, k)
      BY <2>2, <2>4
    <3>2. \A d \in Bookers : BookerOf(d, k)' <=> BookerOf(d, k)
      BY <2>1, <3>1
    <3>3. \A d \in Bookers : BookerOf(d, k) => booking'[d] = booking[d]
      BY <1>2, <3>1
    <3>4. /\ \A b1, b2 \in Bookers : BookerOf(b1, k) /\ BookerOf(b2, k) => b1 = b2
          /\ \A d \in Bookers :
                BookerOf(d, k) /\ booking[d].at = "write" => booking[d].sum = booked[k]
          /\ k \notin byHand /\ (\A d \in Bookers : ~BookerOf(d, k))
                => client[k].confirmed = booked[k]
      BY DEF UnclashedAgree
    <3>5. client'[k] = client[k] /\ (k \in byHand' <=> k \in byHand)
      BY <1>1, <1>2, <2>4
    <3> QED BY <3>2, <3>3, <3>4, <3>5
  <2> QED BY <2>3, <2>4
<1> QED BY <1>3, <1>4, <1>5

LEMMA UpdateLeadStageStep ==
    ASSUME RevenueInvariant, NEW c \in Clients, NEW s \in StageInput,
           NEW e \in Optional, NEW n \in Optional, UpdateLeadStage(c, s, e, n)
    PROVE  RevenueInvariant'
<1> USE DEF RevenueInvariant
<1> DEFINE expected == IF e = {} THEN client[c].expected ELSE Min(e)
           confirmed == IF n = {} THEN client[c].confirmed ELSE Min(n)
<1>1. expected \in Nat /\ confirmed \in Nat
  BY AmountsAreNumbers DEF RevenueShape
<1>2. /\ client' = [client EXCEPT ![c].stage = s, ![c].expected = expected,
                                  ![c].confirmed = confirmed]
      /\ byHand' = IF n = {} THEN byHand ELSE byHand \cup {c}
      /\ booked' = booked /\ booking' = booking /\ clashed' = clashed
  BY DEF UpdateLeadStage, RevenueShape
<1>3. n = {} => confirmed = client[c].confirmed
  OBVIOUS
<1> HIDE DEF expected, confirmed
<1>4. /\ client'[c].confirmed = confirmed
      /\ \A k \in Clients : k # c => client'[k] = client[k]
  BY <1>2 DEF RevenueShape
<1>5. RevenueShape'
  <2>1. client' \in [Clients -> [stage : PipelineStages, expected : Nat, confirmed : Nat]]
    <3>1. s \in PipelineStages
      BY DEF StageInput, PipelineStages
    <3> DEFINE new == [client[c] EXCEPT !.stage = s, !.expected = expected,
                                        !.confirmed = confirmed]
    <3>2. client[c] \in [stage : PipelineStages, expected : Nat, confirmed : Nat]
      BY DEF RevenueShape
    <3>3. new \in [stage : PipelineStages, expected : Nat, confirmed : Nat]
      BY <1>1, <3>1, <3>2
    <3>4. client' = [client EXCEPT ![c] = new]
      BY <1>2 DEF RevenueShape
    <3> QED BY <3>3, <3>4 DEF RevenueShape
  <2> QED BY <1>2, <2>1 DEF RevenueShape
<1>6. SumsAreBooked'
  BY <1>2, <1>3, <1>4 DEF SumsAreBooked
<1>7. UnclashedAgree'
  <2>1. \A d \in Bookers, k \in Clients : BookerOf(d, k)' <=> BookerOf(d, k)
    BY <1>2 DEF BookerOf
  <2> QED BY <1>2, <1>3, <1>4, <2>1 DEF UnclashedAgree
<1> QED BY <1>5, <1>6, <1>7

LEMMA RevenueStep == RevenueInvariant /\ [RevenueNext]_revenueVars => RevenueInvariant'
<1> SUFFICES ASSUME RevenueInvariant, [RevenueNext]_revenueVars PROVE RevenueInvariant'
  OBVIOUS
<1>1. CASE UNCHANGED revenueVars
  BY <1>1 DEF revenueVars, RevenueInvariant, RevenueShape, SumsAreBooked, UnclashedAgree,
              BookerOf
<1>2. CASE \E b \in Bookers : SumEntries(b)
  BY <1>2, SumEntriesStep
<1>3. CASE \E b \in Bookers : WriteConfirmed(b)
  BY <1>3, WriteConfirmedStep
<1>4. CASE \E b \in Bookers, c \in Clients, amount \in Amounts : AddRevenue(b, c, amount)
  BY <1>4, AddRevenueStep
<1>5. CASE \E c \in Clients, s \in StageInput, e \in Optional, n \in Optional :
              UpdateLeadStage(c, s, e, n)
  BY <1>5, UpdateLeadStageStep
<1> QED BY <1>1, <1>2, <1>3, <1>4, <1>5 DEF RevenueNext

\* With no booking in flight the two columns agree lead by lead, so the two
\* reports add up the same function over the same leads.
LEMMA SettledReportsAgree == RevenueInvariant => RevenueReportsAgree
<1> SUFFICES ASSUME RevenueInvariant PROVE RevenueReportsAgree
  OBVIOUS
<1>1. \A c \in Clients \ (clashed \cup byHand) :
         BookingOf(c) = {} => client[c].confirmed = booked[c]
  BY DEF RevenueInvariant, UnclashedAgree, BookerOf, BookingOf
<1>2. ASSUME clashed \cup byHand = {}, \A b \in Bookers : booking[b] = NotBooking
      PROVE  PipelineTotal = LedgerTotal
  <2>1. \A c \in Clients : client[c].confirmed = booked[c]
    BY <1>2 DEF RevenueInvariant, UnclashedAgree, BookerOf, NotBooking
  <2>2. [c \in Clients |-> client[c].confirmed] = booked
    BY <2>1 DEF RevenueInvariant, RevenueShape
  <2>3. {c \in Clients : client[c].stage \in PipelineStages} = Clients
    BY DEF RevenueInvariant, RevenueShape
  <2> QED BY <2>2, <2>3 DEF PipelineTotal, LedgerTotal
<1> QED BY <1>1, <1>2 DEF RevenueInvariant, SumsAreBooked, RevenueReportsAgree

\* For any number of leads and requests, a lead's confirmed revenue is at most the
\* sum of its entries unless a person typed it, and is that sum again once a
\* payment was made alone; the pipeline and the analytics page then report the
\* same revenue (crm.service:119-163, analytics.service:24).
THEOREM ReportsAgree == RevenueSpec => []RevenueReportsAgree
<1> QED BY RevenueStarts, RevenueStep, SettledReportsAgree, PTL DEF RevenueSpec

-----------------------------------------------------------------------------
(* Every row and request stays within the values the code names *)

\* A password is set to one more than was compared, which was not the last.
PasswordsFit ==
    /\ \A u \in People : account[u].password <= MaxPasswords
    /\ \A c \in Calls :
          /\ call[c].known <= MaxPasswords
          /\ call[c].at = "write" /\ call[c].op = "password" => call[c].known < MaxPasswords

LEMMA PasswordsStart == AccountsInit => PasswordsFit
  BY AccountsBounds DEF AccountsInit, PasswordsFit, Quit

\* Requests but those that change a password compare none and set none.
LEMMA PasswordsKept ==
    ASSUME PasswordsFit,
           \A u \in People : account'[u].password = account[u].password,
           \A c \in Calls :
              \/ call'[c] = call[c]
              \/ /\ call'[c].known \in {0, call[c].known}
                 /\ call'[c].at # "write" \/ call'[c].op # "password"
    PROVE  PasswordsFit'
  BY AccountsBounds DEF PasswordsFit

LEMMA PasswordsStep ==
    ASSUME GuardShape, PasswordsFit, [AccountsNext]_accountsVars
    PROVE  PasswordsFit'
<1>1. /\ account \in [People -> [active : BOOLEAN, password : Nat]]
      /\ call \in [Calls -> Calling] /\ MaxPasswords \in Nat
  BY AccountsBounds DEF GuardShape
<1>2. CASE UNCHANGED <<account, call>>
  BY <1>2, PasswordsKept
<1>3. ASSUME NEW c \in Calls, End(c)
      PROVE  \A d \in Calls : call'[d] = IF d = c THEN Quit ELSE call[d]
  BY <1>1, <1>3 DEF End
<1>4. ASSUME NEW c \in Calls, NEW new, Begin(c, new)
      PROVE  \A d \in Calls : call'[d] = IF d = c THEN new ELSE call[d]
  BY <1>1, <1>4 DEF Begin
<1>5. Quit.known = 0 /\ Quit.at = "idle"
  BY DEF Quit
<1>6. ASSUME NEW c \in Calls, AuthStep(c)
      PROVE  PasswordsFit'
  <2>1. CASE \E u \in People : Login(c, u)
    <3>1. PICK u \in People : Login(c, u)
      BY <2>1
    <3> DEFINE new == [Quit EXCEPT !.at = "open", !.op = "login", !.who = u]
    <3>2. new.known = 0 /\ new.at = "open"
      BY DEF Quit
    <3>3. Begin(c, new) /\ UNCHANGED account
      BY <3>1 DEF Login
    <3> HIDE DEF new
    <3> QED
      BY <1>4, <3>2, <3>3, PasswordsKept
  <2>2. CASE \E s \in Sessions : OpenSession(c, s)
    BY <1>3, <1>5, <2>2, PasswordsKept DEF OpenSession
  <2>3. CASE \E s \in Sessions, op \in {"read", "logout", "password"} : Arrive(c, s, op)
    <3>1. PICK s \in Sessions, op \in {"read", "logout", "password"} : Arrive(c, s, op)
      BY <2>3
    <3> DEFINE new == [Quit EXCEPT !.at = "guard", !.op = op, !.session = s,
                          !.live = /\ ~drawn[s].retired
                                   /\ account[drawn[s].who].active]
    <3>2. new.known = 0 /\ new.at = "guard"
      BY DEF Quit
    <3>3. Begin(c, new) /\ UNCHANGED account
      BY <3>1 DEF Arrive
    <3> HIDE DEF new
    <3> QED
      BY <1>4, <3>2, <3>3, PasswordsKept
  <2>4. CASE ReadSession(c)
    <3>1. UNCHANGED account
      BY <2>4 DEF ReadSession
    <3>2. CASE End(c)
      BY <1>3, <1>5, <3>1, <3>2, PasswordsKept
    <3>3. CASE call' = [call EXCEPT ![c].at = "user", ![c].who = session[call[c].session]]
      <4>1. \A d \in Calls : d # c => call'[d] = call[d]
        BY <1>1, <3>3
      <4>2. call'[c].known = call[c].known /\ call'[c].at = "user"
        BY <1>1, <3>3 DEF Calling
      <4> QED
        BY <3>1, <4>1, <4>2, PasswordsKept
    <3> QED
      BY <2>4, <3>2, <3>3 DEF ReadSession
  <2>5. CASE CheckUser(c)
    <3>1. UNCHANGED account
      BY <2>5 DEF CheckUser
    <3>2. CASE End(c)
      BY <1>3, <1>5, <3>1, <3>2, PasswordsKept
    <3>3. CASE Proceed(c, "change")
      <4>1. \A d \in Calls : d # c => call'[d] = call[d]
        BY <1>1, <3>3 DEF Proceed
      <4>2. call'[c].known = call[c].known /\ call'[c].at = "change"
        BY <1>1, <3>3 DEF Proceed, Calling
      <4> QED
        BY <3>1, <4>1, <4>2, PasswordsKept
    <3> QED
      BY <2>5, <3>2, <3>3 DEF CheckUser
  <2>6. CASE Logout(c) \/ ReadOnly(c)
    BY <1>3, <1>5, <2>6, PasswordsKept DEF Logout, ReadOnly
  <2>7. CASE ComparePassword(c)
    <3> DEFINE known == account[call[c].who].password
    <3>1. /\ call' = [call EXCEPT ![c].at = "write", ![c].known = known]
          /\ known < MaxPasswords /\ UNCHANGED account /\ call[c].at = "change"
      BY <2>7 DEF ComparePassword
    <3>2. known \in Nat
      BY <1>1, <3>1 DEF GuardShape
    <3>3. call'[c].known = known /\ \A d \in Calls : d # c => call'[d] = call[d]
      BY <1>1, <3>1 DEF Calling
    <3> HIDE DEF known
    <3> QED
      BY <1>1, <3>1, <3>2, <3>3 DEF PasswordsFit
  <2>8. CASE ChangePassword(c)
    <3>1. /\ account' = [account EXCEPT ![call[c].who].password = call[c].known + 1]
          /\ call[c].known < MaxPasswords /\ call[c].known \in Nat
      BY <1>1, <2>8 DEF ChangePassword, PasswordsFit, Calling
    <3>2. \A u \in People : account'[u].password \in {account[u].password, call[c].known + 1}
      BY <1>1, <3>1
    <3>3. \A d \in Calls : call'[d] = call[d] \/ call'[d] = Quit
      BY <1>3, <2>8 DEF ChangePassword
    <3> QED
      BY <1>1, <1>5, <3>1, <3>2, <3>3 DEF PasswordsFit
  <2> QED
    BY <1>6, <2>1, <2>2, <2>3, <2>4, <2>5, <2>6, <2>7, <2>8 DEF AuthStep
<1>7. ASSUME NEW c \in Calls, ProfileStep(c)
      PROVE  PasswordsFit'
  <2>1. CASE WriteDefault(c)
    BY <1>3, <1>5, <2>1, PasswordsKept DEF WriteDefault
  <2>2. ASSUME NEW op \in {"create", "update"}, NEW p \in Profiles, ClearDefaults(c, op, p)
        PROVE  PasswordsFit'
    <3> DEFINE new == [Quit EXCEPT !.at = "write", !.op = op, !.who = p]
    <3>1. new.known = 0 /\ new.op # "password"
      BY DEF Quit
    <3>2. Begin(c, new) /\ UNCHANGED account
      BY <2>2 DEF ClearDefaults
    <3> HIDE DEF new
    <3> QED
      BY <1>4, <3>1, <3>2, PasswordsKept
  <2> QED
    BY <1>7, <2>1, <2>2 DEF ProfileStep
<1>8. ASSUME NEW u \in People, Deactivate(u)
      PROVE  PasswordsFit'
  BY <1>1, <1>8, PasswordsKept DEF Deactivate
<1>9. ASSUME NEW s \in Sessions, SessionExpires(s)
      PROVE  UNCHANGED <<account, call>>
  BY <1>9 DEF SessionExpires
<1>10. ASSUME NEW p \in Profiles, DeleteProfile(p)
      PROVE  UNCHANGED <<account, call>>
  BY <1>10 DEF DeleteProfile
<1> QED
  BY <1>2, <1>6, <1>7, <1>8, <1>9, <1>10 DEF AccountsNext, accountsVars

AccountsTyped == GuardInvariant /\ ProfileInvariant /\ PasswordsFit

LEMMA AccountsStart == AccountsInit => AccountsTyped
  BY GuardStarts, ProfilesStart, PasswordsStart DEF AccountsTyped

LEMMA AccountsStep == AccountsTyped /\ [AccountsNext]_accountsVars => AccountsTyped'
  BY GuardStep, ProfileInvariantKept, PasswordsStep DEF AccountsTyped, GuardInvariant

LEMMA AccountsHaveTypes == AccountsTyped => AccountsTypeOK
<1> SUFFICES ASSUME AccountsTyped PROVE AccountsTypeOK
  OBVIOUS
<1>1. /\ account \in [People -> [active : BOOLEAN, password : Nat]]
      /\ call \in [Calls -> Calling] /\ MaxPasswords \in Nat
  BY AccountsBounds DEF AccountsTyped, GuardInvariant, GuardShape
<1>2. account \in [People -> [active : BOOLEAN, password : 0 .. MaxPasswords]]
  BY <1>1 DEF AccountsTyped, PasswordsFit
<1>3. \A c \in Calls : call[c].known \in 0 .. MaxPasswords
  BY <1>1 DEF AccountsTyped, PasswordsFit, Calling
<1>4. call \in [Calls -> [at : {"idle", "open", "guard", "user", "change", "write"},
                         op : {"none", "login", "read", "logout", "password", "create",
                               "update"},
                         who : People \cup Profiles \cup {Nobody},
                         session : Sessions \cup {Nobody},
                         known : 0 .. MaxPasswords, live : BOOLEAN]]
  BY <1>1, <1>3 DEF Calling
<1> QED
  BY <1>2, <1>4
     DEF AccountsTyped, GuardInvariant, GuardShape, ProfileInvariant, AccountsTypeOK

\* No figures are dated later than the clock, which stops at its bound.
TimesFit == clock <= MaxClock /\ told <= clock

MonitoringTyped == DashboardInvariant /\ TimesFit

LEMMA MonitoringStart == MonitoringInit => MonitoringTyped
<1>1. MonitoringInit => TimesFit
  BY MonitoringBounds DEF MonitoringInit, TimesFit
<1> QED
  BY <1>1, DashboardStarts DEF MonitoringTyped

LEMMA TimesStep ==
    ASSUME DashboardInvariant, TimesFit, [MonitoringNext]_monitoringVars
    PROVE  TimesFit'
<1>1. /\ clock \in Nat /\ MaxClock \in Nat /\ told \in Nat
      /\ cached \in [at : Nat, until : Nat] /\ cached.at <= clock
      /\ \A r \in Readers : reader[r].read \in Nat /\ reader[r].read <= clock
  BY MonitoringBounds DEF DashboardInvariant, DashboardShape, CacheFits
<1> USE <1>1 DEF TimesFit
<1>2. ASSUME NEW r \in Readers, GetDashboardStats(r) PROVE TimesFit'
  <2>1. clock' = clock /\ told' \in {told, clock - cached.at}
    BY <1>2 DEF GetDashboardStats
  <2> QED BY <2>1
<1>3. ASSUME NEW r \in Readers, StoreDashboardStats(r) PROVE TimesFit'
  BY <1>3 DEF StoreDashboardStats
<1>4. CASE Tick
  BY <1>4 DEF Tick
<1>5. CASE UNCHANGED <<clock, told>>
  BY <1>5
<1> QED
  BY <1>2, <1>3, <1>4, <1>5
     DEF MonitoringNext, DashboardFails, DropDashboardStats, monitoringVars

LEMMA MonitoringStep == MonitoringTyped /\ [MonitoringNext]_monitoringVars => MonitoringTyped'
  BY DashboardStep, TimesStep DEF MonitoringTyped

LEMMA MonitoringHasTypes == MonitoringTyped => MonitoringTypeOK
<1> SUFFICES ASSUME MonitoringTyped PROVE MonitoringTypeOK
  OBVIOUS
<1>1. /\ clock \in Nat /\ MaxClock \in Nat /\ clock <= MaxClock
      /\ told \in Nat /\ told <= clock /\ cached.at \in Nat /\ cached.at <= clock
      /\ reader \in [Readers -> [at : {"idle", "store"}, read : Nat]]
      /\ \A r \in Readers : reader[r].read <= clock
  BY MonitoringBounds
     DEF MonitoringTyped, TimesFit, DashboardInvariant, DashboardShape, CacheFits
<1>2. clock \in Times /\ told \in Times /\ cached.at \in Times
  BY <1>1 DEF Times
<1>3. \A r \in Readers : reader[r].read \in Times
  BY <1>1 DEF Times
<1> QED
  BY <1>1, <1>2, <1>3 DEF MonitoringTypeOK

LEMMA HealthHasTypes == HealthInvariant => HealthTypeOK
<1> SUFFICES ASSUME HealthInvariant PROVE HealthTypeOK
  OBVIOUS
<1>1. \A t \in Nat : t <= now => t \in Ticks
  BY HealthNumbers DEF HealthInvariant, HealthShape, Ticks
<1>2. now \in Ticks /\ worker.since \in Ticks /\ beat.at \in Ticks /\ latest \in Ticks
      /\ missed \in Ticks /\ sending \subseteq Ticks
  BY <1>1 DEF HealthInvariant, HealthShape, DatesFit
<1> QED
  BY <1>2 DEF HealthTypeOK, HealthInvariant, HealthShape

\* Groq takes no more requests than its limit in one window.
WindowFits == window \in 0 .. RateLimit

DraftingTyped == DraftingInvariant /\ WindowFits

LEMMA DraftingStart == DraftingInit => DraftingTyped
<1>1. DraftingInit => WindowFits
  BY DraftingBounds DEF DraftingInit, WindowFits
<1> QED
  BY <1>1, DraftingStarts DEF DraftingTyped

LEMMA WindowStep ==
    ASSUME WindowFits, [DraftingNext]_draftingVars
    PROVE  WindowFits'
<1>1. ASSUME NEW p \in Prompts, Answered(p)
      PROVE  WindowFits'
  BY <1>1, DraftingBounds DEF Answered, WindowFits
<1>2. CASE NextWindow
  BY <1>2, DraftingBounds DEF NextWindow, WindowFits
<1>3. CASE UNCHANGED window
  BY <1>3 DEF WindowFits
<1> QED
  BY <1>1, <1>2, <1>3 DEF DraftingNext, WaitEnds, ParseAnswer, RequestFails, draftingVars

LEMMA DraftingKept == DraftingTyped /\ [DraftingNext]_draftingVars => DraftingTyped'
  BY DraftingStep, WindowStep DEF DraftingTyped

LEMMA DraftingHasTypes == DraftingTyped => DraftingTypeOK
  BY DEF DraftingTyped, DraftingInvariant, DraftingShape, WindowFits, Attempting, DraftingTypeOK

\* Each request adds one amount at most to the entries of a lead, and a sum read
\* is of entries there were.
Most == Max(Amounts)
SumsFit ==
    /\ asked \in Nat /\ asked <= MaxBookings
    /\ \A c \in Clients :
          /\ booked[c] <= asked * Most
          /\ client[c].expected <= asked * Most
          /\ client[c].confirmed <= asked * Most
    /\ \A b \in Bookers : booking[b].sum <= asked * Most

LEMMA MostIsLargest == Most \in Nat /\ \A n \in Amounts : n \in Nat /\ n <= Most
<1>1. PICK most \in Amounts : \A n \in Amounts : n <= most
  BY RevenueBounds
<1>2. most \in Amounts /\ \A n \in Amounts : most >= n
  BY <1>1, RevenueBounds
<1>3. Most \in Amounts /\ \A n \in Amounts : Most >= n
  BY <1>2, Zenon DEF Most, Max
<1> QED
  BY <1>3, RevenueBounds

LEMMA AskedGrows ==
    ASSUME SumsFit
    PROVE  /\ asked * Most \in Nat /\ (asked + 1) * Most \in Nat
           /\ (asked + 1) * Most = asked * Most + Most
<1>1. asked \in Nat /\ Most \in Nat
  BY MostIsLargest DEF SumsFit
<1> QED
  BY <1>1

LEMMA SumsStart == RevenueInit => SumsFit
<1> SUFFICES ASSUME RevenueInit PROVE SumsFit
  OBVIOUS
<1>1. 0 * Most = 0
  BY MostIsLargest
<1> QED
  BY <1>1, RevenueBounds DEF RevenueInit, SumsFit, NotBooking

LEMMA SumsStep ==
    ASSUME RevenueShape, SumsFit, [RevenueNext]_revenueVars
    PROVE  SumsFit'
<1>1. /\ client \in [Clients -> [stage : PipelineStages, expected : Nat, confirmed : Nat]]
      /\ booked \in [Clients -> Nat]
      /\ booking \in [Bookers -> [at : {"idle", "sum", "write"},
                                  of : Clients \cup {"nobody"}, sum : Nat]]
      /\ MaxBookings \in Nat
  BY RevenueBounds DEF RevenueShape
<1> DEFINE before == asked * Most
           next == asked' * Most
<1>2. before \in Nat /\ Most \in Nat
  BY AskedGrows, MostIsLargest
<1>3. AskCrm => asked' \in Nat /\ asked' <= MaxBookings /\ next = before + Most
  BY AskedGrows, RevenueBounds DEF AskCrm, SumsFit
<1>4. UNCHANGED asked => next = before
  OBVIOUS
<1>5. /\ \A c \in Clients : booked[c] <= before /\ client[c].expected <= before
                            /\ client[c].confirmed <= before
      /\ \A b \in Bookers : booking[b].sum <= before
      /\ asked \in Nat /\ asked <= MaxBookings
  BY DEF SumsFit
<1>6. ASSUME asked' \in Nat, asked' <= MaxBookings,
             \A c \in Clients : booked'[c] <= next /\ client'[c].expected <= next
                                /\ client'[c].confirmed <= next,
             \A b \in Bookers : booking'[b].sum <= next
      PROVE  SumsFit'
  BY <1>6 DEF SumsFit, Most
<1> HIDE DEF before, next
<1>7. ASSUME NEW b \in Bookers, NEW c \in Clients, NEW amount \in Amounts,
             AddRevenue(b, c, amount)
      PROVE  SumsFit'
  <2>1. amount \in Nat /\ amount <= Most
    BY MostIsLargest
  <2>2. /\ AskCrm /\ UNCHANGED client
        /\ booked' = [booked EXCEPT ![c] = @ + amount]
        /\ booking' = [booking EXCEPT ![b] = [at |-> "sum", of |-> c, sum |-> 0]]
    BY <1>7 DEF AddRevenue
  <2>3. \A d \in Clients : booked'[d] <= next
    BY <1>1, <1>2, <1>3, <1>5, <2>1, <2>2
  <2>4. \A d \in Bookers : booking'[d].sum <= next
    BY <1>1, <1>2, <1>3, <1>5, <2>2
  <2>5. \A d \in Clients : client'[d].expected <= next /\ client'[d].confirmed <= next
    BY <1>1, <1>2, <1>3, <1>5, <2>2
  <2> QED
    BY <1>3, <1>6, <2>2, <2>3, <2>4, <2>5
<1>8. ASSUME NEW b \in Bookers, SumEntries(b)
      PROVE  SumsFit'
  <2>1. booking[b].of \in Clients
    BY <1>8 DEF SumEntries, RevenueShape
  <2>2. /\ UNCHANGED <<client, booked, asked>>
        /\ booking' = [booking EXCEPT ![b].at = "write", ![b].sum = booked[booking[b].of]]
    BY <1>8 DEF SumEntries
  <2>3. \A d \in Bookers : booking'[d].sum <= before
    BY <1>1, <1>5, <2>1, <2>2
  <2> QED
    BY <1>4, <1>5, <1>6, <2>2, <2>3
<1>9. ASSUME NEW b \in Bookers, WriteConfirmed(b)
      PROVE  SumsFit'
  <2>1. /\ UNCHANGED <<booked, asked>>
        /\ client' = [client EXCEPT ![booking[b].of].confirmed = booking[b].sum,
                                    ![booking[b].of].stage = "WON"]
        /\ booking' = [booking EXCEPT ![b] = NotBooking]
    BY <1>9 DEF WriteConfirmed
  <2>2. \A d \in Clients : client'[d].expected <= before /\ client'[d].confirmed <= before
    BY <1>1, <1>5, <2>1
  <2>3. \A d \in Bookers : booking'[d].sum <= before
    BY <1>1, <1>2, <1>5, <2>1 DEF NotBooking
  <2> QED
    BY <1>4, <1>5, <1>6, <2>1, <2>2, <2>3
<1>10. ASSUME NEW c \in Clients, NEW s \in StageInput, NEW e \in Optional, NEW n \in Optional,
              UpdateLeadStage(c, s, e, n)
       PROVE  SumsFit'
  <2>1. ASSUME NEW x \in Optional, x # {}
        PROVE  Min(x) \in Nat /\ Min(x) <= Most
    <3>1. PICK k \in Amounts : x = {k}
      BY <2>1 DEF Optional
    <3>2. k \in x /\ \A y \in x : k <= y
      BY <3>1, RevenueBounds
    <3>3. Min(x) \in x
      BY <3>2, Zenon DEF Min
    <3> QED
      BY <3>1, <3>3, MostIsLargest
  <2> DEFINE expected == IF e = {} THEN client[c].expected ELSE Min(e)
             confirmed == IF n = {} THEN client[c].confirmed ELSE Min(n)
  <2>2. /\ AskCrm /\ UNCHANGED <<booked, booking>>
        /\ client' = [client EXCEPT ![c].stage = s, ![c].expected = expected,
                                    ![c].confirmed = confirmed]
    BY <1>10 DEF UpdateLeadStage
  <2>3. expected <= before + Most /\ confirmed <= before + Most
    BY <1>1, <1>2, <1>5, <2>1
  <2> HIDE DEF expected, confirmed
  <2>4. \A d \in Clients : client'[d].expected <= next /\ client'[d].confirmed <= next
    BY <1>1, <1>2, <1>3, <1>5, <2>2, <2>3
  <2>5. /\ \A d \in Clients : booked'[d] <= next
        /\ \A d \in Bookers : booking'[d].sum <= next
    BY <1>1, <1>2, <1>3, <1>5, <2>2
  <2> QED
    BY <1>3, <1>6, <2>2, <2>4, <2>5
<1>11. CASE UNCHANGED revenueVars
  BY <1>4, <1>5, <1>6, <1>11 DEF revenueVars
<1> QED
  BY <1>7, <1>8, <1>9, <1>10, <1>11 DEF RevenueNext

RevenueTyped == RevenueInvariant /\ SumsFit

LEMMA RevenueStart == RevenueInit => RevenueTyped
  BY RevenueStarts, SumsStart DEF RevenueTyped

LEMMA RevenueKept == RevenueTyped /\ [RevenueNext]_revenueVars => RevenueTyped'
  BY RevenueStep, SumsStep DEF RevenueTyped, RevenueInvariant

LEMMA RevenueHasTypes == RevenueTyped => RevenueTypeOK
<1> SUFFICES ASSUME RevenueTyped PROVE RevenueTypeOK
  OBVIOUS
<1>1. /\ client \in [Clients -> [stage : PipelineStages, expected : Nat, confirmed : Nat]]
      /\ booked \in [Clients -> Nat]
      /\ booking \in [Bookers -> [at : {"idle", "sum", "write"},
                                  of : Clients \cup {"nobody"}, sum : Nat]]
  BY DEF RevenueTyped, RevenueInvariant, RevenueShape
<1>2. asked * Most <= MaxBookings * Most /\ asked * Most \in Nat
  <2>1. asked \in Nat /\ MaxBookings \in Nat /\ asked <= MaxBookings /\ Most \in Nat
    BY RevenueBounds, MostIsLargest DEF RevenueTyped, SumsFit
  <2> QED
    BY <2>1
<1>3. MaxTotal \in Nat /\ asked * Most <= MaxTotal
  BY <1>2, RevenueBounds, MostIsLargest DEF MaxTotal, Most
<1>4. /\ \A c \in Clients : /\ booked[c] \in 0 .. MaxTotal
                            /\ client[c].expected \in 0 .. MaxTotal
                            /\ client[c].confirmed \in 0 .. MaxTotal
      /\ \A b \in Bookers : booking[b].sum \in 0 .. MaxTotal
  BY <1>1, <1>2, <1>3 DEF RevenueTyped, SumsFit
<1> QED
  BY <1>1, <1>4 DEF RevenueTypeOK

(***************************************************************************)
(* Users, sessions, requests, profiles, heartbeats, cached figures, calls  *)
(* of the AI provider and revenue stay within the values the code names,   *)
(* for any number of each and any bounds: a password is never numbered     *)
(* past the last, no clock runs backwards, Groq takes no more than its     *)
(* limit, and no total exceeds what was entered.                           *)
(***************************************************************************)
THEOREM AccountsAreTyped == AccountsSpec => []AccountsTypeOK
<1> QED BY AccountsStart, AccountsStep, AccountsHaveTypes, PTL DEF AccountsSpec

\* No figures are dated after the clock (dashboard.service:23-99).
THEOREM MonitoringIsTyped == MonitoringSpec => []MonitoringTypeOK
<1> QED BY MonitoringStart, MonitoringStep, MonitoringHasTypes, PTL DEF MonitoringSpec

\* No worker and no heartbeat, set or under way, is dated after the clock
\* (health.service:58-65, worker main:117-125).
THEOREM HealthIsTyped == HealthSpec => []HealthTypeOK
<1> QED BY HealthStarts, HealthStep, HealthHasTypes, PTL DEF HealthSpec

\* No call goes past its last attempt and no window takes more requests than the
\* limit (groq-ai.provider:37-150).
THEOREM DraftingIsTyped == DraftingSpec => []DraftingTypeOK
<1> QED BY DraftingStart, DraftingKept, DraftingHasTypes, PTL DEF DraftingSpec

\* No figure of a lead exceeds what that many requests can enter (crm.service:103-152).
THEOREM RevenueIsTyped == RevenueSpec => []RevenueTypeOK
<1> QED BY RevenueStart, RevenueKept, RevenueHasTypes, PTL DEF RevenueSpec

-----------------------------------------------------------------------------
(* The services side by side *)

LEMMA ServicesParts ==
    ASSUME [ServicesNext]_<<running, repliesVars, revenueVars, importsVars, accountsVars,
                            monitoringVars, healthVars, draftingVars>>
    PROVE  /\ [RepliesNext]_repliesVars /\ [RevenueNext]_revenueVars
           /\ [ImportsNext]_importsVars /\ [AccountsNext]_accountsVars
           /\ [MonitoringNext]_monitoringVars /\ [HealthNext]_healthVars
           /\ [DraftingNext]_draftingVars
  BY DEF ServicesNext, repliesFixed, revenueFixed, importsFixed, accountsFixed,
         monitoringFixed, healthFixed, draftingFixed

(***************************************************************************)
(* What the run of the services does is what each of them does alone, so   *)
(* every theorem about one of them is one about that run.                  *)
(***************************************************************************)
THEOREM ServicesAreTheirParts ==
    ServicesSpec => /\ RepliesSpec /\ RevenueSpec /\ ImportsSpec
                    /\ AccountsSpec /\ MonitoringSpec /\ HealthSpec /\ DraftingSpec
<1>1. ServicesInit => /\ RepliesInit /\ RevenueInit /\ ImportsInit
                      /\ AccountsInit /\ MonitoringInit /\ HealthInit /\ DraftingInit
  BY DEF ServicesInit
<1> QED
  BY <1>1, ServicesParts, PTL
     DEF ServicesSpec, RepliesSpec, RevenueSpec, ImportsSpec, AccountsSpec, MonitoringSpec,
         HealthSpec, DraftingSpec

\* Every row and request of the services stays within the values the code names,
\* for any number of mails, files, users, leads, requests and bounds.
THEOREM ServicesAreTyped == ServicesSpec => []ServicesTypeOK
<1>1. /\ RepliesTypeOK /\ RevenueTypeOK /\ ImportsTypeOK /\ AccountsTypeOK
      /\ MonitoringTypeOK /\ HealthTypeOK /\ DraftingTypeOK
      => ServicesTypeOK
  BY DEF ServicesTypeOK
<1> QED
  BY <1>1, ServicesAreTheirParts, RepliesAreTyped, RevenueIsTyped, ImportsAreTyped,
     AccountsAreTyped, MonitoringIsTyped, HealthIsTyped, DraftingIsTyped, PTL

=============================================================================
