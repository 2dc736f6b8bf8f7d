------------------------------ MODULE Accounts ------------------------------
(***************************************************************************)
(* Sign-in and settings: sessions kept in Redis, the guard every request   *)
(* passes in two awaits, passwords, and the sender profiles of which one   *)
(* is the default.  Users are only made and deactivated by an operator.    *)
(***************************************************************************)
EXTENDS Naturals, FiniteSets

CONSTANTS
    People,        \* users
    Sessions,      \* session ids that can be drawn
    Calls,         \* requests in flight at one time
    Profiles,      \* sender profile ids
    Nobody,        \* no user, no session
    MaxPasswords,  \* bound: changes of one password
    MaxCalls       \* bound: requests in one behaviour

ASSUME AccountsBounds == {MaxPasswords, MaxCalls} \subseteq Nat
ASSUME NobodyIsNoOne == Nobody \notin People \cup Sessions

VARIABLES
    account,   \* user -> [active, password]; passwords are numbered as set
    session,   \* session id -> its user in Redis, or Nobody
    call,      \* request -> what it is and how far it got
    profile,   \* profile -> "absent", "plain" or "default"
    (* History *)
    drawn,     \* session id -> whose it was, and whether it has ended
    admitted,  \* requests the guard let through, as they arrived
    crossed,   \* requests that make a default overlapped since one began alone
    calls

accountsVars == <<account, session, call, profile, drawn, admitted, crossed, calls>>

-----------------------------------------------------------------------------
(* Values *)

Quit == [at |-> "idle", op |-> "none", who |-> Nobody, session |-> Nobody, known |-> 0,
         live |-> FALSE]
NotDrawn == [who |-> Nobody, retired |-> FALSE]

AccountsTypeOK ==
    /\ account \in [People -> [active : BOOLEAN, password : 0 .. MaxPasswords]]
    /\ session \in [Sessions -> People \cup {Nobody}]
    /\ profile \in [Profiles -> {"absent", "plain", "default"}]
    /\ call \in [Calls -> [at : {"idle", "open", "guard", "user", "change", "write"},
                           op : {"none", "login", "read", "logout", "password", "create", "update"},
                           who : People \cup Profiles \cup {Nobody},
                           session : Sessions \cup {Nobody},
                           known : 0 .. MaxPasswords, live : BOOLEAN]]

AccountsInit ==
    /\ account = [u \in People |-> [active |-> TRUE, password |-> 0]]
    /\ session = [s \in Sessions |-> Nobody]
    /\ call = [c \in Calls |-> Quit]
    /\ profile = [p \in Profiles |-> "absent"]
    /\ drawn = [s \in Sessions |-> NotDrawn]
    /\ admitted = {}
    /\ crossed = FALSE
    /\ calls = 0

Begin(c, new) ==
    /\ call[c] = Quit
    /\ calls < MaxCalls /\ calls' = calls + 1
    /\ call' = [call EXCEPT ![c] = new]
Proceed(c, at) == call' = [call EXCEPT ![c].at = at]
End(c) == call' = [call EXCEPT ![c] = Quit]

-----------------------------------------------------------------------------
(* auth.service, auth.guard *)

\* The user is active and the password is the one of now.
Login(c, u) ==
    /\ account[u].active
    /\ Begin(c, [Quit EXCEPT !.at = "open", !.op = "login", !.who = u])
    /\ UNCHANGED <<account, session, profile, drawn, admitted, crossed>>

\* A random id, under which the user is kept whatever happened meanwhile.
OpenSession(c, s) ==
    /\ call[c].at = "open"
    /\ drawn[s] = NotDrawn
    /\ session' = [session EXCEPT ![s] = call[c].who]
    /\ drawn' = [drawn EXCEPT ![s] = [who |-> call[c].who, retired |-> FALSE]]
    /\ End(c)
    /\ UNCHANGED <<account, profile, admitted, crossed, calls>>

\* live: when it arrived, its session was open and its user active.
Arrive(c, s, op) ==
    /\ drawn[s] # NotDrawn
    /\ Begin(c, [Quit EXCEPT !.at = "guard", !.op = op, !.session = s,
                    !.live = /\ ~drawn[s].retired
                             /\ account[drawn[s].who].active])
    /\ UNCHANGED <<account, session, profile, drawn, admitted, crossed>>

ReadSession(c) ==
    /\ call[c].at = "guard"
    /\ LET u == session[call[c].session]
       IN  IF u = Nobody THEN End(c)
           ELSE call' = [call EXCEPT ![c].at = "user", ![c].who = u]
    /\ UNCHANGED <<account, session, profile, drawn, admitted, crossed, calls>>

\* Mutant: the session is trusted.
CheckUserNot(c) ==
    /\ call[c].at = "user"
    /\ admitted' = admitted \cup {call[c]}
    /\ Proceed(c, "change")
    /\ UNCHANGED <<account, session, profile, drawn, crossed, calls>>

\* The user is looked up on every request.
CheckUser(c) ==
    /\ call[c].at = "user"
    /\ IF account[call[c].who].active
       THEN admitted' = admitted \cup {call[c]} /\ Proceed(c, "change")
       ELSE End(c) /\ UNCHANGED admitted
    /\ UNCHANGED <<account, session, profile, drawn, crossed, calls>>

\* The key is deleted: an id is never drawn again.
Logout(c) ==
    /\ call[c].at = "change" /\ call[c].op = "logout"
    /\ session' = [session EXCEPT ![call[c].session] = Nobody]
    /\ drawn' = [drawn EXCEPT ![call[c].session].retired = TRUE]
    /\ End(c)
    /\ UNCHANGED <<account, profile, admitted, crossed, calls>>

\* The current password is compared, then the new hash is written; the sessions
\* of the user stay open.
ComparePassword(c) ==
    /\ call[c].at = "change" /\ call[c].op = "password"
    /\ account[call[c].who].password < MaxPasswords
    /\ call' = [call EXCEPT ![c].at = "write", ![c].known = account[call[c].who].password]
    /\ UNCHANGED <<account, session, profile, drawn, admitted, crossed, calls>>

ChangePassword(c) ==
    /\ call[c].at = "write" /\ call[c].op = "password"
    /\ account' = [account EXCEPT ![call[c].who].password = call[c].known + 1]
    /\ End(c)
    /\ UNCHANGED <<session, profile, drawn, admitted, crossed, calls>>

ReadOnly(c) ==
    /\ call[c].at = "change" /\ call[c].op = "read"
    /\ End(c)
    /\ UNCHANGED <<account, session, profile, drawn, admitted, crossed, calls>>

SessionExpires(s) ==
    /\ session[s] # Nobody
    /\ session' = [session EXCEPT ![s] = Nobody]
    /\ drawn' = [drawn EXCEPT ![s].retired = TRUE]
    /\ UNCHANGED <<account, call, profile, admitted, crossed, calls>>

\* By an operator, in the database.
Deactivate(u) ==
    /\ account[u].active
    /\ account' = [account EXCEPT ![u].active = FALSE]
    /\ UNCHANGED <<session, call, profile, drawn, admitted, crossed, calls>>

-----------------------------------------------------------------------------
(* settings.service *)

MakingDefault == {c \in Calls : call[c].at = "write" /\ call[c].op \in {"create", "update"}}

Cleared(kept) ==
    [p \in Profiles |-> IF profile[p] = "default" /\ p \notin kept THEN "plain" ELSE profile[p]]

\* Mutant: a new default leaves the others as they are.
ClearNothing(c, op, p) ==
    /\ op \in {"create", "update"} /\ (profile[p] = "absent" <=> op = "create")
    /\ Begin(c, [Quit EXCEPT !.at = "write", !.op = op, !.who = p])
    /\ crossed' = (MakingDefault # {})
    /\ UNCHANGED <<account, session, profile, drawn, admitted>>

\* A profile made the default: first the others are cleared.
ClearDefaults(c, op, p) ==
    /\ op \in {"create", "update"} /\ (profile[p] = "absent" <=> op = "create")
    /\ Begin(c, [Quit EXCEPT !.at = "write", !.op = op, !.who = p])
    /\ profile' = Cleared(IF op = "update" THEN {p} ELSE {})
    /\ crossed' = (MakingDefault # {})
    /\ UNCHANGED <<account, session, drawn, admitted>>

\* An update of a profile deleted meanwhile throws.
WriteDefault(c) ==
    /\ c \in MakingDefault
    /\ profile' = IF call[c].op = "update" /\ profile[call[c].who] = "absent" THEN profile
                  ELSE [profile EXCEPT ![call[c].who] = "default"]
    /\ End(c)
    /\ UNCHANGED <<account, session, drawn, admitted, crossed, calls>>

DeleteProfile(p) ==
    /\ profile[p] # "absent"
    /\ \A c \in MakingDefault : call[c].op = "create" => call[c].who # p
    /\ profile' = [profile EXCEPT ![p] = "absent"]
    /\ UNCHANGED <<account, session, call, drawn, admitted, crossed, calls>>

-----------------------------------------------------------------------------
(* Specification *)

AuthStep(c) ==
    \/ \E u \in People : Login(c, u)
    \/ \E s \in Sessions : \/ OpenSession(c, s)
                           \/ \E op \in {"read", "logout", "password"} : Arrive(c, s, op)
    \/ ReadSession(c) \/ CheckUser(c) \/ Logout(c)
    \/ ComparePassword(c) \/ ChangePassword(c) \/ ReadOnly(c)

ProfileStep(c) ==
    \/ \E op \in {"create", "update"}, p \in Profiles : ClearDefaults(c, op, p)
    \/ WriteDefault(c)

AccountsNext ==
    \/ \E c \in Calls : AuthStep(c) \/ ProfileStep(c)
    \/ \E s \in Sessions : SessionExpires(s)
    \/ \E u \in People : Deactivate(u)
    \/ \E p \in Profiles : DeleteProfile(p)

AccountsSpec == AccountsInit /\ [][AccountsNext]_accountsVars

-----------------------------------------------------------------------------
(* Properties *)

\* Whoever the guard admits had an open session and an active account when the
\* request arrived, however logout, expiry and deactivation cross the two awaits
\* of the guard (auth.guard:47-72).
AdmittedWereLive == \A r \in admitted : r.live

\* At most one sender profile is the default.  Requests that make one and overlap
\* may leave several, but the next one made alone clears them all
\* (settings.service:22-31, 45-55).
OneDefaultProfile ==
    ~crossed => Cardinality({p \in Profiles : profile[p] = "default"}) <= 1

=============================================================================
