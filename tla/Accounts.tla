------------------------------ MODULE Accounts -------------------------------
(***************************************************************************)
(* Users, profiles and password reset tokens: routes/users.py, auth.py and *)
(* profiles.py over one TinyDB file with three tables (repositories.py).   *)
(* A call reads what it checks and then makes one or two writes.  A write  *)
(* of the library reads the whole file and writes the whole file back, and *)
(* calls run in threads: one step is one access to the file.               *)
(***************************************************************************)
EXTENDS FiniteSets, Naturals

CONSTANTS
    User,    \* identifiers of users
    Email,   \* normalised addresses
    Token,   \* reset tokens
    Call,    \* the requests that will ever arrive
    Nobody   \* no row

ASSUME AccountsAssumption == IsFiniteSet(Call) /\ Nobody \notin Email

VARIABLES
    db,    \* the file: the users, who has a profile, and the tokens
    late,  \* the tokens past their time
    call   \* call[c]: a request, its place in the code and the copy it holds

accountsVars == <<db, late, call>>

UserRow  == [email : Email, active : BOOLEAN]
TokenRow == [of : User, used : BOOLEAN]
NoUser   == [email |-> Nobody]
NoToken  == [of |-> Nobody]
UsersFile == [users    : [User -> UserRow \cup {NoUser}],
              profiles : SUBSET User,
              tokens   : [Token -> TokenRow \cup {NoToken}]]

ASSUME CopyAssumption == Nobody \notin UsersFile

CallKinds == {"create", "update", "delete", "forgot", "reset", "profile"}
Loaded   == {"first loaded", "second loaded"}
HalfDone == {"second", "second loaded", "half"}
Ended    == {"done", "refused", "half"}
Places   == {"new", "first", "second"} \cup Loaded \cup Ended

AccountsTypeOK ==
    /\ db \in UsersFile
    /\ late \in SUBSET Token
    /\ call \in [Call -> [kind : CallKinds, user : User, email : Email, active : BOOLEAN,
                          token : Token, at : Places, copy : UsersFile \cup {Nobody}]]
    /\ \A c \in Call : call[c].copy # Nobody <=> call[c].at \in Loaded

Exists(u)    == db.users[u] # NoUser
Holder(d, e) == {u \in User : d.users[u].email = e}

AccountsInit ==
    /\ \E there \in SUBSET User, mail \in [User -> Email], sent \in SUBSET Token :
          /\ \A u, v \in there : mail[u] = mail[v] => u = v
          /\ there = {} => sent = {}
          /\ db = [users    |-> [u \in User |-> IF u \in there
                                   THEN [email |-> mail[u], active |-> TRUE] ELSE NoUser],
                   profiles |-> there,
                   tokens   |-> [t \in Token |-> IF t \in sent
                                   THEN [of |-> CHOOSE u \in there : TRUE, used |-> FALSE]
                                   ELSE NoToken]]
    /\ late = {}
    /\ call \in [Call -> [kind : CallKinds, user : User, email : Email, active : BOOLEAN,
                          token : Token, at : {"new"}, copy : {Nobody}]]
    /\ \A c \in Call :  \* what a call does not use is fixed
          /\ call[c].kind # "update" => call[c].active
          /\ call[c].kind \in {"delete", "reset", "profile"} =>
                call[c].email = (CHOOSE e \in Email : TRUE)
          /\ call[c].kind = "reset" => call[c].user = (CHOOSE u \in User : TRUE)
    /\ \A c, o \in Call :  \* fresh identifiers and tokens
          c # o /\ call[c].kind = call[o].kind =>
              /\ call[c].kind = "create" => call[c].user # call[o].user
              /\ call[c].kind = "forgot" => call[c].token # call[o].token

CallGoes(c, from, to) == /\ call[c].at = from
                         /\ call' = [call EXCEPT ![c].at = to, ![c].copy = Nobody]

(***************************************************************************)
(* The checks.                                                             *)
(***************************************************************************)
\* Faulty variant: the new address of a user may be somebody's.
AnyEmail(c)  == call[c].kind = "create" => Holder(db, call[c].email) = {}
(* get_user_record_by_email, email_exists_for_other_user                     *)
EmailFree(c) == Holder(db, call[c].email) \subseteq
                   (IF call[c].kind = "create" THEN {} ELSE {call[c].user})

(* get_current_user: the user of the session exists and is active.           *)
Authenticated(c) == Exists(call[c].user) /\ db.users[call[c].user].active

(* update_my_profile: the caller's profile, if there is one.                 *)
HasOwnProfile(c) == Authenticated(c) /\ call[c].user \in db.profiles

Valid(t) == /\ db.tokens[t] # NoToken
            /\ ~db.tokens[t].used
            /\ t \notin late

(* An administrator may change and delete any user that exists, and others   *)
(* themselves; a forgotten password is that of the first user found with the *)
(* address, so of any where several have it.                                 *)
Passes(c) ==
    CASE call[c].kind = "create"  -> ~Exists(call[c].user) /\ EmailFree(c)
      [] call[c].kind = "update"  -> Exists(call[c].user) /\ EmailFree(c)
      [] call[c].kind = "delete"  -> Exists(call[c].user)
      [] call[c].kind = "profile" -> HasOwnProfile(c)
      [] call[c].kind = "forgot"  -> /\ call[c].user \in Holder(db, call[c].email)
                                     /\ db.tokens[call[c].token] = NoToken
      [] call[c].kind = "reset"   -> Valid(call[c].token)

Begin(c) == /\ CallGoes(c, "new", IF Passes(c) THEN "first" ELSE "refused")
            /\ UNCHANGED <<db, late>>

(***************************************************************************)
(* The writes.                                                             *)
(***************************************************************************)
LoadFile(c) == /\ call[c].at \in {"first", "second"}
               /\ call' = [call EXCEPT ![c].at = IF @ = "first" THEN "first loaded"
                                                 ELSE "second loaded",
                                       ![c].copy = db]
               /\ UNCHANGED <<db, late>>

(* The first write.  An update of a row that is gone changes nothing, and the*)
(* new password of a user tells nothing apart.                               *)
First(c, d) ==
    LET u == call[c].user
        t == call[c].token
    IN  CASE call[c].kind = "create" ->
               [d EXCEPT !.users[u] = [email |-> call[c].email, active |-> TRUE]]
          [] call[c].kind = "update" /\ d.users[u] # NoUser ->
               [d EXCEPT !.users[u] = [email |-> call[c].email, active |-> call[c].active]]
          [] call[c].kind = "delete" -> [d EXCEPT !.users[u] = NoUser]
          [] call[c].kind = "forgot" -> [d EXCEPT !.tokens[t] = [of |-> u, used |-> FALSE]]
          [] OTHER -> d

\* Faulty variant: the reset does not mark its token.
SecondUnmarked(c, d) ==
    CASE call[c].kind = "create" -> [d EXCEPT !.profiles = @ \cup {call[c].user}]
      [] call[c].kind = "delete" -> [d EXCEPT !.profiles = @ \ {call[c].user}]
      [] OTHER -> d
\* Faulty variant: the profile of a deleted user stays.
SecondKeeping(c, d) ==
    CASE call[c].kind = "create" -> [d EXCEPT !.profiles = @ \cup {call[c].user}]
      [] call[c].kind = "reset"  -> [d EXCEPT !.tokens[call[c].token].used = TRUE]
      [] OTHER -> d
(* The second write: the profile of the user, the mark on the token.         *)
Second(c, d) ==
    CASE call[c].kind = "create" -> [d EXCEPT !.profiles = @ \cup {call[c].user}]
      [] call[c].kind = "delete" -> [d EXCEPT !.profiles = @ \ {call[c].user}]
      [] call[c].kind = "reset"  -> [d EXCEPT !.tokens[call[c].token].used = TRUE]

StoreFirst(c) ==
    /\ CallGoes(c, "first loaded",
                IF call[c].kind \in {"create", "delete", "reset"} THEN "second" ELSE "done")
    /\ db' = First(c, call[c].copy)
    /\ UNCHANGED late

StoreSecond(c) == /\ CallGoes(c, "second loaded", "done")
                  /\ db' = Second(c, call[c].copy)
                  /\ UNCHANGED late

(* An access raises, or the process stops: what was written stays.           *)
CallFails(c) == /\ \/ \E at \in {"new", "first", "first loaded"} : CallGoes(c, at, "refused")
                   \/ \E at \in {"second", "second loaded"} : CallGoes(c, at, "half")
                /\ UNCHANGED <<db, late>>

TokenExpires(t) == /\ t \notin late
                   /\ late' = late \cup {t}
                   /\ UNCHANGED <<db, call>>

AccountsNext ==
    \/ \E c \in Call : \/ Begin(c) \/ LoadFile(c) \/ StoreFirst(c) \/ StoreSecond(c)
                       \/ CallFails(c)
    \/ \E t \in Token : TokenExpires(t)

AccountsSpec == AccountsInit /\ [][AccountsNext]_accountsVars

(***************************************************************************)
(* Properties.                                                             *)
(***************************************************************************)

(* No write takes back another one: nothing was stored since the copy.       *)
NothingLost == \A c \in Call : call[c].at \in Loaded => call[c].copy = db

Between(kinds) == {c \in Call : call[c].kind \in kinds /\ call[c].at \notin Ended \cup {"new"}}

(* An address belongs to one user, while no two calls that look for it       *)
(* overlap: the check is not repeated by the write.                          *)
EmailsUnique == \A e \in Email : Cardinality(Holder(db, e)) <= 1
EmailsUniqueAlone ==
    ([](NothingLost /\ Cardinality(Between({"create", "update"})) <= 1)) => []EmailsUnique

(* Users and profiles come and go together: where one is without the other,  *)
(* a call is between its two writes or has failed there - as long as nobody  *)
(* deletes a user who is still being created.                                *)
Paired == \A u \in User : Exists(u) \/ u \in db.profiles =>
             \/ Exists(u) /\ u \in db.profiles
             \/ \E c \in Call : /\ call[c].user = u /\ call[c].at \in HalfDone
                                /\ call[c].kind \in {"create", "delete"}
OnePerUser == \A u \in User :
    Cardinality({c \in Between({"create", "delete"}) : call[c].user = u}) <= 1
PairedUnlessLost == ([](NothingLost /\ OnePerUser)) => []Paired

(* A token resets one password, once: unless two resets overlap or one fails *)
(* between the password and the mark.                                        *)
Resets(t) == {c \in Call : call[c].kind = "reset" /\ call[c].token = t}
OneReset  == \A t \in Token : /\ Cardinality(Resets(t) \cap Between({"reset"})) <= 1
                              /\ \A c \in Resets(t) : call[c].at # "half"
UsedOnceAlone ==
    ([](NothingLost /\ OneReset)) =>
        [](\A t \in Token : Cardinality({c \in Resets(t) : call[c].at = "done"}) <= 1)
=============================================================================
